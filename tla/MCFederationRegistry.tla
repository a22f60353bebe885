---- MODULE MCFederationRegistry ----
(***************************************************************************)
(* Small instances of FederationRegistry and of FomMerge, the merge that   *)
(* create_federation_inner makes of the documents it is given, for TLC.    *)
(* The two share no state; a behaviour is one of the one or of the other.  *)
(***************************************************************************)
EXTENDS FederationRegistry, TLC

CONSTANTS s1, s2, s3, f1, f2

Trio == {s1, s2, s3}
TwoNames == {f1, f2}

Symmetry == Permutations(Trio) \cup Permutations(TwoNames)

-----------------------------------------------------------------------------
Attr(name, fields) == [name |-> name, fields |-> fields]
Node(leaf, attributes, children) ==
    [leaf |-> leaf, attributes |-> attributes, children |-> children]

\* R { A { }, B { } } with attributes; R { A { C } }, which adds to A; A with a
\* different y; A with two x that differ; R.A as a root; and B twice in one
\* document, besides another root.
Base == << Node(<<"R">>, <<Attr("x", 1)>>,
                << Node(<<"A">>, <<Attr("y", 1)>>, <<>>), Node(<<"B">>, <<>>, <<>>) >>) >>
Added == << Node(<<"R">>, <<>>,
                 << Node(<<"A">>, <<Attr("z", 1), Attr("y", 1)>>,
                         << Node(<<"C">>, <<Attr("w", 1)>>, <<>>) >>) >>) >>
Other == << Node(<<"R">>, <<>>, << Node(<<"A">>, <<Attr("y", 2)>>, <<>>) >>) >>
Twice == << Node(<<"R">>, <<>>, << Node(<<"A">>, <<Attr("x", 1), Attr("x", 2)>>, <<>>) >>) >>
Dotted == << Node(<<"R", "A">>, <<Attr("y", 1)>>, <<>>) >>
Split == << Node(<<"S">>, <<>>, <<>>),
            Node(<<"R">>, <<>>, << Node(<<"B">>, <<>>, << Node(<<"D">>, <<>>, <<>>) >>),
                                   Node(<<"B">>, <<Attr("y", 1)>>, <<>>) >>) >>

Files == {Base, Added, Other, Twice, Dotted, Split}

\* Up to three documents, in every order.
MCDocuments == UNION {[1 .. n -> Files] : n \in 0 .. 3}

VARIABLES documents, definitions, phase, todo, merged, stack, object_classes,
          attribute_table, next_attribute, walk, chain

fomVars == <<documents, definitions, phase, todo, merged, stack, object_classes,
             attribute_table, next_attribute, walk, chain>>

Fom == INSTANCE FomMerge WITH Documents <- MCDocuments

\* The behaviours with documents are those of the merge.
MCInit == /\ Init
          /\ Fom!Init

MCNext == \/ documents = <<>> /\ Next /\ UNCHANGED fomVars
          \/ documents # <<>> /\ Fom!Next /\ UNCHANGED vars

MCSpec == MCInit /\ [][MCNext]_<<vars, fomVars>>

\* MergeRight of FomMerge: documents are refused exactly when two definitions
\* of a class disagree, but for a class's first definition, and each class that
\* is accepted is there once, with all its attributes.
MergeRight == Fom!MergeRight

\* HandlesRight of FomMerge: one handle each, those below a class next to it; a
\* handle is one attribute of one class; a walk goes through all ancestors.
HandlesRight == Fom!HandlesRight
====
