---- MODULE MCDeclaration ----
(***************************************************************************)
(* Small instances of Declaration and of Directed, the declarations that   *)
(* are kept outside the subscription matrix, for TLC.  The two share no    *)
(* state; a behaviour is one of the one or of the other.                   *)
(***************************************************************************)
EXTENDS Declaration, TLC

CONSTANTS a, b,         \* two attributes
          DirectedInteractions, IxSets, MaxDirected  \* Interactions, IxSets, MaxRequests of Directed

MCAttrSets == {{a}, {a, b}}

Symmetry == Permutations(Federates)

-----------------------------------------------------------------------------
VARIABLES part,      \* which of the two this behaviour is about
          joined, connected, registrar, published_directed, subscribed_directed,
          sending, sent, targets, done, ever, always

directedVars == <<joined, connected, registrar, published_directed, subscribed_directed,
                  sending, sent, targets, done, ever, always>>

D == INSTANCE Directed WITH Interactions <- DirectedInteractions, MaxRequests <- MaxDirected,
                            members <- joined, pc <- sending, call <- sent, requests <- done

MCInit == /\ DeclInit /\ D!Init
          /\ part \in {"declaration", "directed"}
          /\ part = "declaration" => registrar = [c \in Classes |-> None]

MCNext == /\ UNCHANGED part
          /\ \/ part = "declaration" /\ Next /\ UNCHANGED directedVars
             \/ part = "directed" /\ D!Next /\ UNCHANGED vars

MCSpec == MCInit /\ [][MCNext]_<<vars, directedVars, part>>

\* DirectedExact of Directed: who is entitled throughout gets it, and who gets
\* it was entitled to it.
DirectedExact == D!DirectedExact
====
