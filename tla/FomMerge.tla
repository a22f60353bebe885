----------------------------- MODULE FomMerge -----------------------------
(***************************************************************************)
(* From FOM documents to class handles (crates/hla-omt/src: xml.rs,        *)
(* merge.rs, lib.rs): documents are flattened into class definitions,      *)
(* definitions of the same class are merged, handles are given to the      *)
(* classes depth first, and the lines of inheritance are walked by handle. *)
(* Object classes with attributes and interaction classes with parameters  *)
(* are treated alike, by the same code written twice; this module is about *)
(* one of the two.                                                         *)
(*                                                                         *)
(* A step is one turn of a loop or one call of a recursive function.       *)
(***************************************************************************)
EXTENDS Naturals, Sequences, FiniteSets, SequencesExt

CONSTANTS Documents,   \* what a federation can be created with
          None

(***************************************************************************)
(* A document is a sequence of trees: a node has a leaf name, attributes,  *)
(* each with a name and the rest of its fields, and children.  A name      *)
(* "A.B" is the sequence of its parts; a leaf may have more than one.      *)
(***************************************************************************)
VARIABLES
    documents,        \* the documents to merge
    definitions,      \* all their class definitions, in order (history)
    phase,            \* "merge", "assign", "done" or "conflict"
    todo,             \* definitions not merged yet
    merged,           \* merged_objects, in the order of object_order
    stack,            \* classes to visit, the calls still to be made
    object_classes,   \* the merged definition of each handle
    attribute_table,  \* <<class handle, attribute name, attribute handle>>
    next_attribute,
    walk,             \* InheritanceIter.next
    chain             \* what it has yielded

assignVars == <<stack, object_classes, attribute_table, next_attribute>>
walkVars == <<walk, chain>>
vars == <<documents, definitions, phase, todo, merged, assignVars, walkVars>>

-----------------------------------------------------------------------------
\* fqn: the leaf's name after its parent's.
Fqn(parent, leaf) == IF parent = None THEN leaf ELSE parent \o leaf

\* flatten_object_class: a node's definition, then those of its children.
RECURSIVE Flatten(_, _)
Flatten(node, parent) ==
    LET name == Fqn(parent, node.leaf)
    IN  FoldLeft(LAMBDA defs, child : defs \o Flatten(child, name),
                 <<[name |-> name, parent |-> parent, attributes |-> node.attributes]>>,
                 node.children)

\* into_fom_module
FlattenDocument(doc) ==
    FoldLeft(LAMBDA defs, top : defs \o Flatten(top, None), <<>>, doc)

Init ==
    /\ documents \in Documents
    /\ definitions = FoldLeft(LAMBDA defs, doc : defs \o FlattenDocument(doc), <<>>, documents)
    /\ phase = "merge"
    /\ todo = definitions
    /\ merged = <<>>
    /\ stack = <<>> /\ object_classes = <<>> /\ attribute_table = {}
    /\ next_attribute = 1
    /\ walk = None /\ chain = <<>>

-----------------------------------------------------------------------------
(* merge_modules: the definitions                                          *)

Indices(class) == {i \in DOMAIN merged : merged[i].name = class}

\* The first attribute of that name in a list.
Find(attributes, name) == SelectInSeq(attributes, LAMBDA a : a.name = name)

\* Clashes as it would be if every attribute that is there already clashed.
ClashesAlways(attributes, attr) == Find(attributes, attr.name) # 0

\* merge_attribute: an attribute of that name is there, with other fields.
Clashes(attributes, attr) ==
    LET i == Find(attributes, attr.name)
    IN  i # 0 /\ attributes[i] # attr

\* The attributes of a second definition that are new go to the end.
MergeAttributes(attributes, more) ==
    FoldLeft(LAMBDA list, attr : IF Find(list, attr.name) = 0 THEN Append(list, attr) ELSE list,
             attributes, more)

\* Some attribute clashes with one before it.
AnyClash(attributes, more) ==
    \E i \in DOMAIN more : Clashes(MergeAttributes(attributes, SubSeq(more, 1, i - 1)), more[i])

\* merge_object_class
MergeClass ==
    /\ phase = "merge"
    /\ todo # <<>>
    /\ todo' = Tail(todo)
    /\ LET class == Head(todo) IN
         IF Indices(class.name) = {}
           THEN merged' = Append(merged, class) /\ UNCHANGED phase
           ELSE LET i == CHOOSE i \in Indices(class.name) : TRUE IN
                  IF \/ merged[i].parent # class.parent
                     \/ AnyClash(merged[i].attributes, class.attributes)
                    THEN phase' = "conflict" /\ UNCHANGED merged
                    ELSE /\ merged' = [merged EXCEPT ![i].attributes =
                                           MergeAttributes(@, class.attributes)]
                         /\ UNCHANGED phase
    /\ UNCHANGED <<documents, definitions, assignVars, walkVars>>

-----------------------------------------------------------------------------
(* merge_modules: the handles                                              *)

\* children_of, in the order of insertion
ChildrenOf(parent) ==
    LET defs == SelectSeq(merged, LAMBDA d : d.parent = parent)
    IN  [i \in DOMAIN defs |-> defs[i].name]

StartAssigning ==
    /\ phase = "merge"
    /\ todo = <<>>
    /\ phase' = "assign"
    /\ stack' = ChildrenOf(None)
    /\ UNCHANGED <<documents, definitions, todo, merged, object_classes, attribute_table,
                   next_attribute, walkVars>>

\* Visit as it would be breadth first.
VisitLater(class) == stack' = Tail(stack) \o ChildrenOf(class)

\* The children of the class are next.
Visit(class) == stack' = ChildrenOf(class) \o Tail(stack)

\* The handle of the i-th attribute of the class at hand.
AttributeHandle(i) == next_attribute + i - 1

\* assign_object_class_handles; an attribute listed twice keeps the last one.
AssignHandles ==
    /\ phase = "assign"
    /\ stack # <<>>
    /\ LET handle == Len(object_classes) + 1
           class == merged[CHOOSE i \in Indices(Head(stack)) : TRUE]
           list == class.attributes
           last == {i \in DOMAIN list : \A j \in DOMAIN list : j > i => list[j].name # list[i].name}
       IN  /\ object_classes' = Append(object_classes, class)
           /\ attribute_table' = attribute_table \cup
                  {<<handle, list[i].name, AttributeHandle(i)>> : i \in last}
           /\ next_attribute' = next_attribute + Len(list)
           /\ Visit(class.name)
    /\ UNCHANGED <<documents, definitions, phase, todo, merged, walkVars>>

Finish ==
    /\ phase = "assign"
    /\ stack = <<>>
    /\ phase' = "done"
    /\ UNCHANGED <<documents, definitions, todo, merged, assignVars, walkVars>>

-----------------------------------------------------------------------------
(* Walking a line of inheritance                                           *)

Handles == DOMAIN object_classes

\* object_class_handle
HandleOf(name) ==
    LET hs == {h \in Handles : object_classes[h].name = name}
    IN  IF name = None \/ hs = {} THEN None ELSE CHOOSE h \in hs : TRUE

\* inheritance_chain, for an update of an instance of the class
StartWalk(handle) ==
    /\ phase = "done" /\ chain = <<>> /\ walk = None
    /\ walk' = handle
    /\ UNCHANGED <<documents, definitions, phase, todo, merged, assignVars, chain>>

After(handle) == HandleOf(object_classes[handle].parent)

\* InheritanceIter::next
WalkOn ==
    /\ walk # None
    /\ chain' = Append(chain, walk)
    /\ walk' = After(walk)
    /\ UNCHANGED <<documents, definitions, phase, todo, merged, assignVars>>

Next ==
    \/ MergeClass
    \/ StartAssigning
    \/ AssignHandles
    \/ Finish
    \/ \E handle \in Handles : StartWalk(handle)
    \/ WalkOn

Spec == Init /\ [][Next]_vars

-----------------------------------------------------------------------------
(* References, in terms of the definitions as they are in the documents    *)

Classes == {definitions[i].name : i \in DOMAIN definitions}

DefinitionsOf(class) == {i \in DOMAIN definitions : definitions[i].name = class}

\* Two definitions of a class name different parents, or different fields for
\* an attribute; or one definition does.
Disagree(i, j) ==
    \/ definitions[i].parent # definitions[j].parent
    \/ \E a \in Range(definitions[i].attributes), b \in Range(definitions[j].attributes) :
         a.name = b.name /\ a # b

\* The first definition of the class disagrees with itself.
Repeats(class) ==
    LET first == CHOOSE i \in DefinitionsOf(class) : \A j \in DefinitionsOf(class) : i <= j
    IN  Disagree(first, first)

RECURSIVE Ancestors(_)
Ancestors(class) ==
    LET parent == definitions[CHOOSE i \in DefinitionsOf(class) : TRUE].parent
    IN  IF parent = None THEN {} ELSE {parent} \cup Ancestors(parent)

NameOf(handle) == object_classes[handle].name

-----------------------------------------------------------------------------
\* Documents are refused exactly when two definitions of a class disagree,
\* in whichever order the documents come, except that nothing compares the
\* attributes of a class's first definition with each other.
ConflictsFound ==
    LET disputed == {class \in Classes : \E i, j \in DefinitionsOf(class) : Disagree(i, j)}
    IN  /\ phase = "conflict" => disputed # {}
        /\ phase \in {"assign", "done"} => \A class \in disputed : Repeats(class)

\* What documents that are accepted define is all there, each class once, with
\* the attributes of all its definitions, and nothing else is.
MergeIsUnion ==
    phase = "assign" =>
      /\ IsInjective([i \in DOMAIN merged |-> merged[i].name])
      /\ {merged[i].name : i \in DOMAIN merged} = Classes
      /\ \A i \in DOMAIN merged :
           Range(merged[i].attributes) =
             UNION {Range(definitions[j].attributes) : j \in DefinitionsOf(merged[i].name)}

\* Every class gets one handle, and the handles of the classes below a class
\* follow its own without a gap, however the documents spread them.
HandlesNested ==
    phase = "done" =>
      /\ {NameOf(h) : h \in Handles} = Classes
      /\ Cardinality(Handles) = Cardinality(Classes)
      /\ \A h, k \in Handles : NameOf(h) \in Ancestors(NameOf(k)) =>
           h < k /\ \A l \in h + 1 .. k : NameOf(h) \in Ancestors(NameOf(l))

\* An attribute handle stands for one attribute of one class: the handlers
\* that keep owners and subscriptions by attribute handle alone rely on it.
AttributeHandlesUnique ==
    phase = "done" =>
      /\ \A e, f \in attribute_table : e[3] = f[3] \/ (e[1] = f[1] /\ e[2] = f[2]) => e = f
      /\ {<<e[1], e[2]>> : e \in attribute_table} =
           UNION {{<<h, a.name>> : a \in Range(object_classes[h].attributes)} : h \in Handles}

\* The walk from a class goes through its ancestors and no other class, up to
\* a root, and its handles only go down, so that it ends: a subscriber to any
\* ancestor is found, once.
ChainsExact ==
    /\ \A i, j \in DOMAIN chain : i < j => chain[i] > chain[j]
    /\ walk = None /\ chain # <<>> =>
         {NameOf(h) : h \in Range(chain)} = {NameOf(chain[1])} \cup Ancestors(NameOf(chain[1]))

\* The merge does not depend on the order of the documents: it finds the same
\* disagreements, but for the case named, and loses nothing.
MergeRight == ConflictsFound /\ MergeIsUnion

\* Handles name classes and attributes one to one, nested as the classes are,
\* and lead from a class to its ancestors.
HandlesRight == HandlesNested /\ AttributeHandlesUnique /\ ChainsExact
=============================================================================
