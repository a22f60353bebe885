---- MODULE DeclarationProofs ----
(***************************************************************************)
(* Proofs about Declaration and, at the end, about Directed, for any       *)
(* federates, classes, attributes and interactions and any number of       *)
(* calls.                                                                  *)
(***************************************************************************)
EXTENDS MCDeclaration, FiniteSetTheorems, TLAPS

\* The assumption on the constants, fact by fact.
LEMMA Sets ==
    /\ IsFiniteSet(Attributes)
    /\ \A attrs \in AttrSets : attrs \subseteq Attributes
    /\ None \notin Classes /\ None \notin Interactions /\ None \notin SUBSET Attributes
BY SetsAssumption, Zenon DEF Topics

\* A session that serves a call is a member's and knows its topic; the others
\* have forgotten theirs.
Serving ==
    \A h \in Federates :
       IF pc[h] = "idle" THEN call[h] = NoCall
       ELSE h \in members /\ call[h].topic \in Topics /\ call[h].op # "none"

Shape == TypeOK /\ Serving

\* Shape holds before the first call.
LEMMA ShapeInit == DeclInit => Shape
<1> SUFFICES ASSUME DeclInit
             PROVE  Shape
  OBVIOUS
<1>1. call \in [Federates -> Calls]
  BY Zenon DEF DeclInit, NoCall, Calls
<1>2. class_subscribers \in [Classes -> UNION {[S -> Counts] : S \in SUBSET Federates}]
  <2>1. <<>> \in [{} -> Counts]
    OBVIOUS
  <2> QED BY <2>1, Zenon DEF DeclInit
<1> QED BY <1>1, <1>2, Zenon DEF DeclInit, Shape, TypeOK, Serving, Switches, Topics

\* Publishing and switching keep the shape.
LEMMA PublicationShape ==
    ASSUME Shape, NEW h \in Federates, Publication(h)
    PROVE  Shape'
<1>1. \A set \in {None} \cup SUBSET Attributes, attrs \in AttrSets :
         /\ OrEmpty(set) \cup attrs \in {None} \cup SUBSET Attributes
         /\ Less(set, attrs) \in {None} \cup SUBSET Attributes
  BY Sets, Zenon DEF OrEmpty, Less
<1>2. published' \in [Federates -> [Classes -> {None} \cup SUBSET Attributes]]
  <2>1. ASSUME NEW c \in Classes, NEW set \in {None} \cup SUBSET Attributes,
               published' = [published EXCEPT ![h][c] = set]
        PROVE  published' \in [Federates -> [Classes -> {None} \cup SUBSET Attributes]]
    BY <2>1, Zenon DEF Shape, TypeOK
  <2>2. \A c \in Classes : published[h][c] \in {None} \cup SUBSET Attributes
    BY DEF Shape, TypeOK
  <2>3. CASE published' = published
    BY <2>3, Zenon DEF Shape, TypeOK
  <2>4. ASSUME NEW c \in Classes, NEW attrs \in AttrSets,
               \/ PublishObjectClassAttributes(h, c, attrs)
               \/ UnpublishObjectClassAttributes(h, c, attrs)
        PROVE  published' \in [Federates -> [Classes -> {None} \cup SUBSET Attributes]]
    <3>1. CASE published' = [published EXCEPT ![h][c] = OrEmpty(published[h][c]) \cup attrs]
      BY <1>1, <2>1, <2>2, <3>1, Zenon
    <3>2. CASE published' = [published EXCEPT ![h][c] = Less(published[h][c], attrs)]
      BY <1>1, <2>1, <2>2, <3>2, Zenon
    <3> QED BY <2>4, <3>1, <3>2, Zenon DEF PublishObjectClassAttributes, UnpublishObjectClassAttributes
  <2>5. ASSUME NEW c \in Classes, UnpublishObjectClass(h, c)
        PROVE  published' \in [Federates -> [Classes -> {None} \cup SUBSET Attributes]]
    BY <2>1, <2>5, Zenon DEF UnpublishObjectClass
  <2> QED BY <2>3, <2>4, <2>5, Zenon
         DEF Publication, PublishInteractionClass, UnpublishInteractionClass, SetSwitch
<1>3. published_inter' \in [Federates -> SUBSET Interactions]
  <2>1. ASSUME NEW i \in Interactions,
               PublishInteractionClass(h, i) \/ UnpublishInteractionClass(h, i)
        PROVE  published_inter' \in [Federates -> SUBSET Interactions]
    <3>1. ASSUME NEW set \in SUBSET Interactions,
                 published_inter' = [published_inter EXCEPT ![h] = set]
          PROVE  published_inter' \in [Federates -> SUBSET Interactions]
      BY <3>1, Zenon DEF Shape, TypeOK
    <3>2. /\ published_inter[h] \cup {i} \in SUBSET Interactions
          /\ published_inter[h] \ {i} \in SUBSET Interactions
      BY Zenon DEF Shape, TypeOK
    <3> QED BY <2>1, <3>1, <3>2, Zenon DEF PublishInteractionClass, UnpublishInteractionClass
  <2>2. CASE published_inter' = published_inter
    BY <2>2, Zenon DEF Shape, TypeOK
  <2> QED BY <2>1, <2>2, Zenon
         DEF Publication, PublishObjectClassAttributes, UnpublishObjectClassAttributes,
             UnpublishObjectClass, SetSwitch
<1>4. switches' \in [Federates -> Switches]
  <2>1. ASSUME NEW switch \in SwitchNames, NEW value \in BOOLEAN,
               switches' = [switches EXCEPT ![h][switch] = value]
        PROVE  switches' \in [Federates -> Switches]
    <3>1. [switches[h] EXCEPT ![switch] = value] \in Switches
      BY Zenon DEF Shape, TypeOK, Switches, SwitchNames
    <3> QED BY <2>1, <3>1, Zenon DEF Shape, TypeOK
  <2>2. CASE switches' = switches
    BY <2>2, Zenon DEF Shape, TypeOK
  <2> QED BY <2>1, <2>2, Zenon
         DEF Publication, PublishObjectClassAttributes, UnpublishObjectClassAttributes,
             UnpublishObjectClass, PublishInteractionClass, UnpublishInteractionClass, SetSwitch
<1>5. UNCHANGED <<members, subscribed, subscribed_inter, matrixVars, pc, call, out, historyVars>>
  BY Zenon DEF Publication, PublishObjectClassAttributes, UnpublishObjectClassAttributes,
       UnpublishObjectClass, PublishInteractionClass, UnpublishInteractionClass, SetSwitch
<1> QED BY <1>2, <1>3, <1>4, <1>5, Zenon DEF Shape, TypeOK, Serving, matrixVars, historyVars

\* A call is a call with its overlap noted, and before it is read.
LEMMA CallsNoted ==
    /\ NoCall \in Calls
    /\ \A k \in Calls : [k EXCEPT !.overlapped = TRUE] \in Calls
BY Zenon DEF Calls, NoCall

\* Starting a call keeps the shape.
LEMMA StartShape ==
    ASSUME Shape, NEW h \in Federates, NEW op \in {"subscribe", "unsubscribe"},
           NEW t \in Topics, NEW attrs \in SUBSET Attributes, Start(h, op, t, attrs)
    PROVE  Shape'
<1>1. HasSubscribers(t) \in BOOLEAN /\ (Busy(t) # {}) \in BOOLEAN
  BY Zenon DEF HasSubscribers
<1>2. call' \in [Federates -> Calls]
  BY <1>1, CallsNoted, Zenon DEF Start, Shape, TypeOK, Calls
<1>3. \A g \in Federates \ {h} : call'[g].topic = call[g].topic /\ call'[g].op = call[g].op
  BY DEF Start, Shape, TypeOK, Calls
<1>4. call'[h].topic = t /\ call'[h].op = op
  <2>1. h \notin Busy(t)
    BY Sets DEF Start, Ask, Idle, Shape, Serving, Busy, NoCall, Topics
  <2>2. call'[h] = [op |-> op, topic |-> t, attrs |-> attrs, was |-> HasSubscribers(t),
                    overlapped |-> Busy(t) # {}]
    BY <2>1, Zenon DEF Start
  <2> QED BY <2>2
<1>5. \A g \in Federates \ {h} : pc[g] = "idle" => call'[g] = call[g]
  BY Sets DEF Start, Shape, Serving, Busy, NoCall, Topics
<1>6. Serving'
  BY <1>3, <1>4, <1>5 DEF Start, Shape, TypeOK, Serving, Ask, Idle, recordVars
<1>7. excused' \subseteq Federates \X Topics
  BY Zenon DEF Start, Shape, TypeOK
<1>8. pc' \in [Federates -> {"idle", "write", "check", "emit", "send"}]
  BY Zenon DEF Start, Shape, TypeOK
<1> QED BY <1>2, <1>6, <1>7, <1>8, Zenon DEF Start, Shape, TypeOK, recordVars, matrixVars

-----------------------------------------------------------------------------
(* The matrix and its reverse index                                        *)

AttributeMaps == [Classes \X Attributes -> SUBSET Federates]

\* Row and the counts that go with it, for a matrix A.
RowOf(A, h, c) == {x \in Attributes : h \in A[c, x]}

CountsOf(A, c) ==
    [h \in {g \in Federates : RowOf(A, g, c) # {}} |-> Cardinality(RowOf(A, h, c))]

Counting(A) == [c \in Classes |-> CountsOf(A, c)]

\* A row is finite, and one that is not empty has a count.
LEMMA RowCounts ==
    ASSUME NEW S \in SUBSET Attributes
    PROVE  IsFiniteSet(S) /\ Cardinality(S) \in Nat /\ (S # {} => Cardinality(S) # 0)
<1>1. IsFiniteSet(S)
  BY Sets, FS_Subset, Zenon
<1> QED BY <1>1, FS_CardinalityType, FS_EmptySet, Zenon

\* The counts have their type.
LEMMA CountingTyped ==
    ASSUME NEW A \in AttributeMaps
    PROVE  Counting(A) \in [Classes -> UNION {[S -> Counts] : S \in SUBSET Federates}]
<1> SUFFICES ASSUME NEW c \in Classes
             PROVE  CountsOf(A, c) \in UNION {[S -> Counts] : S \in SUBSET Federates}
  BY Zenon DEF Counting
<1> DEFINE S == {g \in Federates : RowOf(A, g, c) # {}}
<1>1. \A h \in S : Cardinality(RowOf(A, h, c)) \in Counts
  <2> SUFFICES ASSUME NEW h \in S
               PROVE  Cardinality(RowOf(A, h, c)) \in Counts
    OBVIOUS
  <2>1. RowOf(A, h, c) \in SUBSET Attributes
    BY Zenon DEF RowOf
  <2>2. Cardinality(RowOf(A, h, c)) <= Cardinality(Attributes) /\ Cardinality(Attributes) \in Nat
    BY <2>1, Sets, FS_Subset, FS_CardinalityType
  <2>3. Cardinality(RowOf(A, h, c)) \in Nat /\ Cardinality(RowOf(A, h, c)) # 0
    BY <2>1, RowCounts, Zenon
  <2> QED BY <2>2, <2>3 DEF Counts
<1>2. S \in SUBSET Federates
  OBVIOUS
<1>3. CountsOf(A, c) \in [S -> Counts]
  BY <1>1, Zenon DEF CountsOf
<1> QED BY <1>2, <1>3, Zenon

\* Changing the row of one federate changes the counts of that federate for
\* that class only.
LEMMA OneRow ==
    ASSUME NEW A \in AttributeMaps, NEW B \in AttributeMaps, NEW h \in Federates, NEW c \in Classes,
           \A g \in Federates, d \in Classes : g # h \/ d # c => RowOf(B, g, d) = RowOf(A, g, d)
    PROVE  Counting(B) = [Counting(A) EXCEPT ![c] =
              IF RowOf(B, h, c) = {} THEN Without(@, h)
              ELSE With(@, h, Cardinality(RowOf(B, h, c)))]
<1>1. ASSUME NEW d \in Classes, d # c
      PROVE  CountsOf(B, d) = CountsOf(A, d)
  <2>1. {g \in Federates : RowOf(B, g, d) # {}} = {g \in Federates : RowOf(A, g, d) # {}}
    BY <1>1, Zenon
  <2> QED BY <1>1, <2>1, Zenon DEF CountsOf
<1>2. CASE RowOf(B, h, c) = {}
  <2>1. {g \in Federates : RowOf(B, g, c) # {}} = DOMAIN CountsOf(A, c) \ {h}
    BY <1>2, Zenon DEF CountsOf
  <2>2. \A g \in DOMAIN CountsOf(A, c) \ {h} :
           Cardinality(RowOf(B, g, c)) = CountsOf(A, c)[g]
    BY Zenon DEF CountsOf
  <2>3. CountsOf(B, c) = Without(CountsOf(A, c), h)
    BY <2>1, <2>2, Zenon DEF CountsOf, Without, Restrict
  <2> QED BY <1>1, <1>2, <2>3, Zenon DEF Counting
<1>3. CASE RowOf(B, h, c) # {}
  <2>1. {g \in Federates : RowOf(B, g, c) # {}} = DOMAIN CountsOf(A, c) \cup {h}
    BY <1>3, Zenon DEF CountsOf
  <2>2. \A g \in DOMAIN CountsOf(A, c) \ {h} :
           Cardinality(RowOf(B, g, c)) = CountsOf(A, c)[g]
    BY Zenon DEF CountsOf
  <2>3. CountsOf(B, c) = With(CountsOf(A, c), h, Cardinality(RowOf(B, h, c)))
    BY <2>1, <2>2, Zenon DEF CountsOf, With
  <2> QED BY <1>1, <1>3, <2>3, Zenon DEF Counting
<1> QED BY <1>2, <1>3, Zenon

\* subscribe_attribute adds the attributes to the federate's row and keeps the
\* counts exact.
LEMMA SubscribeAllExact ==
    ASSUME NEW A \in AttributeMaps, NEW c \in Classes, NEW attrs \in SUBSET Attributes,
           NEW h \in Federates,
           NEW m, m = SubscribeAll([attr |-> A, count |-> Counting(A)], c, attrs, h)
    PROVE  /\ m.attr \in AttributeMaps
           /\ m.count = Counting(m.attr)
           /\ RowOf(m.attr, h, c) = RowOf(A, h, c) \cup attrs
           /\ \A g \in Federates, d \in Classes : g # h \/ d # c => RowOf(m.attr, g, d) = RowOf(A, g, d)
<1> DEFINE new == {x \in attrs : h \notin A[c, x]}
           B == [ca \in DOMAIN A |-> IF ca[1] = c /\ ca[2] \in new THEN A[ca] \cup {h} ELSE A[ca]]
           old == IF h \in DOMAIN Counting(A)[c] THEN Counting(A)[c][h] ELSE 0
<1>1. /\ m.attr = B
      /\ m.count = IF new = {} THEN Counting(A)
                   ELSE [Counting(A) EXCEPT ![c] = With(@, h, old + Cardinality(new))]
  BY Zenon DEF SubscribeAll
<1>2. B \in AttributeMaps
  BY Zenon DEF AttributeMaps
<1>3. \A d \in Classes, x \in Attributes :
         B[d, x] = IF d = c /\ x \in new THEN A[d, x] \cup {h} ELSE A[d, x]
  BY Zenon DEF AttributeMaps
<1> HIDE DEF B
<1>4. RowOf(B, h, c) = RowOf(A, h, c) \cup attrs
  BY <1>3, Zenon DEF RowOf
<1>5. \A g \in Federates, d \in Classes : g # h \/ d # c => RowOf(B, g, d) = RowOf(A, g, d)
  BY <1>3 DEF RowOf
<1>6. RowOf(A, h, c) \in SUBSET Attributes /\ new \in SUBSET Attributes /\ RowOf(A, h, c) \cap new = {}
      /\ RowOf(A, h, c) \cup attrs = RowOf(A, h, c) \cup new
  BY Zenon DEF RowOf
<1>7. old = Cardinality(RowOf(A, h, c))
  <2>1. CASE RowOf(A, h, c) = {}
    BY <2>1, FS_EmptySet, Zenon DEF Counting, CountsOf
  <2>2. CASE RowOf(A, h, c) # {}
    BY <2>2, Zenon DEF Counting, CountsOf
  <2> QED BY <2>1, <2>2, Zenon
<1> HIDE DEF new, old
<1>8. Cardinality(RowOf(B, h, c)) = old + Cardinality(new)
  <2>1. IsFiniteSet(RowOf(A, h, c)) /\ IsFiniteSet(new)
    BY <1>6, RowCounts, Zenon
  <2>2. Cardinality(RowOf(A, h, c) \cup new) =
           Cardinality(RowOf(A, h, c)) + Cardinality(new) - Cardinality(RowOf(A, h, c) \cap new)
    BY <2>1, FS_Union, Zenon
  <2>3. Cardinality(RowOf(A, h, c) \cap new) = 0
    BY <1>6, FS_EmptySet, Zenon
  <2>4. Cardinality(RowOf(A, h, c)) \in Nat /\ Cardinality(new) \in Nat
    BY <1>6, RowCounts, Zenon
  <2>5. Cardinality(RowOf(A, h, c) \cup new) = old + Cardinality(new)
    BY <1>7, <2>2, <2>3, <2>4
  <2> QED BY <1>4, <1>6, <2>5, Zenon
<1>9. m.count = Counting(B)
  <2>1. CASE new = {}
    <3>1. \A g \in Federates, d \in Classes : RowOf(B, g, d) = RowOf(A, g, d)
      BY <1>4, <1>5, <1>6, <2>1, Zenon
    <3>2. \A d \in Classes : CountsOf(B, d) = CountsOf(A, d)
      <4> SUFFICES ASSUME NEW d \in Classes
                   PROVE  CountsOf(B, d) = CountsOf(A, d)
        OBVIOUS
      <4>1. {g \in Federates : RowOf(B, g, d) # {}} = {g \in Federates : RowOf(A, g, d) # {}}
        BY <3>1, Zenon
      <4> QED BY <3>1, <4>1, Zenon DEF CountsOf
    <3> QED BY <1>1, <2>1, <3>2, Zenon DEF Counting
  <2>2. CASE new # {}
    <3>1. RowOf(B, h, c) # {}
      BY <1>4, <1>6, <2>2, Zenon
    <3>2. Counting(B) = [Counting(A) EXCEPT ![c] =
              IF RowOf(B, h, c) = {} THEN Without(@, h)
              ELSE With(@, h, Cardinality(RowOf(B, h, c)))]
      BY <1>2, <1>5, OneRow
    <3> QED BY <1>1, <1>8, <2>2, <3>1, <3>2, Zenon
  <2> QED BY <2>1, <2>2, Zenon
<1> QED BY <1>1, <1>2, <1>4, <1>5, <1>9, Zenon

\* unsubscribe_attribute takes them out of it.
LEMMA UnsubscribeAllExact ==
    ASSUME NEW A \in AttributeMaps, NEW c \in Classes, NEW attrs \in SUBSET Attributes,
           NEW h \in Federates,
           NEW m, m = UnsubscribeAll([attr |-> A, count |-> Counting(A)], c, attrs, h)
    PROVE  /\ m.attr \in AttributeMaps
           /\ m.count = Counting(m.attr)
           /\ RowOf(m.attr, h, c) = RowOf(A, h, c) \ attrs
           /\ \A g \in Federates, d \in Classes : g # h \/ d # c => RowOf(m.attr, g, d) = RowOf(A, g, d)
<1> DEFINE gone == {x \in attrs : h \in A[c, x]}
           B == [ca \in DOMAIN A |-> IF ca[1] = c /\ ca[2] \in gone THEN A[ca] \ {h} ELSE A[ca]]
           R == RowOf(A, h, c)
<1>1. /\ m.attr = B
      /\ m.count = [Counting(A) EXCEPT ![c] =
                      IF gone = {} \/ h \notin DOMAIN @ THEN @
                      ELSE IF @[h] <= Cardinality(gone) THEN Without(@, h)
                      ELSE With(@, h, @[h] - Cardinality(gone))]
  BY Zenon DEF UnsubscribeAll
<1>2. B \in AttributeMaps
  BY Zenon DEF AttributeMaps
<1>3. \A d \in Classes, x \in Attributes :
         B[d, x] = IF d = c /\ x \in gone THEN A[d, x] \ {h} ELSE A[d, x]
  BY Zenon DEF AttributeMaps
<1> HIDE DEF B
<1>4. RowOf(B, h, c) = R \ attrs
  BY <1>3, Zenon DEF RowOf
<1>5. \A g \in Federates, d \in Classes : g # h \/ d # c => RowOf(B, g, d) = RowOf(A, g, d)
  BY <1>3, Zenon DEF RowOf
<1>6. R \in SUBSET Attributes /\ gone \subseteq R /\ R \ attrs = R \ gone
  BY Zenon DEF RowOf
<1>7. R # {} => h \in DOMAIN Counting(A)[c] /\ Counting(A)[c][h] = Cardinality(R)
  BY Zenon DEF Counting, CountsOf
<1>8. /\ IsFiniteSet(R) /\ IsFiniteSet(gone)
      /\ Cardinality(R) \in Nat /\ Cardinality(gone) \in Nat
  <2>1. gone \in SUBSET Attributes
    BY <1>6, Zenon
  <2> QED BY <1>6, <2>1, RowCounts, Zenon
<1> HIDE DEF gone, R
<1>9. Cardinality(RowOf(B, h, c)) = Cardinality(R) - Cardinality(gone)
  <2>1. R \cap gone = gone /\ RowOf(B, h, c) = R \ gone
    BY <1>4, <1>6, Zenon
  <2>2. Cardinality(R \ gone) = Cardinality(R) - Cardinality(R \cap gone)
    BY <1>8, FS_Difference, Zenon
  <2> QED BY <2>1, <2>2, Zenon
<1>10. RowOf(B, h, c) \in SUBSET Attributes
  BY Zenon DEF RowOf
<1>11. RowOf(B, h, c) = {} <=> Cardinality(R) <= Cardinality(gone)
  <2>1. Cardinality(RowOf(B, h, c)) \in Nat
    BY <1>10, RowCounts, Zenon
  <2>2. RowOf(B, h, c) = {} <=> Cardinality(RowOf(B, h, c)) = 0
    BY <1>10, RowCounts, FS_EmptySet, Zenon
  <2> QED BY <1>8, <1>9, <2>1, <2>2
<1>12. Counting(B) = [Counting(A) EXCEPT ![c] =
              IF RowOf(B, h, c) = {} THEN Without(@, h)
              ELSE With(@, h, Cardinality(RowOf(B, h, c)))]
  BY <1>2, <1>5, OneRow
<1>13. m.count = Counting(B)
  <2>1. CASE gone = {}
    <3>1. \A g \in Federates, d \in Classes : RowOf(B, g, d) = RowOf(A, g, d)
      BY <1>4, <1>5, <1>6, <2>1, Zenon DEF R
    <3>2. \A d \in Classes : CountsOf(B, d) = CountsOf(A, d)
      <4> SUFFICES ASSUME NEW d \in Classes
                   PROVE  CountsOf(B, d) = CountsOf(A, d)
        OBVIOUS
      <4>1. {g \in Federates : RowOf(B, g, d) # {}} = {g \in Federates : RowOf(A, g, d) # {}}
        BY <3>1, Zenon
      <4> QED BY <3>1, <4>1, Zenon DEF CountsOf
    <3> QED BY <1>1, <2>1, <3>2, Zenon DEF Counting
  <2>2. CASE gone # {}
    <3>1. h \in DOMAIN Counting(A)[c] /\ Counting(A)[c][h] = Cardinality(R)
      BY <1>6, <1>7, <2>2, Zenon
    <3> QED BY <1>1, <1>9, <1>11, <1>12, <2>2, <3>1, Zenon
  <2> QED BY <2>1, <2>2, Zenon
<1> QED BY <1>1, <1>2, <1>4, <1>5, <1>13, Zenon DEF R

\* remove_class empties every row of the class.
LEMMA RemoveClassExact ==
    ASSUME NEW A \in AttributeMaps, NEW c \in Classes,
           NEW m, m = RemoveClass([attr |-> A, count |-> Counting(A)], c)
    PROVE  /\ m.attr \in AttributeMaps
           /\ m.count = Counting(m.attr)
           /\ \A g \in Federates : RowOf(m.attr, g, c) = {}
           /\ \A g \in Federates, d \in Classes : d # c => RowOf(m.attr, g, d) = RowOf(A, g, d)
<1> DEFINE B == [ca \in DOMAIN A |-> IF ca[1] = c THEN {} ELSE A[ca]]
<1>1. m.attr = B /\ m.count = [Counting(A) EXCEPT ![c] = <<>>]
  BY Zenon DEF RemoveClass
<1>2. B \in AttributeMaps
  BY Zenon DEF AttributeMaps
<1>3. \A d \in Classes, x \in Attributes : B[d, x] = IF d = c THEN {} ELSE A[d, x]
  BY Zenon DEF AttributeMaps
<1> HIDE DEF B
<1>4. /\ \A g \in Federates : RowOf(B, g, c) = {}
      /\ \A g \in Federates, d \in Classes : d # c => RowOf(B, g, d) = RowOf(A, g, d)
  BY <1>3, Zenon DEF RowOf
<1>5. CountsOf(B, c) = <<>>
  <2>1. {g \in Federates : RowOf(B, g, c) # {}} = {}
    BY <1>4, Zenon
  <2> QED BY <2>1 DEF CountsOf
<1>6. ASSUME NEW d \in Classes, d # c
      PROVE  CountsOf(B, d) = CountsOf(A, d)
  <2>1. {g \in Federates : RowOf(B, g, d) # {}} = {g \in Federates : RowOf(A, g, d) # {}}
    BY <1>4, <1>6, Zenon
  <2> QED BY <1>4, <1>6, <2>1, Zenon DEF CountsOf
<1> QED BY <1>1, <1>2, <1>4, <1>5, <1>6, Zenon DEF Counting

\* The reverse index is exact.
Indexed == class_subscribers = Counting(by_attribute)

\* What a subscription or its opposite does to the matrix: it changes the
\* caller's entry for the topic of the call, and nothing else.
LEMMA WriteMatrix ==
    ASSUME Shape, Indexed, NEW h \in Federates, Write(h)
    PROVE  /\ by_attribute' \in AttributeMaps
           /\ Indexed'
           /\ by_interaction' \in [Interactions -> SUBSET Federates]
           /\ \A g \in Federates, d \in Classes : g # h \/ d # call[h].topic =>
                 RowOf(by_attribute', g, d) = RowOf(by_attribute, g, d)
           /\ call[h].topic \in Classes =>
                 /\ by_interaction' = by_interaction
                 /\ RowOf(by_attribute', h, call[h].topic) =
                       IF call[h].op = "subscribe"
                       THEN RowOf(by_attribute, h, call[h].topic) \cup call[h].attrs
                       ELSE RowOf(by_attribute, h, call[h].topic) \ call[h].attrs
           /\ call[h].topic \notin Classes =>
                 /\ by_attribute' = by_attribute
                 /\ by_interaction' = [by_interaction EXCEPT ![call[h].topic] =
                       IF call[h].op = "subscribe" THEN @ \cup {h} ELSE @ \ {h}]
<1>1. call[h].topic \in Topics /\ call[h].attrs \in SUBSET Attributes /\ by_attribute \in AttributeMaps
  BY Zenon DEF Write, Shape, TypeOK, Serving, Calls, AttributeMaps
<1>2. Matrix = [attr |-> by_attribute, count |-> Counting(by_attribute)]
  BY Zenon DEF Matrix, Indexed
<1>3. CASE call[h].topic \in Classes
  <2> DEFINE c == call[h].topic
  <2>0. c \in Classes /\ c = call[h].topic
    BY <1>3, Zenon
  <2>1. WriteClass(h, c)
    BY <1>3, Zenon DEF Write
  <2> HIDE DEF c
  <2>2. CASE call[h].op = "subscribe"
    <3> DEFINE m == SubscribeAll(Matrix, c, call[h].attrs, h)
    <3>1. by_attribute' = m.attr /\ class_subscribers' = m.count /\ by_interaction' = by_interaction
      BY <2>1, <2>2, Zenon DEF WriteClass
    <3>0. m = SubscribeAll([attr |-> by_attribute, count |-> Counting(by_attribute)], c, call[h].attrs, h)
      BY <1>2, Zenon
    <3> HIDE DEF m
    <3>2. /\ m.attr \in AttributeMaps
          /\ m.count = Counting(m.attr)
          /\ RowOf(m.attr, h, c) = RowOf(by_attribute, h, c) \cup call[h].attrs
          /\ \A g \in Federates, d \in Classes :
                g # h \/ d # c => RowOf(m.attr, g, d) = RowOf(by_attribute, g, d)
      BY <1>1, <2>0, <3>0, SubscribeAllExact
    <3> QED BY <2>0, <2>2, <3>1, <3>2, Zenon DEF Indexed, Shape, TypeOK
  <2>3. CASE call[h].op # "subscribe"
    <3> DEFINE m == UnsubscribeAll(Matrix, c, call[h].attrs, h)
    <3>1. by_attribute' = m.attr /\ class_subscribers' = m.count /\ by_interaction' = by_interaction
      BY <2>1, <2>3, Zenon DEF WriteClass
    <3>0. m = UnsubscribeAll([attr |-> by_attribute, count |-> Counting(by_attribute)], c, call[h].attrs, h)
      BY <1>2, Zenon
    <3> HIDE DEF m
    <3>2. /\ m.attr \in AttributeMaps
          /\ m.count = Counting(m.attr)
          /\ RowOf(m.attr, h, c) = RowOf(by_attribute, h, c) \ call[h].attrs
          /\ \A g \in Federates, d \in Classes :
                g # h \/ d # c => RowOf(m.attr, g, d) = RowOf(by_attribute, g, d)
      BY <1>1, <2>0, <3>0, UnsubscribeAllExact
    <3> QED BY <2>0, <2>3, <3>1, <3>2, Zenon DEF Indexed, Shape, TypeOK
  <2> QED BY <2>2, <2>3, Zenon
<1>4. CASE call[h].topic \notin Classes
  <2>1. WriteInteraction(h, call[h].topic) /\ call[h].topic \in Interactions
    BY <1>1, <1>4, Zenon DEF Write, Topics
  <2>2. by_attribute' = by_attribute /\ class_subscribers' = class_subscribers
    BY <2>1, Zenon DEF WriteInteraction
  <2>3. by_interaction' = [by_interaction EXCEPT ![call[h].topic] =
                       IF call[h].op = "subscribe" THEN @ \cup {h} ELSE @ \ {h}]
    BY <2>1, Zenon DEF WriteInteraction
  <2>4. by_interaction' \in [Interactions -> SUBSET Federates]
    BY <2>1, <2>3 DEF Shape, TypeOK
  <2> QED BY <1>1, <1>4, <2>2, <2>3, <2>4, Zenon DEF Indexed
<1> QED BY <1>3, <1>4, Zenon

\* Changing the matrix keeps the shape.
LEMMA WriteShape ==
    ASSUME Shape, Indexed, NEW h \in Federates, Write(h)
    PROVE  Shape' /\ Indexed'
<1>1. by_attribute' \in AttributeMaps /\ Indexed' /\ by_interaction' \in [Interactions -> SUBSET Federates]
  BY WriteMatrix, Zenon
<1>2. class_subscribers' \in [Classes -> UNION {[S -> Counts] : S \in SUBSET Federates}]
  BY <1>1, CountingTyped, Zenon DEF Indexed
<1>3. call[h].topic \in Topics /\ call[h].attrs \in SUBSET Attributes
  BY Zenon DEF Write, Shape, TypeOK, Serving, Calls
<1>4. subscribed' \in [Federates -> [Classes -> {None} \cup SUBSET Attributes]]
  <2>1. ASSUME NEW c \in Classes, WriteClass(h, c)
        PROVE  subscribed' \in [Federates -> [Classes -> {None} \cup SUBSET Attributes]]
    <3> DEFINE set == IF call[h].op = "subscribe" THEN OrEmpty(subscribed[h][c]) \cup call[h].attrs
                                                  ELSE Less(subscribed[h][c], call[h].attrs)
    <3>1. subscribed[h][c] \in {None} \cup SUBSET Attributes
      BY DEF Shape, TypeOK
    <3>2. set \in {None} \cup SUBSET Attributes
      BY <1>3, <3>1, Zenon DEF OrEmpty, Less
    <3>3. subscribed' = [subscribed EXCEPT ![h][c] = set]
      BY <2>1, Zenon DEF WriteClass
    <3> HIDE DEF set
    <3> QED BY <3>2, <3>3, Zenon DEF Shape, TypeOK
  <2> QED BY <1>3, <2>1, Zenon DEF Write, WriteInteraction, Shape, TypeOK
<1>5. subscribed_inter' \in [Federates -> SUBSET Interactions]
  <2>1. CASE call[h].topic \in Classes
    BY <2>1, Zenon DEF Write, WriteClass, Shape, TypeOK
  <2>2. ASSUME NEW i \in Interactions, WriteInteraction(h, i)
        PROVE  subscribed_inter' \in [Federates -> SUBSET Interactions]
    <3>1. subscribed_inter \in [Federates -> SUBSET Interactions]
      BY Zenon DEF Shape, TypeOK
    <3>2. CASE subscribed_inter' = [subscribed_inter EXCEPT ![h] = @ \cup {i}]
      BY <3>1, <3>2, Zenon
    <3>3. CASE subscribed_inter' = [subscribed_inter EXCEPT ![h] = @ \ {i}]
      BY <3>1, <3>3, Zenon
    <3> QED BY <2>2, <3>2, <3>3, Zenon DEF WriteInteraction
  <2> QED BY <1>3, <2>1, <2>2, Zenon DEF Write, Topics
<1>6. pc' \in [Federates -> {"idle", "write", "check", "emit", "send"}]
      /\ \A g \in Federates : pc'[g] = "idle" <=> pc[g] = "idle"
  BY Zenon DEF Write, Shape, TypeOK
<1>7. UNCHANGED <<members, published, published_inter, switches, call, out, heard, excused, dropped>>
  BY Zenon DEF Write, historyVars
<1>8. Serving'
  BY <1>6, <1>7, Zenon DEF Shape, Serving
<1> QED BY <1>1, <1>2, <1>4, <1>5, <1>6, <1>7, <1>8, Zenon DEF Shape, TypeOK, AttributeMaps

\* A call that ends leaves nothing behind.
LEMMA DoneShape ==
    ASSUME Shape, NEW h \in Federates, Done(h), members' = members
    PROVE  /\ pc' \in [Federates -> {"idle", "write", "check", "emit", "send"}]
           /\ call' \in [Federates -> Calls]
           /\ Serving'
<1>1. pc' \in [Federates -> {"idle", "write", "check", "emit", "send"}]
  BY Zenon DEF Done, Shape, TypeOK
<1>2. call' \in [Federates -> Calls]
  BY CallsNoted, Zenon DEF Done, Shape, TypeOK
<1> QED BY <1>1, <1>2 DEF Done, Shape, TypeOK, Serving

\* Asking again, choosing whom to tell and telling keep the shape.
LEMMA AdviseShape ==
    ASSUME Shape, Indexed, NEW h \in Federates,
           Check(h) \/ Emit(h) \/ \E p \in Federates : Send(h, p)
    PROVE  Shape' /\ Indexed'
<1>1. UNCHANGED <<recordVars, matrixVars, dropped>>
  BY Zenon DEF Check, Emit, Send, historyVars
<1>2. /\ pc' \in [Federates -> {"idle", "write", "check", "emit", "send"}]
      /\ call' \in [Federates -> Calls]
      /\ Serving'
  <2>1. CASE Done(h)
    BY <1>1, <2>1, DoneShape, Zenon DEF recordVars
  <2>2. ASSUME NEW l \in {"emit", "send"}, pc[h] # "idle", pc' = [pc EXCEPT ![h] = l], call' = call
        PROVE  /\ pc' \in [Federates -> {"idle", "write", "check", "emit", "send"}]
               /\ call' \in [Federates -> Calls]
               /\ Serving'
    BY <1>1, <2>2, Zenon DEF Shape, TypeOK, Serving, recordVars
  <2>3. CASE pc' = pc /\ call' = call
    BY <1>1, <2>3, Zenon DEF Shape, TypeOK, Serving, recordVars
  <2> QED BY <2>1, <2>2, <2>3, Zenon DEF Check, Emit, Send
<1>3. out' \in [Federates -> SUBSET Federates]
  BY DEF Check, Emit, Send, Targets, Shape, TypeOK
<1>4. excused' \subseteq Federates \X Topics
  <2>1. pc[h] # "idle" => call[h].topic \in Topics
    BY Zenon DEF Shape, Serving
  <2>2. NotConcerned(h) \subseteq Federates
    BY Zenon DEF NotConcerned
  <2>3. excused \subseteq Federates \X Topics
    BY Zenon DEF Shape, TypeOK
  <2>4. CASE Check(h)
    BY <2>3, <2>4, Zenon DEF Check, historyVars
  <2>5. CASE Emit(h)
    BY <2>1, <2>2, <2>3, <2>5, Zenon DEF Emit
  <2>6. CASE \E p \in Federates : Send(h, p)
    BY <2>3, <2>6, Zenon DEF Send
  <2> QED BY <2>4, <2>5, <2>6, Zenon
<1>5. heard' \in [Federates -> [Topics -> {"nothing", "start", "stop"}]]
  <2>1. pc[h] # "idle" => call[h].topic \in Topics
    BY Zenon DEF Shape, Serving
  <2>2. ASSUME NEW p \in Federates, Send(h, p)
        PROVE  heard' \in [Federates -> [Topics -> {"nothing", "start", "stop"}]]
    <3> DEFINE v == IF call[h].op = "subscribe" THEN "start" ELSE "stop"
    <3>1. heard' = [heard EXCEPT ![p][call[h].topic] = v]
      BY <2>2, Zenon DEF Send
    <3>2. v \in {"nothing", "start", "stop"}
      OBVIOUS
    <3> HIDE DEF v
    <3> QED BY <2>1, <2>2, <3>1, <3>2 DEF Send, Shape, TypeOK
  <2> QED BY <2>2, Zenon DEF Check, Emit, Shape, TypeOK, historyVars
<1> QED BY <1>1, <1>2, <1>3, <1>4, <1>5, Zenon DEF Shape, TypeOK, Indexed, recordVars, matrixVars

\* Dropping a class for everybody keeps the shape.
LEMMA DropShape ==
    ASSUME Shape, Indexed, NEW h \in Federates, NEW c \in Classes, UnsubscribeObjectClass(h, c)
    PROVE  /\ Shape' /\ Indexed'
           /\ \A g \in Federates : RowOf(by_attribute', g, c) = {}
           /\ \A g \in Federates, d \in Classes : d # c =>
                 RowOf(by_attribute', g, d) = RowOf(by_attribute, g, d)
<1> DEFINE m == RemoveClass(Matrix, c)
<1>1. m = RemoveClass([attr |-> by_attribute, count |-> Counting(by_attribute)], c)
  BY Zenon DEF Matrix, Indexed
<1>2. by_attribute' = m.attr /\ class_subscribers' = m.count
  BY Zenon DEF UnsubscribeObjectClass
<1> HIDE DEF m
<1>3. by_attribute \in AttributeMaps
  BY Zenon DEF Shape, TypeOK, AttributeMaps
<1>4. /\ m.attr \in AttributeMaps
      /\ m.count = Counting(m.attr)
      /\ \A g \in Federates : RowOf(m.attr, g, c) = {}
      /\ \A g \in Federates, d \in Classes : d # c => RowOf(m.attr, g, d) = RowOf(by_attribute, g, d)
  BY <1>1, <1>3, RemoveClassExact
<1>5. class_subscribers' \in [Classes -> UNION {[S -> Counts] : S \in SUBSET Federates}]
  BY <1>2, <1>4, CountingTyped, Zenon
<1>6. call' \in [Federates -> Calls]
  BY CallsNoted, Zenon DEF UnsubscribeObjectClass, Shape, TypeOK
<1>7. \A g \in Federates : call'[g].topic = call[g].topic /\ call'[g].op = call[g].op
  BY DEF UnsubscribeObjectClass, Shape, TypeOK, Calls
<1>8. \A g \in Federates : pc[g] = "idle" => call'[g] = call[g]
  BY Sets DEF UnsubscribeObjectClass, Shape, Serving, Busy, NoCall
<1>9. UNCHANGED <<members, published, published_inter, subscribed_inter, switches, by_interaction, pc, out, heard>>
  BY Zenon DEF UnsubscribeObjectClass
<1>10. Serving'
  BY <1>7, <1>8, <1>9, Zenon DEF Shape, Serving
<1>11. subscribed' \in [Federates -> [Classes -> {None} \cup SUBSET Attributes]]
  BY Zenon DEF UnsubscribeObjectClass, Shape, TypeOK
<1>12. excused' \subseteq Federates \X Topics
  BY Zenon DEF UnsubscribeObjectClass, Shape, TypeOK, Topics
<1>13. dropped' \subseteq Federates \X Classes
  BY Zenon DEF UnsubscribeObjectClass, Shape, TypeOK
<1>14. Shape'
  BY <1>2, <1>4, <1>5, <1>6, <1>9, <1>10, <1>11, <1>12, <1>13, Zenon DEF Shape, TypeOK, AttributeMaps
<1> QED BY <1>2, <1>4, <1>14, Zenon DEF Indexed

\* A federate that resigns has no call.
LEMMA ResignShape ==
    ASSUME Shape, Indexed, NEW h \in Federates, Resign(h)
    PROVE  Shape' /\ Indexed'
<1>1. members' \subseteq Federates /\ excused' \subseteq Federates \X Topics
  BY Zenon DEF Resign, Shape, TypeOK
<1>2. UNCHANGED <<published, subscribed, published_inter, subscribed_inter, switches, matrixVars,
                  callVars, heard, dropped>>
  BY Zenon DEF Resign
<1>3. Serving'
  BY <1>2, Zenon DEF Resign, Idle, Shape, Serving, callVars
<1> QED BY <1>1, <1>2, <1>3, Zenon DEF Shape, TypeOK, Indexed, matrixVars, callVars

\* Every step keeps the shape and the index.
LEMMA ShapeStep == Shape /\ Indexed /\ [Next]_vars => Shape' /\ Indexed'
<1> SUFFICES ASSUME Shape, Indexed, [Next]_vars
             PROVE  Shape' /\ Indexed'
  OBVIOUS
<1>1. CASE UNCHANGED vars
  BY <1>1, Zenon DEF vars, recordVars, matrixVars, callVars, historyVars, Shape, TypeOK, Serving, Indexed
<1>2. ASSUME NEW h \in Federates, Publication(h)
      PROVE  Shape' /\ Indexed'
  <2>1. UNCHANGED matrixVars
    BY <1>2, Zenon DEF Publication, PublishObjectClassAttributes, UnpublishObjectClassAttributes,
         UnpublishObjectClass, PublishInteractionClass, UnpublishInteractionClass, SetSwitch
  <2> QED BY <1>2, <2>1, PublicationShape, Zenon DEF Indexed, matrixVars
<1>3. ASSUME NEW h \in Federates, NEW op \in {"subscribe", "unsubscribe"},
             NEW t \in Topics, NEW attrs \in SUBSET Attributes, Start(h, op, t, attrs)
      PROVE  Shape' /\ Indexed'
  <2>1. UNCHANGED matrixVars
    BY <1>3, Zenon DEF Start
  <2> QED BY <1>3, <2>1, StartShape, Zenon DEF Indexed, matrixVars
<1>4. ASSUME NEW h \in Federates, Subscription(h)
      PROVE  Shape' /\ Indexed'
  <2>1. \A attrs \in AttrSets : attrs \in SUBSET Attributes
    BY Sets, Zenon
  <2>2. {} \in SUBSET Attributes
    OBVIOUS
  <2> QED BY <1>3, <1>4, <2>1, <2>2, WriteShape, AdviseShape, DropShape, Zenon DEF Subscription, Topics
<1> QED BY <1>1, <1>2, <1>4, ResignShape, Zenon DEF Next

\* Between calls and within them a member's record and the matrix agree.
Recorded ==
    \A h \in members :
       /\ \A c \in Classes :
             /\ Row(h, c) \subseteq OrEmpty(subscribed[h][c])
             /\ <<h, c>> \notin dropped => Row(h, c) = OrEmpty(subscribed[h][c])
       /\ \A i \in Interactions : i \in subscribed_inter[h] <=> h \in by_interaction[i]

\* What the step of a write does to the caller's own record.
LEMMA WriteRecord ==
    ASSUME Shape, NEW h \in Federates, Write(h)
    PROVE  /\ \A g \in Federates, d \in Classes : g # h \/ d # call[h].topic =>
                 subscribed'[g][d] = subscribed[g][d]
           /\ \A g \in Federates, i \in Interactions :
                 g # h \/ i # call[h].topic \/ call[h].topic \in Classes =>
                   (i \in subscribed_inter'[g] <=> i \in subscribed_inter[g])
           /\ call[h].topic \in Classes =>
                 OrEmpty(subscribed'[h][call[h].topic]) =
                    IF call[h].op = "subscribe" THEN OrEmpty(subscribed[h][call[h].topic]) \cup call[h].attrs
                                                ELSE OrEmpty(subscribed[h][call[h].topic]) \ call[h].attrs
           /\ call[h].topic \notin Classes =>
                 (call[h].topic \in subscribed_inter'[h] <=> call[h].op = "subscribe")
<1>1. call[h].topic \in Topics /\ call[h].attrs \in SUBSET Attributes
  BY Zenon DEF Write, Shape, TypeOK, Serving, Calls
<1>2. subscribed \in [Federates -> [Classes -> {None} \cup SUBSET Attributes]]
  BY Zenon DEF Shape, TypeOK
<1>3. subscribed_inter \in [Federates -> SUBSET Interactions]
  BY Zenon DEF Shape, TypeOK
<1>4. CASE call[h].topic \in Classes
  <2> DEFINE c == call[h].topic
             set == IF call[h].op = "subscribe" THEN OrEmpty(subscribed[h][c]) \cup call[h].attrs
                                                ELSE Less(subscribed[h][c], call[h].attrs)
  <2>1. subscribed' = [subscribed EXCEPT ![h][c] = set] /\ subscribed_inter' = subscribed_inter
    BY <1>4, Zenon DEF Write, WriteClass
  <2>2. c \in Classes /\ c = call[h].topic /\ subscribed[h][c] \in {None} \cup SUBSET Attributes
    BY <1>2, <1>4, Zenon
  <2>3. OrEmpty(set) = IF call[h].op = "subscribe" THEN OrEmpty(subscribed[h][c]) \cup call[h].attrs
                                                   ELSE OrEmpty(subscribed[h][c]) \ call[h].attrs
    BY <1>1, <2>2, Sets, Zenon DEF OrEmpty, Less
  <2> HIDE DEF set, c
  <2>4. subscribed'[h][c] = set
    BY <1>2, <2>1, <2>2, Zenon
  <2>5. \A g \in Federates, d \in Classes : g # h \/ d # c => subscribed'[g][d] = subscribed[g][d]
    BY <1>2, <2>1, <2>2, Zenon
  <2> QED BY <2>1, <2>2, <2>3, <2>4, <2>5, Zenon
<1>5. CASE call[h].topic \notin Classes
  <2>1. subscribed' = subscribed
        /\ subscribed_inter' = [subscribed_inter EXCEPT ![h] =
              IF call[h].op = "subscribe" THEN @ \cup {call[h].topic} ELSE @ \ {call[h].topic}]
    BY <1>5, Zenon DEF Write, WriteInteraction
  <2> QED BY <1>3, <1>5, <2>1, Zenon
<1> QED BY <1>4, <1>5, Zenon

\* A row of the matrix, as a function of the matrix.
LEMMA RowIs == \A h, c : Row(h, c) = RowOf(by_attribute, h, c)
BY Zenon DEF Row, RowOf

\* The same after a step.
LEMMA RowIsThen == \A h, c : Row(h, c)' = RowOf(by_attribute', h, c)
BY Zenon DEF Row, RowOf

\* Every step keeps record and matrix together.
LEMMA RecordedStep == Shape /\ Indexed /\ Recorded /\ [Next]_vars => Recorded'
<1> SUFFICES ASSUME Shape, Indexed, Recorded, [Next]_vars
             PROVE  Recorded'
  OBVIOUS
<1>1. ASSUME members' \subseteq members,
             UNCHANGED <<subscribed, subscribed_inter, by_attribute, by_interaction, dropped>>
      PROVE  Recorded'
  BY <1>1, Zenon DEF Recorded, Row
<1>2. CASE UNCHANGED vars
  BY <1>1, <1>2, Zenon DEF vars, recordVars, matrixVars, historyVars
<1>3. ASSUME NEW h \in Federates, Publication(h) \/ Resign(h) \/ Check(h) \/ Emit(h)
                                  \/ \E p \in Federates : Send(h, p)
      PROVE  Recorded'
  <2>1. UNCHANGED <<subscribed, subscribed_inter, by_attribute, by_interaction, dropped>>
    BY <1>3, Zenon DEF Publication, PublishObjectClassAttributes, UnpublishObjectClassAttributes,
         UnpublishObjectClass, PublishInteractionClass, UnpublishInteractionClass, SetSwitch,
         Resign, Check, Emit, Send, recordVars, matrixVars, historyVars
  <2>2. members' \subseteq members
    BY <1>3, Zenon DEF Publication, PublishObjectClassAttributes, UnpublishObjectClassAttributes,
         UnpublishObjectClass, PublishInteractionClass, UnpublishInteractionClass, SetSwitch,
         Resign, Check, Emit, Send, recordVars
  <2> QED BY <1>1, <2>1, <2>2, Zenon
<1>4. ASSUME NEW h \in Federates, NEW op, NEW t, NEW attrs, Start(h, op, t, attrs)
      PROVE  Recorded'
  BY <1>1, <1>4, Zenon DEF Start, recordVars, matrixVars
<1>5. ASSUME NEW h \in Federates, Write(h)
      PROVE  Recorded'
  <2>1. members' = members /\ dropped' = dropped /\ members \subseteq Federates
    BY <1>5, Zenon DEF Write, historyVars, Shape, TypeOK
  <2>2. ASSUME NEW g \in members, NEW c \in Classes
        PROVE  /\ Row(g, c)' \subseteq OrEmpty(subscribed'[g][c])
               /\ <<g, c>> \notin dropped => Row(g, c)' = OrEmpty(subscribed'[g][c])
    <3>1. /\ RowOf(by_attribute, g, c) \subseteq OrEmpty(subscribed[g][c])
          /\ <<g, c>> \notin dropped => RowOf(by_attribute, g, c) = OrEmpty(subscribed[g][c])
      BY <2>2, RowIs, Zenon DEF Recorded
    <3>2. CASE g # h \/ c # call[h].topic
      <4>1. RowOf(by_attribute', g, c) = RowOf(by_attribute, g, c)
        BY <1>5, <2>1, <2>2, <3>2, WriteMatrix, Zenon
      <4>2. subscribed'[g][c] = subscribed[g][c]
        BY <1>5, <2>1, <2>2, <3>2, WriteRecord, Zenon
      <4> QED BY <3>1, <4>1, <4>2, RowIsThen, Zenon
    <3>3. CASE g = h /\ c = call[h].topic
      <4>1. RowOf(by_attribute', g, c) =
               IF call[h].op = "subscribe" THEN RowOf(by_attribute, g, c) \cup call[h].attrs
                                           ELSE RowOf(by_attribute, g, c) \ call[h].attrs
        BY <1>5, <2>2, <3>3, WriteMatrix, Zenon
      <4>2. OrEmpty(subscribed'[g][c]) =
               IF call[h].op = "subscribe" THEN OrEmpty(subscribed[g][c]) \cup call[h].attrs
                                           ELSE OrEmpty(subscribed[g][c]) \ call[h].attrs
        BY <1>5, <2>2, <3>3, WriteRecord, Zenon
      <4>3. Row(g, c)' = RowOf(by_attribute', g, c)
        BY RowIsThen, Zenon
      <4> QED BY <3>1, <4>1, <4>2, <4>3, Zenon
    <3> QED BY <3>2, <3>3, Zenon
  <2>3. ASSUME NEW g \in members, NEW i \in Interactions
        PROVE  i \in subscribed_inter'[g] <=> g \in by_interaction'[i]
    <3>1. i \in subscribed_inter[g] <=> g \in by_interaction[i]
      BY <2>3, Zenon DEF Recorded
    <3>2. CASE call[h].topic \in Classes
      <4>1. by_interaction' = by_interaction
        BY <1>5, <3>2, WriteMatrix, Zenon
      <4>2. i \in subscribed_inter'[g] <=> i \in subscribed_inter[g]
        BY <1>5, <2>1, <2>3, <3>2, WriteRecord, Zenon
      <4> QED BY <3>1, <4>1, <4>2, Zenon
    <3>3. CASE call[h].topic \notin Classes
      <4>1. by_interaction' = [by_interaction EXCEPT ![call[h].topic] =
                       IF call[h].op = "subscribe" THEN @ \cup {h} ELSE @ \ {h}]
        BY <1>5, <3>3, WriteMatrix, Zenon
      <4>2. /\ g # h \/ i # call[h].topic => (i \in subscribed_inter'[g] <=> i \in subscribed_inter[g])
            /\ call[h].topic \in subscribed_inter'[h] <=> call[h].op = "subscribe"
        BY <1>5, <2>1, <2>3, <3>3, WriteRecord, Zenon
      <4>3. by_interaction \in [Interactions -> SUBSET Federates]
        BY Zenon DEF Shape, TypeOK
      <4> QED BY <2>1, <2>3, <3>1, <4>1, <4>2, <4>3, Zenon
    <3> QED BY <3>2, <3>3, Zenon
  <2> QED BY <2>1, <2>2, <2>3, Zenon DEF Recorded
<1>6. ASSUME NEW h \in Federates, NEW c \in Classes, UnsubscribeObjectClass(h, c)
      PROVE  Recorded'
  <2>1. /\ UNCHANGED <<members, subscribed_inter, by_interaction>>
        /\ dropped' = dropped \cup (Federates \ {h}) \X {c}
        /\ members \subseteq Federates
    BY <1>6, Zenon DEF UnsubscribeObjectClass, Shape, TypeOK
  <2>2. /\ \A g \in Federates : RowOf(by_attribute', g, c) = {}
        /\ \A g \in Federates, d \in Classes : d # c =>
              RowOf(by_attribute', g, d) = RowOf(by_attribute, g, d)
    BY <1>6, DropShape, Zenon
  <2>3. /\ subscribed'[h][c] = None
        /\ \A g \in Federates, d \in Classes : g # h \/ d # c => subscribed'[g][d] = subscribed[g][d]
    BY <1>6, Zenon DEF UnsubscribeObjectClass, Shape, TypeOK
  <2>4. ASSUME NEW g \in members, NEW d \in Classes
        PROVE  /\ RowOf(by_attribute', g, d) \subseteq OrEmpty(subscribed'[g][d])
               /\ <<g, d>> \notin dropped' => RowOf(by_attribute', g, d) = OrEmpty(subscribed'[g][d])
    <3>1. /\ RowOf(by_attribute, g, d) \subseteq OrEmpty(subscribed[g][d])
          /\ <<g, d>> \notin dropped => RowOf(by_attribute, g, d) = OrEmpty(subscribed[g][d])
      BY <2>4, RowIs, Zenon DEF Recorded
    <3>2. CASE d # c
      BY <2>1, <2>2, <2>3, <2>4, <3>1, <3>2, Zenon
    <3>3. CASE d = c /\ g # h
      BY <2>1, <2>2, <2>4, <3>3, Zenon
    <3>4. CASE d = c /\ g = h
      BY <2>1, <2>2, <2>3, <2>4, <3>4, Zenon DEF OrEmpty
    <3> QED BY <3>2, <3>3, <3>4, Zenon
  <2> QED BY <2>1, <2>4, RowIsThen, Zenon DEF Recorded
<1> QED BY <1>2, <1>3, <1>4, <1>5, <1>6, Zenon DEF Next, Subscription

\* The index stays exact.
LEMMA AlwaysIndexed == Spec => [](Shape /\ Indexed)
<1>1. DeclInit => Indexed
  <2> SUFFICES ASSUME DeclInit
               PROVE  Indexed
    OBVIOUS
  <2>1. ASSUME NEW c \in Classes
        PROVE  CountsOf(by_attribute, c) = <<>>
    <3>1. \A g \in Federates : RowOf(by_attribute, g, c) = {}
      BY Zenon DEF DeclInit, RowOf
    <3>2. {g \in Federates : RowOf(by_attribute, g, c) # {}} = {}
      BY <3>1, Zenon
    <3> QED BY <3>2 DEF CountsOf
  <2> QED BY <2>1, Zenon DEF DeclInit, Indexed, Counting
<1> QED BY <1>1, ShapeInit, ShapeStep, PTL DEF Spec

\* TypeOK, for any federates and classes: the counts of class_subscribers stay
\* between 1 and the number of attributes.
THEOREM DeclarationTyped == Spec => []TypeOK
<1>1. Shape => TypeOK
  BY Zenon DEF Shape
<1> QED BY <1>1, AlwaysIndexed, PTL

\* MatrixExact, for any federates, classes and attributes: the reference
\* counts of class_subscribers say how many attributes each federate is
\* subscribed to, and each federate's own record agrees with the matrix,
\* unless another one's UnsubscribeObjectClass dropped the class.
THEOREM MatrixIsExact == Spec => []MatrixExact
<1>1. DeclInit => Recorded
  <2> SUFFICES ASSUME DeclInit
               PROVE  Recorded
    OBVIOUS
  <2>1. \A h \in Federates, c \in Classes : Row(h, c) = {} /\ subscribed[h][c] = None
    BY Zenon DEF DeclInit, Row
  <2>2. \A h \in Federates, i \in Interactions : i \notin subscribed_inter[h] /\ h \notin by_interaction[i]
    BY Zenon DEF DeclInit
  <2>3. members = Federates
    BY Zenon DEF DeclInit
  <2> QED BY <2>1, <2>2, <2>3, Zenon DEF Recorded, OrEmpty
<1>2. Shape /\ Indexed /\ Recorded => MatrixExact
  <2> SUFFICES ASSUME Indexed, Recorded
               PROVE  MatrixExact
    OBVIOUS
  <2>1. CountsMatch
    BY Zenon DEF Indexed, Counting, CountsOf, RowOf, CountsMatch, Row
  <2>2. RecordsMatchMatrix
    BY Zenon DEF Recorded, RecordsMatchMatrix
  <2> QED BY <2>1, <2>2, Zenon DEF MatrixExact
<1> QED BY <1>1, <1>2, RecordedStep, AlwaysIndexed, PTL DEF Spec

-----------------------------------------------------------------------------
(* Advisories                                                              *)

\* What matters to the advisories on a topic: who is in the matrix, who was
\* last told "start", and who is excused.
Subscribers(t) == {h \in Federates : InMatrix(h, t)}
Started(t) == {p \in Federates : heard[p][t] = "start"}
Excused(t) == {p \in Federates : <<p, t>> \in excused}

\* Whoever is not excused knows whether a member subscribes.
Known(t) ==
    \A p \in Federates \ Excused(t) :
       /\ p \in Started(t) <=> Subscribers(t) # {}
       /\ Subscribers(t) \subseteq members

\* What is known while h, and nobody else, is changing who subscribes to t.
Alone(h, t) ==
    /\ pc[h] = "write" => Known(t) /\ (call[h].was <=> Subscribers(t) # {})
    /\ pc[h] = "check" =>
         /\ ~call[h].was => Subscribers(t) \subseteq {h}
         /\ call[h].op = "subscribe" /\ call[h].was => Subscribers(t) # {}
         /\ call[h].op # "subscribe" /\ ~call[h].was => Subscribers(t) = {}
         /\ \A p \in Federates \ Excused(t) :
               /\ p \in Started(t) <=> call[h].was
               /\ Subscribers(t) \subseteq members
    /\ pc[h] \in {"emit", "send"} =>
         Subscribers(t) = IF call[h].op = "subscribe" THEN {h} ELSE {}
    /\ pc[h] = "send" =>
         \A p \in Federates \ Excused(t) :
            p \notin out[h] => (p \in Started(t) <=> call[h].op = "subscribe")

\* Overlapping calls excuse everybody; without them all is known but for
\* what a call has yet to tell.
Told(t) ==
    /\ Busy(t) = {} => Known(t)
    /\ \A h \in Busy(t) : IF call[h].overlapped THEN Excused(t) = Federates
                                                ELSE Busy(t) = {h} /\ Alone(h, t)

\* Nothing that matters to a topic has changed.
LEMMA Unaffected ==
    ASSUME NEW t \in Topics, Told(t),
           Subscribers(t)' = Subscribers(t), Started(t)' = Started(t), Excused(t)' = Excused(t),
           Busy(t)' = Busy(t), members' = members,
           \A g \in Busy(t) : call'[g] = call[g] /\ pc'[g] = pc[g] /\ out'[g] = out[g]
    PROVE  Told(t)'
<1>1. Known(t)' = Known(t)
  BY Zenon DEF Known
<1>2. \A g \in Busy(t) : Alone(g, t) => Alone(g, t)'
  BY <1>1, Zenon DEF Alone
<1> QED BY <1>1, <1>2, Zenon DEF Told

\* What the advisories look at is a function of the matrix and of what was heard.
LEMMA SameViews ==
    ASSUME NEW t
    PROVE  /\ by_attribute' = by_attribute /\ by_interaction' = by_interaction =>
                 Subscribers(t)' = Subscribers(t)
           /\ heard' = heard => Started(t)' = Started(t)
           /\ excused' = excused => Excused(t)' = Excused(t)
           /\ call' = call => Busy(t)' = Busy(t)
BY Zenon DEF Subscribers, InMatrix, Row, Started, Excused, Busy

\* The matrix answers class_has_subscribers and interaction_has_subscribers
\* by whether somebody is in it.
LEMMA HasExact ==
    ASSUME Shape, Indexed, NEW t \in Topics
    PROVE  HasSubscribers(t) <=> Subscribers(t) # {}
<1>1. CASE t \in Classes
  <2>1. DOMAIN class_subscribers[t] = {g \in Federates : RowOf(by_attribute, g, t) # {}}
    BY <1>1, Zenon DEF Indexed, Counting, CountsOf
  <2>2. Subscribers(t) = {g \in Federates : RowOf(by_attribute, g, t) # {}}
    BY <1>1, Zenon DEF Subscribers, InMatrix, Row, RowOf
  <2> QED BY <1>1, <2>1, <2>2, Zenon DEF HasSubscribers
<1>2. CASE t \notin Classes
  <2>1. by_interaction[t] \subseteq Federates
    BY <1>2, Zenon DEF Topics, Shape, TypeOK
  <2>2. Subscribers(t) = by_interaction[t]
    BY <1>2, <2>1, Zenon DEF Subscribers, InMatrix
  <2> QED BY <1>2, <2>2, Zenon DEF HasSubscribers
<1> QED BY <1>1, <1>2, Zenon

\* The sessions busy with a topic serve a call on it.
LEMMA BusyServes ==
    ASSUME Shape, NEW t \in Topics, NEW h \in Busy(t)
    PROVE  h \in Federates /\ h \in members /\ pc[h] # "idle" /\ call[h].topic = t
BY Sets DEF Busy, Shape, Serving, NoCall, Topics

\* Nothing is known or to be told at first.
LEMMA ToldInit == DeclInit => \A t \in Topics : Told(t)
<1> SUFFICES ASSUME DeclInit, NEW t \in Topics
             PROVE  Told(t)
  OBVIOUS
<1>1. Subscribers(t) = {}
  BY Zenon DEF DeclInit, Subscribers, InMatrix, Row, Topics
<1>2. Started(t) = {}
  BY Zenon DEF DeclInit, Started
<1>3. Busy(t) = {}
  BY SetsAssumption, Zenon DEF DeclInit, Busy, NoCall
<1> QED BY <1>1, <1>2, <1>3, Zenon DEF Told, Known

\* Publishing and switching tell nobody anything.
LEMMA PublicationTold ==
    ASSUME Shape, NEW h \in Federates, Publication(h), NEW t \in Topics, Told(t)
    PROVE  Told(t)'
<1>1. UNCHANGED <<members, by_attribute, by_interaction, pc, call, out, heard, excused>>
  BY Zenon DEF Publication, PublishObjectClassAttributes, UnpublishObjectClassAttributes,
       UnpublishObjectClass, PublishInteractionClass, UnpublishInteractionClass, SetSwitch,
       matrixVars, historyVars
<1> QED BY <1>1, SameViews, Unaffected, Zenon

\* The calls after one more has started.
LEMMA StartCalls ==
    ASSUME Shape, NEW h \in Federates, NEW op, NEW t \in Topics, NEW attrs, Start(h, op, t, attrs)
    PROVE  /\ call[h].topic = None
           /\ call'[h].topic = t
           /\ call'[h].was <=> HasSubscribers(t)
           /\ call'[h].overlapped <=> Busy(t) # {}
           /\ \A g \in Federates \ {h} :
                 /\ call'[g].topic = call[g].topic
                 /\ g \in Busy(t) => call'[g].overlapped = TRUE
                 /\ g \notin Busy(t) => call'[g] = call[g]
<1>1. call[h].topic = None
  BY DEF Start, Ask, Idle, Shape, Serving, NoCall
<1>2. h \notin Busy(t)
  BY <1>1, SetsAssumption, Zenon DEF Busy
<1>3. call'[h] = [op |-> op, topic |-> t, attrs |-> attrs, was |-> HasSubscribers(t),
                  overlapped |-> Busy(t) # {}]
  BY <1>2, Zenon DEF Start
<1>7. call'[h].topic = t /\ (call'[h].was <=> HasSubscribers(t)) /\ (call'[h].overlapped <=> Busy(t) # {})
  <2> DEFINE was == HasSubscribers(t)
             crowd == Busy(t) # {}
  <2>1. call'[h] = [op |-> op, topic |-> t, attrs |-> attrs, was |-> was, overlapped |-> crowd]
    BY <1>3, Zenon
  <2> HIDE DEF was, crowd
  <2>2. call'[h].topic = t /\ call'[h].was = was /\ call'[h].overlapped = crowd
    BY <2>1
  <2> QED BY <2>2, Zenon DEF was, crowd
<1>4. ASSUME NEW g \in Federates \ {h}
      PROVE  call'[g] = IF g \in Busy(t) THEN [call[g] EXCEPT !.overlapped = TRUE] ELSE call[g]
  BY Zenon DEF Start
<1>5. \A g \in Federates : call[g] \in Calls
  BY Zenon DEF Shape, TypeOK
<1>6. \A k \in Calls : [k EXCEPT !.overlapped = TRUE].overlapped = TRUE
                       /\ [k EXCEPT !.overlapped = TRUE].topic = k.topic
  BY Zenon DEF Calls
<1> QED BY <1>1, <1>4, <1>5, <1>6, <1>7, Zenon

\* A call that starts notes what is known, or that it is not alone.
LEMMA StartTold ==
    ASSUME Shape, Indexed, NEW h \in Federates, NEW op \in {"subscribe", "unsubscribe"},
           NEW s \in Topics, NEW attrs, Start(h, op, s, attrs), NEW t \in Topics, Told(t)
    PROVE  Told(t)'
<1>1. /\ UNCHANGED <<members, by_attribute, by_interaction, out, heard>>
      /\ pc' = [pc EXCEPT ![h] = "write"]
      /\ excused' = IF Busy(s) = {} THEN excused ELSE excused \cup Federates \X {s}
  BY Zenon DEF Start, recordVars, matrixVars
<1>2. pc'[h] = "write" /\ \A g \in Federates \ {h} : pc'[g] = pc[g]
  BY <1>1, Zenon DEF Shape, TypeOK
<1>3. Subscribers(t)' = Subscribers(t) /\ Started(t)' = Started(t)
  BY <1>1, SameViews, Zenon
<1>4. /\ call[h].topic = None
      /\ call'[h].topic = s
      /\ call'[h].was <=> HasSubscribers(s)
      /\ call'[h].overlapped <=> Busy(s) # {}
      /\ \A g \in Federates \ {h} :
            /\ call'[g].topic = call[g].topic
            /\ g \in Busy(s) => call'[g].overlapped = TRUE
            /\ g \notin Busy(s) => call'[g] = call[g]
  BY StartCalls, Zenon
<1>6. h \notin Busy(t) /\ None # t
  BY <1>4, SetsAssumption, Zenon DEF Busy
<1>7. CASE t # s
  <2>1. Busy(t)' = Busy(t)
    BY <1>4, <1>6, <1>7, Zenon DEF Busy
  <2>2. Excused(t)' = Excused(t)
    BY <1>1, <1>7, Zenon DEF Excused
  <2>3. \A g \in Busy(t) : g \in Federates \ {h} /\ g \notin Busy(s)
    BY <1>6, <1>7, Zenon DEF Busy
  <2>4. \A g \in Busy(t) : call'[g] = call[g] /\ pc'[g] = pc[g] /\ out'[g] = out[g]
    BY <1>1, <1>2, <1>4, <2>3, Zenon
  <2> QED BY <1>1, <1>3, <2>1, <2>2, <2>4, Unaffected, Zenon
<1>8. CASE t = s
  <2>1. Busy(t)' = Busy(t) \cup {h}
    BY <1>4, <1>8, Zenon DEF Busy
  <2>2. CASE Busy(s) = {}
    <3>1. Excused(t)' = Excused(t)
      BY <1>1, <2>2, SameViews, Zenon
    <3>2. Known(t)'
      BY <1>1, <1>3, <1>8, <2>2, <3>1, Zenon DEF Told, Known
    <3>3. call'[h].was <=> Subscribers(t) # {}
      BY <1>4, <1>8, HasExact, Zenon
    <3>4. Alone(h, t)'
      BY <1>2, <1>3, <3>2, <3>3, Zenon DEF Alone
    <3> QED BY <1>4, <1>8, <2>1, <2>2, <3>4, Zenon DEF Told
  <2>3. CASE Busy(s) # {}
    <3>1. Excused(t)' = Federates
      BY <1>1, <1>8, <2>3, Zenon DEF Excused
    <3>2. \A g \in Busy(t)' : call'[g].overlapped = TRUE
      BY <1>4, <1>8, <2>1, <2>3, Zenon DEF Busy
    <3>3. Busy(t)' # {}
      BY <2>1, Zenon
    <3> QED BY <3>1, <3>2, <3>3, Zenon DEF Told
  <2> QED BY <2>2, <2>3, Zenon
<1> QED BY <1>7, <1>8, Zenon

\* Who is in the matrix for a topic after h has written its own entry.
LEMMA WriteSubscribers ==
    ASSUME Shape, Indexed, NEW h \in Federates, Write(h), NEW t \in Topics
    PROVE  /\ t # call[h].topic => Subscribers(t)' = Subscribers(t)
           /\ t = call[h].topic =>
                 /\ Subscribers(t)' \ {h} = Subscribers(t) \ {h}
                 /\ call[h].op = "subscribe" => Subscribers(t) \subseteq Subscribers(t)'
                 /\ call[h].op # "subscribe" => Subscribers(t)' \subseteq Subscribers(t)
<1>1. CASE t \in Classes
  <2>1. /\ Subscribers(t) = {g \in Federates : RowOf(by_attribute, g, t) # {}}
        /\ Subscribers(t)' = {g \in Federates : RowOf(by_attribute', g, t) # {}}
    BY <1>1, Zenon DEF Subscribers, InMatrix, Row, RowOf
  <2>2. \A g \in Federates : g # h \/ t # call[h].topic =>
                 RowOf(by_attribute', g, t) = RowOf(by_attribute, g, t)
    BY <1>1, WriteMatrix, Zenon
  <2>3. t = call[h].topic => RowOf(by_attribute', h, t) =
                       IF call[h].op = "subscribe"
                       THEN RowOf(by_attribute, h, t) \cup call[h].attrs
                       ELSE RowOf(by_attribute, h, t) \ call[h].attrs
    BY <1>1, WriteMatrix, Zenon
  <2>4. CASE t # call[h].topic
    BY <2>1, <2>2, <2>4, Zenon
  <2>5. CASE t = call[h].topic
    <3>1. \A g \in Federates \ {h} : g \in Subscribers(t)' <=> g \in Subscribers(t)
      BY <2>1, <2>2, Zenon
    <3>2. /\ call[h].op = "subscribe" /\ h \in Subscribers(t) => h \in Subscribers(t)'
          /\ call[h].op # "subscribe" /\ h \in Subscribers(t)' => h \in Subscribers(t)
      BY <2>1, <2>3, <2>5, Zenon
    <3>3. Subscribers(t) \subseteq Federates /\ Subscribers(t)' \subseteq Federates
      BY <2>1, Zenon
    <3> QED BY <2>5, <3>1, <3>2, <3>3, Zenon
  <2> QED BY <2>4, <2>5, Zenon
<1>2. CASE t \notin Classes
  <2>1. /\ Subscribers(t) = {g \in Federates : g \in by_interaction[t]}
        /\ Subscribers(t)' = {g \in Federates : g \in by_interaction'[t]}
    BY <1>2, Zenon DEF Subscribers, InMatrix
  <2>2. t \in Interactions /\ by_interaction \in [Interactions -> SUBSET Federates]
    BY <1>2, Zenon DEF Topics, Shape, TypeOK
  <2>3. CASE call[h].topic \in Classes
    <3>1. by_interaction' = by_interaction
      BY <2>3, WriteMatrix, Zenon
    <3> QED BY <1>2, <2>1, <2>3, <3>1, Zenon
  <2>4. CASE call[h].topic \notin Classes
    <3>1. by_interaction' = [by_interaction EXCEPT ![call[h].topic] =
                       IF call[h].op = "subscribe" THEN @ \cup {h} ELSE @ \ {h}]
      BY <2>4, WriteMatrix, Zenon
    <3> QED BY <2>1, <2>2, <3>1, Zenon
  <2> QED BY <2>3, <2>4, Zenon
<1> QED BY <1>1, <1>2, Zenon

\* Writing the matrix.
LEMMA WriteTold ==
    ASSUME Shape, Indexed, NEW h \in Federates, Write(h), NEW t \in Topics, Told(t)
    PROVE  Told(t)'
<1>1. UNCHANGED <<members, call, out, heard, excused>> /\ pc[h] = "write"
  BY Zenon DEF Write, historyVars
<1>2. pc'[h] = "check" /\ \A g \in Federates \ {h} : pc'[g] = pc[g]
  BY Zenon DEF Write, Shape, TypeOK
<1>3. Started(t)' = Started(t) /\ Excused(t)' = Excused(t) /\ Busy(t)' = Busy(t)
  BY <1>1, SameViews, Zenon
<1>4. CASE t # call[h].topic
  <2>1. Subscribers(t)' = Subscribers(t)
    BY <1>4, WriteSubscribers, Zenon
  <2>2. \A g \in Busy(t) : g \in Federates \ {h}
    BY <1>4, Zenon DEF Busy
  <2> QED BY <1>1, <1>2, <1>3, <2>1, <2>2, Unaffected, Zenon
<1>5. CASE t = call[h].topic
  <2>1. h \in Busy(t) /\ h \in members
    BY <1>1, <1>5, Zenon DEF Busy, Shape, Serving
  <2>2. CASE call[h].overlapped
    <3>1. Excused(t) = Federates
      BY <2>1, <2>2, Zenon DEF Told
    <3>2. \A g \in Busy(t) : call[g].overlapped
      BY <2>1, <2>2, Zenon DEF Told
    <3> QED BY <1>1, <1>3, <2>1, <3>1, <3>2, Zenon DEF Told
  <2>3. CASE ~call[h].overlapped
    <3>1. Busy(t) = {h} /\ Alone(h, t)
      BY <2>1, <2>3, Zenon DEF Told
    <3>2. Known(t) /\ (call[h].was <=> Subscribers(t) # {})
      BY <1>1, <3>1, Zenon DEF Alone
    <3>3. /\ Subscribers(t)' \ {h} = Subscribers(t) \ {h}
          /\ call[h].op = "subscribe" => Subscribers(t) \subseteq Subscribers(t)'
          /\ call[h].op # "subscribe" => Subscribers(t)' \subseteq Subscribers(t)
      BY <1>5, WriteSubscribers, Zenon
    <3>4. /\ ~call[h].was => Subscribers(t)' \subseteq {h}
          /\ call[h].op = "subscribe" /\ call[h].was => Subscribers(t)' # {}
          /\ call[h].op # "subscribe" /\ ~call[h].was => Subscribers(t)' = {}
          /\ Subscribers(t) \subseteq members => Subscribers(t)' \subseteq members
      BY <2>1, <3>2, <3>3, Zenon
    <3>5. Alone(h, t)'
      BY <1>1, <1>2, <1>3, <3>2, <3>4, Zenon DEF Alone, Known
    <3> QED BY <1>1, <1>3, <2>3, <3>1, <3>5 DEF Told
  <2> QED BY <2>2, <2>3, Zenon
<1> QED BY <1>4, <1>5, Zenon

\* A step of h that is alone with t, or one of several.
LEMMA Company ==
    ASSUME NEW t \in Topics, Told(t), NEW h \in Busy(t)
    PROVE  \/ Excused(t) = Federates /\ \A g \in Busy(t) : call[g].overlapped
           \/ Busy(t) = {h} /\ Alone(h, t) /\ ~call[h].overlapped
BY Zenon DEF Told

\* The end of a call, for the topics.
LEMMA DoneBusy ==
    ASSUME Shape, NEW h \in Federates, Done(h), NEW t \in Topics
    PROVE  /\ Busy(t)' = Busy(t) \ {h}
           /\ \A g \in Federates \ {h} : call'[g] = call[g] /\ pc'[g] = pc[g]
<1>1. call'[h] = NoCall /\ \A g \in Federates \ {h} : call'[g] = call[g] /\ pc'[g] = pc[g]
  BY Zenon DEF Done, Shape, TypeOK
<1>2. call'[h].topic # t
  BY <1>1, SetsAssumption DEF NoCall
<1> QED BY <1>1, <1>2, Zenon DEF Busy

\* A topic with other calls, all of them overlapping, stays excused.
LEMMA CrowdTold ==
    ASSUME NEW t \in Topics, Excused(t)' = Federates, NEW h,
           Busy(t)' \subseteq Busy(t), \A g \in Busy(t) : call[g].overlapped,
           \A g \in Busy(t)' : call'[g] = call[g]
    PROVE  Told(t)'
<1>1. Known(t)'
  BY Zenon DEF Known
<1> QED BY <1>1, Zenon DEF Told

\* Asking the matrix again.
LEMMA CheckTold ==
    ASSUME Shape, Indexed, NEW h \in Federates, Check(h), NEW t \in Topics, Told(t)
    PROVE  Told(t)'
<1>1. /\ UNCHANGED <<members, by_attribute, by_interaction, out, heard, excused>>
      /\ pc[h] = "check"
      /\ IF IsFirstOrLast(h) THEN pc' = [pc EXCEPT ![h] = "emit"] /\ call' = call ELSE Done(h)
  BY Zenon DEF Check, recordVars, matrixVars, historyVars
<1>2. \A g \in Federates \ {h} : call'[g] = call[g] /\ pc'[g] = pc[g]
  <2>1. CASE Done(h)
    BY <2>1, DoneBusy, Zenon
  <2>2. CASE pc' = [pc EXCEPT ![h] = "emit"] /\ call' = call
    BY <2>2, Zenon DEF Shape, TypeOK
  <2> QED BY <1>1, <2>1, <2>2, Zenon
<1>3. Started(t)' = Started(t) /\ Excused(t)' = Excused(t) /\ Subscribers(t)' = Subscribers(t)
  BY <1>1, SameViews, Zenon
<1>4. Busy(t)' = IF IsFirstOrLast(h) THEN Busy(t) ELSE Busy(t) \ {h}
  BY <1>1, SameViews, DoneBusy, Zenon
<1>5. CASE t # call[h].topic
  <2>1. \A g \in Busy(t) : g \in Federates \ {h}
    BY <1>5, Zenon DEF Busy
  <2>2. Busy(t)' = Busy(t)
    BY <1>4, <2>1, Zenon
  <2> QED BY <1>1, <1>2, <1>3, <2>1, <2>2, Unaffected, Zenon
<1>6. CASE t = call[h].topic
  <2>1. h \in Busy(t)
    BY <1>6, Zenon DEF Busy
  <2>2. CASE Excused(t) = Federates /\ \A g \in Busy(t) : call[g].overlapped
    <3>1. \A g \in Busy(t)' : call'[g] = call[g]
      BY <1>1, <1>2, <1>4, Zenon DEF Busy
    <3>2. Busy(t)' \subseteq Busy(t)
      BY <1>4, Zenon
    <3> QED BY <1>3, <2>2, <3>1, <3>2, CrowdTold, Zenon
  <2>3. CASE Busy(t) = {h} /\ Alone(h, t) /\ ~call[h].overlapped
    <3>1. /\ ~call[h].was => Subscribers(t) \subseteq {h}
          /\ call[h].op = "subscribe" /\ call[h].was => Subscribers(t) # {}
          /\ call[h].op # "subscribe" /\ ~call[h].was => Subscribers(t) = {}
          /\ \A p \in Federates \ Excused(t) :
                /\ p \in Started(t) <=> call[h].was
                /\ Subscribers(t) \subseteq members
      BY <1>1, <2>3, Zenon DEF Alone
    <3>2. IsFirstOrLast(h) <=> IF call[h].op = "subscribe" THEN ~call[h].was /\ Subscribers(t) # {}
                                                           ELSE call[h].was /\ Subscribers(t) = {}
      BY <1>6, HasExact, Zenon DEF IsFirstOrLast
    <3>3. CASE IsFirstOrLast(h)
      <4>1. pc'[h] = "emit" /\ call' = call
        BY <1>1, <3>3, Zenon DEF Shape, TypeOK
      <4>2. Subscribers(t) = IF call[h].op = "subscribe" THEN {h} ELSE {}
        BY <3>1, <3>2, <3>3, Zenon
      <4>3. Alone(h, t)'
        BY <1>3, <4>1, <4>2, Zenon DEF Alone
      <4> QED BY <1>4, <2>3, <3>3, <4>1, <4>3, Zenon DEF Told
    <3>4. CASE ~IsFirstOrLast(h)
      <4>1. Busy(t)' = {}
        BY <1>4, <2>3, <3>4, Zenon
      <4>2. call[h].was \in BOOLEAN
        BY Zenon DEF Shape, TypeOK, Calls
      <4>3. Known(t)'
        BY <1>1, <1>3, <3>1, <3>2, <3>4, <4>2, Zenon DEF Known
      <4> QED BY <4>1, <4>3, Zenon DEF Told
    <3> QED BY <3>3, <3>4, Zenon
  <2> QED BY <2>1, <2>2, <2>3, Company, Zenon
<1> QED BY <1>5, <1>6, Zenon

\* Choosing whom to tell: everybody else is excused.
LEMMA EmitTold ==
    ASSUME Shape, Indexed, NEW h \in Federates, Emit(h), NEW t \in Topics, Told(t)
    PROVE  Told(t)'
<1>1. /\ UNCHANGED <<members, by_attribute, by_interaction, heard>>
      /\ pc[h] = "emit"
      /\ out' = [out EXCEPT ![h] = Targets(h)]
      /\ excused' = excused \cup NotConcerned(h) \X {call[h].topic}
      /\ IF Targets(h) = {} THEN Done(h) ELSE pc' = [pc EXCEPT ![h] = "send"] /\ call' = call
  BY Zenon DEF Emit, recordVars, matrixVars
<1>2. \A g \in Federates \ {h} : call'[g] = call[g] /\ pc'[g] = pc[g] /\ out'[g] = out[g]
  <2>1. CASE Done(h)
    BY <1>1, <2>1, DoneBusy, Zenon DEF Shape, TypeOK
  <2>2. CASE pc' = [pc EXCEPT ![h] = "send"] /\ call' = call
    BY <1>1, <2>2, Zenon DEF Shape, TypeOK
  <2> QED BY <1>1, <2>1, <2>2, Zenon
<1>3. Started(t)' = Started(t) /\ Subscribers(t)' = Subscribers(t)
  BY <1>1, SameViews, Zenon
<1>4. Busy(t)' = IF Targets(h) # {} THEN Busy(t) ELSE Busy(t) \ {h}
  BY <1>1, SameViews, DoneBusy, Zenon
<1>5. CASE t # call[h].topic
  <2>1. \A g \in Busy(t) : g \in Federates \ {h}
    BY <1>5, Zenon DEF Busy
  <2>2. Busy(t)' = Busy(t)
    BY <1>4, <2>1, Zenon
  <2>3. Excused(t)' = Excused(t)
    BY <1>1, <1>5, Zenon DEF Excused
  <2> QED BY <1>1, <1>2, <1>3, <2>1, <2>2, <2>3, Unaffected, Zenon
<1>6. CASE t = call[h].topic
  <2>1. h \in Busy(t)
    BY <1>6, Zenon DEF Busy
  <2>2. NotConcerned(h) = Federates \ Targets(h) /\ Targets(h) \subseteq Federates
    BY Zenon DEF NotConcerned, Targets, Shape, TypeOK
  <2>3. Excused(t)' = Excused(t) \cup (Federates \ Targets(h))
    BY <1>1, <1>6, <2>2, Zenon DEF Excused
  <2>4. CASE Excused(t) = Federates /\ \A g \in Busy(t) : call[g].overlapped
    <3>1. \A g \in Busy(t)' : call'[g] = call[g]
      BY <1>1, <1>2, <1>4, Zenon DEF Busy
    <3>2. Busy(t)' \subseteq Busy(t)
      BY <1>4, Zenon
    <3>3. Excused(t)' = Federates
      BY <2>3, <2>4, Zenon
    <3> QED BY <2>4, <3>1, <3>2, <3>3, CrowdTold, Zenon
  <2>5. CASE Busy(t) = {h} /\ Alone(h, t) /\ ~call[h].overlapped
    <3>1. Subscribers(t) = IF call[h].op = "subscribe" THEN {h} ELSE {}
      BY <1>1, <2>5, Zenon DEF Alone
    <3>2. CASE Targets(h) = {}
      <4>1. Busy(t)' = {} /\ Excused(t)' = Federates
        BY <1>4, <2>3, <2>5, <3>2, Zenon DEF Excused
      <4> QED BY <4>1, Zenon DEF Told, Known
    <3>3. CASE Targets(h) # {}
      <4>1. pc'[h] = "send" /\ call' = call /\ out'[h] = Targets(h)
        BY <1>1, <3>3, Zenon DEF Shape, TypeOK
      <4>2. \A p \in Federates : p \notin Targets(h) => p \in Excused(t)'
        BY <2>3, Zenon
      <4>3. Alone(h, t)'
        BY <1>3, <3>1, <4>1, <4>2, Zenon DEF Alone
      <4> QED BY <1>4, <2>5, <3>3, <4>1, <4>3 DEF Told
    <3> QED BY <3>2, <3>3, Zenon
  <2> QED BY <2>1, <2>4, <2>5, Company, Zenon
<1> QED BY <1>5, <1>6, Zenon

\* Telling one publisher.
LEMMA SendTold ==
    ASSUME Shape, Indexed, NEW h \in Federates, NEW p \in Federates, Send(h, p),
           NEW t \in Topics, Told(t)
    PROVE  Told(t)'
<1>1. /\ UNCHANGED <<members, by_attribute, by_interaction>>
      /\ pc[h] = "send" /\ p \in out[h]
      /\ out' = [out EXCEPT ![h] = out[h] \ {p}]
      /\ excused' = IF call[h].overlapped THEN excused ELSE excused \ {<<p, call[h].topic>>}
      /\ IF out[h] = {p} THEN Done(h) ELSE pc' = pc /\ call' = call
  BY Zenon DEF Send, recordVars, matrixVars
<1>2. \A g \in Federates \ {h} : call'[g] = call[g] /\ pc'[g] = pc[g] /\ out'[g] = out[g]
  <2>1. CASE Done(h)
    BY <1>1, <2>1, DoneBusy, Zenon DEF Shape, TypeOK
  <2>2. CASE pc' = pc /\ call' = call
    BY <1>1, <2>2, Zenon DEF Shape, TypeOK
  <2> QED BY <1>1, <2>1, <2>2, Zenon
<1>3. Subscribers(t)' = Subscribers(t)
  BY <1>1, SameViews, Zenon
<1>4. Busy(t)' = IF out[h] = {p} THEN Busy(t) \ {h} ELSE Busy(t)
  BY <1>1, SameViews, DoneBusy, Zenon
<1>5. /\ t # call[h].topic => Started(t)' = Started(t)
      /\ t = call[h].topic => Started(t)' = IF call[h].op = "subscribe" THEN Started(t) \cup {p}
                                                                        ELSE Started(t) \ {p}
  <2> DEFINE v == IF call[h].op = "subscribe" THEN "start" ELSE "stop"
  <2>1. heard' = [heard EXCEPT ![p][call[h].topic] = v]
    BY Zenon DEF Send
  <2>2. v = "start" <=> call[h].op = "subscribe"
    OBVIOUS
  <2> HIDE DEF v
  <2>3. heard \in [Federates -> [Topics -> {"nothing", "start", "stop"}]]
    BY Zenon DEF Shape, TypeOK
  <2>4. call[h].topic \in Topics
    BY <1>1, Zenon DEF Shape, Serving
  <2>5. \A q \in Federates : heard'[q][t] = IF q = p /\ t = call[h].topic THEN v ELSE heard[q][t]
    BY <2>1, <2>3, <2>4, Zenon
  <2> QED BY <2>2, <2>5, Zenon DEF Started
<1>6. CASE t # call[h].topic
  <2>1. \A g \in Busy(t) : g \in Federates \ {h}
    BY <1>6, Zenon DEF Busy
  <2>2. Busy(t)' = Busy(t)
    BY <1>4, <2>1, Zenon
  <2>3. Excused(t)' = Excused(t)
    BY <1>1, <1>6, Zenon DEF Excused
  <2> QED BY <1>1, <1>2, <1>3, <1>5, <1>6, <2>1, <2>2, <2>3, Unaffected, Zenon
<1>7. CASE t = call[h].topic
  <2>1. h \in Busy(t) /\ h \in members
    BY <1>1, <1>7, Zenon DEF Busy, Shape, Serving
  <2>2. CASE Excused(t) = Federates /\ \A g \in Busy(t) : call[g].overlapped
    <3>1. \A g \in Busy(t)' : call'[g] = call[g]
      BY <1>1, <1>2, <1>4, Zenon DEF Busy
    <3>2. Busy(t)' \subseteq Busy(t)
      BY <1>4, Zenon
    <3>3. Excused(t)' = Federates
      BY <1>1, <2>1, <2>2, SameViews, Zenon
    <3> QED BY <2>2, <3>1, <3>2, <3>3, CrowdTold, Zenon
  <2>3. CASE Busy(t) = {h} /\ Alone(h, t) /\ ~call[h].overlapped
    <3>1. /\ Subscribers(t) = IF call[h].op = "subscribe" THEN {h} ELSE {}
          /\ \A q \in Federates \ Excused(t) :
                q \notin out[h] => (q \in Started(t) <=> call[h].op = "subscribe")
      BY <1>1, <2>3, Zenon DEF Alone
    <3>2. Excused(t)' = Excused(t) \ {p}
      BY <1>1, <1>7, <2>3, Zenon DEF Excused
    <3>3. \A q \in Federates \ Excused(t)' :
             q \notin out[h] \ {p} => (q \in Started(t)' <=> call[h].op = "subscribe")
      BY <1>5, <1>7, <3>1, <3>2, Zenon
    <3>4. CASE out[h] = {p}
      <4>1. Busy(t)' = {}
        BY <1>4, <2>3, <3>4, Zenon
      <4>2. Known(t)'
        BY <1>1, <1>3, <2>1, <3>1, <3>3, <3>4 DEF Known
      <4> QED BY <4>1, <4>2, Zenon DEF Told
    <3>5. CASE out[h] # {p}
      <4>1. pc'[h] = "send" /\ call' = call /\ out'[h] = out[h] \ {p}
        BY <1>1, <3>5, Zenon DEF Shape, TypeOK
      <4>2. Alone(h, t)'
        BY <1>3, <3>1, <3>3, <4>1, Zenon DEF Alone
      <4> QED BY <1>4, <2>3, <3>5, <4>1, <4>2 DEF Told
    <3> QED BY <3>4, <3>5, Zenon
  <2> QED BY <2>1, <2>2, <2>3, Company, Zenon
<1> QED BY <1>6, <1>7, Zenon

\* Dropping a class excuses everybody.
LEMMA DropTold ==
    ASSUME Shape, Indexed, NEW h \in Federates, NEW c \in Classes, UnsubscribeObjectClass(h, c),
           NEW t \in Topics, Told(t)
    PROVE  Told(t)'
<1>1. /\ UNCHANGED <<members, by_interaction, pc, out, heard>>
      /\ excused' = excused \cup Federates \X {c}
      /\ call' = [g \in Federates |-> IF g \in Busy(c) THEN [call[g] EXCEPT !.overlapped = TRUE]
                                                       ELSE call[g]]
  BY Zenon DEF UnsubscribeObjectClass
<1>2. \A g \in Federates : /\ call'[g].topic = call[g].topic
                           /\ g \in Busy(c) => call'[g].overlapped
                           /\ g \notin Busy(c) => call'[g] = call[g]
  BY <1>1 DEF Shape, TypeOK, Calls
<1>3. Busy(t)' = Busy(t) /\ Started(t)' = Started(t)
  BY <1>1, <1>2, Zenon DEF Busy, Started
<1>4. CASE t # c
  <2>1. Subscribers(t)' = Subscribers(t)
    <3>1. CASE t \in Classes
      <4>1. \A g \in Federates : RowOf(by_attribute', g, t) = RowOf(by_attribute, g, t)
        BY <1>4, <3>1, DropShape
      <4> QED BY <3>1, <4>1, Zenon DEF Subscribers, InMatrix, Row, RowOf
    <3>2. CASE t \notin Classes
      BY <1>1, <3>2, Zenon DEF Subscribers, InMatrix
    <3> QED BY <3>1, <3>2, Zenon
  <2>2. Excused(t)' = Excused(t)
    BY <1>1, <1>4, Zenon DEF Excused
  <2>3. \A g \in Busy(t) : g \in Federates /\ g \notin Busy(c)
    BY <1>4, Zenon DEF Busy
  <2> QED BY <1>1, <1>2, <1>3, <2>1, <2>2, <2>3, Unaffected, Zenon
<1>5. CASE t = c
  <2>1. Excused(t)' = Federates
    BY <1>1, <1>5, Zenon DEF Excused
  <2>2. \A g \in Busy(t)' : call'[g].overlapped
    BY <1>2, <1>3, <1>5, Zenon DEF Busy
  <2> QED BY <2>1, <2>2, Zenon DEF Told, Known
<1> QED BY <1>4, <1>5, Zenon

\* A federate that resigns leaves its subscriptions behind; everybody is
\* excused from what they were to.
LEMMA ResignTold ==
    ASSUME Shape, NEW h \in Federates, Resign(h), NEW t \in Topics, Told(t)
    PROVE  Told(t)'
<1>1. /\ UNCHANGED <<by_attribute, by_interaction, pc, call, out, heard>>
      /\ members' = members \ {h}
      /\ excused' = excused \cup Federates \X {s \in Topics : InMatrix(h, s)}
  BY Zenon DEF Resign, matrixVars, callVars
<1>2. Subscribers(t)' = Subscribers(t) /\ Started(t)' = Started(t) /\ Busy(t)' = Busy(t)
  BY <1>1, SameViews, Zenon
<1>3. CASE InMatrix(h, t)
  <2>1. Excused(t)' = Federates
    BY <1>1, <1>3, Zenon DEF Excused
  <2>2. \A g : Alone(g, t) => Alone(g, t)'
    BY <1>1, <1>2, <2>1 DEF Alone, Known
  <2>3. Known(t)'
    BY <2>1, Zenon DEF Known
  <2> QED BY <1>1, <1>2, <2>1, <2>2, <2>3, Zenon DEF Told
<1>4. CASE ~InMatrix(h, t)
  <2>1. Excused(t)' = Excused(t) /\ h \notin Subscribers(t)
    BY <1>1, <1>4, Zenon DEF Excused, Subscribers
  <2>2. Subscribers(t) \subseteq members => Subscribers(t) \subseteq members'
    BY <1>1, <2>1, Zenon
  <2>3. Known(t) => Known(t)'
    BY <1>2, <2>1, <2>2, Zenon DEF Known
  <2>4. \A g : Alone(g, t) => Alone(g, t)'
    BY <1>1, <1>2, <2>1, <2>2, <2>3 DEF Alone
  <2> QED BY <1>1, <1>2, <2>1, <2>3, <2>4, Zenon DEF Told
<1> QED BY <1>3, <1>4, Zenon

\* Every step keeps what is told true.
LEMMA ToldStep ==
    Shape /\ Indexed /\ (\A t \in Topics : Told(t)) /\ [Next]_vars => \A t \in Topics : Told(t)'
<1> SUFFICES ASSUME Shape, Indexed, \A t \in Topics : Told(t), [Next]_vars, NEW t \in Topics
             PROVE  Told(t)'
  BY Zenon
<1>0. Told(t)
  OBVIOUS
<1>1. CASE UNCHANGED vars
  <2>1. UNCHANGED <<members, by_attribute, by_interaction, pc, call, out, heard, excused>>
    BY <1>1, Zenon DEF vars, recordVars, matrixVars, callVars, historyVars
  <2> QED BY <1>0, <2>1, SameViews, Unaffected, Zenon
<1>2. ASSUME NEW h \in Federates, Subscription(h)
      PROVE  Told(t)'
  <2>1. \A c \in Classes : c \in Topics
    BY Zenon DEF Topics
  <2>2. \A i \in Interactions : i \in Topics
    BY Zenon DEF Topics
  <2> QED BY <1>0, <1>2, <2>1, <2>2, StartTold, WriteTold, CheckTold, EmitTold, SendTold, DropTold, Zenon
         DEF Subscription
<1> QED BY <1>0, <1>1, <1>2, PublicationTold, ResignTold, Zenon DEF Next

\* AdvisoriesRight, for any federates and topics: a publisher that is not
\* excused last heard what is true of the topic, once no call is changing it.
THEOREM AdvisoriesAreRight == Spec => []AdvisoriesRight
<1> DEFINE AllTold == \A t \in Topics : Told(t)
<1>1. DeclInit => AllTold
  BY ToldInit, Zenon
<1>2. Shape /\ Indexed /\ AllTold /\ [Next]_vars => AllTold'
  BY ToldStep, Zenon
<1>3. Shape /\ AllTold => AdvisoriesRight
  <2> SUFFICES ASSUME Shape, AllTold, NEW p \in members, NEW t \in Topics,
                      Busy(t) = {}, <<p, t>> \notin excused
               PROVE  heard[p][t] = "start" <=> SomeMemberSubscribes(t)
    BY Zenon DEF AdvisoriesRight
  <2>1. p \in Federates \ Excused(t)
    BY Zenon DEF Shape, TypeOK, Excused
  <2>2. (p \in Started(t) <=> Subscribers(t) # {}) /\ Subscribers(t) \subseteq members
    BY <2>1, Zenon DEF Told, Known
  <2>3. Subscribers(t) # {} <=> SomeMemberSubscribes(t)
    BY <2>2, Zenon DEF Subscribers, SomeMemberSubscribes, Shape, TypeOK
  <2> QED BY <2>1, <2>2, <2>3, Zenon DEF Started
<1> HIDE DEF AllTold
<1> QED BY <1>1, <1>2, <1>3, AlwaysIndexed, PTL DEF Spec

-----------------------------------------------------------------------------
(* Directed interactions                                                   *)
(* Directed has a state of its own, which it shares with nothing above.    *)

\* The types of what the proof looks at.
DirectedTypes ==
    /\ joined \subseteq Federates
    /\ registrar \in [Classes -> Federates \cup {None}]
    /\ sending \in [Federates -> {"idle", "subscribers", "route", "sent"}]
    /\ sent \in [Federates -> [class : Classes \cup {None},
                              interaction : DirectedInteractions \cup {None}]]
    /\ \A f \in Federates : sending[f] # "idle" => sent[f].class \in Classes
    /\ targets \in [Federates -> SUBSET Federates]

\* Whom a send has collected is entitled, or has resigned.
CollectedEntitled ==
    \A f \in Federates :
      /\ sending[f] \in {"subscribers", "route"} => targets[f] \cap joined \subseteq ever[f]
      /\ sending[f] = "sent" => targets[f] \subseteq ever[f]

\* Who is entitled throughout has been collected, or is about to be: the one
\* who registered the instance, if it is still there, first.
EntitledCollected ==
    \A f \in Federates :
      /\ sending[f] = "subscribers" => registrar[sent[f].class] \in targets[f] \cup {f, None}
      /\ sending[f] \in {"route", "sent"} => always[f] \subseteq targets[f]

\* Every step keeps the types.
LEMMA DirectedTyped == DirectedTypes /\ [D!Next]_D!vars => DirectedTypes'
<1> SUFFICES ASSUME DirectedTypes, [D!Next]_D!vars
             PROVE  DirectedTypes'
  OBVIOUS
<1>1. ASSUME NEW f \in Federates, NEW c \in Classes, D!Declare(f, c)
      PROVE  DirectedTypes'
  BY <1>1, Zenon DEF DirectedTypes, D!Declare, D!Publish, D!Unpublish, D!Subscribe, D!Unsubscribe,
              D!fedVars, D!callVars
<1>2. ASSUME NEW f \in Federates, NEW c \in Classes, D!Delete(f, c)
      PROVE  DirectedTypes'
  BY <1>2, Zenon DEF DirectedTypes, D!Delete, D!callVars
<1>3. ASSUME NEW f \in Federates, NEW c \in Classes, NEW i \in DirectedInteractions,
             D!SendLooksUp(f, c, i)
      PROVE  DirectedTypes'
  BY <1>3, Zenon DEF DirectedTypes, D!SendLooksUp, D!fedVars
<1>4. ASSUME NEW f \in Federates, D!Resign(f) \/ D!Disconnect(f) \/ D!Resume(f)
      PROVE  DirectedTypes'
  BY <1>4, Zenon DEF DirectedTypes, D!Resign, D!Disconnect, D!Resume, D!callVars
<1>5. ASSUME NEW f \in Federates, D!Send(f)
      PROVE  DirectedTypes'
  <2>1. CASE D!SendCollects(f)
    BY <2>1, Zenon DEF DirectedTypes, D!SendCollects, D!Subscribers, D!fedVars
  <2>2. CASE D!SendRoutes(f)
    BY <2>2, Zenon DEF DirectedTypes, D!SendRoutes, D!Routed, D!fedVars
  <2>3. CASE D!SendEnds(f)
    BY <2>3, Zenon DEF DirectedTypes, D!SendEnds, D!NoCall, D!fedVars
  <2> QED BY <1>5, <2>1, <2>2, <2>3, Zenon DEF D!Send
<1>6. CASE UNCHANGED D!vars
  BY <1>6, Zenon DEF DirectedTypes, D!vars, D!fedVars, D!callVars
<1> QED BY <1>1, <1>2, <1>3, <1>4, <1>5, <1>6, Zenon DEF D!Next, D!Request

\* Members only leave, and an instance only goes.
LEMMA DirectedFrame ==
    ASSUME DirectedTypes, D!Next
    PROVE  /\ joined' \subseteq joined
           /\ \A c \in Classes : registrar'[c] \in {registrar[c], None}
<1>1. PICK f \in Federates : D!Request(f) \/ D!Send(f)
  BY Zenon DEF D!Next
<1>2. CASE D!Send(f)
  BY <1>2, Zenon DEF D!Send, D!SendCollects, D!SendRoutes, D!SendEnds, D!fedVars
<1>3. ASSUME NEW c \in Classes, D!Declare(f, c) \/ D!Delete(f, c)
      PROVE  /\ joined' \subseteq joined
             /\ \A d \in Classes : registrar'[d] \in {registrar[d], None}
  BY <1>3, Zenon DEF DirectedTypes, D!Delete, D!Declare, D!Publish, D!Unpublish, D!Subscribe,
              D!Unsubscribe, D!fedVars
<1>4. CASE \E c \in Classes, i \in DirectedInteractions : D!SendLooksUp(f, c, i)
  BY <1>4, Zenon DEF D!SendLooksUp, D!fedVars
<1>5. CASE D!Resign(f) \/ D!Disconnect(f) \/ D!Resume(f)
  BY <1>5, Zenon DEF D!Resign, D!Disconnect, D!Resume
<1> QED BY <1>1, <1>2, <1>3, <1>4, <1>5, Zenon DEF D!Request

\* A step is of one of the locks of f's send, or leaves that send alone.
LEMMA DirectedCases ==
    ASSUME DirectedTypes, D!Next, NEW f \in Federates
    PROVE  \/ sending'[f] = sending[f] /\ sent'[f] = sent[f] /\ targets'[f] = targets[f]
           \/ \E c \in Classes, i \in DirectedInteractions : D!SendLooksUp(f, c, i)
           \/ D!Send(f)
<1>1. PICK g \in Federates : D!Request(g) \/ D!Send(g)
  BY Zenon DEF D!Next
<1>2. CASE g = f /\ D!Send(g)
  BY <1>2, Zenon
<1>3. CASE g # f /\ D!Send(g)
  BY <1>3 DEF DirectedTypes, D!Send, D!SendCollects, D!SendRoutes, D!SendEnds
<1>4. ASSUME NEW c \in Classes, NEW i \in DirectedInteractions, g # f, D!SendLooksUp(g, c, i)
      PROVE  sending'[f] = sending[f] /\ sent'[f] = sent[f] /\ targets'[f] = targets[f]
  BY <1>4, Zenon DEF DirectedTypes, D!SendLooksUp
<1>5. ASSUME NEW c \in Classes, D!Declare(g, c) \/ D!Delete(g, c)
      PROVE  UNCHANGED <<sending, sent, targets>>
  BY <1>5, Zenon DEF D!Delete, D!Declare, D!Publish, D!Unpublish, D!Subscribe, D!Unsubscribe, D!callVars
<1>6. CASE D!Resign(g) \/ D!Disconnect(g) \/ D!Resume(g)
  BY <1>6, Zenon DEF D!Resign, D!Disconnect, D!Resume, D!callVars
<1> QED BY <1>1, <1>2, <1>3, <1>4, <1>5, <1>6, Zenon DEF D!Request

\* What the history takes down while a call is under way.
LEMMA Observed ==
    ASSUME D!Next, NEW f \in Federates, sending'[f] # "idle"
    PROVE  /\ ever[f] \subseteq ever'[f]
           /\ sending[f] # "sent" => /\ D!Entitled(f)' \subseteq ever'[f]
                                     /\ always'[f] \subseteq D!Entitled(f)' \cap connected'
           /\ sending[f] # "idle" => always'[f] \subseteq always[f]
BY Zenon DEF D!Next, D!Observe

\* Whom a call that is under way is for after a step.
LEMMA EntitledThen ==
    ASSUME NEW f \in Federates, sending'[f] # "idle"
    PROVE  D!Entitled(f)' = (({registrar[sent[f].class]} \cap joined)
                             \cup D!Subscribers(sent[f].class, sent[f].interaction))' \ {f}
BY Zenon DEF D!Entitled, D!Subscribers

\* A step keeps what has been collected within bounds, from below and above.
LEMMA DirectedStep ==
    ASSUME None \notin Federates, DirectedTypes, DirectedTypes',
           CollectedEntitled, EntitledCollected, D!Next
    PROVE  CollectedEntitled' /\ EntitledCollected'
<1> DEFINE Good(f) ==
      /\ sending[f] \in {"subscribers", "route"} => targets[f] \cap joined \subseteq ever[f]
      /\ sending[f] = "sent" => targets[f] \subseteq ever[f]
      /\ sending[f] = "subscribers" => registrar[sent[f].class] \in targets[f] \cup {f, None}
      /\ sending[f] \in {"route", "sent"} => always[f] \subseteq targets[f]
<1> SUFFICES ASSUME NEW f \in Federates, sending'[f] # "idle"
             PROVE  Good(f)'
  BY Zenon DEF CollectedEntitled, EntitledCollected
<1>1. Good(f)
  BY Zenon DEF CollectedEntitled, EntitledCollected
<1>2. /\ ever[f] \subseteq ever'[f]
      /\ sending[f] # "sent" => /\ D!Entitled(f)' \subseteq ever'[f]
                                /\ always'[f] \subseteq D!Entitled(f)' \cap connected'
      /\ sending[f] # "idle" => always'[f] \subseteq always[f]
  BY Observed, Zenon
<1>3. D!Entitled(f)' = (({registrar[sent[f].class]} \cap joined)
                          \cup D!Subscribers(sent[f].class, sent[f].interaction))' \ {f}
  BY EntitledThen, Zenon
<1>4. joined' \subseteq joined /\ \A c \in Classes : registrar'[c] \in {registrar[c], None}
  BY DirectedFrame, Zenon
<1>5. CASE sending'[f] = sending[f] /\ sent'[f] = sent[f] /\ targets'[f] = targets[f]
  <2>1. sent[f].class \in Classes
    BY <1>5, Zenon DEF DirectedTypes
  <2> QED BY <1>1, <1>2, <1>4, <1>5, <2>1, Zenon
<1>6. ASSUME NEW c \in Classes, NEW i \in DirectedInteractions, D!SendLooksUp(f, c, i)
      PROVE  Good(f)'
  <2>1. /\ sending[f] = "idle" /\ sending'[f] = "subscribers" /\ sent'[f].class = c
        /\ targets'[f] = {registrar[c]} \ {f} /\ UNCHANGED <<registrar, joined>>
    BY <1>6 DEF DirectedTypes, D!SendLooksUp, D!Ready, D!fedVars
  <2> QED BY <1>2, <1>3, <2>1, Zenon
<1>7. CASE D!SendCollects(f)
  <2>1. /\ sending[f] = "subscribers" /\ sending'[f] = "route" /\ sent'[f] = sent[f]
        /\ UNCHANGED <<registrar, joined>>
        /\ targets'[f] = targets[f] \cup (D!Subscribers(sent[f].class, sent[f].interaction) \ {f})
        /\ D!Subscribers(sent[f].class, sent[f].interaction)' =
              D!Subscribers(sent[f].class, sent[f].interaction)
    BY <1>7, Zenon DEF DirectedTypes, D!SendCollects, D!fedVars, D!declVars, D!Subscribers
  <2>2. targets'[f] \cap joined' \subseteq ever'[f]
    BY <1>1, <1>2, <1>3, <2>1, Zenon
  <2>3. joined \subseteq Federates
    BY Zenon DEF DirectedTypes
  <2>4. always'[f] \subseteq targets'[f]
    BY <1>1, <1>2, <1>3, <2>1, <2>3
  <2> QED BY <2>1, <2>2, <2>4, Zenon
<1>8. CASE D!SendRoutes(f)
  <2>1. /\ sending[f] = "route" /\ sending'[f] = "sent" /\ sent'[f] = sent[f]
        /\ UNCHANGED <<joined, connected>>
        /\ targets'[f] = targets[f] \cap joined \cap connected
    BY <1>8 DEF DirectedTypes, D!SendRoutes, D!Routed, D!fedVars
  <2>2. D!Entitled(f)' \subseteq joined'
    BY <1>3, Zenon DEF D!Subscribers
  <2> QED BY <1>1, <1>2, <2>1, <2>2, Zenon
<1>9. ~ D!SendEnds(f)
  BY Zenon DEF DirectedTypes, D!SendEnds
<1> QED BY <1>5, <1>6, <1>7, <1>8, <1>9, DirectedCases, Zenon DEF D!Send

\* DirectedExact of Directed, for any federates, classes and interactions: a
\* directed interaction goes to whoever is entitled to it throughout the call
\* and to nobody who never was, whatever the sessions do between the three
\* locks of send_directed_interaction.
THEOREM DirectedIsExact ==
    ASSUME None \notin Federates
    PROVE  D!Spec => []DirectedExact
<1> DEFINE I == DirectedTypes /\ CollectedEntitled /\ EntitledCollected
<1>1. D!Init => I
  BY DEF DirectedTypes, CollectedEntitled, EntitledCollected, D!Init, D!NoCall
<1>2. I /\ [D!Next]_D!vars => I'
  <2> SUFFICES ASSUME I, [D!Next]_D!vars
               PROVE  I'
    OBVIOUS
  <2>1. CASE D!Next
    BY <2>1, DirectedTyped, DirectedStep, Zenon
  <2>2. CASE UNCHANGED D!vars
    BY <2>2, Zenon DEF DirectedTypes, CollectedEntitled, EntitledCollected, D!vars, D!fedVars, D!callVars
  <2> QED BY <2>1, <2>2, Zenon
<1>3. I => DirectedExact
  BY Zenon DEF DirectedExact, CollectedEntitled, EntitledCollected, D!DirectedExact, D!DirectedOnlyToEntitled,
         D!DirectedReachesEntitled
<1> QED BY <1>1, <1>2, <1>3, PTL DEF D!Spec
====
