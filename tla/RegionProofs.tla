-------------------------- MODULE RegionProofs --------------------------
(***************************************************************************)
(* Proofs about Regions: the overlap test of two regions and the filter of *)
(* updates built on it are right, for every number of dimensions, regions  *)
(* and federates and all bounds; the test needs the bounds of a range to   *)
(* be in order, which is part of TypeOK.                                   *)
(***************************************************************************)
EXTENDS Regions, TLAPS

\* The bounds of a range, in order.
LEMMA RangeBounds ==
    ASSUME NEW range \in Ranges
    PROVE  range[1] \in Bounds /\ range[2] \in Bounds /\ range[1] <= range[2]
  BY Zenon DEF Ranges

\* What a box says of one of its dimensions.
LEMMA BoxRange ==
    ASSUME NEW box \in Boxes, NEW d \in DOMAIN box
    PROVE  d \in Dimensions /\ box[d] \in Ranges
  BY Zenon DEF Boxes

\* regions_overlap_any compares bounds of shared dimensions only; two regions
\* pass the test exactly when some point of the routing space is in both.
THEOREM OverlapIsIntersection ==
    ASSUME NEW p \in Boxes, NEW s \in Boxes
    PROVE  Overlap(p, s) <=> Meet(p, s)
<1>1. ASSUME Meet(p, s)
      PROVE  Overlap(p, s)
  <2>1. PICK point \in [Dimensions -> Bounds] : Holds(p, point) /\ Holds(s, point)
    BY <1>1, Zenon DEF Meet
  <2>2. SUFFICES ASSUME NEW d \in DOMAIN p \cap DOMAIN s
                 PROVE  p[d][1] <= s[d][2] /\ s[d][1] <= p[d][2]
    BY Zenon DEF Overlap
  <2>3. d \in Dimensions /\ p[d] \in Ranges /\ s[d] \in Ranges
    BY BoxRange, Zenon
  <2>4. /\ p[d][1] \in Bounds /\ p[d][2] \in Bounds
        /\ s[d][1] \in Bounds /\ s[d][2] \in Bounds
    BY <2>3, RangeBounds, Zenon
  <2>5. /\ p[d][1] <= point[d] /\ point[d] <= p[d][2]
        /\ s[d][1] <= point[d] /\ point[d] <= s[d][2]
    BY <2>1, Zenon DEF Holds
  <2>6. point[d] \in Bounds
    BY <2>3, Zenon
  <2> QED
    BY <2>4, <2>5, <2>6, MaxBoundAssumption DEF Bounds
<1>2. ASSUME Overlap(p, s)
      PROVE  Meet(p, s)
  <2> DEFINE Later(d) == IF p[d][1] <= s[d][1] THEN s[d][1] ELSE p[d][1]
             point == [d \in Dimensions |->
                         IF d \in DOMAIN p
                           THEN IF d \in DOMAIN s THEN Later(d) ELSE p[d][1]
                           ELSE IF d \in DOMAIN s THEN s[d][1] ELSE 0]
  <2>1. ASSUME NEW d \in DOMAIN p
        PROVE  d \in Dimensions /\ p[d][1] \in Bounds /\ p[d][2] \in Bounds /\ p[d][1] <= p[d][2]
    BY BoxRange, RangeBounds, Zenon
  <2>2. ASSUME NEW d \in DOMAIN s
        PROVE  d \in Dimensions /\ s[d][1] \in Bounds /\ s[d][2] \in Bounds /\ s[d][1] <= s[d][2]
    BY BoxRange, RangeBounds, Zenon
  <2>3. 0 \in Bounds
    BY MaxBoundAssumption DEF Bounds
  <2>4. point \in [Dimensions -> Bounds]
    BY <2>1, <2>2, <2>3, Zenon
  <2>5. Holds(p, point)
    <3>1. SUFFICES ASSUME NEW d \in DOMAIN p
                   PROVE  p[d][1] <= point[d] /\ point[d] <= p[d][2]
      BY Zenon DEF Holds
    <3>2. CASE d \in DOMAIN s
      <4>1. point[d] = Later(d)
        BY <3>2, <2>1, Zenon
      <4>2. s[d][1] <= p[d][2]
        BY <1>2, <3>2, Zenon DEF Overlap
      <4> QED
        BY <4>1, <4>2, <2>1, <2>2, <3>2, MaxBoundAssumption DEF Bounds
    <3>3. CASE d \notin DOMAIN s
      <4>1. point[d] = p[d][1]
        BY <3>3, <2>1, Zenon
      <4> QED
        BY <4>1, <2>1, MaxBoundAssumption DEF Bounds
    <3> QED
      BY <3>2, <3>3, Zenon
  <2>6. Holds(s, point)
    <3>1. SUFFICES ASSUME NEW d \in DOMAIN s
                   PROVE  s[d][1] <= point[d] /\ point[d] <= s[d][2]
      BY Zenon DEF Holds
    <3>2. CASE d \in DOMAIN p
      <4>1. point[d] = Later(d)
        BY <3>2, <2>2, Zenon
      <4>2. p[d][1] <= s[d][2]
        BY <1>2, <3>2, Zenon DEF Overlap
      <4> QED
        BY <4>1, <4>2, <2>1, <2>2, <3>2, MaxBoundAssumption DEF Bounds
    <3>3. CASE d \notin DOMAIN p
      <4>1. point[d] = s[d][1]
        BY <3>3, <2>2, Zenon
      <4> QED
        BY <4>1, <2>2, MaxBoundAssumption DEF Bounds
    <3> QED
      BY <3>2, <3>3, Zenon
  <2> QED
    BY <2>4, <2>5, <2>6, Zenon DEF Meet
<1> QED
  BY <1>1, <1>2, Zenon

-----------------------------------------------------------------------------
(* TypeOK is inductive.                                                    *)

\* The full range is one.
LEMMA UnrestrictedBox ==
    ASSUME NEW dims \in SUBSET Dimensions
    PROVE  Unrestricted(dims) \in Boxes
<1>1. <<0, MaxBound>> \in Ranges
  BY MaxBoundAssumption DEF Ranges, Bounds
<1> QED
  BY <1>1 DEF Unrestricted, Boxes

\* What set_range_bounds stages is a box again.
LEMMA StagedBox ==
    ASSUME NEW box \in Boxes, NEW d \in Dimensions, NEW lower \in Bounds, NEW upper \in Bounds,
           BoundsAccepted(lower, upper)
    PROVE  With(box, d, <<lower, upper>>) \in Boxes
<1>1. <<lower, upper>> \in Ranges
  BY Zenon DEF BoundsAccepted, Ranges
<1>2. DOMAIN box \cup {d} \in SUBSET Dimensions
  BY BoxRange, Zenon
<1>3. \A e \in DOMAIN box : box[e] \in Ranges
  BY BoxRange, Zenon
<1> DEFINE dims == DOMAIN box \cup {d}
           staged == [e \in dims |-> IF e = d THEN <<lower, upper>> ELSE box[e]]
<1>4. staged \in [dims -> Ranges]
  BY <1>1, <1>3, Zenon
<1>5. [dims -> Ranges] \in {[ds -> Ranges] : ds \in SUBSET Dimensions}
  BY <1>2, Zenon
<1> QED
  BY <1>4, <1>5, Zenon DEF Boxes, With

\* The record of a call that has not begun.
LEMMA NoCallTyped == NoCall \in Calls
  BY Zenon DEF NoCall, Calls, RegionMaps, NoRegions

\* Initially.
LEMMA InitTyped == Init => TypeOK
<1> SUFFICES ASSUME Init PROVE TypeOK
  OBVIOUS
<1> USE ConstantsAssumption
<1>1. PICK n \in 0 .. MaxRegion : next_region_id = n + 1
  BY Zenon DEF Init
<1>2. next_region_id \in 1 .. MaxRegion + 1
  BY <1>1
<1>3. regions \in [Regions -> {None} \cup RegionRecords]
  BY Zenon DEF Init
<1>4. NoRegions \in RegionMaps
  BY Zenon DEF NoRegions, RegionMaps
<1>5. sub_regions \in [Federates -> RegionMaps]
  BY <1>4, Zenon DEF Init
<1>6. call \in [Federates -> Calls]
  BY NoCallTyped, Zenon DEF Init
<1>7. requests \in 0 .. MaxRequests
  BY DEF Init
<1> QED
  BY <1>2, <1>3, <1>5, <1>6, <1>7, Zenon DEF Init, TypeOK

\* A session takes up a call.
LEMMA AskTyped ==
    ASSUME TypeOK, NEW h \in Federates, Ask(h)
    PROVE  requests' \in 0 .. MaxRequests
  BY ConstantsAssumption DEF TypeOK, Ask

\* A session is done with its call.
LEMMA FinishTyped ==
    ASSUME TypeOK, NEW h \in Federates, Finish(h)
    PROVE  /\ pc' \in [Federates -> {"idle", "matrix", "attach", "route", "filter", "fan_out"}]
           /\ call' \in [Federates -> Calls]
  BY NoCallTyped, Zenon DEF TypeOK, Finish, Goto

\* The regions of a call.
LEMMA PairsTyped ==
    ASSUME NEW attrs \in SUBSET Attributes, NEW rs \in RegionSets
    PROVE  Pairs(attrs, rs) \in RegionMaps
  BY ConstantsAssumption, Zenon DEF Pairs, RegionMaps

\* Creating, setting, committing and deleting regions.
LEMMA LifecycleTyped ==
    ASSUME TypeOK, NEW h \in Federates, Lifecycle(h)
    PROVE  TypeOK'
<1> USE ConstantsAssumption
<1>1. ASSUME NEW dims \in SUBSET Dimensions, CreateRegion(h, dims)
      PROVE  TypeOK'
  <2>1. Unrestricted(dims) \in Boxes
    BY UnrestrictedBox, Zenon
  <2>2. next_region_id \in Regions
    BY <1>1, Zenon DEF CreateRegion
  <2> DEFINE region == [owner |-> h, committed |-> Unrestricted(dims), staged |-> Unrestricted(dims)]
  <2>3. region \in RegionRecords
    BY <2>1, Zenon DEF RegionRecords
  <2>4. regions' = [regions EXCEPT ![next_region_id] = region]
    BY <1>1, Zenon DEF CreateRegion
  <2>5. regions' \in [Regions -> {None} \cup RegionRecords]
    BY <2>2, <2>3, <2>4, Zenon DEF TypeOK
  <2>6. next_region_id' \in 1 .. MaxRegion + 1
    BY <1>1, <2>2 DEF CreateRegion, Regions
  <2>7. requests' \in 0 .. MaxRequests
    BY <1>1, AskTyped, Zenon DEF CreateRegion
  <2> QED
    BY <1>1, <2>5, <2>6, <2>7, Zenon DEF CreateRegion, TypeOK
<1>2. ASSUME NEW r \in Regions, NEW d \in Dimensions, NEW lower \in Bounds, NEW upper \in Bounds,
             SetRangeBounds(h, r, d, lower, upper)
      PROVE  TypeOK'
  <2>1. regions[r] \in RegionRecords
    BY <1>2, Zenon DEF SetRangeBounds, Exists, TypeOK
  <2> DEFINE staged == With(regions[r].staged, d, <<lower, upper>>)
  <2>2. staged \in Boxes
    <3>1. regions[r].staged \in Boxes
      BY <2>1, Zenon DEF RegionRecords
    <3>2. BoundsAccepted(lower, upper)
      BY <1>2, Zenon DEF SetRangeBounds
    <3> QED
      BY <3>1, <3>2, StagedBox, Zenon
  <2>3. regions' = [regions EXCEPT ![r].staged = staged]
    BY <1>2, Zenon DEF SetRangeBounds
  <2>4. [regions[r] EXCEPT !.staged = staged] \in RegionRecords
    BY <2>1, <2>2, Zenon DEF RegionRecords
  <2>5. regions' \in [Regions -> {None} \cup RegionRecords]
    BY <2>3, <2>4, Zenon DEF TypeOK
  <2>6. requests' \in 0 .. MaxRequests
    BY <1>2, AskTyped, Zenon DEF SetRangeBounds
  <2> QED
    BY <1>2, <2>5, <2>6, Zenon DEF SetRangeBounds, TypeOK
<1>3. ASSUME NEW r \in Regions, NEW q \in Regions, CommitRegionModifications(h, <<r, q>>)
      PROVE  TypeOK'
  <2>1. \A c \in Committed(h, <<r, q>>) : Exists(c)
    BY Zenon DEF Committed
  <2>2. \A c \in Regions : c \in Committed(h, <<r, q>>) =>
          [regions[c] EXCEPT !.committed = regions[c].staged] \in RegionRecords
    <3> SUFFICES ASSUME NEW c \in Regions, c \in Committed(h, <<r, q>>)
                 PROVE  [regions[c] EXCEPT !.committed = regions[c].staged] \in RegionRecords
      OBVIOUS
    <3>1. regions[c] \in RegionRecords
      BY <2>1, Zenon DEF Exists, TypeOK
    <3> QED
      BY <3>1, Zenon DEF RegionRecords
  <2>3. regions' = [c \in Regions |-> IF c \in Committed(h, <<r, q>>)
                                        THEN [regions[c] EXCEPT !.committed = regions[c].staged]
                                        ELSE regions[c]]
    BY <1>3, Zenon DEF CommitRegionModifications
  <2>4. regions' \in [Regions -> {None} \cup RegionRecords]
    BY <2>2, <2>3, Zenon DEF TypeOK
  <2>5. requests' \in 0 .. MaxRequests
    BY <1>3, AskTyped, Zenon DEF CommitRegionModifications
  <2> QED
    BY <1>3, <2>4, <2>5, Zenon DEF CommitRegionModifications, TypeOK
<1>4. ASSUME NEW r \in Regions, DeleteRegion(h, r)
      PROVE  TypeOK'
  <2>1. regions' \in [Regions -> {None} \cup RegionRecords]
    BY <1>4, Zenon DEF DeleteRegion, TypeOK
  <2>2. requests' \in 0 .. MaxRequests
    BY <1>4, AskTyped, Zenon DEF DeleteRegion
  <2> QED
    BY <1>4, <2>1, <2>2, Zenon DEF DeleteRegion, TypeOK
<1> QED
  BY <1>1, <1>2, <1>3, <1>4, Zenon DEF Lifecycle

\* Subscribing and unsubscribing.
LEMMA SubscriptionTyped ==
    ASSUME TypeOK, NEW h \in Federates, Subscription(h)
    PROVE  TypeOK'
<1> USE ConstantsAssumption
<1>1. ASSUME NEW attrs \in SUBSET Attributes, NEW rs \in RegionSets, SubscribeWithRegions(h, attrs, rs)
      PROVE  TypeOK'
  <2>1. sub_regions' \in [Federates -> RegionMaps]
    BY <1>1, PairsTyped DEF SubscribeWithRegions, RegionMaps, TypeOK
  <2>2. [NoCall EXCEPT !.op = "subscribe", !.attrs = attrs] \in Calls
    BY NoCallTyped, Zenon DEF Calls
  <2>3. call' \in [Federates -> Calls]
    BY <1>1, <2>2, Zenon DEF SubscribeWithRegions, TypeOK
  <2>4. requests' \in 0 .. MaxRequests
    BY <1>1, AskTyped, Zenon DEF SubscribeWithRegions
  <2> QED
    BY <1>1, <2>1, <2>3, <2>4, Zenon DEF SubscribeWithRegions, Goto, TypeOK
<1>2. ASSUME NEW attrs \in SUBSET Attributes, NEW rs \in RegionSets, UnsubscribeWithRegions(h, attrs, rs)
      PROVE  TypeOK'
  <2>1. sub_regions' \in [Federates -> RegionMaps]
    BY <1>2 DEF UnsubscribeWithRegions, RegionMaps, TypeOK
  <2>2. requests' \in 0 .. MaxRequests
    BY <1>2, AskTyped, Zenon DEF UnsubscribeWithRegions
  <2> QED
    BY <1>2, <2>1, <2>2, Zenon DEF UnsubscribeWithRegions, TypeOK
<1>3. ASSUME NEW attrs \in SUBSET Attributes, Subscribe(h, attrs) \/ Unsubscribe(h, attrs)
      PROVE  TypeOK'
  <2>1. subscribed' \in [Federates -> SUBSET Attributes] /\ plain' \in [Federates -> SUBSET Attributes]
    BY <1>3 DEF Subscribe, Unsubscribe, TypeOK
  <2>2. requests' \in 0 .. MaxRequests
    BY <1>3, AskTyped, Zenon DEF Subscribe, Unsubscribe
  <2> QED
    BY <1>3, <2>1, <2>2, Zenon DEF Subscribe, Unsubscribe, TypeOK
<1>4. ASSUME SubscribeMatrix(h)
      PROVE  TypeOK'
  <2>1. call[h].attrs \in SUBSET Attributes
    BY Zenon DEF Calls, TypeOK
  <2>2. subscribed' \in [Federates -> SUBSET Attributes]
    BY <1>4, <2>1, Zenon DEF SubscribeMatrix, TypeOK
  <2> QED
    BY <1>4, <2>2, FinishTyped, Zenon DEF SubscribeMatrix, TypeOK
<1> QED
  BY <1>1, <1>2, <1>3, <1>4, Zenon DEF Subscription

\* Registering, deleting and resigning.
LEMMA InstanceTyped ==
    ASSUME TypeOK, NEW h \in Federates, Instance(h)
    PROVE  TypeOK'
<1> USE ConstantsAssumption
<1>1. ASSUME NEW attrs \in SUBSET Attributes, NEW rs \in RegionSets, RegisterWithRegions(h, attrs, rs)
      PROVE  TypeOK'
  <2>1. [NoCall EXCEPT !.op = "register", !.pairs = Pairs(attrs, rs)] \in Calls
    BY NoCallTyped, PairsTyped, Zenon DEF Calls
  <2>2. call' \in [Federates -> Calls]
    BY <1>1, <2>1, Zenon DEF RegisterWithRegions, TypeOK
  <2>3. instance' \in [registrar : Federates, regions : RegionMaps]
    BY <1>1, Zenon DEF RegisterWithRegions, NoRegions, RegionMaps
  <2>4. requests' \in 0 .. MaxRequests
    BY <1>1, AskTyped, Zenon DEF RegisterWithRegions
  <2> QED
    BY <1>1, <2>2, <2>3, <2>4, Zenon DEF RegisterWithRegions, Goto, TypeOK
<1>2. ASSUME RegisterAttach(h)
      PROVE  TypeOK'
  <2>1. call[h].pairs \in RegionMaps
    BY Zenon DEF Calls, TypeOK
  <2>2. instance' \in {None} \cup [registrar : Federates, regions : RegionMaps]
    BY <1>2, <2>1, Zenon DEF RegisterAttach, TypeOK
  <2> QED
    BY <1>2, <2>2, FinishTyped, Zenon DEF RegisterAttach, TypeOK
<1>3. ASSUME DeleteInstance(h) \/ Resign(h)
      PROVE  TypeOK'
  <2>1. requests' \in 0 .. MaxRequests
    BY <1>3, AskTyped, Zenon DEF DeleteInstance, Resign
  <2> QED
    BY <1>3, <2>1, Zenon DEF DeleteInstance, Resign, TypeOK
<1> QED
  BY <1>1, <1>2, <1>3, Zenon DEF Instance

\* Updating.
LEMMA UpdateTyped ==
    ASSUME TypeOK, NEW h \in Federates, Update(h)
    PROVE  TypeOK'
<1> USE ConstantsAssumption
<1>1. ASSUME NEW attrs \in SUBSET Attributes, UpdateChecks(h, attrs)
      PROVE  TypeOK'
  <2>1. [NoCall EXCEPT !.op = "update", !.attrs = attrs, !.todo = attrs] \in Calls
    BY NoCallTyped, Zenon DEF Calls
  <2>2. call' \in [Federates -> Calls]
    BY <1>1, <2>1, Zenon DEF UpdateChecks, TypeOK
  <2>3. requests' \in 0 .. MaxRequests
    BY <1>1, AskTyped, Zenon DEF UpdateChecks
  <2> QED
    BY <1>1, <2>2, <2>3, Zenon DEF UpdateChecks, Goto, worldVars, TypeOK
<1>2. ASSUME UpdateRoutes(h)
      PROVE  TypeOK'
  <2> DEFINE rows == [f \in Federates |-> IF f = h THEN {} ELSE subscribed[f] \cap call[h].attrs]
  <2>1. rows \in [Federates -> SUBSET Attributes]
    BY Zenon DEF TypeOK
  <2>2. call' = [call EXCEPT ![h].rows = rows]
    BY <1>2, Zenon DEF UpdateRoutes
  <2>3. [call[h] EXCEPT !.rows = rows] \in Calls
    <3>1. call[h] \in Calls
      BY Zenon DEF TypeOK
    <3> HIDE DEF rows
    <3> QED
      BY <2>1, <3>1, Zenon DEF Calls
  <2>4. call' \in [Federates -> Calls]
    BY <2>2, <2>3, Zenon DEF TypeOK
  <2> QED
    BY <1>2, <2>4, Zenon DEF UpdateRoutes, Goto, worldVars, TypeOK
<1>3. ASSUME NEW a \in Attributes, UpdateFilters(h, a)
      PROVE  TypeOK'
  <2> DEFINE wanting == IF instance = None THEN {}
                        ELSE {f \in members : a \in call[h].rows[f] /\ Wants(f, a)}
             todo == call[h].todo \ {a}
             matched == call[h].matched \cup Filter(Subscribers(h), a)
             must == call[h].must \cup {f \in wanting : ~ Narrowed(f, a)}
             may == call[h].may \cup wanting
                      \cup {f \in Federates : a \in call[h].rows[f] /\ Widened(f, a)}
  <2>1. call' = [call EXCEPT ![h].todo = todo, ![h].matched = matched,
                             ![h].must = must, ![h].may = may]
    BY <1>3, Zenon DEF UpdateFilters
  <2>2. Filter(Subscribers(h), a) \subseteq Federates
    BY Zenon DEF Filter, Subscribers
  <2>3. wanting \subseteq Federates
    BY Zenon DEF TypeOK
  <2>4. call[h] \in Calls
    BY Zenon DEF TypeOK
  <2>5. /\ todo \in SUBSET Attributes /\ matched \in SUBSET Federates
        /\ must \in SUBSET Federates /\ may \in SUBSET Federates
    <3>1. /\ call[h].todo \subseteq Attributes /\ call[h].matched \subseteq Federates
          /\ call[h].must \subseteq Federates /\ call[h].may \subseteq Federates
      BY <2>4, Zenon DEF Calls
    <3> HIDE DEF wanting
    <3> QED
      BY <2>2, <2>3, <3>1, Zenon
  <2> HIDE DEF todo, matched, must, may
  <2>6. [call[h] EXCEPT !.todo = todo, !.matched = matched, !.must = must, !.may = may] \in Calls
    BY <2>4, <2>5, Zenon DEF Calls
  <2>7. call' \in [Federates -> Calls]
    BY <2>1, <2>6, Zenon DEF TypeOK
  <2> QED
    BY <1>3, <2>7, Zenon DEF UpdateFilters, Goto, worldVars, TypeOK
<1>4. ASSUME UpdateFansOut(h)
      PROVE  TypeOK'
  BY <1>4, FinishTyped, Zenon DEF UpdateFansOut, worldVars, TypeOK
<1> QED
  BY <1>1, <1>2, <1>3, <1>4, Zenon DEF Update

\* The state keeps its types; a range's bounds stay in order through
\* set_range_bounds and commit_region_modifications.
THEOREM RegionsTyped == Spec => []TypeOK
<1>1. TypeOK /\ [Next]_vars => TypeOK'
  <2> SUFFICES ASSUME TypeOK, [Next]_vars PROVE TypeOK'
    OBVIOUS
  <2>1. CASE Next
    BY <2>1, LifecycleTyped, SubscriptionTyped, InstanceTyped, UpdateTyped, Zenon DEF Next
  <2>2. CASE UNCHANGED vars
    BY <2>2, Zenon DEF vars, worldVars, TypeOK
  <2> QED
    BY <2>1, <2>2, Zenon
<1> QED
  BY InitTyped, <1>1, PTL DEF Spec

\* Regions are boxes, and for boxes the test is right.
LEMMA OverlapsTyped == TypeOK => OverlapsRight
<1> SUFFICES ASSUME TypeOK, NEW r \in Regions, NEW q \in Regions, Exists(r), Exists(q)
             PROVE  Overlap(regions[r].committed, regions[q].committed)
                      <=> Meet(regions[r].committed, regions[q].committed)
  BY Zenon DEF OverlapsRight
<1>1. regions[r] \in RegionRecords /\ regions[q] \in RegionRecords
  BY Zenon DEF Exists, TypeOK
<1>2. regions[r].committed \in Boxes /\ regions[q].committed \in Boxes
  BY <1>1, Zenon DEF RegionRecords
<1> QED
  BY <1>2, OverlapIsIntersection, Zenon

\* regions_overlap_any is right about every two regions of every state.
THEOREM OverlapsAreRight == Spec => []OverlapsRight
  BY RegionsTyped, OverlapsTyped, PTL

-----------------------------------------------------------------------------
(* The filter.                                                             *)

\* A handler that filters has kept everybody the filter must keep and, of those
\* that subscribe to every attribute of the update, nobody it must not; the
\* attributes it has yet to ask for are attributes of the update.
FilterInvAt(h) ==
    /\ call[h].must \subseteq call[h].matched
    /\ pc[h] = "route" => call[h].todo = call[h].attrs /\ call[h].matched = {}
    /\ pc[h] \in {"filter", "fan_out"} =>
         /\ call[h].todo \subseteq call[h].attrs
         /\ \A f \in call[h].matched \cap members :
              f \in call[h].may \/ call[h].rows[f] # call[h].attrs

FilterInv == \A h \in Federates : FilterInvAt(h)

\* Federates only leave; a handler that does not move keeps its part.
LEMMA FilterFrame ==
    ASSUME NEW g \in Federates, FilterInvAt(g),
           pc'[g] = pc[g], call'[g] = call[g], members' \subseteq members
    PROVE  FilterInvAt(g)'
  BY Zenon DEF FilterInvAt

\* A handler that returns, or that starts a call, has matched nobody.
LEMMA FilterFresh ==
    ASSUME NEW h \in Federates,
           pc'[h] \in {"idle", "matrix", "attach", "route"},
           call'[h].must = {}, call'[h].matched = {}, call'[h].todo = call'[h].attrs
    PROVE  FilterInvAt(h)'
  BY Zenon DEF FilterInvAt

\* The test a subscriber's regions pass is the one that Wants refers to.
LEMMA OverlapAnyMeets ==
    ASSUME TypeOK, instance # None, NEW f \in Federates, NEW a \in Attributes
    PROVE  OverlapAny(instance.regions[a], sub_regions[f][a])
             <=> \/ instance.regions[a] = {} \/ sub_regions[f][a] = {}
                 \/ \E p \in instance.regions[a], s \in sub_regions[f][a] :
                      /\ Exists(p) /\ Exists(s)
                      /\ Meet(regions[p].committed, regions[s].committed)
<1>1. instance.regions[a] \subseteq Regions /\ sub_regions[f][a] \subseteq Regions
  BY DEF TypeOK, RegionMaps
<1>2. \A p, s \in Regions : Exists(p) /\ Exists(s) =>
        (Overlap(regions[p].committed, regions[s].committed)
           <=> Meet(regions[p].committed, regions[s].committed))
  BY OverlapsTyped, Zenon DEF OverlapsRight
<1> QED
  BY <1>1, <1>2, Zenon DEF OverlapAny

\* One attribute more: whoever must get the update passes, and whoever passes
\* and subscribes to the attribute may get it.
LEMMA FilterOne ==
    ASSUME TypeOK, NEW h \in Federates, NEW a \in Attributes, instance # None,
           NEW f \in members
    PROVE  /\ a \in call[h].rows[f] /\ Wants(f, a) /\ ~ Narrowed(f, a)
                => f \in Filter(Subscribers(h), a)
           /\ a \in call[h].rows[f] /\ f \in Filter(Subscribers(h), a)
                => Wants(f, a) \/ Widened(f, a)
<1>0. f \in Federates
  BY Zenon DEF TypeOK
<1>1. a \in call[h].rows[f] => f \in Subscribers(h)
  BY <1>0, Zenon DEF Subscribers
<1>2. CASE instance.regions[a] = {}
  BY <1>1, <1>2, Zenon DEF Filter, Wants
<1>3. CASE instance.regions[a] # {}
  <2>1. f \in Filter(Subscribers(h), a)
          <=> f \in Subscribers(h) /\ OverlapAny(instance.regions[a], sub_regions[f][a])
    BY <1>3, Zenon DEF Filter
  <2> QED
    BY <1>0, <1>1, <1>3, <2>1, OverlapAnyMeets, Zenon DEF Wants, Narrowed, Widened
<1> QED
  BY <1>2, <1>3, Zenon

\* One round of the filter.
LEMMA UpdateFiltersInv ==
    ASSUME TypeOK, NEW h \in Federates, NEW a \in Attributes, FilterInvAt(h), UpdateFilters(h, a)
    PROVE  FilterInvAt(h)'
<1> DEFINE wanting == IF instance = None THEN {}
                      ELSE {f \in members : a \in call[h].rows[f] /\ Wants(f, a)}
           widened == {f \in Federates : a \in call[h].rows[f] /\ Widened(f, a)}
           passed  == Filter(Subscribers(h), a)
           c == call[h]
           n == call'[h]
<1>1. /\ pc[h] = "filter" /\ a \in c.todo /\ members' = members
      /\ pc'[h] \in {"filter", "fan_out"}
  BY Zenon DEF UpdateFilters, TypeOK, Goto, worldVars
<1>2. /\ n.todo = c.todo \ {a}
      /\ n.matched = c.matched \cup passed
      /\ n.must = c.must \cup {f \in wanting : ~ Narrowed(f, a)}
      /\ n.may = c.may \cup wanting \cup widened
      /\ n.rows = c.rows /\ n.attrs = c.attrs
  <2>1. c \in Calls
    BY Zenon DEF TypeOK
  <2>2. call' = [call EXCEPT
             ![h].todo = @ \ {a},
             ![h].matched = @ \cup passed,
             ![h].must = @ \cup {f \in wanting : ~ Narrowed(f, a)},
             ![h].may = @ \cup wanting \cup widened]
    BY Zenon DEF UpdateFilters
  <2> HIDE DEF wanting, widened, passed
  <2> QED
    BY <2>1, <2>2, Zenon DEF TypeOK, Calls
<1>3. \A f \in members : f \in Federates
  BY Zenon DEF TypeOK
<1>4. {f \in wanting : ~ Narrowed(f, a)} \subseteq passed
  BY FilterOne, Zenon
<1>5. ASSUME NEW f \in passed \cap members, c.rows[f] = c.attrs
      PROVE  f \in wanting \/ f \in widened
  <2>1. instance # None
    BY <1>5, Zenon DEF Filter
  <2>2. a \in c.rows[f]
    BY <1>1, <1>5, Zenon DEF FilterInvAt
  <2>3. Wants(f, a) \/ Widened(f, a)
    BY <1>5, <2>1, <2>2, FilterOne, Zenon
  <2> QED
    BY <1>3, <2>1, <2>2, <2>3, Zenon
<1> HIDE DEF wanting, widened, passed, c, n
<1>6. n.must \subseteq n.matched
  BY <1>2, <1>4, Zenon DEF FilterInvAt, c
<1>7. n.todo \subseteq n.attrs
  BY <1>1, <1>2, Zenon DEF FilterInvAt, c
<1>8. \A f \in n.matched \cap members : f \in n.may \/ n.rows[f] # n.attrs
  BY <1>1, <1>2, <1>5, Zenon DEF FilterInvAt, c
<1> QED
  BY <1>1, <1>6, <1>7, <1>8, Zenon DEF FilterInvAt, n

\* Only the session's own handler moves its call.
LEMMA OthersStay ==
    ASSUME TypeOK, NEW h \in Federates, Lifecycle(h) \/ Subscription(h) \/ Instance(h) \/ Update(h)
    PROVE  /\ members' \subseteq members
           /\ \A g \in Federates \ {h} : pc'[g] = pc[g] /\ call'[g] = call[g]
<1>1. CASE Lifecycle(h)
  BY <1>1, Zenon DEF Lifecycle, CreateRegion, SetRangeBounds, CommitRegionModifications, DeleteRegion
<1>2. CASE Subscription(h)
  BY <1>2, Zenon DEF Subscription, SubscribeWithRegions, SubscribeMatrix, UnsubscribeWithRegions,
     Subscribe, Unsubscribe, Goto, Finish, TypeOK
<1>3. CASE Instance(h)
  BY <1>3 DEF Instance, RegisterWithRegions, RegisterAttach, DeleteInstance, Resign, Goto,
     Finish, TypeOK
<1>4. CASE Update(h)
  BY <1>4, Zenon DEF Update, UpdateChecks, UpdateRoutes, UpdateFilters, UpdateFansOut, Goto, Finish,
     worldVars, TypeOK
<1> QED
  BY <1>1, <1>2, <1>3, <1>4, Zenon

\* Returning leaves no call.
LEMMA FinishFresh ==
    ASSUME TypeOK, NEW h \in Federates, Finish(h)
    PROVE  FilterInvAt(h)'
<1>1. pc'[h] = "idle" /\ call'[h] = NoCall
  BY Zenon DEF TypeOK, Finish, Goto
<1>2. NoCall.must = {} /\ NoCall.matched = {} /\ NoCall.todo = NoCall.attrs
  BY Zenon DEF NoCall
<1> QED
  BY <1>1, <1>2, FilterFresh, Zenon

\* The handler's own part is kept by each of its steps.
LEMMA OwnPart ==
    ASSUME TypeOK, NEW h \in Federates, FilterInvAt(h),
           Lifecycle(h) \/ Subscription(h) \/ Instance(h) \/ Update(h)
    PROVE  FilterInvAt(h)'
<1>0. members' \subseteq members
  BY OthersStay, Zenon
<1>1. CASE UNCHANGED <<pc, call>>
  BY <1>0, <1>1, FilterFrame, Zenon
<1>2. CASE Finish(h)
  BY <1>2, FinishFresh, Zenon
<1>3. CASE Lifecycle(h)
  BY <1>1, <1>3, Zenon DEF Lifecycle, CreateRegion, SetRangeBounds, CommitRegionModifications,
     DeleteRegion
<1>4. ASSUME NEW attrs \in SUBSET Attributes, NEW rs, SubscribeWithRegions(h, attrs, rs)
      PROVE  FilterInvAt(h)'
  <2>1. call'[h] = [NoCall EXCEPT !.op = "subscribe", !.attrs = attrs] /\ pc'[h] = "matrix"
    BY <1>4, Zenon DEF SubscribeWithRegions, Goto, TypeOK
  <2>2. call'[h].must = {} /\ call'[h].matched = {}
    BY <2>1, Zenon DEF NoCall
  <2> QED
    BY <2>1, <2>2, Zenon DEF FilterInvAt
<1>5. CASE Subscription(h)
  BY <1>1, <1>2, <1>4, <1>5, Zenon DEF Subscription, SubscribeMatrix, UnsubscribeWithRegions,
     Subscribe, Unsubscribe
<1>6. ASSUME NEW attrs \in SUBSET Attributes, NEW rs, RegisterWithRegions(h, attrs, rs)
      PROVE  FilterInvAt(h)'
  <2>1. /\ call'[h] = [NoCall EXCEPT !.op = "register", !.pairs = Pairs(attrs, rs)]
        /\ pc'[h] = "attach"
    BY <1>6, Zenon DEF RegisterWithRegions, Goto, TypeOK
  <2>2. call'[h].must = {} /\ call'[h].matched = {}
    BY <2>1, Zenon DEF NoCall
  <2> QED
    BY <2>1, <2>2, Zenon DEF FilterInvAt
<1>7. CASE Instance(h)
  BY <1>0, <1>1, <1>2, <1>6, <1>7, Zenon DEF Instance, RegisterAttach, DeleteInstance, Resign
<1>8. ASSUME NEW attrs \in SUBSET Attributes, UpdateChecks(h, attrs)
      PROVE  FilterInvAt(h)'
  <2>1. /\ call'[h] = [NoCall EXCEPT !.op = "update", !.attrs = attrs, !.todo = attrs]
        /\ pc'[h] = "route"
    BY <1>8, Zenon DEF UpdateChecks, Goto, TypeOK
  <2>2. call'[h].must = {} /\ call'[h].matched = {} /\ call'[h].todo = call'[h].attrs
    BY <2>1 DEF NoCall
  <2> QED
    BY <2>1, <2>2, FilterFresh, Zenon
<1>9. CASE UpdateRoutes(h)
  <2>1. /\ pc[h] = "route" /\ pc'[h] = "filter"
        /\ call'[h].must = call[h].must /\ call'[h].matched = call[h].matched
        /\ call'[h].todo = call[h].todo /\ call'[h].attrs = call[h].attrs
    BY <1>9 DEF UpdateRoutes, Goto, TypeOK, Calls
  <2> QED
    BY <2>1, Zenon DEF FilterInvAt
<1>10. CASE Update(h)
  BY <1>2, <1>8, <1>9, <1>10, UpdateFiltersInv, Zenon DEF Update, UpdateFansOut
<1> QED
  BY <1>3, <1>5, <1>7, <1>10, Zenon

\* Regions and subscriptions change while a handler filters; still whoever must
\* get the update does, and whoever gets it may, but for the cases FilterExact
\* names.
THEOREM FilterIsExact == Spec => []FilterExact
<1>1. Init => FilterInv
  <2> SUFFICES ASSUME Init, NEW h \in Federates PROVE FilterInvAt(h)
    BY Zenon DEF FilterInv
  <2> QED
    BY Zenon DEF Init, FilterInvAt, NoCall
<1>2. TypeOK /\ FilterInv /\ [Next]_vars => FilterInv'
  <2> SUFFICES ASSUME TypeOK, FilterInv, [Next]_vars, NEW g \in Federates
               PROVE  FilterInvAt(g)'
    BY Zenon DEF FilterInv
  <2>1. FilterInvAt(g)
    BY Zenon DEF FilterInv
  <2>2. CASE UNCHANGED vars
    BY <2>1, <2>2, FilterFrame, Zenon DEF vars, worldVars
  <2>3. ASSUME NEW h \in Federates, Lifecycle(h) \/ Subscription(h) \/ Instance(h) \/ Update(h)
        PROVE  FilterInvAt(g)'
    <3>1. CASE g = h
      BY <2>1, <2>3, <3>1, OwnPart, Zenon
    <3>2. CASE g # h
      BY <2>1, <2>3, <3>2, OthersStay, FilterFrame, Zenon
    <3> QED
      BY <3>1, <3>2, Zenon
  <2> QED
    BY <2>2, <2>3, Zenon DEF Next
<1>3. FilterInv => FilterExact
  BY Zenon DEF FilterInv, FilterInvAt, FilterExact, NoStrayUpdates, NoMissedUpdates
<1> QED
  BY <1>1, <1>2, <1>3, RegionsTyped, PTL DEF Spec
====
