----------------------------- MODULE Regions -----------------------------
(***************************************************************************)
(* Data distribution management: the life of regions (ddm_lifecycle.rs),   *)
(* subscriptions and registrations with regions (restore.rs), and the      *)
(* filter an update passes (ddm_matching.rs, data_flow.rs), for one class  *)
(* and at most one instance of it.                                         *)
(*                                                                         *)
(* A handler is as many steps as it takes locks, and the sessions of the   *)
(* federates interleave between the steps.  Discovery and the sending of   *)
(* callbacks are in Objects, the start and stop advisories in Declaration. *)
(***************************************************************************)
EXTENDS Boxes, Sequences, FiniteSets

CONSTANTS
    Federates,     \* handles of the federates that have joined
    Publishers,    \* those that publish the class, and may register
    Consumers,     \* those that subscribe
    Attributes,    \* attributes of the class
    MaxRegion,     \* bound on the region handles drawn
    Creator,       \* region -> who created it, if it was created before
    RegionSets,    \* sets of regions that calls name
    MaxRequests,   \* bound on the calls made
    None

Regions == 1 .. MaxRegion

ASSUME ConstantsAssumption ==
    /\ MaxRegion \in Nat
    /\ MaxRequests \in Nat
    /\ Publishers \subseteq Federates
    /\ Consumers \subseteq Federates
    /\ Creator \in [Regions -> Federates]
    /\ RegionSets \subseteq SUBSET Regions

VARIABLES
    members,          \* keys of Federation.federates
    regions,          \* Federation.regions
    next_region_id,   \* Federation.next_region_id
    subscribed,       \* SubscriptionMatrix: federate -> attributes
    sub_regions,      \* PubSubState.subscribed_attrs_regions
    instance,         \* the ObjectInstance: its registrar and attribute_regions
    pc,               \* where the handler of a session is
    call,             \* the call a handler serves, and what it has read
    requests,         \* calls made so far
    plain             \* attributes subscribed to without regions (history)

worldVars == <<members, regions, next_region_id, subscribed, sub_regions, instance>>
vars == <<worldVars, pc, call, requests, plain>>

RegionRecords == [owner : Federates, committed : Boxes, staged : Boxes]

RegionMaps == [Attributes -> SUBSET Regions]

NoRegions == [a \in Attributes |-> {}]

NoCall == [op |-> "none", attrs |-> {}, pairs |-> NoRegions, rows |-> [f \in Federates |-> {}],
           todo |-> {}, matched |-> {}, must |-> {}, may |-> {}]

\* Regions may have been created, set and committed before, and attributes
\* subscribed to without regions.
Init ==
    /\ members = Federates
    /\ \E n \in 0 .. MaxRegion :
         /\ next_region_id = n + 1
         /\ regions \in {rs \in [Regions -> {None} \cup RegionRecords] :
                           \A r \in Regions : IF r > n THEN rs[r] = None
                                              ELSE /\ rs[r] # None
                                                   /\ rs[r].owner = Creator[r]
                                                   /\ rs[r].staged = rs[r].committed}
    /\ subscribed \in {sub \in [Federates -> SUBSET Attributes] :
                         \A f \in Federates \ Consumers : sub[f] = {}}
    /\ plain = subscribed
    /\ sub_regions = [f \in Federates |-> NoRegions]
    /\ instance = None
    /\ pc = [h \in Federates |-> "idle"]
    /\ call = [h \in Federates |-> NoCall]
    /\ requests = 0

-----------------------------------------------------------------------------
Exists(r) == regions[r] # None

Ask(h) == /\ h \in members
          /\ pc[h] = "idle"
          /\ requests < MaxRequests
          /\ requests' = requests + 1

Goto(h, step) == pc' = [pc EXCEPT ![h] = step]

Finish(h) == /\ Goto(h, "idle")
             /\ call' = [call EXCEPT ![h] = NoCall]

Unrestricted(dims) == [d \in dims |-> <<0, MaxBound>>]

\* create_region: a dimension starts with its full range.
CreateRegion(h, dims) ==
    /\ Ask(h)
    /\ next_region_id \in Regions
    /\ next_region_id' = next_region_id + 1
    /\ regions' = [regions EXCEPT ![next_region_id] =
                     [owner |-> h, committed |-> Unrestricted(dims), staged |-> Unrestricted(dims)]]
    /\ UNCHANGED <<members, subscribed, sub_regions, instance, pc, call, plain>>

\* The check of set_range_bounds.
BoundsAccepted(lower, upper) == lower <= upper

With(box, d, range) == [e \in DOMAIN box \cup {d} |-> IF e = d THEN range ELSE box[e]]

\* set_range_bounds: any dimension, one the region was not created with too.
SetRangeBounds(h, r, d, lower, upper) ==
    /\ Ask(h)
    /\ BoundsAccepted(lower, upper)
    /\ Exists(r)
    /\ regions[r].owner = h
    /\ regions' = [regions EXCEPT ![r].staged = With(@, d, <<lower, upper>>)]
    /\ UNCHANGED <<members, next_region_id, subscribed, sub_regions, instance, pc, call, plain>>

\* The regions that commit_region_modifications gets to: it walks the list,
\* passes over those that are gone, and stops at the first of somebody else.
Committed(h, list) ==
    {list[i] : i \in {i \in DOMAIN list :
                        /\ Exists(list[i])
                        /\ \A j \in 1 .. i : Exists(list[j]) => regions[list[j]].owner = h}}

CommitRegionModifications(h, list) ==
    /\ Ask(h)
    /\ regions' = [r \in Regions |-> IF r \in Committed(h, list)
                                       THEN [regions[r] EXCEPT !.committed = regions[r].staged]
                                       ELSE regions[r]]
    /\ UNCHANGED <<members, next_region_id, subscribed, sub_regions, instance, pc, call, plain>>

DeleteRegion(h, r) ==
    /\ Ask(h)
    /\ Exists(r)
    /\ regions[r].owner = h
    /\ regions' = [regions EXCEPT ![r] = None]
    /\ UNCHANGED <<members, next_region_id, subscribed, sub_regions, instance, pc, call, plain>>

-----------------------------------------------------------------------------
\* Attributes and regions of a call (decode_attr_region_pairs): each attribute
\* named gets the same regions, which need not exist nor be the caller's.
Pairs(attrs, rs) == [a \in Attributes |-> IF a \in attrs THEN rs ELSE {}]

\* subscribe_object_class_attributes_with_regions: the federate's own record,
SubscribeWithRegions(h, attrs, rs) ==
    /\ Ask(h)
    /\ sub_regions' = [sub_regions EXCEPT ![h] =
                         [a \in Attributes |-> @[a] \cup Pairs(attrs, rs)[a]]]
    /\ call' = [call EXCEPT ![h] = [NoCall EXCEPT !.op = "subscribe", !.attrs = attrs]]
    /\ Goto(h, "matrix")
    /\ UNCHANGED <<members, regions, next_region_id, subscribed, instance, plain>>

\* then the matrix.
SubscribeMatrix(h) ==
    /\ pc[h] = "matrix"
    /\ subscribed' = [subscribed EXCEPT ![h] = @ \cup call[h].attrs]
    /\ Finish(h)
    /\ UNCHANGED <<members, regions, next_region_id, sub_regions, instance, requests, plain>>

\* unsubscribe_object_class_attributes_with_regions: the matrix keeps the row.
UnsubscribeWithRegions(h, attrs, rs) ==
    /\ Ask(h)
    /\ sub_regions' = [sub_regions EXCEPT ![h] =
                         [a \in Attributes |-> @[a] \ Pairs(attrs, rs)[a]]]
    /\ UNCHANGED <<members, regions, next_region_id, subscribed, instance, pc, call, plain>>

\* Subscriptions without regions leave subscribed_attrs_regions as it is.
Subscribe(h, attrs) ==
    /\ Ask(h)
    /\ subscribed' = [subscribed EXCEPT ![h] = @ \cup attrs]
    /\ plain' = [plain EXCEPT ![h] = @ \cup attrs]
    /\ UNCHANGED <<members, regions, next_region_id, sub_regions, instance, pc, call>>

Unsubscribe(h, attrs) ==
    /\ Ask(h)
    /\ subscribed' = [subscribed EXCEPT ![h] = @ \ attrs]
    /\ plain' = [plain EXCEPT ![h] = @ \ attrs]
    /\ UNCHANGED <<members, regions, next_region_id, sub_regions, instance, pc, call>>

\* register_object_instance_with_regions: the instance is there for all to see,
RegisterWithRegions(h, attrs, rs) ==
    /\ Ask(h)
    /\ h \in Publishers
    /\ instance = None
    /\ instance' = [registrar |-> h, regions |-> NoRegions]
    /\ call' = [call EXCEPT ![h] = [NoCall EXCEPT !.op = "register", !.pairs = Pairs(attrs, rs)]]
    /\ Goto(h, "attach")
    /\ UNCHANGED <<members, regions, next_region_id, subscribed, sub_regions, plain>>

\* and gets its regions afterwards.
RegisterAttach(h) ==
    /\ pc[h] = "attach"
    /\ instance' = IF instance = None THEN None
                   ELSE [instance EXCEPT !.regions = call[h].pairs]
    /\ Finish(h)
    /\ UNCHANGED <<members, regions, next_region_id, subscribed, sub_regions, requests, plain>>

\* delete_object_instance, which anybody may call.
DeleteInstance(h) ==
    /\ Ask(h)
    /\ instance # None
    /\ \A g \in Federates : pc[g] # "attach"   \* before that its handle is not known
    /\ instance' = None
    /\ UNCHANGED <<members, regions, next_region_id, subscribed, sub_regions, pc, call, plain>>

\* resign: neither the matrix nor the regions are cleaned up.
Resign(h) ==
    /\ Ask(h)
    /\ members' = members \ {h}
    /\ UNCHANGED <<regions, next_region_id, subscribed, sub_regions, instance, pc, call, plain>>

-----------------------------------------------------------------------------
(* update_attribute_values, by the registrar of the instance.              *)

UpdateChecks(h, attrs) ==
    /\ Ask(h)
    /\ instance # None
    /\ instance.registrar = h
    /\ call' = [call EXCEPT ![h] = [NoCall EXCEPT !.op = "update", !.attrs = attrs, !.todo = attrs]]
    /\ Goto(h, "route")
    /\ UNCHANGED <<worldVars, plain>>

\* subscribers_for_attributes: the subscribers to one of the attributes.
UpdateRoutes(h) ==
    /\ pc[h] = "route"
    /\ call' = [call EXCEPT ![h].rows = [f \in Federates |->
                  IF f = h THEN {} ELSE subscribed[f] \cap call[h].attrs]]
    /\ Goto(h, "filter")
    /\ UNCHANGED <<worldVars, requests, plain>>

Subscribers(h) == {f \in Federates : call[h].rows[f] # {}}

\* OverlapAny as it would be if only an unrestricted update went to all.
OverlapAnyStrict(pub, sub) ==
    \/ pub = {}
    \/ \E p \in pub, s \in sub :
         /\ Exists(p) /\ Exists(s)
         /\ Overlap(regions[p].committed, regions[s].committed)

\* regions_overlap_any: no regions on one side match everything.
OverlapAny(pub, sub) ==
    \/ pub = {}
    \/ sub = {}
    \/ \E p \in pub, s \in sub :
         /\ Exists(p) /\ Exists(s)
         /\ Overlap(regions[p].committed, regions[s].committed)

\* filter_subscribers_by_regions, which asks all the subscribers, whether they
\* subscribe to this attribute or to another one of the update.
Filter(subscribers, a) ==
    IF instance = None THEN {}
    ELSE IF instance.regions[a] = {} THEN subscribers
    ELSE {f \in subscribers \cap members : OverlapAny(instance.regions[a], sub_regions[f][a])}

\* Reference: f subscribes to a without regions, or a is updated without, or
\* a point of the routing space is in a region of each.
Wants(f, a) ==
    \/ a \in plain[f]
    \/ instance.regions[a] = {}
    \/ \E p \in instance.regions[a], s \in sub_regions[f][a] :
         /\ Exists(p) /\ Exists(s)
         /\ Meet(regions[p].committed, regions[s].committed)

\* (History: f subscribed to a without regions and has regions from another
\* subscription, or subscribed with regions and has withdrawn them all.)
Narrowed(f, a) == a \in plain[f] /\ sub_regions[f][a] # {}

Widened(f, a) == a \notin plain[f] /\ sub_regions[f][a] = {}

UpdateFilters(h, a) ==
    LET wanting == IF instance = None THEN {}
                   ELSE {f \in members : a \in call[h].rows[f] /\ Wants(f, a)}
    IN  /\ pc[h] = "filter"
        /\ a \in call[h].todo
        /\ call' = [call EXCEPT
             ![h].todo = @ \ {a},
             ![h].matched = @ \cup Filter(Subscribers(h), a),
             ![h].must = @ \cup {f \in wanting : ~ Narrowed(f, a)},
             ![h].may = @ \cup wanting \cup {f \in Federates : a \in call[h].rows[f] /\ Widened(f, a)}]
        /\ Goto(h, IF call[h].todo = {a} THEN "fan_out" ELSE "filter")
        /\ UNCHANGED <<worldVars, requests, plain>>

\* live_connections and fan_out.
UpdateFansOut(h) ==
    /\ pc[h] = "fan_out"
    /\ Finish(h)
    /\ UNCHANGED <<worldVars, requests, plain>>
-----------------------------------------------------------------------------
Lifecycle(h) ==
    \/ \E dims \in SUBSET Dimensions : CreateRegion(h, dims)
    \/ \E r \in Regions, d \in Dimensions, lower, upper \in Bounds :
         SetRangeBounds(h, r, d, lower, upper)
    \/ \E r, q \in Regions : CommitRegionModifications(h, <<r, q>>)
    \/ \E r \in Regions : DeleteRegion(h, r)

Subscription(h) ==
    \/ \E attrs \in (SUBSET Attributes) \ {{}} : h \in Consumers /\
         \/ \E rs \in RegionSets : \/ SubscribeWithRegions(h, attrs, rs)
                                       \/ UnsubscribeWithRegions(h, attrs, rs)
         \/ Subscribe(h, attrs)
         \/ Unsubscribe(h, attrs)
    \/ SubscribeMatrix(h)

Instance(h) ==
    \/ \E attrs \in (SUBSET Attributes) \ {{}}, rs \in RegionSets : RegisterWithRegions(h, attrs, rs)
    \/ RegisterAttach(h)
    \/ DeleteInstance(h)
    \/ Resign(h)

Update(h) ==
    \/ \E attrs \in (SUBSET Attributes) \ {{}} : UpdateChecks(h, attrs)
    \/ UpdateRoutes(h)
    \/ \E a \in Attributes : UpdateFilters(h, a)
    \/ UpdateFansOut(h)

Next == \E h \in Federates : Lifecycle(h) \/ Subscription(h) \/ Instance(h) \/ Update(h)

Spec == Init /\ [][Next]_vars
-----------------------------------------------------------------------------
Calls == [op : {"none", "subscribe", "register", "update"}, attrs : SUBSET Attributes,
          pairs : RegionMaps, rows : [Federates -> SUBSET Attributes], todo : SUBSET Attributes,
          matched : SUBSET Federates, must : SUBSET Federates, may : SUBSET Federates]

\* The types of the state; the bounds of a range are in order, staged or
\* committed (set_range_bounds).
TypeOK ==
    /\ members \subseteq Federates
    /\ regions \in [Regions -> {None} \cup RegionRecords]
    /\ next_region_id \in 1 .. MaxRegion + 1
    /\ subscribed \in [Federates -> SUBSET Attributes]
    /\ plain \in [Federates -> SUBSET Attributes]
    /\ sub_regions \in [Federates -> RegionMaps]
    /\ instance \in {None} \cup [registrar : Federates, regions : RegionMaps]
    /\ pc \in [Federates -> {"idle", "matrix", "attach", "route", "filter", "fan_out"}]
    /\ call \in [Federates -> Calls]
    /\ requests \in 0 .. MaxRequests

\* regions_overlap_any's comparison of bounds finds exactly the pairs of
\* regions that have a point in common, whatever dimensions each of them has.
OverlapsRight ==
    \A r, q \in Regions :
      Exists(r) /\ Exists(q) =>
        (Overlap(regions[r].committed, regions[q].committed)
           <=> Meet(regions[r].committed, regions[q].committed))

\* Whoever the filter lets an update through to wants one of its attributes
\* there, but for two cases: the update has an attribute the federate does not
\* subscribe to (the filter asks for each attribute of the update whether
\* that federate's regions exclude it, and it has none for this one), or the
\* federate has withdrawn its last region (which lifts the restriction).
NoStrayUpdates ==
    \A h \in Federates : pc[h] = "fan_out" =>
      \A f \in call[h].matched \cap members : f \in call[h].may \/ call[h].rows[f] # call[h].attrs

\* No subscriber that wants one of the attributes is filtered out while it is
\* a member and the instance exists, unless regions of a subscription with
\* regions are still on record for one it made without (subscribing and
\* unsubscribing without regions leaves them).
NoMissedUpdates ==
    \A h \in Federates : pc[h] = "fan_out" => call[h].must \subseteq call[h].matched

\* The filter lets an update through to whoever wants it and to nobody else,
\* however regions and subscriptions change while it works, but for the cases
\* named.
FilterExact == NoStrayUpdates /\ NoMissedUpdates
=============================================================================
