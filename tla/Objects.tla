----------------------------- MODULE Objects -----------------------------
(***************************************************************************)
(* Object instances of one class in one federation: registration and       *)
(* discovery (dispatch/object_mgmt.rs), updates and deletion               *)
(* (data_flow.rs), ownership of attributes (ownership.rs) and local        *)
(* deletion (instance_lookup.rs).                                          *)
(*                                                                         *)
(* A handler is as many steps as it takes locks.  Its callbacks are queued *)
(* while it runs and sent after it has returned, batch by batch, to one    *)
(* federate at a time, before its session takes the next call; sessions    *)
(* interleave between all these steps.  Callbacks that only report who     *)
(* owns an attribute change nothing the RTI or a federate acts on here and *)
(* are left out.                                                           *)
(***************************************************************************)
EXTENDS Naturals, Sequences

CONSTANTS
    Federates,     \* handles of the federates that have joined
    Attributes,    \* attributes of the class
    Published,     \* federate -> the attributes it publishes, or None
    MaxObject,     \* bound on the object handles drawn
    Requested,     \* names that registrations ask for
    AutoName,      \* object -> "HLA" followed by its handle
    MaxRequests,   \* bound on the calls made
    None

Objects == 1 .. MaxObject

ASSUME MaxObjectAssumption == MaxObject \in Nat

\* None is not the handle of a federate.
ASSUME NoneAssumption == None \notin Federates

VARIABLES
    members,         \* keys of Federation.federates
    instances,       \* Federation.object_instances
    next_object_id,  \* Federation.next_object_id
    subscribed,      \* SubscriptionMatrix: federate -> attributes
    discovered,      \* PubSubState.discovered_instances
    pc,              \* where the handler of a session is
    call,            \* the call a handler serves, and what it has read
    out,             \* callbacks a session has still to send, in batches
    requests,        \* calls made so far
    known,           \* what each federate was told exists (history)
    early,           \* object -> who subscribed before it (history)
    crossed,         \* <<f, o>>: o was deleted by f, or during another call
    raced            \* names two registrations asked for at once (history)

worldVars == <<members, instances, next_object_id, subscribed, discovered>>
callVars == <<pc, call, out, requests>>
historyVars == <<known, early, crossed, raced>>
vars == <<worldVars, callVars, historyVars>>

Instances == [name : Requested \cup {AutoName[o] : o \in Objects},
              registrar : Federates,
              owners : [Attributes -> Federates \cup {None}]]

\* None is not an instance.
ASSUME InstanceAssumption == None \notin Instances

NoCall == [op |-> "none", obj |-> 0, name |-> None, attrs |-> {}, to |-> {},
           late |-> FALSE]

\* Federates may have subscribed before the first instance.
Init ==
    /\ members = Federates
    /\ instances = [o \in Objects |-> None]
    /\ next_object_id = 1
    /\ subscribed \in [Federates -> SUBSET Attributes]
    /\ discovered = [f \in Federates |-> {}]
    /\ pc = [h \in Federates |-> "idle"]
    /\ call = [h \in Federates |-> NoCall]
    /\ out = [h \in Federates |-> <<>>]
    /\ requests = 0
    /\ known = [f \in Federates |-> {}]
    /\ early = [o \in Objects |-> {}]
    /\ crossed = {}
    /\ raced = {}

-----------------------------------------------------------------------------
Exists(o) == instances[o] # None

Existing == {o \in Objects : Exists(o)}

Ask(h) == /\ h \in members
          /\ pc[h] = "idle"
          /\ requests < MaxRequests
          /\ requests' = requests + 1

\* The sessions with a call on o under way, their callbacks included.
Busy(o) == {h \in Federates : call[h].obj = o}

Goto(h, step) == pc' = [pc EXCEPT ![h] = step]

\* The handler has returned with these callbacks.
Return(h, due) ==
    /\ out' = [out EXCEPT ![h] = due]
    /\ IF due = <<>>
         THEN /\ Goto(h, "idle")
              /\ call' = [call EXCEPT ![h] = NoCall]
         ELSE /\ Goto(h, "send")
              /\ UNCHANGED call

\* The same callback to each of some federates; to nobody, it is none.
Batch(cb, to) == IF to = {} THEN <<>> ELSE <<[cb |-> cb, to |-> to]>>

\* subscribers_for_attributes: who subscribes to one of attrs, not the caller.
SubscribersFor(attrs, h) ==
    {f \in Federates \ {h} : subscribed[f] \cap attrs # {}}

\* NewlyDiscovered as it would be if insert's answer were ignored.
NewlyDiscoveredAgain(candidates, o) == candidates \cap members

\* Federates that are still members and did not know o are marked; the
\* callback goes to those.
NewlyDiscovered(candidates, o) ==
    {f \in candidates \cap members : o \notin discovered[f]}

Mark(candidates, o) ==
    discovered' = [f \in Federates |->
                     IF f \in candidates \cap members
                       THEN discovered[f] \cup {o} ELSE discovered[f]]

-----------------------------------------------------------------------------
(* register_object_instance.                                               *)

\* The class is published; the handle is drawn.
RegisterDraws(h, name) ==
    /\ Ask(h)
    /\ Published[h] # None
    /\ next_object_id \in Objects
    /\ next_object_id' = next_object_id + 1
    /\ call' = [call EXCEPT ![h] = [NoCall EXCEPT !.op = "register",
                                                  !.obj = next_object_id,
                                                  !.name = name]]
    /\ early' = [early EXCEPT ![next_object_id] = SubscribersFor(Attributes, h)]
    /\ Goto(h, IF name = None THEN "insert" ELSE "name")
    /\ UNCHANGED <<members, instances, subscribed, discovered, out, known,
                   crossed, raced>>

\* NameInUse as it would be if only names the RTI gave out were looked at.
NameInUseByRti(name) == \E o \in Existing : AutoName[o] = name

NameInUse(name) == \E o \in Existing : instances[o].name = name

\* A name was asked for and another instance has it: the handle is lost.
\* (History: another registration has passed this check with that name.)
RegisterName(h) ==
    /\ pc[h] = "name"
    /\ IF NameInUse(call[h].name)
         THEN /\ Return(h, <<>>)
              /\ UNCHANGED raced
         ELSE /\ Goto(h, "insert")
              /\ raced' = IF \E g \in Federates : /\ pc[g] = "insert"
                                                  /\ call[g].name = call[h].name
                            THEN raced \cup {call[h].name} ELSE raced
              /\ UNCHANGED <<call, out>>
    /\ UNCHANGED <<worldVars, requests, known, early, crossed>>

\* What the registrar publishes it owns; nobody owns the rest.
NewInstance(h) ==
    [name |-> IF call[h].name = None THEN AutoName[call[h].obj] ELSE call[h].name,
     registrar |-> h,
     owners |-> [a \in Attributes |-> IF a \in Published[h] THEN h ELSE None]]

RegisterInserts(h) ==
    /\ pc[h] = "insert"
    /\ instances' = [instances EXCEPT ![call[h].obj] = NewInstance(h)]
    /\ Goto(h, "candidates")
    /\ UNCHANGED <<members, next_object_id, subscribed, discovered, call, out,
                   requests, historyVars>>

\* notify_subscribers_of_registration: who subscribes to the class ...
RegisterCandidates(h) ==
    /\ pc[h] = "candidates"
    /\ call' = [call EXCEPT ![h].to = SubscribersFor(Attributes, h)]
    /\ Goto(h, "mark")
    /\ UNCHANGED <<worldVars, out, requests, historyVars>>

\* ... is marked and told.
RegisterMarks(h) ==
    /\ pc[h] = "mark"
    /\ call[h].op = "register"
    /\ Mark(call[h].to, call[h].obj)
    /\ Return(h, Batch("discover", NewlyDiscovered(call[h].to, call[h].obj)))
    /\ UNCHANGED <<members, instances, next_object_id, subscribed, requests,
                   historyVars>>

-----------------------------------------------------------------------------
(* update_attribute_values.                                                *)

OwnsAll(h, o, attrs) == \A a \in attrs : instances[o].owners[a] = h

\* The instance exists and the caller owns every attribute it names.
UpdateChecks(h, o, attrs) ==
    /\ Ask(h)
    /\ Exists(o)
    /\ OwnsAll(h, o, attrs)
    /\ call' = [call EXCEPT ![h] = [NoCall EXCEPT !.op = "update", !.obj = o,
                                                  !.attrs = attrs]]
    /\ Goto(h, "route")
    /\ UNCHANGED <<worldVars, out, historyVars>>

UpdateRoutes(h) ==
    /\ pc[h] = "route"
    /\ call' = [call EXCEPT ![h].to = SubscribersFor(call[h].attrs, h)]
    /\ Goto(h, "filter")
    /\ UNCHANGED <<worldVars, out, requests, historyVars>>

\* filter_subscribers_by_regions, once for each attribute.  An attribute
\* without regions keeps everybody, an instance that is gone nobody.
UpdateFilters(h) ==
    /\ pc[h] = "filter"
    /\ LET to == IF Exists(call[h].obj) THEN call[h].to ELSE {}
       IN  IF to = {} THEN Return(h, <<>>)
                      ELSE /\ Goto(h, "look")
                           /\ UNCHANGED <<call, out>>
    /\ UNCHANGED <<worldVars, requests, historyVars>>

\* notify_subscribers_of_registration_subset looks the name up; when the
\* instance is gone it returns, and the update is sent all the same.
UpdateLooks(h) ==
    /\ pc[h] = "look"
    /\ IF Exists(call[h].obj)
         THEN /\ Goto(h, "mark")
              /\ UNCHANGED <<call, out>>
         ELSE Return(h, Batch("reflect", call[h].to \cap members))
    /\ UNCHANGED <<worldVars, requests, historyVars>>

\* UpdateMarks as it would be if the update were queued first.
UpdateMarksReflectFirst(h) ==
    /\ pc[h] = "mark"
    /\ call[h].op = "update"
    /\ Mark(call[h].to, call[h].obj)
    /\ Return(h, Batch("reflect", call[h].to \cap members)
                   \o Batch("discover", NewlyDiscovered(call[h].to, call[h].obj)))
    /\ UNCHANGED <<members, instances, next_object_id, subscribed, requests,
                   historyVars>>

UpdateMarks(h) ==
    /\ pc[h] = "mark"
    /\ call[h].op = "update"
    /\ Mark(call[h].to, call[h].obj)
    /\ Return(h, Batch("discover", NewlyDiscovered(call[h].to, call[h].obj))
                   \o Batch("reflect", call[h].to \cap members))
    /\ UNCHANGED <<members, instances, next_object_id, subscribed, requests,
                   historyVars>>

-----------------------------------------------------------------------------
(* delete_object_instance.                                                 *)

\* (History: the calls on o that are under way come too late.)
DeleteRemoves(h, o) ==
    /\ Ask(h)
    /\ Exists(o)
    /\ instances[o].registrar = h
    /\ instances' = [instances EXCEPT ![o] = None]
    /\ known' = [known EXCEPT ![h] = @ \ {o}]
    /\ crossed' = crossed \cup (IF Busy(o) # {} THEN Federates ELSE {h}) \X {o}
    /\ call' = [g \in Federates |->
                  CASE g = h -> [NoCall EXCEPT !.op = "delete", !.obj = o]
                    [] g \in Busy(o) -> [call[g] EXCEPT !.late = TRUE]
                    [] OTHER -> call[g]]
    /\ Goto(h, "unmark")
    /\ UNCHANGED <<members, next_object_id, subscribed, discovered, out, early,
                   raced>>

\* Everybody else who had discovered it is told.  (The caller keeps its own
\* mark, if an update by another owner ever set it.)
HadDiscovered(h, o) == {f \in members \ {h} : o \in discovered[f]}

DeleteUnmarks(h) ==
    /\ pc[h] = "unmark"
    /\ LET o == call[h].obj
           to == HadDiscovered(h, o)
       IN  /\ discovered' = [f \in Federates |-> IF f \in to THEN discovered[f] \ {o}
                                                             ELSE discovered[f]]
           /\ Return(h, Batch("remove", to))
    /\ UNCHANGED <<members, instances, next_object_id, subscribed, requests,
                   historyVars>>

\* local_delete_object_instance: the federate forgets, nobody is told.
LocalDelete(h, o) ==
    /\ Ask(h)
    /\ o \in known[h]
    /\ discovered' = [discovered EXCEPT ![h] = @ \ {o}]
    /\ known' = [known EXCEPT ![h] = @ \ {o}]
    /\ early' = [early EXCEPT ![o] = @ \ {h}]
    /\ crossed' = IF Busy(o) # {} THEN crossed \cup {<<h, o>>} ELSE crossed
    /\ call' = [g \in Federates |->
                  IF g \in Busy(o) THEN [call[g] EXCEPT !.late = TRUE] ELSE call[g]]
    /\ UNCHANGED <<members, instances, next_object_id, subscribed, pc, out,
                   raced>>

-----------------------------------------------------------------------------
(* Ownership.  Each service is one section under the instances' lock.      *)

\* Acquired as it would be without the test for an owner.
AcquiredAnyway(owners, h, attrs) ==
    [a \in Attributes |-> IF a \in attrs THEN h ELSE owners[a]]

\* attribute_ownership_acquisition_if_available, and the negotiated
\* acquisition, which is the same here: what nobody owns.
Acquired(owners, h, attrs) ==
    [a \in Attributes |-> IF a \in attrs /\ owners[a] = None THEN h ELSE owners[a]]

Acquire(h, o, attrs) ==
    /\ Ask(h)
    /\ Exists(o)
    /\ instances' = [instances EXCEPT ![o].owners = Acquired(@, h, attrs)]
    /\ UNCHANGED <<members, next_object_id, subscribed, discovered, pc, call, out,
                   historyVars>>

\* unconditional_attribute_ownership_divestiture, and the two services that
\* fall back on it: what the caller owns.
Divested(owners, h, attrs) ==
    [a \in Attributes |-> IF a \in attrs /\ owners[a] = h THEN None ELSE owners[a]]

Divest(h, o, attrs) ==
    /\ Ask(h)
    /\ Exists(o)
    /\ instances' = [instances EXCEPT ![o].owners = Divested(@, h, attrs)]
    /\ UNCHANGED <<members, next_object_id, subscribed, discovered, pc, call, out,
                   historyVars>>

-----------------------------------------------------------------------------
(* The surroundings: subscriptions (module Declaration has the detail),    *)
(* resignation and the session loop.                                       *)

Subscribe(h, attrs) ==
    /\ Ask(h)
    /\ subscribed' = [subscribed EXCEPT ![h] = @ \cup attrs]
    /\ UNCHANGED <<members, instances, next_object_id, discovered, pc, call, out,
                   historyVars>>

Unsubscribe(h, attrs) ==
    /\ Ask(h)
    /\ subscribed' = [subscribed EXCEPT ![h] = @ \ attrs]
    /\ early' = [o \in Objects |-> IF subscribed[h] \subseteq attrs
                                     THEN early[o] \ {h} ELSE early[o]]
    /\ UNCHANGED <<members, instances, next_object_id, discovered, pc, call, out,
                   known, crossed, raced>>

\* The record goes; instances, owners and the matrix keep the handle.
Resign(h) ==
    /\ h \in members
    /\ pc[h] = "idle"
    /\ members' = members \ {h}
    /\ UNCHANGED <<instances, next_object_id, subscribed, discovered, callVars,
                   historyVars>>

Heard(f, cb, o) ==
    known' = [known EXCEPT ![f] = CASE cb = "discover" -> @ \cup {o}
                                    [] cb = "remove" -> @ \ {o}
                                    [] OTHER -> @]

\* The session loop sends one callback of the batch at the head.
Send(h, f) ==
    /\ pc[h] = "send"
    /\ f \in Head(out[h]).to
    /\ Heard(f, Head(out[h]).cb, call[h].obj)
    /\ Return(h, Batch(Head(out[h]).cb, Head(out[h]).to \ {f}) \o Tail(out[h]))
    /\ UNCHANGED <<worldVars, requests, early, crossed, raced>>

-----------------------------------------------------------------------------
Registration(h) ==
    \/ \E name \in Requested \cup {None} : RegisterDraws(h, name)
    \/ RegisterName(h)
    \/ RegisterInserts(h)
    \/ RegisterCandidates(h)
    \/ RegisterMarks(h)

Updating(h) ==
    \/ \E o \in Objects, attrs \in (SUBSET Attributes) \ {{}} :
          UpdateChecks(h, o, attrs)
    \/ UpdateRoutes(h)
    \/ UpdateFilters(h)
    \/ UpdateLooks(h)
    \/ UpdateMarks(h)

Deletion(h) ==
    \/ \E o \in Objects : DeleteRemoves(h, o) \/ LocalDelete(h, o)
    \/ DeleteUnmarks(h)

Ownership(h) ==
    \E o \in Objects, attrs \in (SUBSET Attributes) \ {{}} :
       Acquire(h, o, attrs) \/ Divest(h, o, attrs)

Surroundings(h) ==
    \/ \E attrs \in (SUBSET Attributes) \ {{}} : Subscribe(h, attrs) \/ Unsubscribe(h, attrs)
    \/ Resign(h)
    \/ \E f \in Federates : Send(h, f)

Next == \E h \in Federates : \/ Registration(h)
                             \/ Updating(h)
                             \/ Deletion(h)
                             \/ Ownership(h)
                             \/ Surroundings(h)

Spec == Init /\ [][Next]_vars

-----------------------------------------------------------------------------
Batches == [cb : {"discover", "reflect", "remove"}, to : SUBSET Federates]

Calls == [op : {"none", "register", "update", "delete"},
          obj : Objects \cup {0}, name : Requested \cup {None},
          attrs : SUBSET Attributes, to : SUBSET Federates, late : BOOLEAN]

\* Type correctness; an instance exists only under a handle that was drawn.
TypeOK ==
    /\ members \subseteq Federates
    /\ instances \in [Objects -> Instances \cup {None}]
    /\ \A o \in Existing : o < next_object_id
    /\ next_object_id \in 1 .. MaxObject + 1
    /\ subscribed \in [Federates -> SUBSET Attributes]
    /\ discovered \in [Federates -> SUBSET Objects]
    /\ pc \in [Federates -> {"idle", "name", "insert", "candidates", "mark",
                             "route", "filter", "look", "unmark", "send"}]
    /\ call \in [Federates -> Calls]
    /\ out \in [Federates -> Seq(Batches)]
    /\ known \in [Federates -> SUBSET Objects]
    /\ early \in [Objects -> SUBSET Federates]
    /\ crossed \subseteq Federates \X Objects

Updates(h, o, a) ==
    call[h].op = "update" /\ call[h].obj = o /\ a \in call[h].attrs

\* An attribute has one writer: while a federate's update of it is under way,
\* until its last reflection has been sent, no other federate's update of the
\* same attribute is, although ownership is checked once, at the start, and
\* may be divested and acquired at any time (update_attribute_values and the
\* ownership services take the lock one after the other).
SingleWriter ==
    \A g, h \in Federates, o \in Objects, a \in Attributes :
       Updates(g, o, a) /\ Updates(h, o, a) => g = h

\* Two instances share a name only if two registrations asked for it at the
\* same time, both passing the check before either inserts, or if one of them
\* asked for the name that the other, later, was given without asking
\* ("HLA" and its handle, which is not checked).
NamesUnique ==
    \A o, p \in Existing :
       (o # p /\ instances[o].name = instances[p].name)
         => \/ instances[o].name \in raced
            \/ instances[o].name \in {AutoName[o], AutoName[p]}

Due(h, cb, f) == \E i \in DOMAIN out[h] : out[h][i].cb = cb /\ f \in out[h][i].to

\* The sessions that have a callback on o to send to f.
Senders(cb, o, f) == {h \in Federates : call[h].obj = o /\ Due(h, cb, f)}

\* The mark in discovered_instances is exactly what the federate has been or
\* is about to be told: it is set if and only if one discoverObjectInstance is
\* on its way, and no second one, or the federate knows the instance and no
\* removeObjectInstance is on its way.  (Not for a federate and an instance
\* that it deleted itself, or that was deleted, or that it deleted locally,
\* while another session's call on the instance was under way.)
DiscoveryExact ==
    \A f \in members, o \in Objects : <<f, o>> \notin crossed =>
       /\ \A g, h \in Senders("discover", o, f) : g = h
       /\ o \in known[f] => Senders("discover", o, f) = {}
       /\ o \in discovered[f] <=> \/ Senders("discover", o, f) # {}
                                  \/ o \in known[f] /\ Senders("remove", o, f) = {}

\* Once no call on it is under way, no member knows an instance that does not
\* exist, unless it was deleted while another session's call on it was under
\* way, whose discovery may then come after the removal.
NoGhosts ==
    \A f \in members, o \in Objects :
       (o \in known[f] /\ Busy(o) = {} /\ <<f, o>> \notin crossed) => Exists(o)

\* A reflection that is sent next reaches a federate that knows the instance,
\* unless another session marked the federate and has its discovery still to
\* send, or the instance was deleted, or locally deleted, during the update.
ReflectsKnown ==
    \A h \in Federates : (pc[h] = "send" /\ Head(out[h]).cb = "reflect" /\ ~call[h].late) =>
       \A f \in Head(out[h]).to \cap members :
          \/ call[h].obj \in known[f]
          \/ Senders("discover", call[h].obj, f) \ {h} # {}

\* A federate that subscribed before a registration began, and has neither
\* unsubscribed nor deleted the instance locally, is marked once the
\* registration has returned.
EarlySubscribersDiscover ==
    \A o \in Existing : (\A h \in Federates : ~(call[h].op = "register" /\ call[h].obj = o)) =>
       \A f \in early[o] \cap members : o \in discovered[f]

\* Discovery is right from first to last: early subscribers are told, nobody is
\* told twice, what is marked is what was told, and nobody is left with an
\* instance that is gone, but for the races named.
DiscoveryRight == DiscoveryExact /\ NoGhosts /\ EarlySubscribersDiscover
=============================================================================
