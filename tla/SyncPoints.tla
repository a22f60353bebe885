--------------------------- MODULE SyncPoints ---------------------------
(***************************************************************************)
(* Synchronization points (dispatch/sync_points.rs) of one federation, and *)
(* the federates that join and resign while points are open.               *)
(*                                                                         *)
(* A federate is its handle; handles are drawn in order and never reused   *)
(* while the federation lives.  Each federate has one session, which runs  *)
(* one handler at a time: a handler is as many steps as it takes locks,    *)
(* and what it has to tell others it sends after it has returned, one      *)
(* connection at a time.  Sessions interleave between these steps.         *)
(***************************************************************************)
EXTENDS Naturals, FiniteSets

CONSTANTS
    Names,         \* names federates join under
    MaxHandle,     \* bound on the federate handles drawn
    Labels,        \* labels of synchronization points
    Groups,        \* the sets of participants requests name; {} for none
    MaxRequests,   \* bound on the calls that open something
    None

ASSUME MaxHandleAssumption == MaxHandle \in Nat

Handles == 1 .. MaxHandle

\* struct SyncPoint.  The tag and who reported a failure are carried along
\* for the callbacks and never looked at.
Points == [participants : SUBSET Handles, achieved : SUBSET Handles]

ASSUME GroupsAssumption == Groups \subseteq SUBSET Handles

ASSUME NoneAssumption ==
    /\ None \notin Names
    /\ \A group \in SUBSET Handles : None # group
    /\ \A point \in Points : None # point

VARIABLES
    federates,     \* handle -> the name it is joined under, or None
    next_handle,   \* Federation.next_federate_id
    sync_points,   \* label -> SyncPoint, or None
    pc,            \* where the handler of a session is
    want,          \* what register_synchronization_point has read so far
    out,           \* the callback a session still has to send, and to whom
    announced,     \* handle -> labels its federate was told of and awaits
    requests,      \* calls that open something so far
    epoch          \* how often all points were replaced (history)

syncVars == <<sync_points, want>>
fedVars == <<federates, next_handle>>
ioVars == <<out, announced>>

-----------------------------------------------------------------------------
Joined == {h \in Handles : federates[h] # None}

NewPoint(group) == [participants |-> group, achieved |-> {}]

Callback(cb, label, to) == [cb |-> cb, label |-> label, to |-> to]

\* A session takes its next call when the last one has been answered and its
\* callbacks sent.
Idle(h) == federates[h] # None /\ pc[h] = "idle" /\ out[h] = None

Ask(h) == Idle(h) /\ requests < MaxRequests /\ requests' = requests + 1

-----------------------------------------------------------------------------
\* The callback a handler leaves to its session.  Those that only report to
\* the caller how its own request went are left out.
Send(s, m) == out' = [out EXCEPT ![s] = IF m.to = {} THEN None ELSE m]

\* fan_out, and the session loop that sends what it collected: the next
\* recipient of the next callback.  The set of recipients has no order.
\* Whoever has left in the meantime gets nothing.
Heard(h, m) ==
    announced' = [announced EXCEPT ![h] =
        CASE m.cb = "announce" /\ federates[h] # None -> @ \cup {m.label}
          [] m.cb = "synchronized" -> @ \ {m.label}
          [] OTHER -> @]

Deliver(s, to) ==
    /\ out[s] # None
    /\ to \in out[s].to
    /\ Heard(to, out[s])
    /\ Send(s, [out[s] EXCEPT !.to = @ \ {to}])
    /\ UNCHANGED <<fedVars, syncVars, pc, requests, epoch>>

-----------------------------------------------------------------------------
\* join and resign: a resignation leaves points, saves and restores alone.
Join(n) ==
    /\ next_handle <= MaxHandle
    /\ \A h \in Handles : federates[h] # n
    /\ federates' = [federates EXCEPT ![next_handle] = n]
    /\ next_handle' = next_handle + 1
    /\ UNCHANGED <<syncVars, pc, ioVars, requests, epoch>>

Resign(h) ==
    /\ Idle(h)
    /\ federates' = [federates EXCEPT ![h] = None]
    /\ announced' = [announced EXCEPT ![h] = {}]
    /\ UNCHANGED <<next_handle, syncVars, pc, out, requests, epoch>>

-----------------------------------------------------------------------------
\* register_synchronization_point, until its write lock: the participants
\* are the set in the request, whoever that names, or the federates joined
\* now.
RegisterReads(h, l, subset) ==
    /\ Ask(h)
    /\ want' = [want EXCEPT ![h] =
          [label |-> l, group |-> IF subset # {} THEN subset ELSE Joined]]
    /\ pc' = [pc EXCEPT ![h] = "insert_point"]
    /\ UNCHANGED <<fedVars, sync_points, ioVars, epoch>>

\* Mutant: a point under the label is overwritten.
UniqueAlways(l) == TRUE

Unique(l) == sync_points[l] = None

RegisterInserts(h) ==
    LET l == want[h].label
        group == want[h].group IN
    /\ pc[h] = "insert_point"
    /\ IF Unique(l)
       THEN /\ sync_points' = [sync_points EXCEPT ![l] = NewPoint(group)]
            /\ Send(h, Callback("announce", l, group))
       ELSE UNCHANGED <<sync_points, out>>
    /\ pc' = [pc EXCEPT ![h] = "idle"]
    /\ want' = [want EXCEPT ![h] = None]
    /\ UNCHANGED <<fedVars, announced, requests, epoch>>

Reached(point, h) == [point EXCEPT !.achieved = @ \cup {h}]

AllAchieved(point) == Cardinality(point.achieved) = Cardinality(point.participants)

\* synchronization_point_achieved: one write lock.
Achieved(h, l) ==
    LET p == Reached(sync_points[l], h) IN
    /\ Idle(h)
    /\ sync_points[l] # None
    /\ h \in sync_points[l].participants
    /\ sync_points' = [sync_points EXCEPT ![l] = IF AllAchieved(p) THEN None ELSE p]
    /\ IF AllAchieved(p) THEN Send(h, Callback("synchronized", l, p.participants))
                         ELSE UNCHANGED out
    /\ UNCHANGED <<fedVars, want, pc, announced, requests, epoch>>

-----------------------------------------------------------------------------
Init ==
    /\ federates = [h \in Handles |-> None]
    /\ next_handle = 1
    /\ sync_points = [l \in Labels |-> None]
    /\ pc = [h \in Handles |-> "idle"]
    /\ want = [h \in Handles |-> None]
    /\ out = [h \in Handles |-> None]
    /\ announced = [h \in Handles |-> {}]
    /\ requests = 0
    /\ epoch = 0

\* The calls a federate may make about points.
SyncCalls(h) ==
    \/ \E l \in Labels, subset \in Groups : RegisterReads(h, l, subset)
    \/ \E l \in Labels : Achieved(h, l)

=============================================================================
