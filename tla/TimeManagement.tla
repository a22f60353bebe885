---- MODULE TimeManagement ----
(***************************************************************************)
(* Logical time in one federation of the RTI: regulation, constraint,      *)
(* time advance requests, the lower bound on time stamps (LBTS) and the    *)
(* time-stamp-ordered (TSO) queues of constrained federates.               *)
(*                                                                         *)
(* Every federate has one session task, which runs one handler at a time.  *)
(* The handlers of different sessions run concurrently and share the map   *)
(* Federation.federates behind a read-write lock that a handler takes and  *)
(* releases several times.  An action is one such critical section; pc     *)
(* says which section of its handler a session runs next, and the other    *)
(* per-session variables are the locals that live across sections.         *)
(***************************************************************************)
EXTENDS Integers, Sequences, FiniteSets, FiniteSetsExt

CONSTANTS
    Federates,      \* federate handles; a handle is joined at most once
    Founders,       \* the federates that have joined when a behaviour starts
    Regulators,     \* founders that may already be time regulating
    Constrained,    \* founders that may already be time constrained
    Times,          \* the logical times federates name in their calls
    Lookaheads,     \* the lookaheads they name
    Infinity,       \* f64::INFINITY: above every time plus lookahead
    None,           \* Option::None for a pending advance
    Services,       \* the services the federates call
    MaxCalls,       \* bound on the calls of one federate
    MaxRunning,     \* bound on the sessions that run a handler at a time
    MaxMessages     \* bound on the time-stamped messages of a behaviour

ServiceNames == {"join", "resign", "enable_regulation", "disable_regulation",
    "enable_constrained", "disable_constrained", "modify_lookahead",
    "advance", "update", "interaction"}

ASSUME RolesAssumption ==
    /\ IsFiniteSet(Federates)
    /\ Founders \subseteq Federates
    /\ Regulators \subseteq Founders
    /\ Constrained \subseteq Founders
    /\ Services \subseteq ServiceNames

ASSUME TimesAssumption ==
    /\ Times \subseteq Nat /\ 0 \in Times
    /\ Lookaheads \subseteq Nat /\ 0 \in Lookaheads
    /\ Infinity \in Nat
    /\ \A t \in Times, l \in Lookaheads : t + l < Infinity
    /\ None \notin Nat

ASSUME BoundsAssumption ==
    MaxCalls \in Nat /\ MaxRunning \in Nat /\ MaxMessages \in Nat

VARIABLES
    \* Federation.federates: the joined handles and their FederateSession.
    federates, is_regulating, is_constrained,
    current_time, lookahead, pending_advance, tso_queue,
    \* The handler a session is running.
    pc, time, msg, bound, todo, to_grant, callbacks,
    \* The callbacks each federate has received, in order.
    inbox,
    \* Bookkeeping of the model: calls made, advances asked for, the sender
    \* of each message, and the sessions that have not read LBTS since a role change
    \* that may have lowered it.
    calls, asked, sent, raced

roleVars  == <<federates, is_regulating, is_constrained, lookahead>>
timeVars  == <<current_time, pending_advance>>
frameVars == <<pc, time, msg, bound, todo, to_grant, callbacks>>
countVars == <<calls, asked, sent>>
vars == <<roleVars, timeVars, tso_queue, frameVars, inbox, countVars, raced>>

----------------------------------------------------------------------------
(* Callbacks and the locals of a handler.                                  *)

Tag(f, t)     == [to |-> f, kind |-> "tag", time |-> t, id |-> 0]
Enabled(f, t) == [to |-> f, kind |-> "enabled", time |-> t, id |-> 0]
Immediate(f, t, m) == [to |-> f, kind |-> "immediate", time |-> t, id |-> m]
Released(f, m) == [to |-> f, kind |-> "tso", time |-> m.time, id |-> m.id]

\* The call a session starts when it is between two frames.
Begin(s, service) ==
    /\ service \in Services
    /\ s \in federates
    /\ pc[s] = "idle"
    /\ calls[s] < MaxCalls
    /\ Cardinality({r \in Federates : pc[r] # "idle"}) < MaxRunning
    /\ calls' = [calls EXCEPT ![s] = @ + 1]

\* The handler returns and its locals go out of scope; the session loop then
\* sends the callbacks it left.
Finish(s, cbs) ==
    /\ callbacks' = [callbacks EXCEPT ![s] = cbs]
    /\ pc' = [pc EXCEPT ![s] = IF cbs = <<>> THEN "idle" ELSE "deliver"]
    /\ time' = [time EXCEPT ![s] = 0]
    /\ msg' = [msg EXCEPT ![s] = 0]
    /\ bound' = [bound EXCEPT ![s] = 0]

Goto(s, label) == pc' = [pc EXCEPT ![s] = label]

\* The session loop sends the callbacks one by one, each to the channel of
\* its target, while other sessions send to the same channels.
Deliver(s) ==
    /\ pc[s] = "deliver"
    /\ LET cb == Head(callbacks[s])
       IN inbox' = [inbox EXCEPT ![cb.to] = Append(@, cb)]
    /\ Finish(s, Tail(callbacks[s]))
    /\ UNCHANGED <<roleVars, timeVars, tso_queue, todo, to_grant, countVars,
                   raced>>

----------------------------------------------------------------------------
(* LBTS and the grant pass.                                                *)

Lbts == Min({current_time[f] + lookahead[f] : f \in is_regulating}
                \cup {Infinity})

\* try_grant_pending_advances: the bound it compares requests with.
ReadBound(s) ==
    /\ pc[s] = "try_grant"
    /\ bound' = [bound EXCEPT ![s] = Lbts]
    /\ raced' = raced \ {s}
    /\ Goto(s, "select")
    /\ UNCHANGED <<roleVars, timeVars, tso_queue, time, msg, todo, to_grant,
                   callbacks, inbox, countVars>>

Pendings(S) == {<<f, pending_advance[f]>> :
                    f \in {g \in S : pending_advance[g] # None}}

\* Mutation of Grantable: the bound is off by one.
GrantableBeyond(s) ==
    {x \in Pendings(federates) :
        x[1] \notin is_constrained \/ x[2] <= bound[s] + 1}

Grantable(s) ==
    {x \in Pendings(federates) :
        x[1] \notin is_constrained \/ x[2] <= bound[s]}

\* Mutation of Select: with nobody to grant, start over.
SelectRetries(s) ==
    /\ pc[s] = "select"
    /\ to_grant' = [to_grant EXCEPT ![s] = Grantable(s)]
    /\ Goto(s, IF Grantable(s) = {} THEN "try_grant" ELSE "apply")
    /\ UNCHANGED <<roleVars, timeVars, tso_queue, todo, inbox, countVars,
                   callbacks, time, msg, bound, raced>>

\* First pass, read lock: who can be granted.
Select(s) ==
    /\ pc[s] = "select"
    /\ to_grant' = [to_grant EXCEPT ![s] = Grantable(s)]
    /\ IF Grantable(s) = {}
       THEN Finish(s, callbacks[s])
       ELSE Goto(s, "apply") /\ UNCHANGED <<callbacks, time, msg, bound>>
    /\ UNCHANGED <<roleVars, timeVars, tso_queue, todo, inbox, countVars,
                   raced>>

\* The federates of the list whose request is still the one that was read.
Granted(s) == {f \in federates : /\ pending_advance[f] # None
                                 /\ <<f, pending_advance[f]>> \in to_grant[s]}

\* Mutation of GrantTo: the request is not cleared.
GrantToKeepsRequest(S) ==
    /\ current_time' = [f \in Federates |->
            IF f \in S THEN pending_advance[f] ELSE current_time[f]]
    /\ UNCHANGED pending_advance

GrantTo(S) ==
    /\ current_time' = [f \in Federates |->
            IF f \in S THEN pending_advance[f] ELSE current_time[f]]
    /\ pending_advance' = [f \in Federates |->
            IF f \in S THEN None ELSE pending_advance[f]]

\* The callbacks of a set, in some order: each goes to another federate.
ListOf(S) == CHOOSE q \in [1 .. Cardinality(S) -> S] : IsInjective(q)

\* Mutation of Tags: only the caller hears of its grant.
TagsToCaller(s, S) == IF s \in S THEN <<Tag(s, pending_advance[s])>> ELSE <<>>

Tags(s, S) == ListOf({Tag(f, pending_advance[f]) : f \in S})

\* Second pass, write lock: re-check each request, grant it, emit the TAGs.
Apply(s) ==
    /\ pc[s] = "apply"
    /\ GrantTo(Granted(s))
    /\ callbacks' = [callbacks EXCEPT ![s] = @ \o Tags(s, Granted(s))]
    /\ to_grant' = [to_grant EXCEPT ![s] = {}]
    /\ Goto(s, "recheck")
    /\ UNCHANGED <<roleVars, tso_queue, time, msg, bound, todo, inbox,
                   countVars, raced>>

\* Mutation of LbtsRose: one pass only.
LbtsNeverRose(s) == FALSE

LbtsRose(s) == Lbts > bound[s]

\* The grants may have raised LBTS: start over if they did.
Recheck(s) ==
    /\ pc[s] = "recheck"
    /\ IF LbtsRose(s)
       THEN Goto(s, "try_grant") /\ UNCHANGED <<callbacks, time, msg, bound>>
       ELSE Finish(s, callbacks[s])
    /\ UNCHANGED <<roleVars, timeVars, tso_queue, todo, to_grant, inbox,
                   countVars, raced>>

----------------------------------------------------------------------------
(* TSO queues.                                                             *)

\* slice::partition_point(|m| m.time <= t).
PartitionPoint(q, t) ==
    CHOOSE k \in 0 .. Len(q) :
        /\ \A i \in 1 .. k : q[i].time <= t
        /\ \A i \in k + 1 .. Len(q) : q[i].time > t

InsertByTime(q, m) ==
    LET k == PartitionPoint(q, m.time)
    IN  SubSeq(q, 1, k) \o <<m>> \o SubSeq(q, k + 1, Len(q))

\* Mutation of Later: what is released stays in the queue.
LaterKeepsDue(q, t) == q

Due(q, t)   == SubSeq(q, 1, PartitionPoint(q, t))
Later(q, t) == SubSeq(q, PartitionPoint(q, t) + 1, Len(q))

ReleasedTo(f, q) == [i \in 1 .. Len(q) |-> Released(f, q[i])]

\* drain_tso_up_to followed by the callbacks cbs, in the handler of s.
DrainTsoUpTo(s, f, t, cbs) ==
    /\ tso_queue' = [tso_queue EXCEPT ![f] = Later(@, t)]
    /\ callbacks' = [callbacks EXCEPT ![s] =
            @ \o ReleasedTo(f, Due(tso_queue[f], t)) \o cbs]

\* try_grant_pending_advances_with_tso: the requests outstanding now ...
SnapshotPending(s) ==
    /\ pc[s] = "snapshot"
    /\ todo' = [todo EXCEPT ![s] = Pendings(federates)]
    /\ Goto(s, "read_tso_bound")
    /\ UNCHANGED <<roleVars, timeVars, tso_queue, time, msg, bound, to_grant,
                   callbacks, inbox, countVars, raced>>

\* Mutation of ReadTsoBound: off by one.
ReadTsoBoundAbove(s) ==
    /\ pc[s] = "read_tso_bound"
    /\ bound' = [bound EXCEPT ![s] = Lbts + 1]
    /\ Goto(s, IF todo[s] = {} THEN "try_grant" ELSE "filter")
    /\ UNCHANGED <<roleVars, timeVars, tso_queue, time, msg, todo, to_grant,
                   callbacks, inbox, countVars, raced>>

\* ... the bound, read separately ...
ReadTsoBound(s) ==
    /\ pc[s] = "read_tso_bound"
    /\ bound' = [bound EXCEPT ![s] = Lbts]
    /\ Goto(s, IF todo[s] = {} THEN "try_grant" ELSE "filter")
    /\ UNCHANGED <<roleVars, timeVars, tso_queue, time, msg, todo, to_grant,
                   callbacks, inbox, countVars, raced>>

\* ... each request filtered under a read lock of its own ...
FilterOne(s, x) ==
    /\ pc[s] = "filter"
    /\ x \in todo[s]
    /\ todo' = [todo EXCEPT ![s] = @ \ {x}]
    /\ to_grant' = [to_grant EXCEPT ![s] =
            IF /\ x[1] \in federates
               /\ x[1] \notin is_constrained \/ x[2] <= bound[s]
            THEN @ \cup {x} ELSE @]
    /\ Goto(s, IF todo'[s] # {} THEN "filter"
               ELSE IF to_grant'[s] # {} THEN "drain" ELSE "try_grant")
    /\ UNCHANGED <<roleVars, timeVars, tso_queue, time, msg, bound,
                   callbacks, inbox, countVars, raced>>

\* ... and the queue of each federate that passed drained, before the grant
\* pass proper decides again.
DrainOne(s, x) ==
    /\ pc[s] = "drain"
    /\ x \in to_grant[s]
    /\ DrainTsoUpTo(s, x[1], x[2], <<>>)
    /\ to_grant' = [to_grant EXCEPT ![s] = @ \ {x}]
    /\ Goto(s, IF to_grant'[s] # {} THEN "drain" ELSE "try_grant")
    /\ UNCHANGED <<roleVars, timeVars, time, msg, bound, todo, inbox,
                   countVars, raced>>

----------------------------------------------------------------------------
(* The services.  A call the code answers with an exception changes nothing *)
(* and is left out.                                                         *)

\* try_grant without the drain follows.
EnableTimeRegulation(s, l) ==
    /\ Begin(s, "enable_regulation")
    /\ s \notin is_regulating
    /\ is_regulating' = is_regulating \cup {s}
    /\ lookahead' = [lookahead EXCEPT ![s] = l]
    /\ callbacks' = [callbacks EXCEPT ![s] = <<Enabled(s, current_time[s])>>]
    /\ raced' = Federates
    /\ Goto(s, "try_grant")
    /\ UNCHANGED <<federates, is_constrained, timeVars, tso_queue, time, msg,
                   bound, todo, to_grant, inbox, asked, sent>>

DisableTimeRegulation(s) ==
    /\ Begin(s, "disable_regulation")
    /\ s \in is_regulating
    /\ is_regulating' = is_regulating \ {s}
    /\ Goto(s, "try_grant")
    /\ UNCHANGED <<federates, is_constrained, lookahead, timeVars, tso_queue,
                   time, msg, bound, todo, to_grant, callbacks, inbox, asked,
                   sent, raced>>

EnableTimeConstrained(s) ==
    /\ Begin(s, "enable_constrained")
    /\ s \notin is_constrained
    /\ is_constrained' = is_constrained \cup {s}
    /\ Finish(s, <<Enabled(s, current_time[s])>>)
    /\ raced' = Federates
    /\ UNCHANGED <<federates, is_regulating, lookahead, timeVars, tso_queue,
                   todo, to_grant, inbox, asked, sent>>

DisableTimeConstrained(s) ==
    /\ Begin(s, "disable_constrained")
    /\ s \in is_constrained
    /\ is_constrained' = is_constrained \ {s}
    /\ UNCHANGED <<federates, is_regulating, lookahead, timeVars, tso_queue,
                   frameVars, inbox, asked, sent, raced>>

ModifyLookahead(s, l) ==
    /\ Begin(s, "modify_lookahead")
    /\ s \in is_regulating
    /\ lookahead' = [lookahead EXCEPT ![s] = l]
    /\ raced' = IF l < lookahead[s] THEN Federates ELSE raced
    /\ UNCHANGED <<federates, is_regulating, is_constrained, timeVars,
                   tso_queue, frameVars, inbox, asked, sent>>

MayRequest(s, t) == pending_advance[s] = None /\ t >= current_time[s]

\* time_advance_request, and the five services dispatched to it: the request
\* is recorded in one critical section ...
TimeAdvanceRequest(s, t) ==
    /\ Begin(s, "advance")
    /\ MayRequest(s, t)
    /\ pending_advance' = [pending_advance EXCEPT ![s] = t]
    /\ asked' = [asked EXCEPT ![s] = @ + 1]
    /\ IF s \in is_constrained
       THEN Goto(s, "snapshot") /\ UNCHANGED time
       ELSE Goto(s, "grant_self") /\ time' = [time EXCEPT ![s] = t]
    /\ UNCHANGED <<roleVars, current_time, tso_queue, msg, bound, todo,
                   to_grant, callbacks, inbox, sent, raced>>

\* ... an unconstrained caller is granted in a second one, if the request is
\* still there ...
GrantSelf(s) ==
    /\ pc[s] = "grant_self"
    /\ GrantTo(IF pending_advance[s] = time[s] THEN {s} ELSE {})
    /\ Goto(s, "drain_self")
    /\ UNCHANGED <<roleVars, tso_queue, time, msg, bound, todo, to_grant,
                   callbacks, inbox, countVars, raced>>

\* ... and its queue is drained and its TAG emitted in any case.
DrainSelf(s) ==
    /\ pc[s] = "drain_self"
    /\ DrainTsoUpTo(s, s, time[s], <<Tag(s, time[s])>>)
    /\ Goto(s, "snapshot")
    /\ UNCHANGED <<roleVars, timeVars, time, msg, bound, todo, to_grant,
                   inbox, countVars, raced>>

\* A time-stamped message leaves for every other federate of the federation
\* (who subscribes to what is the business of the declaration handlers).
Send(s, service, t) ==
    /\ Begin(s, service)
    /\ Len(sent) < MaxMessages
    /\ sent' = Append(sent, s)
    /\ msg' = [msg EXCEPT ![s] = Len(sent) + 1]
    /\ time' = [time EXCEPT ![s] = t]
    /\ Goto(s, "route")
    /\ UNCHANGED <<roleVars, timeVars, tso_queue, bound, todo, to_grant,
                   callbacks, inbox, asked, raced>>

\* Mutation of HonoursLookahead: the lookahead is forgotten.
HonoursTimeOnly(s, t) == s \in is_regulating => t >= current_time[s]

HonoursLookahead(s, t) ==
    s \in is_regulating => t >= current_time[s] + lookahead[s]

\* Only attribute updates are checked against the sender's lookahead.
UpdateAttributeValuesWithTime(s, t) ==
    /\ HonoursLookahead(s, t)
    /\ Send(s, "update", t)

\* Interactions, and deletions, are not.
SendInteractionWithTime(s, t) == Send(s, "interaction", t)

Holds(f, t) == f \in is_constrained /\ t > current_time[f]

\* route_tso_or_immediate, read lock: who gets the message at once and for
\* whom it is to be queued ...
Route(s) ==
    /\ pc[s] = "route"
    /\ LET subscribers == federates \ {s}
           queued == {f \in subscribers : Holds(f, time[s])}
           cbs == ListOf({Immediate(f, time[s], msg[s]) :
                              f \in subscribers \ queued})
       IN /\ todo' = [todo EXCEPT ![s] = {<<f, time[s]>> : f \in queued}]
          /\ IF queued = {}
             THEN Finish(s, cbs)
             ELSE /\ Goto(s, "enqueue")
                  /\ callbacks' = [callbacks EXCEPT ![s] = cbs]
                  /\ UNCHANGED <<time, msg, bound>>
    /\ UNCHANGED <<roleVars, timeVars, tso_queue, to_grant, inbox, countVars,
                   raced>>

\* ... and, write lock, the insertions.
Enqueue(s) ==
    /\ pc[s] = "enqueue"
    /\ tso_queue' = [f \in Federates |->
            IF f \in federates /\ <<f, time[s]>> \in todo[s]
            THEN InsertByTime(tso_queue[f], [id |-> msg[s], time |-> time[s]])
            ELSE tso_queue[f]]
    /\ todo' = [todo EXCEPT ![s] = {}]
    /\ Finish(s, callbacks[s])
    /\ UNCHANGED <<roleVars, timeVars, to_grant, inbox, countVars, raced>>

\* join_federation_execution: a new handle, with TimeState::default.
Join(s) ==
    /\ "join" \in Services
    /\ s \notin federates
    /\ calls[s] = 0
    /\ calls' = [calls EXCEPT ![s] = 1]
    /\ federates' = federates \cup {s}
    /\ UNCHANGED <<is_regulating, is_constrained, lookahead, timeVars,
                   tso_queue, frameVars, inbox, asked, sent, raced>>

\* Mutation of RemoveFederate: the roles outlive the federate.
RemoveHandleOnly(s) ==
    /\ federates' = federates \ {s}
    /\ UNCHANGED <<is_regulating, is_constrained>>

RemoveFederate(s) ==
    /\ federates' = federates \ {s}
    /\ is_regulating' = is_regulating \ {s}
    /\ is_constrained' = is_constrained \ {s}

\* resign_federation_execution, and the auto-resign of a lost session: the
\* FederateSession is removed, and nothing else happens.
Resign(s) ==
    /\ Begin(s, "resign")
    /\ RemoveFederate(s)
    /\ pending_advance' = [pending_advance EXCEPT ![s] = None]
    /\ tso_queue' = [tso_queue EXCEPT ![s] = <<>>]
    /\ UNCHANGED <<lookahead, current_time, frameVars, inbox, asked, sent,
                   raced>>

----------------------------------------------------------------------------

Init ==
    /\ federates = Founders
    /\ is_regulating \in SUBSET Regulators
    /\ is_constrained \in SUBSET Constrained
    /\ lookahead \in [Federates -> Lookaheads]
    /\ \A f \in Federates \ is_regulating : lookahead[f] = 0
    /\ current_time = [f \in Federates |-> 0]
    /\ pending_advance = [f \in Federates |-> None]
    /\ tso_queue = [f \in Federates |-> <<>>]
    /\ pc = [f \in Federates |-> "idle"]
    /\ time = [f \in Federates |-> 0]
    /\ msg = [f \in Federates |-> 0]
    /\ bound = [f \in Federates |-> 0]
    /\ todo = [f \in Federates |-> {}]
    /\ to_grant = [f \in Federates |-> {}]
    /\ callbacks = [f \in Federates |-> <<>>]
    /\ inbox = [f \in Federates |-> <<>>]
    /\ calls = [f \in Federates |-> 0]
    /\ asked = [f \in Federates |-> 0]
    /\ sent = <<>>
    /\ raced = {}

Call(s) ==
    \/ \E l \in Lookaheads : EnableTimeRegulation(s, l) \/ ModifyLookahead(s, l)
    \/ DisableTimeRegulation(s)
    \/ EnableTimeConstrained(s)
    \/ DisableTimeConstrained(s)
    \/ \E t \in Times : \/ TimeAdvanceRequest(s, t)
                        \/ UpdateAttributeValuesWithTime(s, t)
                        \/ SendInteractionWithTime(s, t)
    \/ Join(s)
    \/ Resign(s)

\* The rest of a handler that has started: no client is involved.
Step(s) ==
    \/ ReadBound(s) \/ Select(s) \/ Apply(s) \/ Recheck(s)
    \/ SnapshotPending(s) \/ ReadTsoBound(s)
    \/ \E x \in todo[s] : FilterOne(s, x)
    \/ \E x \in to_grant[s] : DrainOne(s, x)
    \/ GrantSelf(s) \/ DrainSelf(s)
    \/ Route(s) \/ Enqueue(s)
    \/ Deliver(s)

Next == \E s \in Federates : Call(s) \/ Step(s)

Spec == Init /\ [][Next]_vars

\* The runtime keeps polling a session task that can make progress.
FairSpec == Spec /\ \A s \in Federates : WF_vars(Step(s))

----------------------------------------------------------------------------
(* Properties.                                                             *)

Labels == {"idle", "try_grant", "select", "apply", "recheck", "snapshot",
    "read_tso_bound", "filter", "drain", "grant_self", "drain_self", "route",
    "enqueue", "deliver"}

Messages == [id : Nat, time : Times]
Callbacks == [to : Federates, kind : {"tag", "enabled", "immediate", "tso"},
              time : Times, id : Nat]
Requests == Federates \X Times

\* Every variable keeps its type: the shape of FederateSession and TimeState,
\* and of the locals of the handlers.
TypeOK ==
    /\ federates \subseteq Federates
    /\ is_regulating \subseteq federates
    /\ is_constrained \subseteq federates
    /\ current_time \in [Federates -> Times]
    /\ lookahead \in [Federates -> Lookaheads]
    /\ pending_advance \in [Federates -> Times \cup {None}]
    /\ tso_queue \in [Federates -> Seq(Messages)]
    /\ pc \in [Federates -> Labels]
    /\ time \in [Federates -> Times]
    /\ msg \in [Federates -> Nat]
    /\ bound \in [Federates -> Nat]
    /\ todo \in [Federates -> SUBSET Requests]
    /\ to_grant \in [Federates -> SUBSET Requests]
    /\ callbacks \in [Federates -> Seq(Callbacks)]
    /\ inbox \in [Federates -> Seq(Callbacks)]
    /\ calls \in [Federates -> Nat]
    /\ asked \in [Federates -> Nat]
    /\ sent \in Seq(Federates)
    /\ raced \subseteq Federates

\* A pending advance is never behind the federate's time, although it is
\* checked in one critical section and granted, by any session, in a later one.
PendingNotBehind ==
    \A f \in Federates :
        pending_advance[f] # None => current_time[f] <= pending_advance[f]

\* No step moves a federate's logical time back ("Monotonic" in TimeState),
\* whichever sessions race to grant it.
TimeNeverDecreases ==
    [][\A f \in Federates : current_time[f] <= current_time'[f]]_vars

\* Every step of the handlers is, for the pair of time and request, a request,
\* a grant of outstanding requests, or a withdrawal.
Contract == INSTANCE TimeContract
ImplementsContract == Contract!Spec

\* A constrained federate is moved past LBTS by this step.
Overtakes(f) ==
    /\ f \in is_constrained
    /\ current_time'[f] # current_time[f]
    /\ current_time'[f] > Lbts

\* A constrained federate is never granted a time above LBTS, unless another
\* federate enabled regulation, enabled constraint or cut its lookahead after
\* the granting session read the bound: the grant pass is sound for every
\* interleaving in which the roles stay as they are.
OvertakesOnlyIfRaced ==
    [][\A f \in Federates : Overtakes(f) =>
        \E s \in raced : pc[s] = "apply" /\ pc'[s] = "recheck"]_vars

AllIdle == \A s \in Federates : pc[s] = "idle"

\* When no handler is running, every request still pending has to wait: a
\* grant that became possible was made by somebody, whatever the order in
\* which requests were recorded and bounds were read.
NoStuckGrant ==
    AllIdle => \A f \in federates : pending_advance[f] # None =>
        f \in is_constrained /\ pending_advance[f] > Lbts

TagsReceived(f) == Len(SelectSeq(inbox[f], LAMBDA cb : cb.kind = "tag"))

\* No advance is granted silently: when no handler is running, each joined
\* federate has received a TAG for every request that is not still pending.
NoSilentGrant ==
    AllIdle => \A f \in federates :
        asked[f] <= TagsReceived(f) + (IF pending_advance[f] = None THEN 0 ELSE 1)

\* The TSO queues stay sorted by time under insertions and drains by any
\* session: both use binary search.
QueueSorted ==
    \A f \in Federates : \A i, j \in DOMAIN tso_queue[f] :
        i < j => tso_queue[f][i].time <= tso_queue[f][j].time

Copies(f, m) ==
    LET mine(cb) == cb.to = f /\ cb.id = m
    IN Len(SelectSeq(tso_queue[f], LAMBDA q : q.id = m))
       + Len(SelectSeq(inbox[f], mine))
       + MapThenSumSet(LAMBDA s : Len(SelectSeq(callbacks[s], mine)), Federates)

\* A routed message exists exactly once for each federate it is meant for: in
\* its queue, in the callbacks some session is about to send, or received.
MessagesConserved ==
    \A m \in DOMAIN sent, f \in Federates :
        /\ Copies(f, m) <= 1
        /\ f \in federates \cap Founders /\ f # sent[m] /\ msg[sent[m]] # m
                => Copies(f, m) = 1

\* A regulating federate's message is never routed to a constrained federate
\* whose logical time has already passed its time stamp, although time may
\* pass between the check of the sender's lookahead and the routing.  The one
\* exception is a sender that is constrained itself and has meanwhile been
\* granted, by another session, an advance that outdates the check.
NoMessageFromThePast ==
    [][\A s \in is_regulating : pc[s] = "route" /\ pc'[s] # "route" =>
        \/ \A f \in is_constrained \ {s} : current_time[f] <= time[s]
        \/ s \in is_constrained /\ ~HonoursLookahead(s, time[s])]_vars

\* A queued message reaches its federate only with a grant up to its time
\* stamp: the pass that drains the queue and the pass that grants read the
\* bound separately, and while roles stay as they are agree about it.
ReleasedWithGrant ==
    \A f \in federates : \A i \in DOMAIN inbox[f] :
        inbox[f][i].kind = "tso" => inbox[f][i].time <= current_time[f]

\* "TSO messages with timestamp <= grant_time must arrive before the grant":
\* a federate that has received a TAG has no message up to it in its queue.
MessagesBeforeGrant ==
    \A f \in federates : \A i \in DOMAIN inbox[f], k \in DOMAIN tso_queue[f] :
        inbox[f][i].kind = "tag" => inbox[f][i].time < tso_queue[f][k].time

\* Every handler comes to its end: the grant pass, which starts over whenever
\* LBTS has risen, does not go on for ever.
HandlersComplete == \A s \in Federates : pc[s] # "idle" ~> pc[s] = "idle"

====
