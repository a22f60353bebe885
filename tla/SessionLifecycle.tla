---- MODULE SessionLifecycle ----
(***************************************************************************)
(* The life of a FedPro session on the server: handshake, session loop,    *)
(* suspension, resumption, expiry and shutdown                             *)
(* (crates/hla-rti/src/lib.rs, handle_connection_via_transport and         *)
(* run_suspended_session_janitor).  Each accepted connection is a task; a  *)
(* session outlives its task when it is suspended and resumed by another.  *)
(* One action stands for the code between two points where other tasks can *)
(* interfere: an await, or an operation on a shared map.                   *)
(***************************************************************************)
EXTENDS ConnectionTasks, FiniteSets

CONSTANTS MaxHandles,   \* federates that ever join
          Windows,      \* is reconnect_window > 0, as each connection may find it
          MayShutDown,  \* may RtiNode::shutdown be called
          MayFail       \* may the transport fail again during a resume

ASSUME BoundsAssumption ==
    /\ MaxTasks \in Nat /\ MaxHandles \in Nat
    /\ Windows \subseteq BOOLEAN
    /\ MayShutDown \in BOOLEAN /\ MayFail \in BOOLEAN
    /\ None \notin Nat

Handles == 1 .. MaxHandles
\* next_session_id is drawn once for each accepted connection.
SessionIds == Tasks

VARIABLES
    accepted,      \* next_session_id - 1
    pc,            \* what each task does next
    session_id,    \* session_id of each task
    membership,    \* restored_membership, then ctx.membership, of each task
    window,        \* hb_config.reconnect_window > 0, as each task read it
    connections,   \* RtiNode.connections: session id |-> task behind it
    suspended,     \* RtiNode.suspended_sessions: session id |-> membership
    expired,       \* suspended sessions whose deadline has passed
    federates,     \* Federation.federates: handle |-> session_id
    joins,         \* next_federate_id - 1
    to_expire,     \* the janitor's list `expired`
    shutdown,      \* RtiNode.shutdown is cancelled
    dropped        \* memberships that a failed resume dropped

janitorVars == <<expired, to_expire>>
fedVars == <<federates, joins>>
vars == <<accepted, pc, session_id, membership, window, connections,
          suspended, expired, federates, joins, to_expire, shutdown, dropped>>

Goto(t, l) == pc' = [pc EXCEPT ![t] = l]

\* Ids a federate may present in CTRL_RESUME_REQUEST: those of sessions that
\* were opened.
Opened == {session_id[t] : t \in Tasks} \ {None}

----------------------------------------------------------------------------
(* Accept and handshake.                                                   *)

Accept ==
    /\ ~shutdown
    /\ accepted < MaxTasks
    /\ accepted' = accepted + 1
    /\ Goto(accepted + 1, "handshake")
    /\ UNCHANGED <<session_id, membership, window, connections, suspended,
                   janitorVars, fedVars, shutdown, dropped>>

\* CTRL_NEW_SESSION of a supported version.
NewSession(t) ==
    /\ pc[t] = "handshake"
    /\ session_id' = [session_id EXCEPT ![t] = t]
    /\ Goto(t, "open")
    /\ UNCHANGED <<accepted, membership, window, connections, suspended,
                   janitorVars, fedVars, shutdown, dropped>>

\* The first frame does not arrive, is not a handshake or has another
\* version, or its status cannot be sent.
HandshakeFails(t) ==
    /\ pc[t] = "handshake"
    /\ Goto(t, "done")
    /\ UNCHANGED <<accepted, session_id, membership, window, connections,
                   suspended, janitorVars, fedVars, shutdown, dropped>>

\* Mutation of Resumable: the deadline is not looked at.
ResumableLate(i) == suspended[i] # None

Resumable(i) == suspended[i] # None /\ i \notin expired

\* Mutation of Resume: the entry is read and left in the table.
ResumeCopies(t, i) ==
    /\ pc[t] = "handshake"
    /\ Resumable(i)
    /\ session_id' = [session_id EXCEPT ![t] = i]
    /\ membership' = [membership EXCEPT ![t] = suspended[i]]
    /\ Goto(t, "status")
    /\ UNCHANGED <<accepted, window, connections, suspended, janitorVars,
                   fedVars, shutdown, dropped>>

\* CTRL_RESUME_REQUEST: the entry leaves the table; its membership is taken
\* over if the deadline has not passed and is dropped otherwise.
Resume(t, i) ==
    /\ pc[t] = "handshake"
    /\ suspended' = [suspended EXCEPT ![i] = None]
    /\ expired' = expired \ {i}
    /\ IF Resumable(i)
       THEN /\ session_id' = [session_id EXCEPT ![t] = i]
            /\ membership' = [membership EXCEPT ![t] = suspended[i]]
            /\ Goto(t, "status")
            /\ UNCHANGED dropped
       ELSE /\ dropped' = dropped \cup ({suspended[i]} \ {None})
            /\ Goto(t, "done")
            /\ UNCHANGED <<session_id, membership>>
    /\ UNCHANGED <<accepted, window, connections, to_expire, fedVars, shutdown>>

\* CTRL_RESUME_STATUS is sent ...
StatusSent(t) ==
    /\ pc[t] = "status"
    /\ Goto(t, "open")
    /\ UNCHANGED <<accepted, session_id, membership, window, connections,
                   suspended, janitorVars, fedVars, shutdown, dropped>>

\* ... or the transport fails again, and `?` leaves the handler with the
\* membership in hand.
StatusFails(t) ==
    /\ MayFail
    /\ pc[t] = "status"
    /\ dropped' = dropped \cup {membership[t]}
    /\ membership' = [membership EXCEPT ![t] = None]
    /\ Goto(t, "done")
    /\ UNCHANGED <<accepted, session_id, window, connections, suspended,
                   janitorVars, fedVars, shutdown>>

\* hb_config is read and the connection is entered in the map.
Register(t) ==
    /\ pc[t] = "open"
    /\ \E w \in Windows : window' = [window EXCEPT ![t] = w]
    /\ connections' = [connections EXCEPT ![session_id[t]] = t]
    /\ Goto(t, "loop")
    /\ UNCHANGED <<accepted, session_id, membership, suspended, janitorVars,
                   fedVars, shutdown, dropped>>

----------------------------------------------------------------------------
(* The session loop.                                                       *)

Join(t) ==
    /\ pc[t] = "loop"
    /\ membership[t] = None
    /\ joins < MaxHandles
    /\ joins' = joins + 1
    /\ federates' = [federates EXCEPT ![joins + 1] = session_id[t]]
    /\ membership' = [membership EXCEPT ![t] = joins + 1]
    /\ UNCHANGED <<accepted, pc, session_id, window, connections, suspended,
                   janitorVars, shutdown, dropped>>

Resign(t) ==
    /\ pc[t] = "loop"
    /\ membership[t] # None
    /\ federates' = [federates EXCEPT ![membership[t]] = None]
    /\ membership' = [membership EXCEPT ![t] = None]
    /\ UNCHANGED <<accepted, pc, session_id, window, connections, suspended,
                   janitorVars, joins, shutdown, dropped>>

\* Mutation of EndLoop: the loop does not watch the shutdown token.
EndLoopByPeer(t) ==
    /\ ~shutdown
    /\ pc[t] = "loop"
    /\ Goto(t, "ended")
    /\ UNCHANGED <<accepted, session_id, membership, window, connections,
                   suspended, janitorVars, fedVars, shutdown, dropped>>

\* The peer closes, terminates, sends what is not a frame or misses its
\* heartbeats, the writer is gone, or the node shuts down.
EndLoop(t) ==
    /\ pc[t] = "loop"
    /\ Goto(t, "ended")
    /\ UNCHANGED <<accepted, session_id, membership, window, connections,
                   suspended, janitorVars, fedVars, shutdown, dropped>>

\* Mutation of Close: without a window nobody resigns for the federate.
CloseForgets(t) ==
    /\ pc[t] = "ended"
    /\ suspended' = IF window[t] /\ membership[t] # None
                    THEN [suspended EXCEPT ![session_id[t]] = membership[t]]
                    ELSE suspended
    /\ membership' = [membership EXCEPT ![t] = None]
    /\ Goto(t, "unregister")
    /\ UNCHANGED <<accepted, session_id, window, connections, janitorVars,
                   fedVars, shutdown, dropped>>

\* After the loop: suspend, or resign for the federate, or neither.
Close(t) ==
    /\ pc[t] = "ended"
    /\ IF window[t] /\ membership[t] # None
       THEN /\ suspended' = [suspended EXCEPT ![session_id[t]] = membership[t]]
            /\ expired' = expired \ {session_id[t]}
            /\ UNCHANGED federates
       ELSE /\ federates' = [h \in Handles |->
                    IF h = membership[t] THEN None ELSE federates[h]]
            /\ UNCHANGED <<suspended, expired>>
    /\ membership' = [membership EXCEPT ![t] = None]
    /\ Goto(t, "unregister")
    /\ UNCHANGED <<accepted, session_id, window, connections, to_expire,
                   joins, shutdown, dropped>>

\* Mutation of Unregister: the entry stays.
UnregisterSkipped(t) ==
    /\ pc[t] = "unregister"
    /\ Goto(t, "done")
    /\ UNCHANGED <<accepted, session_id, membership, window, connections,
                   suspended, janitorVars, fedVars, shutdown, dropped>>

\* The entry under the session id is removed, whichever task it leads to.  What
\* the task still does (waiting for its writer) touches no shared table.
Unregister(t) ==
    /\ pc[t] = "unregister"
    /\ connections' = [connections EXCEPT ![session_id[t]] = None]
    /\ Goto(t, "done")
    /\ UNCHANGED <<accepted, session_id, membership, window, suspended,
                   janitorVars, fedVars, shutdown, dropped>>

----------------------------------------------------------------------------
(* Deadlines, the janitor, shutdown.                                       *)

DeadlinePasses(i) ==
    /\ suspended[i] # None
    /\ i \notin expired
    /\ expired' = expired \cup {i}
    /\ UNCHANGED <<accepted, pc, session_id, membership, window, connections,
                   suspended, fedVars, to_expire, shutdown, dropped>>

\* One tick: list the expired sessions ...
JanitorScan ==
    /\ ~shutdown
    /\ to_expire = {}
    /\ expired # {}
    /\ to_expire' = expired
    /\ UNCHANGED <<accepted, pc, session_id, membership, window, connections,
                   suspended, expired, fedVars, shutdown, dropped>>

\* Mutation of JanitorExpire: a listed entry is passed over and stays.
JanitorKeeps(i) ==
    /\ i \in to_expire
    /\ to_expire' = to_expire \ {i}
    /\ UNCHANGED <<accepted, pc, session_id, membership, window, connections,
                   suspended, expired, fedVars, shutdown, dropped>>

\* ... and take them out one at a time, resigning for their federates.  An
\* entry that a resume has taken out meanwhile is skipped.
JanitorExpire(i) ==
    /\ i \in to_expire
    /\ to_expire' = to_expire \ {i}
    /\ suspended' = [suspended EXCEPT ![i] = None]
    /\ expired' = expired \ {i}
    /\ federates' = [h \in Handles |->
            IF h = suspended[i] THEN None ELSE federates[h]]
    /\ UNCHANGED <<accepted, pc, session_id, membership, window, connections,
                   joins, shutdown, dropped>>

Shutdown ==
    /\ MayShutDown
    /\ ~shutdown
    /\ shutdown' = TRUE
    /\ UNCHANGED <<accepted, pc, session_id, membership, window, connections,
                   suspended, janitorVars, fedVars, dropped>>

----------------------------------------------------------------------------

Init ==
    /\ accepted = 0
    /\ pc = [t \in Tasks |-> "idle"]
    /\ session_id = [t \in Tasks |-> None]
    /\ membership = [t \in Tasks |-> None]
    /\ window = [t \in Tasks |-> FALSE]
    /\ connections = [i \in SessionIds |-> None]
    /\ suspended = [i \in SessionIds |-> None]
    /\ expired = {}
    /\ federates = [h \in Handles |-> None]
    /\ joins = 0
    /\ to_expire = {}
    /\ shutdown = FALSE
    /\ dropped = {}

Handshake(t) ==
    \/ NewSession(t)
    \/ HandshakeFails(t)
    \/ \E i \in Opened : Resume(t, i)
    \/ StatusSent(t)
    \/ StatusFails(t)

Loop(t) == Join(t) \/ Resign(t) \/ EndLoop(t)

Janitor == JanitorScan \/ \E i \in SessionIds : JanitorExpire(i)

Next ==
    \/ Accept
    \/ \E t \in Tasks : Handshake(t) \/ Register(t) \/ Loop(t) \/ Close(t)
                        \/ Unregister(t)
    \/ \E i \in SessionIds : DeadlinePasses(i)
    \/ Janitor
    \/ Shutdown

Spec == Init /\ [][Next]_vars

\* The server's own steps are taken: a task past its handshake runs, a loop
\* sees the shutdown token, time passes, the janitor ticks.  A loop sees the
\* token only between two frames, so this takes the channels of the federates it
\* sends callbacks to to have room.  Otherwise nothing is assumed of the peers:
\* the first frame need not arrive, and a session may stay in its loop for ever.
ServerSteps(t) ==
    \/ StatusSent(t) \/ StatusFails(t) \/ Register(t)
    \/ shutdown /\ EndLoop(t)
    \/ Close(t) \/ Unregister(t)

Fairness ==
    /\ \A t \in Tasks : WF_vars(ServerSteps(t))
    /\ \A i \in SessionIds : WF_vars(DeadlinePasses(i))
    /\ WF_vars(Janitor)

FairSpec == Spec /\ Fairness

----------------------------------------------------------------------------
(* Properties.                                                             *)

Labels == {"idle", "handshake", "status", "open", "loop", "ended",
           "unregister", "done"}

\* Every variable keeps its type: the shape of RtiNode's tables and of the
\* locals of handle_connection_via_transport.
TypeOK ==
    /\ accepted \in 0 .. MaxTasks
    /\ pc \in [Tasks -> Labels]
    /\ session_id \in [Tasks -> SessionIds \cup {None}]
    /\ membership \in [Tasks -> Handles \cup {None}]
    /\ window \in [Tasks -> BOOLEAN]
    /\ connections \in [SessionIds -> Tasks \cup {None}]
    /\ suspended \in [SessionIds -> Handles \cup {None}]
    /\ expired \in SUBSET SessionIds
    /\ federates \in [Handles -> SessionIds \cup {None}]
    /\ joins \in 0 .. MaxHandles
    /\ to_expire \in SUBSET SessionIds
    /\ shutdown \in BOOLEAN
    /\ dropped \in SUBSET Handles

\* A membership is never in two hands: two tasks, two suspended sessions, or a
\* task and a suspended session never own the same federate, however close,
\* resume and expiry interleave.
MembershipHeldOnce ==
    /\ \A t, u \in Tasks :
            membership[t] # None /\ membership[t] = membership[u] => t = u
    /\ \A i, j \in SessionIds :
            suspended[i] # None /\ suspended[i] = suspended[j] => i = j
    /\ \A t \in Tasks, i \in SessionIds :
            membership[t] # None => membership[t] # suspended[i]

\* Whoever owns a membership finds its federate joined under the session's own
\* id, so that callbacks for the federate are looked up under that id.
MembershipRoutes ==
    /\ \A t \in Tasks : membership[t] # None =>
            federates[membership[t]] = session_id[t]
    /\ \A i \in SessionIds : suspended[i] # None => federates[suspended[i]] = i

\* A federate's membership has at most one holder, and that is the holder its
\* callbacks are routed to: close, resume, expiry and shutdown, which all move
\* memberships between tasks and the table of suspended sessions, neither
\* double one nor leave it with a session id of the past.
MembershipOwned == MembershipHeldOnce /\ MembershipRoutes

\* A joined federate has an owner that will resign for it, unless a resume that
\* failed dropped its membership.
OrphansWereDropped ==
    \A h \in Handles : federates[h] # None =>
        \/ \E t \in Tasks : membership[t] = h
        \/ \E i \in SessionIds : suspended[i] = h
        \/ h \in dropped

\* The janitor works from a list it read earlier; what it takes out under one
\* of the listed ids has always expired, so no fresh suspension is cut short.
JanitorListIsSafe ==
    \A i \in to_expire : suspended[i] # None => i \in expired

\* An entry of the connection map leads to a task of that session that has not
\* finished: no dead connection is counted or sent to.
ConnectionsAreLive ==
    \A i \in SessionIds : connections[i] # None =>
        /\ session_id[connections[i]] = i
        /\ pc[connections[i]] \in {"loop", "ended", "unregister"}

\* A session in its loop is missing from the connection map only if another
\* task of the same session cleaned up after it had registered.
UnregisteredByOther ==
    \A t \in Tasks : pc[t] = "loop" /\ connections[session_id[t]] # t =>
        \E u \in Tasks \ {t} : session_id[u] = session_id[t] /\ pc[u] = "done"

\* The connection map and the tasks agree, clean-up and resume racing: entries
\* lead to tasks that have not finished, and running sessions have entries but
\* for those that another task of the same session unregistered.
ConnectionsExact == ConnectionsAreLive /\ UnregisteredByOther

\* A suspended session is resumed or resigned for, unless the node shuts down.
SuspensionEnds ==
    \A i \in SessionIds :
        suspended[i] # None ~> (suspended[i] = None \/ shutdown)

\* After shutdown every session that was open unwinds to its end.
SessionsUnwind ==
    \A t \in Tasks :
        shutdown /\ pc[t] \in {"open", "loop", "ended"} ~> pc[t] = "done"

=============================================================================
