---- MODULE ConnectionProofs ----
(***************************************************************************)
(* Proofs about the connections of a node: SessionLifecycle, for any       *)
(* number of connections and federates, then ConnectionLimits, for any     *)
(* number of addresses, accept loops and connections, and any limits.      *)
(***************************************************************************)
EXTENDS SessionLifecycle, ConnectionLimits, FiniteSetTheorems, TLAPS

----------------------------------------------------------------------------
(* SessionLifecycle.                                                       *)

\* The task owns its session: it has opened or resumed it and has not closed it.
Active(t) == pc[t] \in {"status", "open", "loop", "ended"}

\* A session has one active task or a suspended entry, never both.
OneOwner ==
    /\ \A t, u \in Tasks :
        Active(t) /\ Active(u) /\ session_id[t] = session_id[u] => t = u
    /\ \A t \in Tasks, i \in SessionIds :
        Active(t) /\ session_id[t] = i => suspended[i] = None /\ i \notin to_expire

\* Tasks before their handshake have no session, active ones have one; ids in
\* use are ids of connections that are past their handshake.
IdsInUse ==
    /\ \A t \in Tasks :
        /\ t > accepted => pc[t] = "idle"
        /\ pc[t] \in {"idle", "handshake"} => session_id[t] = None
        /\ Active(t) \/ pc[t] = "unregister" => session_id[t] # None
        /\ session_id[t] # None => session_id[session_id[t]] # None
    /\ \A i \in SessionIds :
        suspended[i] # None \/ i \in to_expire => session_id[i] # None

\* Memberships are with active tasks, and a task that resumes has one; deadlines
\* pass for suspended sessions only; handles come from the counter.
Held ==
    /\ \A t \in Tasks : membership[t] # None => Active(t)
    /\ \A t \in Tasks : pc[t] = "status" => membership[t] # None
    /\ \A i \in expired : suspended[i] # None
    /\ \A h \in Handles : federates[h] # None => h <= joins

Inv == TypeOK /\ OneOwner /\ IdsInUse /\ Held /\ MembershipRoutes
       /\ JanitorListIsSafe

\* A new task has no session yet.
LEMMA AcceptInv ==
    ASSUME Inv, Accept
    PROVE  Inv'
<1> USE BoundsAssumption DEF Tasks, Handles, SessionIds, Goto, janitorVars,
        fedVars, Active, Inv
<1>1. TypeOK'
  BY DEF Accept, TypeOK, Labels
<1>2. OneOwner'
  BY DEF Accept, TypeOK, OneOwner, IdsInUse
<1>3. IdsInUse'
  BY DEF Accept, TypeOK, IdsInUse
<1>4. Held'
  BY DEF Accept, TypeOK, Held, IdsInUse
<1>5. MembershipRoutes'
  BY Zenon DEF Accept, TypeOK, OneOwner, IdsInUse, Held,
            MembershipRoutes
<1>6. JanitorListIsSafe'
  BY Zenon DEF Accept, TypeOK, JanitorListIsSafe
<1> QED  BY <1>1, <1>2, <1>3, <1>4, <1>5, <1>6, Zenon

\* The id of a new session is the connection's own, which nobody used before.
LEMMA NewSessionInv ==
    ASSUME Inv, NEW t \in Tasks, NewSession(t)
    PROVE  Inv'
<1> USE BoundsAssumption DEF Tasks, Handles, SessionIds, Goto, janitorVars,
        fedVars, Active, Inv
<1>1. TypeOK'
  BY Zenon DEF NewSession, TypeOK, Labels
<1>2. OneOwner'
  BY DEF NewSession, TypeOK, OneOwner, IdsInUse
<1>3. IdsInUse'
  BY DEF NewSession, TypeOK, IdsInUse
<1>4. Held'
  BY Zenon DEF NewSession, TypeOK, Held
<1>5. MembershipRoutes'
  BY DEF NewSession, TypeOK, OneOwner, IdsInUse, Held,
            MembershipRoutes
<1>6. JanitorListIsSafe'
  BY Zenon DEF NewSession, TypeOK, JanitorListIsSafe
<1> QED  BY <1>1, <1>2, <1>3, <1>4, <1>5, <1>6, Zenon

\* A task that fails its handshake owns nothing.
LEMMA HandshakeFailsInv ==
    ASSUME Inv, NEW t \in Tasks, HandshakeFails(t)
    PROVE  Inv'
<1> USE BoundsAssumption DEF Tasks, Handles, SessionIds, Goto, janitorVars,
        fedVars, Active, Inv
<1>1. TypeOK'
  BY Zenon DEF HandshakeFails, TypeOK, Labels
<1>2. OneOwner'
  BY DEF HandshakeFails, TypeOK, OneOwner, IdsInUse
<1>3. IdsInUse'
  BY Zenon DEF HandshakeFails, TypeOK, IdsInUse
<1>4. Held'
  BY Zenon DEF HandshakeFails, TypeOK, Held
<1>5. MembershipRoutes'
  BY Zenon DEF HandshakeFails, TypeOK, OneOwner, IdsInUse, Held,
            MembershipRoutes
<1>6. JanitorListIsSafe'
  BY Zenon DEF HandshakeFails, TypeOK, JanitorListIsSafe
<1> QED  BY <1>1, <1>2, <1>3, <1>4, <1>5, <1>6, Zenon

\* The resuming task becomes the owner the suspended entry was, or nobody does.
LEMMA ResumeInv ==
    ASSUME Inv, NEW t \in Tasks, NEW i \in SessionIds, Resume(t, i), i \in Opened
    PROVE  Inv'
<1> USE BoundsAssumption DEF Tasks, Handles, SessionIds, Goto, janitorVars,
        fedVars, Active, Inv
<1>0. /\ session_id[i] # None /\ session_id[t] = None /\ membership[t] = None
      /\ pc[t] = "handshake" /\ suspended[i] \in Handles \cup {None}
  BY DEF Resume, Opened, TypeOK, IdsInUse, Held
<1>a. /\ suspended' = [suspended EXCEPT ![i] = None]
      /\ expired' = expired \ {i}
      /\ UNCHANGED <<accepted, window, connections, to_expire, federates, joins,
                     shutdown>>
  BY Zenon DEF Resume
<1>1. CASE Resumable(i)
  <2>0. /\ session_id' = [session_id EXCEPT ![t] = i]
        /\ membership' = [membership EXCEPT ![t] = suspended[i]]
        /\ pc' = [pc EXCEPT ![t] = "status"]
        /\ UNCHANGED dropped
    BY <1>1, Zenon DEF Resume
  <2>a. suspended[i] # None /\ i \notin to_expire
    BY <1>1, Zenon DEF Resumable, JanitorListIsSafe
  <2>1. TypeOK'
    BY <1>0, <1>a, <2>0, Zenon DEF TypeOK, Labels
  <2>2. OneOwner'
    BY <1>0, <1>a, <2>0, <2>a DEF TypeOK, OneOwner
  <2>3. IdsInUse'
    BY <1>0, <1>a, <2>0, <2>a DEF TypeOK, IdsInUse
  <2>4. Held'
    BY <1>0, <1>a, <2>0, <2>a, Zenon DEF TypeOK, Held
  <2>5. MembershipRoutes'
    BY <1>0, <1>a, <2>0, <2>a, Zenon DEF TypeOK, MembershipRoutes
  <2>6. JanitorListIsSafe'
    BY <1>0, <1>a, <2>0, <2>a, Zenon DEF TypeOK, JanitorListIsSafe
  <2> QED  BY <2>1, <2>2, <2>3, <2>4, <2>5, <2>6, Zenon
<1>2. CASE ~Resumable(i)
  <2>0. /\ dropped' = dropped \cup ({suspended[i]} \ {None})
        /\ pc' = [pc EXCEPT ![t] = "done"]
        /\ UNCHANGED <<session_id, membership>>
    BY <1>2, Zenon DEF Resume
  <2>1. TypeOK'
    <3>1. dropped' \in SUBSET Handles
      BY <1>0, <2>0, Zenon DEF TypeOK
    <3> QED  BY <1>0, <1>a, <2>0, <3>1, Zenon DEF TypeOK, Labels
  <2>2. OneOwner'
    BY <1>0, <1>a, <2>0, Zenon DEF TypeOK, OneOwner
  <2>3. IdsInUse'
    BY <1>0, <1>a, <2>0, Zenon DEF TypeOK, IdsInUse
  <2>4. Held'
    BY <1>0, <1>a, <2>0, Zenon DEF TypeOK, Held
  <2>5. MembershipRoutes'
    BY <1>0, <1>a, <2>0, Zenon DEF TypeOK, MembershipRoutes
  <2>6. JanitorListIsSafe'
    BY <1>0, <1>a, <2>0, Zenon DEF TypeOK, JanitorListIsSafe
  <2> QED  BY <2>1, <2>2, <2>3, <2>4, <2>5, <2>6, Zenon
<1> QED  BY <1>1, <1>2, Zenon

\* Sending the status changes no owner.
LEMMA StatusSentInv ==
    ASSUME Inv, NEW t \in Tasks, StatusSent(t)
    PROVE  Inv'
<1> USE BoundsAssumption DEF Tasks, Handles, SessionIds, Goto, janitorVars,
        fedVars, Active, Inv
<1>1. TypeOK'
  BY Zenon DEF StatusSent, TypeOK, Labels
<1>2. OneOwner'
  BY DEF StatusSent, TypeOK, OneOwner, IdsInUse
<1>3. IdsInUse'
  BY Zenon DEF StatusSent, TypeOK, IdsInUse
<1>4. Held'
  BY Zenon DEF StatusSent, TypeOK, Held
<1>5. MembershipRoutes'
  BY Zenon DEF StatusSent, TypeOK, MembershipRoutes
<1>6. JanitorListIsSafe'
  BY Zenon DEF StatusSent, TypeOK, JanitorListIsSafe
<1> QED  BY <1>1, <1>2, <1>3, <1>4, <1>5, <1>6, Zenon

\* A failed status leaves the session without an owner.
LEMMA StatusFailsInv ==
    ASSUME Inv, NEW t \in Tasks, StatusFails(t)
    PROVE  Inv'
<1> USE BoundsAssumption DEF Tasks, Handles, SessionIds, Goto, janitorVars,
        fedVars, Active, Inv
<1>1. TypeOK'
  BY Zenon DEF StatusFails, TypeOK, Labels, Held
<1>2. OneOwner'
  BY DEF StatusFails, TypeOK, OneOwner, IdsInUse
<1>3. IdsInUse'
  BY Zenon DEF StatusFails, TypeOK, IdsInUse
<1>4. Held'
  BY Zenon DEF StatusFails, TypeOK, Held
<1>5. MembershipRoutes'
  BY Zenon DEF StatusFails, TypeOK, MembershipRoutes
<1>6. JanitorListIsSafe'
  BY Zenon DEF StatusFails, TypeOK, JanitorListIsSafe
<1> QED  BY <1>1, <1>2, <1>3, <1>4, <1>5, <1>6, Zenon

\* Entering the connection changes no owner.
LEMMA RegisterInv ==
    ASSUME Inv, NEW t \in Tasks, Register(t)
    PROVE  Inv'
<1> USE BoundsAssumption DEF Tasks, Handles, SessionIds, Goto, janitorVars,
        fedVars, Active, Inv
<1>1. TypeOK'
  BY Zenon DEF Register, TypeOK, Labels
<1>2. OneOwner'
  BY DEF Register, TypeOK, OneOwner, IdsInUse
<1>3. IdsInUse'
  BY Zenon DEF Register, TypeOK, IdsInUse
<1>4. Held'
  BY Zenon DEF Register, TypeOK, Held
<1>5. MembershipRoutes'
  BY Zenon DEF Register, TypeOK, OneOwner, IdsInUse, Held,
            MembershipRoutes
<1>6. JanitorListIsSafe'
  BY Zenon DEF Register, TypeOK, JanitorListIsSafe
<1> QED  BY <1>1, <1>2, <1>3, <1>4, <1>5, <1>6, Zenon

\* The handle drawn is beyond all handles in use.
LEMMA JoinInv ==
    ASSUME Inv, NEW t \in Tasks, Join(t)
    PROVE  Inv'
<1> USE BoundsAssumption DEF Tasks, Handles, SessionIds, Goto, janitorVars,
        fedVars, Active, Inv
<1>1. TypeOK'
  BY DEF Join, TypeOK, Labels, Held
<1>2. OneOwner'
  BY DEF Join, TypeOK, Labels, OneOwner, IdsInUse, Held
<1>3. IdsInUse'
  BY Zenon DEF Join, TypeOK, Labels, IdsInUse
<1>4. Held'
  BY DEF Join, TypeOK, Labels, Held, IdsInUse, OneOwner
<1>5. MembershipRoutes'
  BY DEF Join, TypeOK, OneOwner, IdsInUse, Held,
            MembershipRoutes
<1>6. JanitorListIsSafe'
  BY Zenon DEF Join, TypeOK, OneOwner, IdsInUse, Held,
            JanitorListIsSafe
<1> QED  BY <1>1, <1>2, <1>3, <1>4, <1>5, <1>6, Zenon

\* Nobody else holds the handle that is given up.
LEMMA ResignInv ==
    ASSUME Inv, NEW t \in Tasks, Resign(t)
    PROVE  Inv'
<1> USE BoundsAssumption DEF Tasks, Handles, SessionIds, Goto, janitorVars,
        fedVars, Active, Inv
<1>1. TypeOK'
  BY Zenon DEF Resign, TypeOK, Labels
<1>2. OneOwner'
  BY DEF Resign, TypeOK, OneOwner, IdsInUse
<1>3. IdsInUse'
  BY Zenon DEF Resign, TypeOK, IdsInUse
<1>4. Held'
  BY Zenon DEF Resign, TypeOK, Held
<1>5. MembershipRoutes'
  BY DEF Resign, TypeOK, OneOwner, IdsInUse, Held,
            MembershipRoutes
<1>6. JanitorListIsSafe'
  BY Zenon DEF Resign, TypeOK, JanitorListIsSafe
<1> QED  BY <1>1, <1>2, <1>3, <1>4, <1>5, <1>6, Zenon

\* Leaving the loop changes no owner.
LEMMA EndLoopInv ==
    ASSUME Inv, NEW t \in Tasks, EndLoop(t)
    PROVE  Inv'
<1> USE BoundsAssumption DEF Tasks, Handles, SessionIds, Goto, janitorVars,
        fedVars, Active, Inv
<1>1. TypeOK'
  BY Zenon DEF EndLoop, TypeOK, Labels
<1>2. OneOwner'
  BY DEF EndLoop, TypeOK, OneOwner, IdsInUse
<1>3. IdsInUse'
  BY Zenon DEF EndLoop, TypeOK, IdsInUse
<1>4. Held'
  BY Zenon DEF EndLoop, TypeOK, Held
<1>5. MembershipRoutes'
  BY Zenon DEF EndLoop, TypeOK, OneOwner, IdsInUse, Held,
            MembershipRoutes
<1>6. JanitorListIsSafe'
  BY Zenon DEF EndLoop, TypeOK, JanitorListIsSafe
<1> QED  BY <1>1, <1>2, <1>3, <1>4, <1>5, <1>6, Zenon

\* The membership passes from the task to the suspended entry, or ends.
LEMMA CloseInv ==
    ASSUME Inv, NEW t \in Tasks, Close(t)
    PROVE  Inv'
<1> USE BoundsAssumption DEF Tasks, Handles, SessionIds, Goto, janitorVars,
        fedVars, Active, Inv
<1>0. /\ session_id[t] \in SessionIds /\ suspended[session_id[t]] = None
      /\ session_id[t] \notin to_expire
  BY DEF Close, TypeOK, IdsInUse, OneOwner
<1>a. /\ pc' = [pc EXCEPT ![t] = "unregister"]
      /\ membership' = [membership EXCEPT ![t] = None]
      /\ pc[t] = "ended"
      /\ UNCHANGED <<accepted, session_id, window, connections, to_expire, joins,
                     shutdown, dropped>>
  BY Zenon DEF Close
<1>1. CASE window[t] /\ membership[t] # None
  <2>0. /\ suspended' = [suspended EXCEPT ![session_id[t]] = membership[t]]
        /\ expired' = expired \ {session_id[t]}
        /\ UNCHANGED federates
    BY <1>1, Zenon DEF Close
  <2>1. TypeOK'
    BY <1>0, <1>a, <2>0, Zenon DEF TypeOK, Labels
  <2>2. OneOwner'
    BY <1>0, <1>a, <2>0 DEF TypeOK, OneOwner
  <2>3. IdsInUse'
    BY <1>0, <1>a, <2>0, Zenon DEF TypeOK, IdsInUse
  <2>4. Held'
    BY <1>0, <1>a, <2>0, <1>1, Zenon DEF TypeOK, Held
  <2>5. MembershipRoutes'
    BY <1>0, <1>a, <2>0, Zenon DEF TypeOK, MembershipRoutes
  <2>6. JanitorListIsSafe'
    BY <1>0, <1>a, <2>0, Zenon DEF TypeOK, JanitorListIsSafe
  <2> QED  BY <2>1, <2>2, <2>3, <2>4, <2>5, <2>6, Zenon
<1>2. CASE ~(window[t] /\ membership[t] # None)
  <2>0. /\ federates' = [h \in Handles |->
                IF h = membership[t] THEN None ELSE federates[h]]
        /\ UNCHANGED <<suspended, expired>>
    BY <1>2, Zenon DEF Close
  <2>1. TypeOK'
    BY <1>0, <1>a, <2>0, Zenon DEF TypeOK, Labels
  <2>2. OneOwner'
    BY <1>0, <1>a, <2>0 DEF TypeOK, OneOwner
  <2>3. IdsInUse'
    BY <1>0, <1>a, <2>0, Zenon DEF TypeOK, IdsInUse
  <2>4. Held'
    BY <1>0, <1>a, <2>0, Zenon DEF TypeOK, Held
  <2>5. MembershipRoutes'
    BY <1>0, <1>a, <2>0 DEF TypeOK, OneOwner, Held, MembershipRoutes
  <2>6. JanitorListIsSafe'
    BY <1>0, <1>a, <2>0, Zenon DEF TypeOK, JanitorListIsSafe
  <2> QED  BY <2>1, <2>2, <2>3, <2>4, <2>5, <2>6, Zenon
<1> QED  BY <1>1, <1>2, Zenon

\* The task that cleans up has already given up its session.
LEMMA UnregisterInv ==
    ASSUME Inv, NEW t \in Tasks, Unregister(t)
    PROVE  Inv'
<1> USE BoundsAssumption DEF Tasks, Handles, SessionIds, Goto, janitorVars,
        fedVars, Active, Inv
<1>1. TypeOK'
  BY Zenon DEF Unregister, TypeOK, Labels
<1>2. OneOwner'
  BY DEF Unregister, TypeOK, OneOwner, IdsInUse
<1>3. IdsInUse'
  BY Zenon DEF Unregister, TypeOK, IdsInUse
<1>4. Held'
  BY Zenon DEF Unregister, TypeOK, Held
<1>5. MembershipRoutes'
  BY Zenon DEF Unregister, TypeOK, MembershipRoutes
<1>6. JanitorListIsSafe'
  BY Zenon DEF Unregister, TypeOK, JanitorListIsSafe
<1> QED  BY <1>1, <1>2, <1>3, <1>4, <1>5, <1>6, Zenon

\* The entry whose deadline passes stays where it is.
LEMMA DeadlinePassesInv ==
    ASSUME Inv, NEW i \in SessionIds, DeadlinePasses(i)
    PROVE  Inv'
<1> USE BoundsAssumption DEF Tasks, Handles, SessionIds, Goto, janitorVars,
        fedVars, Active, Inv
<1>1. TypeOK'
  BY Zenon DEF DeadlinePasses, TypeOK, Labels
<1>2. OneOwner'
  BY DEF DeadlinePasses, TypeOK, OneOwner, IdsInUse
<1>3. IdsInUse'
  BY Zenon DEF DeadlinePasses, TypeOK, IdsInUse
<1>4. Held'
  BY Zenon DEF DeadlinePasses, TypeOK, Held
<1>5. MembershipRoutes'
  BY Zenon DEF DeadlinePasses, TypeOK, MembershipRoutes
<1>6. JanitorListIsSafe'
  BY Zenon DEF DeadlinePasses, TypeOK, JanitorListIsSafe
<1> QED  BY <1>1, <1>2, <1>3, <1>4, <1>5, <1>6, Zenon

\* Listed sessions are suspended, so no task is active in them.
LEMMA JanitorScanInv ==
    ASSUME Inv, JanitorScan
    PROVE  Inv'
<1> USE BoundsAssumption DEF Tasks, Handles, SessionIds, Goto, janitorVars,
        fedVars, Active, Inv
<1>1. TypeOK'
  BY Zenon DEF JanitorScan, TypeOK, Labels
<1>2. OneOwner'
  BY DEF JanitorScan, TypeOK, OneOwner, Held
<1>3. IdsInUse'
  BY Zenon DEF JanitorScan, TypeOK, IdsInUse, Held
<1>4. Held'
  BY Zenon DEF JanitorScan, TypeOK, Held
<1>5. MembershipRoutes'
  BY Zenon DEF JanitorScan, TypeOK, OneOwner, IdsInUse, Held,
            MembershipRoutes
<1>6. JanitorListIsSafe'
  BY Zenon DEF JanitorScan, TypeOK, JanitorListIsSafe
<1> QED  BY <1>1, <1>2, <1>3, <1>4, <1>5, <1>6, Zenon

\* The federate of an expired entry is held by nobody else.
LEMMA JanitorExpireInv ==
    ASSUME Inv, NEW i \in SessionIds, JanitorExpire(i)
    PROVE  Inv'
<1> USE BoundsAssumption DEF Tasks, Handles, SessionIds, Goto, janitorVars,
        fedVars, Active, Inv
<1>1. TypeOK'
  BY Zenon DEF JanitorExpire, TypeOK, Labels, Held
<1>2. OneOwner'
  BY DEF JanitorExpire, TypeOK, Labels, OneOwner, IdsInUse, Held
<1>3. IdsInUse'
  BY Zenon DEF JanitorExpire, TypeOK, Labels, IdsInUse
<1>4. Held'
  BY Zenon DEF JanitorExpire, TypeOK, Labels, Held, IdsInUse, OneOwner
<1>5. MembershipRoutes'
  BY DEF JanitorExpire, TypeOK, OneOwner, IdsInUse, Held,
            MembershipRoutes
<1>6. JanitorListIsSafe'
  BY DEF JanitorExpire, TypeOK, OneOwner, IdsInUse, Held,
            JanitorListIsSafe
<1> QED  BY <1>1, <1>2, <1>3, <1>4, <1>5, <1>6, Zenon

\* Shutdown changes no owner.
LEMMA ShutdownInv ==
    ASSUME Inv, Shutdown
    PROVE  Inv'
  BY BoundsAssumption
     DEF Tasks, Handles, SessionIds, Goto, janitorVars, fedVars, Active, Inv,
         Shutdown, TypeOK, Labels, OneOwner, IdsInUse, Held, MembershipRoutes,
         JanitorListIsSafe

----------------------------------------------------------------------------

\* Initially nobody has a session.
LEMMA InitInv == Init => Inv
<1> SUFFICES ASSUME Init PROVE Inv
  OBVIOUS
<1> USE BoundsAssumption DEF Tasks, Handles, SessionIds, Init
<1>1. TypeOK
  <2>1. accepted \in 0 .. MaxTasks /\ joins \in 0 .. MaxHandles
    OBVIOUS
  <2>2. window \in [Tasks -> BOOLEAN] /\ shutdown \in BOOLEAN
    BY Zenon
  <2>3. /\ pc \in [Tasks -> Labels]
        /\ session_id \in [Tasks -> SessionIds \cup {None}]
        /\ membership \in [Tasks -> Handles \cup {None}]
        /\ connections \in [SessionIds -> Tasks \cup {None}]
        /\ suspended \in [SessionIds -> Handles \cup {None}]
        /\ federates \in [Handles -> SessionIds \cup {None}]
    BY Zenon DEF Labels
  <2> QED  BY <2>1, <2>2, <2>3, Zenon DEF TypeOK
<1>2. OneOwner /\ IdsInUse /\ Held
  BY Zenon DEF OneOwner, IdsInUse, Held, Active
<1>3. MembershipRoutes /\ JanitorListIsSafe
  BY Zenon DEF MembershipRoutes, JanitorListIsSafe
<1> QED  BY <1>1, <1>2, <1>3, Zenon DEF Inv

\* Every step of the server keeps the invariant.
LEMMA NextInv == Inv /\ [Next]_vars => Inv'
<1> SUFFICES ASSUME Inv, [Next]_vars PROVE Inv'
  OBVIOUS
<1>1. CASE Accept
  BY <1>1, AcceptInv, Zenon
<1>2. ASSUME NEW t \in Tasks, Handshake(t) PROVE Inv'
  <2>1. ASSUME NEW i \in Opened, Resume(t, i) PROVE Inv'
    <3>1. i \in SessionIds
      BY DEF Opened, Inv, TypeOK
    <3> QED  BY <2>1, <3>1, ResumeInv, Zenon
  <2> QED  BY <1>2, <2>1, NewSessionInv, HandshakeFailsInv, StatusSentInv,
              StatusFailsInv, Zenon DEF Handshake
<1>3. ASSUME NEW t \in Tasks, Register(t) PROVE Inv'
  BY <1>3, RegisterInv, Zenon
<1>4. ASSUME NEW t \in Tasks, Loop(t) PROVE Inv'
  BY <1>4, JoinInv, ResignInv, EndLoopInv, Zenon DEF Loop
<1>5. ASSUME NEW t \in Tasks, Close(t) PROVE Inv'
  BY <1>5, CloseInv, Zenon
<1>6. ASSUME NEW t \in Tasks, Unregister(t) PROVE Inv'
  BY <1>6, UnregisterInv, Zenon
<1>7. ASSUME NEW i \in SessionIds, DeadlinePasses(i) PROVE Inv'
  BY <1>7, DeadlinePassesInv, Zenon
<1>8. CASE Janitor
  BY <1>8, JanitorScanInv, JanitorExpireInv, Zenon DEF Janitor
<1>9. CASE Shutdown
  BY <1>9, ShutdownInv, Zenon
<1>10. CASE UNCHANGED vars
  BY <1>10 DEF vars, Inv, Active, TypeOK, OneOwner, IdsInUse, Held,
               MembershipRoutes, JanitorListIsSafe
<1> QED  BY <1>1, <1>2, <1>3, <1>4, <1>5, <1>6, <1>7, <1>8, <1>9, <1>10, Zenon
            DEF Next

\* The invariant holds in every reachable state.
LEMMA Invariance == Spec => []Inv
  BY InitInv, NextInv, PTL DEF Spec

\* The invariant gives each membership one holder: two holders would be of one
\* session, because the federate is joined under its id.
LEMMA InvHeldOnce == Inv => MembershipHeldOnce
<1> SUFFICES ASSUME Inv PROVE MembershipHeldOnce
  OBVIOUS
<1> USE DEF Inv
<1>1. ASSUME NEW t \in Tasks, NEW u \in Tasks, membership[t] # None,
             membership[t] = membership[u]
      PROVE  t = u
  BY <1>1 DEF MembershipRoutes, Held, OneOwner
<1>2. ASSUME NEW i \in SessionIds, NEW j \in SessionIds, suspended[i] # None,
             suspended[i] = suspended[j]
      PROVE  i = j
  BY <1>2, Zenon DEF MembershipRoutes
<1>3. ASSUME NEW t \in Tasks, NEW i \in SessionIds, membership[t] # None
      PROVE  membership[t] # suspended[i]
  BY <1>3 DEF MembershipRoutes, Held, OneOwner
<1> QED  BY <1>1, <1>2, <1>3, Zenon DEF MembershipHeldOnce

\* The tables of RtiNode and the locals of the connection tasks keep their
\* types.
THEOREM SessionTypes == Spec => []TypeOK
  BY Invariance, PTL DEF Inv

\* However close, resume, expiry and shutdown interleave, no federate is ever
\* held by two tasks, by two suspended sessions or by one of each.
THEOREM OneHolder == Spec => []MembershipHeldOnce
  BY Invariance, InvHeldOnce, PTL

\* Whoever holds a membership has the session id the federate is joined under.
THEOREM HoldersAreRouted == Spec => []MembershipRoutes
  BY Invariance, PTL DEF Inv

\* The janitor's list, read in one step and worked off in later ones, never
\* leads it to a session that was suspended afresh.
THEOREM JanitorSpares == Spec => []JanitorListIsSafe
  BY Invariance, PTL DEF Inv

\* Both together: a membership has one holder, and it is routed to that one.
THEOREM OneRoutedHolder == Spec => []MembershipOwned
  BY OneHolder, HoldersAreRouted, PTL DEF MembershipOwned

----------------------------------------------------------------------------
(* The tables: the connection map and the owners of joined federates.      *)

\* A step that leaves federates, memberships and suspended entries alone
\* leaves joined federates with the owners they had.
LEMMA OrphansFrame ==
    ASSUME OrphansWereDropped,
           UNCHANGED <<federates, membership, suspended, dropped>>
    PROVE  OrphansWereDropped'
  BY Zenon DEF OrphansWereDropped

\* A task or a suspended session holds the membership, or it was dropped.
Owned(h) ==
    \/ \E t \in Tasks : membership[t] = h
    \/ \E i \in SessionIds : suspended[i] = h
    \/ h \in dropped

\* The owner of a joined federate, as a task, an id or neither.
LEMMA OwnerOf ==
    ASSUME OrphansWereDropped, NEW h \in Handles, federates[h] # None
    PROVE  Owned(h)
  BY Zenon DEF OrphansWereDropped, Owned

\* A joined federate keeps an owner, or a failed resume has dropped it.
LEMMA OrphansStep ==
    Inv /\ OrphansWereDropped /\ [Next]_vars => OrphansWereDropped'
<1> SUFFICES ASSUME Inv, OrphansWereDropped, [Next]_vars
             PROVE  OrphansWereDropped'
  OBVIOUS
<1>0. /\ None \notin Handles
      /\ membership \in [Tasks -> Handles \cup {None}]
      /\ suspended \in [SessionIds -> Handles \cup {None}]
      /\ federates \in [Handles -> SessionIds \cup {None}]
  BY BoundsAssumption DEF Handles, Inv, TypeOK
<1>1. ASSUME NEW t \in Tasks, NEW i \in Opened, Resume(t, i),
             NEW h \in Handles, federates'[h] # None
      PROVE  Owned(h)'
  <2>1. i \in SessionIds /\ membership[t] = None /\ federates[h] # None
    BY <1>1 DEF Opened, Inv, TypeOK, Resume, Held, Active, fedVars
  <2>2. CASE Resumable(i)
    <3>1. /\ suspended' = [suspended EXCEPT ![i] = None]
          /\ membership' = [membership EXCEPT ![t] = suspended[i]]
          /\ dropped' = dropped
      BY <1>1, <2>2, Zenon DEF Resume
    <3>2. membership'[t] = suspended[i]
      BY <1>0, <3>1, Zenon
    <3>3. ASSUME NEW u \in Tasks, membership[u] = h PROVE membership'[u] = h
      BY <1>0, <2>1, <3>1, <3>3, Zenon
    <3>4. ASSUME NEW j \in SessionIds, suspended[j] = h, j # i
          PROVE  suspended'[j] = h
      BY <1>0, <3>1, <3>4, Zenon
    <3> QED  BY <2>1, <3>1, <3>2, <3>3, <3>4, OwnerOf, Zenon DEF Owned
  <2>3. CASE ~Resumable(i)
    <3>1. /\ suspended' = [suspended EXCEPT ![i] = None]
          /\ membership' = membership
          /\ dropped' = dropped \cup ({suspended[i]} \ {None})
      BY <1>1, <2>3, Zenon DEF Resume
    <3>2. ASSUME NEW j \in SessionIds, suspended[j] = h
          PROVE  suspended'[j] = h \/ h \in dropped'
      BY <1>0, <3>1, <3>2, Zenon
    <3> QED  BY <2>1, <3>1, <3>2, OwnerOf, Zenon DEF Owned
  <2> QED  BY <2>2, <2>3, Zenon
<1>2. ASSUME NEW t \in Tasks, StatusFails(t) \/ Resign(t) \/ Join(t),
             NEW h \in Handles, federates'[h] # None
      PROVE  Owned(h)'
  <2>1. CASE StatusFails(t)
    <3>1. ASSUME NEW u \in Tasks, membership[u] = h
          PROVE  membership'[u] = h \/ h \in dropped'
      BY <1>0, <2>1, <3>1, Zenon DEF StatusFails
    <3>2. federates[h] # None /\ suspended' = suspended /\ dropped \subseteq dropped'
      BY <1>2, <2>1, Zenon DEF StatusFails, fedVars
    <3> QED  BY <3>1, <3>2, OwnerOf, Zenon DEF Owned
  <2>2. CASE Resign(t)
    <3>1. /\ federates[h] # None /\ h # membership[t]
          /\ suspended' = suspended /\ dropped' = dropped
      BY <1>0, <1>2, <2>2, Zenon DEF Resign
    <3>2. ASSUME NEW u \in Tasks, membership[u] = h PROVE membership'[u] = h
      BY <1>0, <2>2, <3>1, <3>2, Zenon DEF Resign
    <3> QED  BY <3>1, <3>2, OwnerOf, Zenon DEF Owned
  <2>3. CASE Join(t)
    <3>1. /\ membership'[t] = joins + 1 /\ membership[t] = None
          /\ h # joins + 1 => federates[h] # None
          /\ suspended' = suspended /\ dropped' = dropped
      BY <1>0, <1>2, <2>3, Zenon DEF Join
    <3>2. ASSUME NEW u \in Tasks, membership[u] = h PROVE membership'[u] = h
      BY <1>0, <2>3, <3>1, <3>2, Zenon DEF Join
    <3> QED  BY <3>1, <3>2, OwnerOf, Zenon DEF Owned
  <2> QED  BY <1>2, <2>1, <2>2, <2>3, Zenon
<1>3. ASSUME NEW t \in Tasks, Close(t), NEW h \in Handles, federates'[h] # None
      PROVE  Owned(h)'
  <2>1. session_id[t] \in SessionIds /\ suspended[session_id[t]] = None
    BY <1>3 DEF Close, Inv, TypeOK, IdsInUse, OneOwner, Active
  <2>2. ASSUME NEW u \in Tasks, membership[u] = h, u # t PROVE membership'[u] = h
    BY <1>0, <1>3, <2>2, Zenon DEF Close
  <2>3. ASSUME NEW j \in SessionIds, suspended[j] = h PROVE suspended'[j] = h
    BY <1>0, <1>3, <2>1, <2>3, Zenon DEF Close
  <2>4. federates[h] # None /\ dropped' = dropped
    BY <1>0, <1>3, Zenon DEF Close
  <2>5. membership[t] = h => suspended'[session_id[t]] = h
    <3> SUFFICES ASSUME membership[t] = h PROVE suspended'[session_id[t]] = h
      OBVIOUS
    <3>1. window[t] /\ membership[t] # None
      BY <1>0, <1>3, Zenon DEF Close
    <3> QED  BY <1>0, <1>3, <2>1, <3>1, Zenon DEF Close
  <2> QED  BY <2>1, <2>2, <2>3, <2>4, <2>5, OwnerOf, Zenon DEF Owned
<1>4. ASSUME NEW i \in SessionIds, JanitorExpire(i),
             NEW h \in Handles, federates'[h] # None
      PROVE  Owned(h)'
  <2>1. /\ federates[h] # None /\ h # suspended[i]
        /\ membership' = membership /\ dropped' = dropped
    BY <1>0, <1>4, Zenon DEF JanitorExpire
  <2>2. ASSUME NEW j \in SessionIds, suspended[j] = h PROVE suspended'[j] = h
    BY <1>0, <1>4, <2>1, <2>2, Zenon DEF JanitorExpire
  <2> QED  BY <2>1, <2>2, OwnerOf, Zenon DEF Owned
<1>5. CASE UNCHANGED <<federates, membership, suspended, dropped>>
  BY <1>5, OrphansFrame, Zenon
<1>6. CASE \/ \E t \in Tasks : \/ \E i \in Opened : Resume(t, i)
                               \/ StatusFails(t) \/ Resign(t) \/ Join(t)
                               \/ Close(t)
           \/ \E i \in SessionIds : JanitorExpire(i)
  <2>1. ASSUME NEW h \in Handles, federates'[h] # None PROVE Owned(h)'
    BY <1>1, <1>2, <1>3, <1>4, <1>6, <2>1, Zenon
  <2> QED  BY <2>1, Zenon DEF OrphansWereDropped, Owned
<1> QED
  BY <1>5, <1>6, Zenon
     DEF Next, vars, Accept, Handshake, NewSession, HandshakeFails, StatusSent,
         Register, Loop, EndLoop, Unregister, DeadlinePasses, Janitor,
         JanitorScan, Shutdown, fedVars

\* A joined federate is without an owner only if a resume that failed, for its
\* deadline or for its transport, dropped the membership.
THEOREM OrphansAccounted == Spec => []OrphansWereDropped
<1>1. Init => OrphansWereDropped
  BY Zenon DEF Init, OrphansWereDropped
<1> QED  BY <1>1, OrphansStep, Invariance, PTL DEF Spec

----------------------------------------------------------------------------

\* What the steps do to the connection map, as far as it matters here: a task
\* enters itself, a task removes its session's entry, or nothing changes but
\* that tasks move and take up sessions.
Moves ==
    /\ UNCHANGED connections
    /\ \A t \in Tasks :
        /\ pc[t] \notin {"idle", "handshake"} => session_id'[t] = session_id[t]
        /\ pc[t] = "done" => pc'[t] = "done"
        /\ pc[t] \in {"loop", "ended", "unregister"} =>
                pc'[t] \in {"loop", "ended", "unregister"}
        /\ pc'[t] = "loop" => pc[t] = "loop"

\* Every step is one of these.
LEMMA TableStep ==
    ASSUME Inv, [Next]_vars
    PROVE  Moves \/ \E t \in Tasks : Register(t) \/ Unregister(t)
<1> USE DEF Inv, TypeOK, Goto, Moves
<1>1. ASSUME Accept PROVE Moves
  BY <1>1, BoundsAssumption DEF Accept, IdsInUse, Tasks
<1>2. ASSUME NEW t \in Tasks, Handshake(t) PROVE Moves
  <2>1. ASSUME NEW i \in Opened, Resume(t, i) PROVE Moves
    BY <2>1, Zenon DEF Resume
  <2>2. ASSUME NewSession(t) \/ HandshakeFails(t) \/ StatusSent(t) \/ StatusFails(t)
        PROVE  Moves
    BY <2>2, Zenon DEF NewSession, HandshakeFails, StatusSent, StatusFails
  <2> QED  BY <1>2, <2>1, <2>2, Zenon DEF Handshake
<1>3. ASSUME NEW t \in Tasks, Loop(t) \/ Close(t) PROVE Moves
  BY <1>3, Zenon DEF Loop, Join, Resign, EndLoop, Close
<1>4. ASSUME \/ \E i \in SessionIds : DeadlinePasses(i)
             \/ Janitor \/ Shutdown \/ UNCHANGED vars
      PROVE  Moves
  BY <1>4, Zenon DEF DeadlinePasses, Janitor, JanitorScan, JanitorExpire, Shutdown, vars
<1> QED  BY <1>1, <1>2, <1>3, <1>4, Zenon DEF Next

\* Entries of the connection map keep leading to unfinished tasks.
LEMMA ConnectionsStep ==
    Inv /\ ConnectionsAreLive /\ [Next]_vars => ConnectionsAreLive'
<1> SUFFICES ASSUME Inv, ConnectionsAreLive, [Next]_vars
             PROVE  ConnectionsAreLive'
  OBVIOUS
<1> USE BoundsAssumption DEF Inv, TypeOK, Tasks, SessionIds, Goto
<1>1. CASE Moves
  <2> SUFFICES ASSUME NEW i \in SessionIds, connections'[i] # None
               PROVE  /\ session_id'[connections'[i]] = i
                      /\ pc'[connections'[i]] \in {"loop", "ended", "unregister"}
    BY Zenon DEF ConnectionsAreLive
  <2>1. /\ connections'[i] = connections[i] /\ connections[i] \in Tasks
        /\ session_id[connections[i]] = i
        /\ pc[connections[i]] \in {"loop", "ended", "unregister"}
    BY <1>1 DEF Moves, ConnectionsAreLive
  <2> QED  BY <1>1, <2>1, Zenon DEF Moves
<1>2. ASSUME NEW t \in Tasks, Register(t) PROVE ConnectionsAreLive'
  <2>1. session_id[t] \in SessionIds
    BY <1>2 DEF Register, IdsInUse, Active
  <2> QED  BY <1>2, <2>1 DEF Register, ConnectionsAreLive
<1>3. ASSUME NEW t \in Tasks, Unregister(t) PROVE ConnectionsAreLive'
  <2>1. session_id[t] \in SessionIds
    BY <1>3, Zenon DEF Unregister, IdsInUse
  <2> QED  BY <1>3, <2>1 DEF Unregister, ConnectionsAreLive
<1> QED  BY <1>1, <1>2, <1>3, TableStep, Zenon

\* No entry of RtiNode.connections leads to a finished task or to a task of
\* another session.
THEOREM EntriesAreLive == Spec => []ConnectionsAreLive
<1>1. Init => ConnectionsAreLive
  BY Zenon DEF Init, ConnectionsAreLive
<1> QED  BY <1>1, ConnectionsStep, Invariance, PTL DEF Spec

\* A running session loses its entry only to the clean-up of another task.
LEMMA UnregisteredStep ==
    Inv /\ UnregisteredByOther /\ [Next]_vars => UnregisteredByOther'
<1> SUFFICES ASSUME Inv, UnregisteredByOther, [Next]_vars,
                    NEW t \in Tasks, pc'[t] = "loop",
                    connections'[session_id'[t]] # t
             PROVE  \E u \in Tasks \ {t} :
                        session_id'[u] = session_id'[t] /\ pc'[u] = "done"
  BY Zenon DEF UnregisteredByOther
<1> USE BoundsAssumption DEF Inv, TypeOK, Tasks, SessionIds, Goto
<1>1. CASE Moves
  <2>1. pc[t] = "loop" /\ session_id'[t] = session_id[t]
    BY <1>1, Zenon DEF Moves
  <2>2. PICK u \in Tasks \ {t} : session_id[u] = session_id[t] /\ pc[u] = "done"
    BY <1>1, <2>1, Zenon DEF Moves, UnregisteredByOther
  <2> QED  BY <1>1, <2>1, <2>2, Zenon DEF Moves
<1>2. ASSUME NEW v \in Tasks, Register(v)
      PROVE  \E u \in Tasks \ {t} :
                session_id'[u] = session_id'[t] /\ pc'[u] = "done"
  <2>1. session_id[v] \in SessionIds /\ Active(v) /\ v # t
    BY <1>2 DEF Register, IdsInUse, Active
  <2>2. pc[t] = "loop" /\ session_id[v] # session_id[t]
    BY <1>2, <2>1, Zenon DEF Register, OneOwner, Active
  <2>3. PICK u \in Tasks \ {t} : session_id[u] = session_id[t] /\ pc[u] = "done"
    BY <1>2, <2>1, <2>2 DEF Register, UnregisteredByOther
  <2> QED  BY <1>2, <2>3, Zenon DEF Register
<1>3. ASSUME NEW v \in Tasks, Unregister(v)
      PROVE  \E u \in Tasks \ {t} :
                session_id'[u] = session_id'[t] /\ pc'[u] = "done"
  <2>1. v # t /\ pc[t] = "loop"
    BY <1>3, Zenon DEF Unregister
  <2>2. CASE session_id[v] = session_id[t]
    BY <1>3, <2>1, <2>2, Zenon DEF Unregister
  <2>3. CASE session_id[v] # session_id[t]
    <3>1. PICK u \in Tasks \ {t} :
                session_id[u] = session_id[t] /\ pc[u] = "done"
      BY <1>3, <2>1, <2>3 DEF Unregister, UnregisteredByOther
    <3> QED  BY <1>3, <3>1, Zenon DEF Unregister
  <2> QED  BY <2>2, <2>3, Zenon
<1> QED  BY <1>1, <1>2, <1>3, TableStep, Zenon

\* A session that runs without an entry in RtiNode.connections lost it to the
\* clean-up of another task of the same session, and in no other way.
THEOREM LossesExplained == Spec => []UnregisteredByOther
<1>1. Init => UnregisteredByOther
  BY Zenon DEF Init, UnregisteredByOther
<1> QED  BY <1>1, UnregisteredStep, Invariance, PTL DEF Spec

\* Both together: RtiNode.connections is right but for that one race.
THEOREM MapIsExact == Spec => []ConnectionsExact
  BY EntriesAreLive, LossesExplained, PTL DEF ConnectionsExact

----------------------------------------------------------------------------
(* ConnectionLimits.                                                       *)

\* Tasks are taken in order, and those in use have an address; so has a socket
\* in the hands of a loop, and there is a task left for each.
InUse ==
    /\ \A t \in Tasks : stage[t] # "idle" => t <= spawned /\ ip[t] \in Ips
    /\ \A l \in Loops : loop[l] # "accept" => peer[l] \in Ips
    /\ spawned + InHand <= MaxTasks

\* The count of an address is never above its connections, and below them by
\* no more than was erased.
CountsRight ==
    \A i \in Ips : /\ Count(i) <= Cardinality(Counted(i))
                   /\ Cardinality(Counted(i)) <= Count(i) + erased[i]

\* The loops that have found the address below its limit and not counted yet.
Passing(i) == {l \in Loops : loop[l] = "count" /\ peer[l] = i}

\* Counted or about to be, an address has no more than its limit and one for
\* each further loop.
PassingBounded ==
    max_per_ip # None =>
        \A i \in Ips : Count(i) + Cardinality(Passing(i)) <=
                         max_per_ip + (Cardinality(Loops) - 1)

LimitsInv == LimitsTypeOK /\ InUse /\ CountsRight /\ PassingBounded

----------------------------------------------------------------------------
(* Finite sets.                                                            *)

\* Tasks and loops are finitely many.
LEMMA Finite ==
    /\ IsFiniteSet(Tasks) /\ IsFiniteSet(Loops)
    /\ \A i : IsFiniteSet(Counted(i)) /\ Cardinality(Counted(i)) \in Nat
    /\ \A i : /\ IsFiniteSet(Passing(i)) /\ Cardinality(Passing(i)) \in Nat
              /\ Cardinality(Passing(i)) <= Cardinality(Loops)
    /\ IsFiniteSet({l \in Loops : loop[l] # "accept"}) /\ InHand \in Nat
    /\ Cardinality(Loops) \in Nat \ {0}
<1>1. IsFiniteSet(Tasks)
  BY FS_Interval, LimitsAssumption DEF Tasks
<1>2. IsFiniteSet(Loops) /\ Loops # {}
  BY LimitsAssumption, Zenon
<1>3. ASSUME NEW i PROVE IsFiniteSet(Counted(i)) /\ Cardinality(Counted(i)) \in Nat
  <2>1. Counted(i) \in SUBSET Tasks
    BY Zenon DEF Counted
  <2>2. IsFiniteSet(Counted(i))
    BY <1>1, <2>1, FS_Subset, Zenon
  <2>3. QED  BY <2>2, FS_CardinalityType, Zenon
<1>4. ASSUME NEW i
      PROVE  /\ IsFiniteSet(Passing(i)) /\ Cardinality(Passing(i)) \in Nat
             /\ Cardinality(Passing(i)) <= Cardinality(Loops)
  <2>1. Passing(i) \in SUBSET Loops
    BY Zenon DEF Passing
  <2>2. IsFiniteSet(Passing(i)) /\ Cardinality(Passing(i)) <= Cardinality(Loops)
    BY <1>2, <2>1, FS_Subset, Zenon
  <2>3. QED  BY <2>2, FS_CardinalityType, Zenon
<1>5. IsFiniteSet({l \in Loops : loop[l] # "accept"}) /\ InHand \in Nat
  <2>1. {l \in Loops : loop[l] # "accept"} \in SUBSET Loops
    BY Zenon
  <2>2. IsFiniteSet({l \in Loops : loop[l] # "accept"})
    BY <1>2, <2>1, FS_Subset, Zenon
  <2>3. QED  BY <2>2, FS_CardinalityType, Zenon DEF InHand
<1>6. Cardinality(Loops) \in Nat \ {0}
  BY <1>2, FS_CardinalityType, FS_EmptySet
<1>7. QED  BY <1>1, <1>2, <1>3, <1>4, <1>5, <1>6, Zenon

\* The size of a set that an element joins.
LEMMA Grown ==
    ASSUME NEW S, IsFiniteSet(S), NEW x, x \notin S, NEW T, T = S \cup {x}
    PROVE  Cardinality(T) = Cardinality(S) + 1
BY FS_AddElement, Zenon

\* The size of a set that an element leaves.
LEMMA Shrunk ==
    ASSUME NEW S, IsFiniteSet(S), NEW x, x \in S, NEW T, T = S \ {x}
    PROVE  Cardinality(T) = Cardinality(S) - 1
BY FS_RemoveElement, Zenon

----------------------------------------------------------------------------
(* Types, and the tasks in use.                                            *)

\* The initial state.
LEMMA InvInit == LimitsInit => LimitsInv
<1> SUFFICES ASSUME LimitsInit PROVE LimitsInv
  OBVIOUS
<1>1. LimitsTypeOK
  BY LimitsAssumption DEF LimitsInit, LimitsTypeOK, Stages, Tasks
<1>2. {l \in Loops : loop[l] # "accept"} = {} /\ \A i : Passing(i) = {} /\ Counted(i) = {}
  <2>1. \A l \in Loops : loop[l] = "accept"
    BY Zenon DEF LimitsInit
  <2>2. \A t \in Tasks : stage[t] = "idle"
    BY Zenon DEF LimitsInit
  <2>3. \A i : Counted(i) = {}
    BY <2>2 DEF Counted
  <2>4. \A i : Passing(i) = {}
    BY <2>1 DEF Passing
  <2>5. {l \in Loops : loop[l] # "accept"} = {}
    BY <2>1, Zenon
  <2>6. QED  BY <2>3, <2>4, <2>5, Zenon
<1>3. InHand = 0 /\ \A i : Cardinality(Passing(i)) = 0 /\ Cardinality(Counted(i)) = 0
  BY <1>2, FS_EmptySet, Zenon DEF InHand
<1>4. InUse
  BY <1>3, LimitsAssumption DEF LimitsInit, InUse
<1>5. \A i \in Ips : Count(i) = 0 /\ erased[i] = 0
  BY Zenon DEF LimitsInit, Count
<1>6. CountsRight
  BY <1>3, <1>5 DEF CountsRight
<1>7. PassingBounded
  BY <1>3, <1>5, Finite, LimitsAssumption DEF PassingBounded
<1>8. QED  BY <1>1, <1>4, <1>6, <1>7, Zenon DEF LimitsInv

\* A count is a number, and one less is what saturating_sub makes of it.
LEMMA CountNat ==
    ASSUME LimitsTypeOK, NEW i \in Ips
    PROVE  /\ Count(i) \in Nat /\ erased[i] \in Nat
           /\ Less(i) \in Nat \cup {None}
           /\ (IF Less(i) = None THEN 0 ELSE Less(i)) = IF Count(i) = 0 THEN 0 ELSE Count(i) - 1
BY LimitsAssumption DEF LimitsTypeOK, Count, Less

\* The count after it was set.
LEMMA CountSet ==
    ASSUME LimitsTypeOK, NEW i \in Ips, NEW n \in Nat \cup {None}, SetCount(i, n)
    PROVE  /\ connections_per_ip' \in [Ips -> Nat \cup {None}]
           /\ Count(i)' = IF n = None THEN 0 ELSE n
           /\ \A j \in Ips : j # i => Count(j)' = Count(j)
BY Zenon DEF LimitsTypeOK, SetCount, Count

\* A loop with a socket in hand has a task to give it to.
LEMMA TaskLeft ==
    ASSUME LimitsTypeOK, InUse, NEW l \in Loops, loop[l] # "accept"
    PROVE  /\ spawned + 1 \in Tasks /\ InHand >= 1
           /\ spawned \in Nat
           /\ stage[spawned + 1] = "idle"
<1>1. /\ IsFiniteSet({k \in Loops : loop[k] # "accept"}) /\ InHand \in Nat
  BY Finite, Zenon
<1>2. InHand # 0
  <2>1. {k \in Loops : loop[k] # "accept"} # {}
    BY Zenon
  <2>2. QED  BY <1>1, <2>1, FS_EmptySet DEF InHand
<1>3. spawned \in Nat /\ spawned + InHand <= MaxTasks /\ MaxTasks \in Nat
  BY LimitsAssumption DEF LimitsTypeOK, InUse
<1>4. spawned + 1 \in Tasks /\ InHand >= 1
  BY <1>1, <1>2, <1>3 DEF Tasks
<1>5. stage[spawned + 1] = "idle"
  BY <1>3, <1>4 DEF InUse
<1>6. QED  BY <1>3, <1>4, <1>5, Zenon

\* A task in use has its address.
LEMMA TaskAddress ==
    ASSUME InUse, NEW t \in Tasks, stage[t] # "idle"
    PROVE  ip[t] \in Ips /\ t <= spawned
BY Zenon DEF InUse

\* Every step keeps the types.
LEMMA TypesNext ==
    ASSUME LimitsTypeOK, InUse, [LimitsNext]_limitVars
    PROVE  LimitsTypeOK'
<1>1. CASE UNCHANGED limitVars
  BY <1>1, Zenon DEF limitVars, LimitsTypeOK
<1>2. ASSUME NEW l \in Loops, NEW i \in Ips, AcceptSocket(l, i) PROVE LimitsTypeOK'
  BY <1>2, Zenon DEF AcceptSocket, LimitsTypeOK
<1>3. ASSUME NEW l \in Loops, CheckPerIp(l) PROVE LimitsTypeOK'
  BY <1>3, Zenon DEF CheckPerIp, LimitsTypeOK
<1>4. ASSUME NEW l \in Loops, Spawn(l) PROVE LimitsTypeOK'
  <2>1. loop[l] # "accept" /\ peer[l] \in Ips
    BY <1>4, Zenon DEF Spawn, InUse
  <2>2. spawned + 1 \in Tasks
    BY <2>1, TaskLeft, Zenon
  <2>3. Count(peer[l]) + 1 \in Nat
    BY <2>1, CountNat
  <2>4. connections_per_ip' \in [Ips -> Nat \cup {None}]
    BY <1>4, <2>1, <2>3, CountSet, Zenon DEF Spawn
  <2>5. spawned' \in 0 .. MaxTasks
    BY <1>4, <2>2 DEF Spawn, Tasks
  <2>6. stage' \in [Tasks -> Stages] /\ ip' \in [Tasks -> Ips \cup {None}]
    BY <1>4, <2>1, <2>2, Zenon DEF Spawn, Enter, LimitsTypeOK, Stages
  <2>7. QED  BY <1>4, <2>4, <2>5, <2>6, Zenon DEF Spawn, LimitsTypeOK
<1>5. ASSUME NEW t \in Tasks, Upgraded(t) \/ Session(t) \/ Disconnect(t) PROVE LimitsTypeOK'
  BY <1>5, Zenon DEF Upgraded, Session, Disconnect, Enter, LimitsTypeOK, Stages
<1>6. ASSUME NEW t \in Tasks, UpgradeFails(t) \/ Discount(t) PROVE LimitsTypeOK'
  <2>1. ip[t] \in Ips
    BY <1>6, TaskAddress, Zenon DEF UpgradeFails, Discount
  <2>2. connections_per_ip' \in [Ips -> Nat \cup {None}]
    BY <1>6, <2>1, CountNat, CountSet, Zenon DEF UpgradeFails, Discount
  <2>3. stage' \in [Tasks -> Stages]
    BY <1>6, Zenon DEF UpgradeFails, Discount, Enter, LimitsTypeOK, Stages
  <2>4. QED  BY <1>6, <2>2, <2>3, Zenon DEF UpgradeFails, Discount, LimitsTypeOK
<1>7. ASSUME NEW t \in Tasks, RemoveEntry(t) PROVE LimitsTypeOK'
  <2>1. ip[t] \in Ips
    BY <1>7, TaskAddress, Zenon DEF RemoveEntry
  <2>2. connections_per_ip' \in [Ips -> Nat \cup {None}]
    BY <1>7, <2>1, CountSet, Zenon DEF RemoveEntry
  <2>3. erased[ip[t]] + Count(ip[t]) \in Nat
    BY <2>1, CountNat
  <2>4. erased' \in [Ips -> Nat]
    BY <1>7, <2>3, Zenon DEF RemoveEntry, LimitsTypeOK
  <2>5. QED  BY <1>7, <2>2, <2>4, Zenon DEF RemoveEntry, Enter, LimitsTypeOK, Stages
<1>8. QED  BY <1>1, <1>2, <1>3, <1>4, <1>5, <1>6, <1>7, Zenon DEF LimitsNext

\* A socket that is taken is one more in hand; one that is refused or given to
\* a task is one less.
LEMMA HandMoves ==
    ASSUME LimitsTypeOK, NEW l \in Loops
    PROVE  /\ loop[l] = "accept" /\ loop' = [loop EXCEPT ![l] = "check"]
                => InHand' = InHand + 1
           /\ loop[l] # "accept" /\ loop' = [loop EXCEPT ![l] = "accept"]
                => InHand' = InHand - 1
           /\ loop[l] # "accept" /\ loop' = [loop EXCEPT ![l] = "count"]
                => InHand' = InHand
<1> DEFINE S == {k \in Loops : loop[k] # "accept"}
           T == {k \in Loops : loop'[k] # "accept"}
<1>1. IsFiniteSet(S)
  BY Finite, Zenon
<1>2. InHand = Cardinality(S) /\ InHand' = Cardinality(T)
  BY Zenon DEF InHand
<1>3. ASSUME loop[l] = "accept", loop' = [loop EXCEPT ![l] = "check"]
      PROVE  InHand' = InHand + 1
  <2>1. T = S \cup {l} /\ l \notin S
    BY <1>3 DEF LimitsTypeOK
  <2> HIDE DEF S, T
  <2>2. QED  BY <1>1, <1>2, <2>1, Grown, Zenon
<1>4. ASSUME loop[l] # "accept", loop' = [loop EXCEPT ![l] = "accept"]
      PROVE  InHand' = InHand - 1
  <2>1. T = S \ {l} /\ l \in S
    BY <1>4 DEF LimitsTypeOK
  <2> HIDE DEF S, T
  <2>2. QED  BY <1>1, <1>2, <2>1, Shrunk, Zenon
<1>5. ASSUME loop[l] # "accept", loop' = [loop EXCEPT ![l] = "count"]
      PROVE  InHand' = InHand
  <2>1. T = S
    BY <1>5 DEF LimitsTypeOK
  <2> HIDE DEF S, T
  <2>2. QED  BY <1>2, <2>1, Zenon
<1>6. QED  BY <1>3, <1>4, <1>5, Zenon

\* Every step keeps the tasks in use.
LEMMA InUseNext ==
    ASSUME LimitsTypeOK, InUse, [LimitsNext]_limitVars
    PROVE  InUse'
<1>1. CASE UNCHANGED limitVars
  BY <1>1, Zenon DEF limitVars, InUse, InHand
<1>2. ASSUME NEW l \in Loops, NEW i \in Ips, AcceptSocket(l, i) PROVE InUse'
  <2>1. InHand' = InHand + 1
    BY <1>2, HandMoves, Zenon DEF AcceptSocket
  <2>2. spawned' + InHand' <= MaxTasks
    BY <1>2, <2>1, Finite, LimitsAssumption DEF AcceptSocket, LimitsTypeOK
  <2>3. \A k \in Loops : loop'[k] # "accept" => peer'[k] \in Ips
    BY <1>2 DEF AcceptSocket, LimitsTypeOK, InUse
  <2>4. QED  BY <1>2, <2>2, <2>3, Zenon DEF AcceptSocket, InUse
<1>3. ASSUME NEW l \in Loops, CheckPerIp(l) PROVE InUse'
  <2>1. loop' = [loop EXCEPT ![l] = "count"] \/ loop' = [loop EXCEPT ![l] = "accept"]
    BY <1>3, Zenon DEF CheckPerIp
  <2>2. InHand' = InHand \/ InHand' = InHand - 1
    BY <1>3, <2>1, HandMoves, Zenon DEF CheckPerIp
  <2>3. spawned' + InHand' <= MaxTasks
    BY <1>3, <2>2, Finite, LimitsAssumption DEF CheckPerIp, LimitsTypeOK, InUse
  <2>4. \A k \in Loops : loop'[k] # "accept" => peer'[k] \in Ips
    BY <1>3, <2>1 DEF CheckPerIp, LimitsTypeOK, InUse
  <2>5. QED  BY <1>3, <2>3, <2>4, Zenon DEF CheckPerIp, InUse
<1>4. ASSUME NEW l \in Loops, Spawn(l) PROVE InUse'
  <2>1. loop[l] # "accept" /\ peer[l] \in Ips
    BY <1>4, Zenon DEF Spawn, InUse
  <2>2. InHand' = InHand - 1
    BY <1>4, <2>1, HandMoves, Zenon DEF Spawn
  <2>3. spawned' + InHand' <= MaxTasks
    BY <1>4, <2>2, Finite, LimitsAssumption DEF Spawn, LimitsTypeOK, InUse
  <2>4. \A k \in Loops : loop'[k] # "accept" => peer'[k] \in Ips
    BY <1>4 DEF Spawn, LimitsTypeOK, InUse
  <2>5. spawned \in Nat
    BY <2>1, TaskLeft, Zenon
  <2>6. ASSUME NEW t \in Tasks, stage'[t] # "idle" PROVE t <= spawned' /\ ip'[t] \in Ips
    <3>1. CASE t = spawned + 1
      BY <1>4, <2>1, <2>5, <3>1 DEF Spawn, LimitsTypeOK, Tasks
    <3>2. CASE t # spawned + 1
      <4>1. stage[t] # "idle" /\ ip'[t] = ip[t]
        BY <1>4, <2>6, <3>2, Zenon DEF Spawn, Enter, LimitsTypeOK
      <4>2. t <= spawned /\ ip[t] \in Ips
        BY <4>1, TaskAddress, Zenon
      <4>3. t <= spawned + 1
        BY <2>5, <4>2 DEF Tasks
      <4>4. QED  BY <1>4, <4>1, <4>2, <4>3, Zenon DEF Spawn
    <3>3. QED  BY <3>1, <3>2, Zenon
  <2>7. QED  BY <2>3, <2>4, <2>6, Zenon DEF InUse
<1>5. ASSUME NEW t \in Tasks,
             \/ Upgraded(t) \/ Session(t) \/ Disconnect(t)
             \/ UpgradeFails(t) \/ Discount(t) \/ RemoveEntry(t)
      PROVE  InUse'
  <2>1. stage[t] # "idle" /\ UNCHANGED <<loop, peer, spawned, ip>>
    BY <1>5, Zenon DEF Upgraded, Session, Disconnect, UpgradeFails, Discount, RemoveEntry
  <2>2. \A u \in Tasks : u # t => stage'[u] = stage[u]
    BY <1>5, Zenon DEF Upgraded, Session, Disconnect, UpgradeFails, Discount, RemoveEntry,
                       Enter, LimitsTypeOK
  <2>3. InHand' = InHand
    BY <2>1, Zenon DEF InHand
  <2>4. QED  BY <2>1, <2>2, <2>3, Zenon DEF InUse
<1>6. QED  BY <1>1, <1>2, <1>3, <1>4, <1>5, Zenon DEF LimitsNext

----------------------------------------------------------------------------
(* The connections of an address.                                          *)

Alive == {"upgrade", "handshake", "session", "discount"}

\* A task that stays on one side of its discount leaves every address with the
\* connections it had; one that passes it leaves those of its own.
LEMMA CountedMoves ==
    ASSUME LimitsTypeOK, NEW t \in Tasks, NEW a \in Stages, Enter(t, a), ip' = ip
    PROVE  /\ (stage[t] \in Alive <=> a \in Alive) => \A i : Counted(i)' = Counted(i)
           /\ stage[t] \in Alive /\ a \notin Alive =>
                /\ Cardinality(Counted(ip[t]))' = Cardinality(Counted(ip[t])) - 1
                /\ \A i : i # ip[t] => Counted(i)' = Counted(i)
<1>1. \A u \in Tasks : stage'[u] = IF u = t THEN a ELSE stage[u]
  BY Zenon DEF Enter, LimitsTypeOK
<1>2. ASSUME stage[t] \in Alive <=> a \in Alive, NEW i PROVE Counted(i)' = Counted(i)
  <2>1. \A u \in Tasks : stage'[u] \in Alive <=> stage[u] \in Alive
    BY <1>1, <1>2, Zenon
  <2>2. QED  BY <2>1 DEF Counted, Alive
<1>3. ASSUME stage[t] \in Alive, a \notin Alive
      PROVE  /\ Cardinality(Counted(ip[t]))' = Cardinality(Counted(ip[t])) - 1
             /\ \A i : i # ip[t] => Counted(i)' = Counted(i)
  <2>1. \A u \in Tasks : stage'[u] \in Alive <=> stage[u] \in Alive /\ u # t
    BY <1>1, <1>3, Zenon
  <2>2. t \in Counted(ip[t])
    BY <1>3, Zenon DEF Counted, Alive
  <2>3. Counted(ip[t])' = Counted(ip[t]) \ {t}
    BY <2>1 DEF Counted, Alive
  <2>4. Cardinality(Counted(ip[t]))' = Cardinality(Counted(ip[t])) - 1
    BY <2>2, <2>3, Finite, Shrunk, Zenon
  <2>5. \A i : i # ip[t] => Counted(i)' = Counted(i)
    BY <2>1 DEF Counted, Alive
  <2>6. QED  BY <2>4, <2>5, Zenon
<1>4. QED  BY <1>2, <1>3, Zenon

\* A connection that is spawned is one more of its address.
LEMMA CountedGrows ==
    ASSUME LimitsTypeOK, InUse, NEW l \in Loops, Spawn(l)
    PROVE  /\ peer[l] \in Ips
           /\ Cardinality(Counted(peer[l]))' = Cardinality(Counted(peer[l])) + 1
           /\ \A i \in Ips : i # peer[l] => Counted(i)' = Counted(i)
<1> DEFINE n == spawned + 1
           p == peer[l]
<1>1. loop[l] # "accept" /\ p \in Ips /\ peer' = peer
  BY Zenon DEF Spawn, InUse
<1>2. n \in Tasks /\ stage[n] = "idle"
  BY <1>1, TaskLeft, Zenon
<1> HIDE DEF n, p
<1>3. \A u \in Tasks : /\ stage'[u] \in Alive <=> stage[u] \in Alive \/ u = n
                       /\ u # n => ip'[u] = ip[u]
  BY Zenon DEF Spawn, Enter, LimitsTypeOK, Alive, n
<1>4. ip'[n] = p
  BY <1>2, Zenon DEF Spawn, LimitsTypeOK, n, p
<1>5. n \notin Counted(p)
  BY <1>2 DEF Counted
<1>6. \A i : Counted(i)' = IF i = p THEN Counted(i) \cup {n} ELSE Counted(i)
  <2>1. stage[n] \notin Alive
    BY <1>2 DEF Alive
  <2>2. QED  BY <1>2, <1>3, <1>4, <2>1 DEF Counted, Alive
<1>7. {t \in Tasks : stage'[t] \in Alive /\ ip'[t] = p} = Counted(p) \cup {n}
  BY <1>6, Zenon DEF Counted, Alive
<1>8. Cardinality(Counted(peer[l]))' = Cardinality(Counted(p)) + 1
  <2>1. Cardinality({t \in Tasks : stage'[t] \in Alive /\ ip'[t] = p}) = Cardinality(Counted(p)) + 1
    BY <1>5, <1>7, Finite, Grown, Zenon
  <2>2. Counted(peer[l])' = {t \in Tasks : stage'[t] \in Alive /\ ip'[t] = p}
    BY <1>1, Zenon DEF Counted, Alive, p
  <2>3. QED  BY <2>1, <2>2, Zenon
<1>9. QED  BY <1>1, <1>6, <1>8, Zenon DEF p

\* Every step keeps the counts right.
LEMMA CountsNext ==
    ASSUME LimitsTypeOK, InUse, CountsRight, [LimitsNext]_limitVars
    PROVE  CountsRight'
<1> DEFINE m(i) == Cardinality(Counted(i))
<1>1. \A i \in Ips : /\ Count(i) \in Nat /\ erased[i] \in Nat /\ m(i) \in Nat
                     /\ Count(i) <= m(i) /\ m(i) <= Count(i) + erased[i]
  BY CountNat, Finite, Zenon DEF CountsRight
<1>2. ASSUME UNCHANGED <<stage, ip, connections_per_ip, erased>> PROVE CountsRight'
  BY <1>2, Zenon DEF CountsRight, Counted, Count
<1>3. ASSUME NEW l \in Loops, Spawn(l) PROVE CountsRight'
  <2>1. peer[l] \in Ips
    BY <1>3, CountedGrows, Zenon
  <2>2. Count(peer[l]) + 1 \in Nat
    BY <1>1, <2>1
  <2>3. Count(peer[l]) + 1 # None
    BY <2>2, LimitsAssumption
  <2>4. ASSUME NEW i \in Ips PROVE Count(i)' <= m(i)' /\ m(i)' <= Count(i)' + erased'[i]
    <3>1. erased' = erased /\ SetCount(peer[l], Count(peer[l]) + 1)
      BY <1>3, Zenon DEF Spawn
    <3>2. CASE i = peer[l]
      <4>1. m(i)' = m(i) + 1
        BY <1>3, <3>2, CountedGrows, Zenon DEF Spawn
      <4>2. Count(i)' = Count(i) + 1
        BY <2>1, <2>2, <2>3, <3>1, <3>2, CountSet, Zenon
      <4>3. QED  BY <1>1, <3>1, <4>1, <4>2
    <3>3. CASE i # peer[l]
      <4>1. m(i)' = m(i)
        BY <1>3, <3>3, CountedGrows, Zenon
      <4>2. Count(i)' = Count(i)
        BY <2>1, <2>2, <3>1, <3>3, CountSet, Zenon
      <4>3. QED  BY <1>1, <3>1, <4>1, <4>2, Zenon
    <3>4. QED  BY <3>2, <3>3, Zenon
  <2>5. QED  BY <2>4, Zenon DEF CountsRight
<1>4. ASSUME NEW t \in Tasks, Upgraded(t) \/ Session(t) \/ Disconnect(t) PROVE CountsRight'
  <2>1. PICK a \in {"handshake", "session", "discount"} : Enter(t, a)
    BY <1>4, Zenon DEF Upgraded, Session, Disconnect
  <2>2. /\ stage[t] \in Alive /\ a \in Alive /\ a \in Stages
        /\ UNCHANGED <<ip, connections_per_ip, erased>>
    BY <1>4, Zenon DEF Upgraded, Session, Disconnect, Alive, Stages
  <2>3. \A i : Counted(i)' = Counted(i)
    BY <2>1, <2>2, CountedMoves, Zenon
  <2>4. QED  BY <2>2, <2>3, Zenon DEF CountsRight, Count
<1>5. ASSUME NEW t \in Tasks, UpgradeFails(t) \/ Discount(t) PROVE CountsRight'
  <2>1. PICK a \in {"remove", "done"} : Enter(t, a)
    BY <1>5, Zenon DEF UpgradeFails, Discount
  <2>2. /\ stage[t] \in Alive /\ a \notin Alive /\ a \in Stages
        /\ ip' = ip /\ erased' = erased /\ SetCount(ip[t], Less(ip[t]))
    BY <1>5, Zenon DEF UpgradeFails, Discount, Alive, Stages
  <2>3. ip[t] \in Ips
    BY <1>5, TaskAddress, Zenon DEF UpgradeFails, Discount
  <2>4. /\ Cardinality(Counted(ip[t]))' = Cardinality(Counted(ip[t])) - 1
        /\ \A i : i # ip[t] => Counted(i)' = Counted(i)
    BY <2>1, <2>2, CountedMoves, Zenon
  <2>5. ASSUME NEW i \in Ips PROVE Count(i)' <= m(i)' /\ m(i)' <= Count(i)' + erased'[i]
    <3>1. CASE i = ip[t]
      <4>1. m(i)' = m(i) - 1
        BY <2>2, <2>4, <3>1, Zenon
      <4>2. Count(i)' = IF Count(i) = 0 THEN 0 ELSE Count(i) - 1
        BY <2>2, <2>3, <3>1, CountNat, CountSet, Zenon
      <4>3. t \in Counted(i)
        BY <2>2, <3>1, Zenon DEF Counted, Alive
      <4>4. m(i) # 0
        <5>1. Counted(i) # {}
          BY <4>3, Zenon
        <5>2. IsFiniteSet(Counted(i))
          BY Finite, Zenon
        <5>3. QED  BY <5>1, <5>2, FS_EmptySet
      <4>5. m(i) - 1 \in Nat
        BY <1>1, <4>4
      <4>6. QED  BY <1>1, <2>2, <4>1, <4>2, <4>5
    <3>2. CASE i # ip[t]
      <4>1. m(i)' = m(i)
        BY <2>4, <3>2, Zenon
      <4>2. Count(i)' = Count(i)
        BY <2>2, <2>3, <3>2, CountNat, CountSet, Zenon
      <4>3. QED  BY <1>1, <2>2, <4>1, <4>2, Zenon
    <3>3. QED  BY <3>1, <3>2, Zenon
  <2>6. QED  BY <2>5, Zenon DEF CountsRight
<1>6. ASSUME NEW t \in Tasks, RemoveEntry(t) PROVE CountsRight'
  <2>1. /\ stage[t] \notin Alive /\ "done" \notin Alive /\ "done" \in Stages
        /\ ip' = ip /\ Enter(t, "done") /\ SetCount(ip[t], None)
        /\ erased' = [erased EXCEPT ![ip[t]] = @ + Count(ip[t])]
    BY <1>6 DEF RemoveEntry, Alive, Stages
  <2>2. ip[t] \in Ips
    BY <1>6, TaskAddress, Zenon DEF RemoveEntry
  <2>3. \A i : Counted(i)' = Counted(i)
    BY <2>1, CountedMoves, Zenon
  <2>4. ASSUME NEW i \in Ips PROVE Count(i)' <= m(i)' /\ m(i)' <= Count(i)' + erased'[i]
    <3>1. CASE i = ip[t]
      <4>1. Count(i)' = 0
        BY <2>1, <2>2, <3>1, CountSet, Zenon
      <4>2. erased'[i] = erased[i] + Count(i)
        BY <2>1, <3>1, Zenon DEF LimitsTypeOK
      <4>3. QED  BY <1>1, <2>3, <4>1, <4>2
    <3>2. CASE i # ip[t]
      <4>1. Count(i)' = Count(i) /\ erased'[i] = erased[i]
        BY <2>1, <2>2, <3>2, CountSet, Zenon DEF LimitsTypeOK
      <4>2. QED  BY <1>1, <2>3, <4>1, Zenon
    <3>3. QED  BY <3>1, <3>2, Zenon
  <2>5. QED  BY <2>4, Zenon DEF CountsRight
<1>7. ASSUME NEW l \in Loops, NEW i \in Ips, AcceptSocket(l, i) PROVE CountsRight'
  BY <1>2, <1>7, Zenon DEF AcceptSocket
<1>8. CASE UNCHANGED limitVars
  BY <1>2, <1>8, Zenon DEF limitVars
<1>9. ASSUME NEW l \in Loops, CheckPerIp(l) PROVE CountsRight'
  BY <1>2, <1>9, Zenon DEF CheckPerIp
<1>10. QED  BY <1>3, <1>4, <1>5, <1>6, <1>7, <1>8, <1>9, Zenon DEF LimitsNext

----------------------------------------------------------------------------
(* The loops between check and count.                                      *)

\* A count that does not grow, with the same loops passing, stays bounded.
LEMMA PassingKept ==
    ASSUME LimitsTypeOK, PassingBounded, NEW n, n = max_per_ip, n # None,
           NEW i \in Ips, Count(i)' \in Nat, Count(i)' <= Count(i),
           Passing(i)' = Passing(i)
    PROVE  Count(i)' + Cardinality(Passing(i))' <= n + (Cardinality(Loops) - 1)
<1>1. n \in Nat
  BY LimitsAssumption
<1>2. /\ Cardinality(Loops) \in Nat /\ Cardinality(Passing(i)) \in Nat
      /\ Cardinality(Passing(i))' = Cardinality(Passing(i))
  BY Finite, Zenon
<1>3. Count(i) \in Nat
  BY CountNat, Zenon
<1>4. Count(i) + Cardinality(Passing(i)) <= n + (Cardinality(Loops) - 1)
  BY Zenon DEF PassingBounded
<1>5. QED  BY <1>1, <1>2, <1>3, <1>4

\* Every step keeps the bound.
LEMMA PassingNext ==
    ASSUME LimitsTypeOK, InUse, PassingBounded, [LimitsNext]_limitVars
    PROVE  PassingBounded'
<1> SUFFICES ASSUME NEW n, n = max_per_ip, n # None, NEW i \in Ips
             PROVE  Count(i)' + Cardinality(Passing(i))' <= n + (Cardinality(Loops) - 1)
  BY Zenon DEF PassingBounded
<1>1. n \in Nat
  BY LimitsAssumption
<1>2. Count(i) \in Nat /\ Cardinality(Loops) \in Nat
  BY CountNat, Finite, Zenon
<1> DEFINE Kept == Count(i)' \in Nat /\ Count(i)' <= Count(i) /\ Passing(i)' = Passing(i)
           Goal == Count(i)' + Cardinality(Passing(i))' <= n + (Cardinality(Loops) - 1)
<1>3. Kept => Goal
  BY PassingKept, Zenon
<1>4. Count(i) <= Count(i)
  BY <1>2
<1>5. CASE UNCHANGED limitVars
  <2>1. Count(i)' = Count(i) /\ Passing(i)' = Passing(i)
    BY <1>5, Zenon DEF limitVars, Count, Passing
  <2>2. QED  BY <1>2, <1>3, <1>4, <2>1, Zenon
<1>6. ASSUME NEW l \in Loops, NEW j \in Ips, AcceptSocket(l, j) PROVE Goal
  <2>1. Count(i)' = Count(i)
    BY <1>6, Zenon DEF AcceptSocket, Count
  <2>2. Passing(i)' = Passing(i)
    BY <1>6 DEF AcceptSocket, Passing, LimitsTypeOK
  <2>3. QED  BY <1>2, <1>3, <1>4, <2>1, <2>2, Zenon
<1>7. ASSUME NEW l \in Loops, CheckPerIp(l) PROVE Goal
  <2>1. Count(i)' = Count(i)
    BY <1>7, Zenon DEF CheckPerIp, Count
  <2>2. CASE BelowPerIp(peer[l]) /\ peer[l] = i
    <3>1. Count(i) < n
      BY <2>2, Zenon DEF BelowPerIp
    <3>2. Passing(i)' \in SUBSET Loops
      BY Zenon DEF Passing
    <3>3. IsFiniteSet(Passing(i)') /\ Cardinality(Passing(i))' <= Cardinality(Loops)
      BY <3>2, Finite, FS_Subset, Zenon
    <3>4. Cardinality(Passing(i))' \in Nat
      BY <3>3, FS_CardinalityType, Zenon
    <3>5. QED  BY <1>1, <1>2, <2>1, <3>1, <3>3, <3>4
  <2>3. CASE ~(BelowPerIp(peer[l]) /\ peer[l] = i)
    <3>1. Passing(i)' = Passing(i)
      <4>1. \A k \in Loops : loop'[k] = "count" /\ peer'[k] = i <=> loop[k] = "count" /\ peer[k] = i
        BY <1>7, <2>3 DEF CheckPerIp, LimitsTypeOK
      <4>2. QED  BY <4>1, Zenon DEF Passing
    <3>2. QED  BY <1>2, <1>3, <1>4, <2>1, <3>1, Zenon
  <2>4. QED  BY <2>2, <2>3, Zenon
<1>8. ASSUME NEW l \in Loops, Spawn(l) PROVE Goal
  <2>1. /\ loop[l] = "count" /\ peer' = peer /\ peer[l] \in Ips
        /\ SetCount(peer[l], Count(peer[l]) + 1)
    BY <1>8, Zenon DEF Spawn, InUse
  <2>2. Count(peer[l]) + 1 \in Nat /\ Count(peer[l]) + 1 # None
    BY <2>1, CountNat, LimitsAssumption
  <2>3. \A k \in Loops : loop'[k] = "count" <=> loop[k] = "count" /\ k # l
    BY <1>8 DEF Spawn, LimitsTypeOK
  <2>4. CASE peer[l] = i
    <3>1. Count(i)' = Count(i) + 1
      BY <2>1, <2>2, <2>4, CountSet, Zenon
    <3>2. l \in Passing(i) /\ Passing(i)' = Passing(i) \ {l}
      BY <2>1, <2>3, <2>4 DEF Passing
    <3>3. Cardinality(Passing(i))' = Cardinality(Passing(i)) - 1
      BY <3>2, Finite, Shrunk, Zenon
    <3>4. /\ Cardinality(Passing(i)) \in Nat
          /\ Count(i) + Cardinality(Passing(i)) <= n + (Cardinality(Loops) - 1)
      BY Finite, Zenon DEF PassingBounded
    <3>5. QED  BY <1>1, <1>2, <3>1, <3>3, <3>4
  <2>5. CASE peer[l] # i
    <3>1. Count(i)' = Count(i)
      BY <2>1, <2>2, <2>5, CountSet, Zenon
    <3>2. Passing(i)' = Passing(i)
      BY <2>1, <2>3, <2>5 DEF Passing
    <3>3. QED  BY <1>2, <1>3, <1>4, <3>1, <3>2, Zenon
  <2>6. QED  BY <2>4, <2>5, Zenon
<1>9. ASSUME NEW t \in Tasks,
             \/ Upgraded(t) \/ Session(t) \/ Disconnect(t)
             \/ UpgradeFails(t) \/ Discount(t) \/ RemoveEntry(t)
      PROVE  Goal
  <2>1. Passing(i)' = Passing(i)
    BY <1>9, Zenon DEF Upgraded, Session, Disconnect, UpgradeFails, Discount, RemoveEntry,
                       Passing
  <2>2. Count(i)' \in Nat /\ Count(i)' <= Count(i)
    <3>1. CASE connections_per_ip' = connections_per_ip
      BY <1>2, <1>4, <3>1, Zenon DEF Count
    <3>2. CASE UpgradeFails(t) \/ Discount(t) \/ RemoveEntry(t)
      <4>1. PICK m \in {Less(ip[t]), None} : SetCount(ip[t], m)
        BY <3>2, Zenon DEF UpgradeFails, Discount, RemoveEntry
      <4>2. ip[t] \in Ips
        BY <3>2, TaskAddress, Zenon DEF UpgradeFails, Discount, RemoveEntry
      <4>3. m \in Nat \cup {None}
        BY <4>1, <4>2, CountNat, Zenon
      <4>4. CASE i = ip[t]
        <5>1. Count(i)' = 0 \/ Count(i)' = IF Count(i) = 0 THEN 0 ELSE Count(i) - 1
          BY <4>1, <4>2, <4>3, <4>4, CountNat, CountSet, Zenon
        <5>2. QED  BY <1>2, <5>1
      <4>5. CASE i # ip[t]
        <5>1. Count(i)' = Count(i)
          BY <4>1, <4>2, <4>3, <4>5, CountSet, Zenon
        <5>2. QED  BY <1>2, <1>4, <5>1, Zenon
      <4>6. QED  BY <4>4, <4>5, Zenon
    <3>3. QED  BY <1>9, <3>1, <3>2, Zenon DEF Upgraded, Session, Disconnect
  <2>3. QED  BY <1>3, <2>1, <2>2, Zenon
<1>10. QED  BY <1>5, <1>6, <1>7, <1>8, <1>9, Zenon DEF LimitsNext

----------------------------------------------------------------------------
(* The theorems.                                                           *)

\* Inv holds in every behaviour: a connection is discounted once, and no task
\* counts for an address it was not accepted from.
THEOREM LimitsInvariant == LimitsSpec => []LimitsInv
<1>1. LimitsInv /\ [LimitsNext]_limitVars => LimitsInv'
  BY TypesNext, InUseNext, CountsNext, PassingNext, Zenon DEF LimitsInv
<1>2. QED  BY <1>1, InvInit, PTL DEF LimitsSpec

\* Every variable of the admission keeps its type: the count of an address is
\* absent or a natural number, however often saturating_sub lowers it.
THEOREM LimitsTypes == LimitsSpec => []LimitsTypeOK
<1>1. LimitsInv => LimitsTypeOK
  BY Zenon DEF LimitsInv
<1>2. QED  BY <1>1, LimitsInvariant, PTL

\* An address has no more connections than max_per_ip, one for each further
\* accept loop that passed check_limits before the others counted, and what
\* clean-up erased.
THEOREM OvershootIsBounded == LimitsSpec => []OvershootBounded
<1>1. ASSUME LimitsInv PROVE OvershootBounded
  <2> SUFFICES ASSUME NEW n, n = max_per_ip, n # None, NEW i \in Ips
               PROVE  Cardinality(Counted(i)) <= n + (Cardinality(Loops) - 1) + erased[i]
    BY Zenon DEF OvershootBounded
  <2>1. /\ Cardinality(Counted(i)) <= Count(i) + erased[i]
        /\ Count(i) + Cardinality(Passing(i)) <= n + (Cardinality(Loops) - 1)
    BY <1>1, Zenon DEF LimitsInv, CountsRight, PassingBounded
  <2>2. /\ Cardinality(Counted(i)) \in Nat /\ Cardinality(Passing(i)) \in Nat
        /\ Cardinality(Loops) \in Nat /\ Count(i) \in Nat /\ erased[i] \in Nat
    BY <1>1, Finite, CountNat, Zenon DEF LimitsInv
  <2>3. n \in Nat
    BY LimitsAssumption
  <2>4. QED  BY <2>1, <2>2, <2>3
<1>2. QED  BY <1>1, LimitsInvariant, PTL

\* check_limits refuses a peer for its address only when max_per_ip of its
\* connections are alive, whatever clean-up ran in between.
THEOREM RefusalsAreDue == LimitsSpec => RefusedOnlyAtLimit
<1>1. ASSUME LimitsInv, [LimitsNext]_limitVars
      PROVE  [\A l \in Loops :
                 loop[l] = "check" /\ loop'[l] = "accept" =>
                     Cardinality(Counted(peer[l])) >= max_per_ip]_limitVars
  <2> SUFFICES ASSUME LimitsNext, NEW l \in Loops, loop[l] = "check", loop'[l] = "accept"
               PROVE  Cardinality(Counted(peer[l])) >= max_per_ip
    BY <1>1, Zenon
  <2>1. CheckPerIp(l)
    <3>1. ASSUME NEW k \in Loops, NEW i \in Ips, AcceptSocket(k, i) PROVE FALSE
      BY <1>1, <3>1 DEF AcceptSocket, LimitsInv, LimitsTypeOK
    <3>2. ASSUME NEW k \in Loops, Spawn(k) PROVE FALSE
      BY <1>1, <3>2 DEF Spawn, LimitsInv, LimitsTypeOK
    <3>3. ASSUME NEW k \in Loops, CheckPerIp(k) PROVE k = l
      BY <1>1, <3>3 DEF CheckPerIp, LimitsInv, LimitsTypeOK
    <3>4. ASSUME NEW t \in Tasks,
                 \/ Upgraded(t) \/ Session(t) \/ Disconnect(t)
                 \/ UpgradeFails(t) \/ Discount(t) \/ RemoveEntry(t)
          PROVE  FALSE
      <4>1. loop' = loop
        BY <3>4, Zenon DEF Upgraded, Session, Disconnect, UpgradeFails, Discount, RemoveEntry
      <4>2. QED  BY <4>1
    <3>5. QED  BY <3>1, <3>2, <3>3, <3>4, Zenon DEF LimitsNext
  <2>2. ~BelowPerIp(peer[l])
    BY <1>1, <2>1 DEF CheckPerIp, LimitsInv, LimitsTypeOK
  <2>3. max_per_ip # None /\ ~(Count(peer[l]) < max_per_ip)
    BY <2>2, Zenon DEF BelowPerIp
  <2>4. peer[l] \in Ips
    BY <1>1, Zenon DEF LimitsInv, InUse
  <2>5. Count(peer[l]) <= Cardinality(Counted(peer[l]))
    BY <1>1, <2>4, Zenon DEF LimitsInv, CountsRight
  <2>6. Count(peer[l]) \in Nat /\ Cardinality(Counted(peer[l])) \in Nat
    BY <1>1, <2>4, CountNat, Finite, Zenon DEF LimitsInv
  <2>7. max_per_ip \in Nat
    BY <2>3, LimitsAssumption, Zenon
  <2>8. QED  BY <2>3, <2>5, <2>6, <2>7
<1>2. QED  BY <1>1, LimitsInvariant, PTL DEF LimitsSpec, RefusedOnlyAtLimit
=============================================================================
