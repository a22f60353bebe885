------------------------ MODULE SaveRestoreProofs ------------------------
(***************************************************************************)
(* Proofs about saves, restores and synchronization points, for any number *)
(* of federates, labels, objects and requests:                             *)
(*   - a snapshot goes to the file of its own save;                        *)
(*   - a restore gives instances back to the federates of the same name;   *)
(*   - a registration finds the handle it drew taken only when a restore   *)
(*     overlapped with it;                                                 *)
(*   - synchronization points implement Barrier.                           *)
(*                                                                         *)
(* The larger part shows that every table and every local of a handler of  *)
(* SaveRestore keeps its type.  A step of a session moves its own handler  *)
(* only (AloneStep), so it is enough to look at the tables (TablesKept)    *)
(* and at the handler that moves (CallHandlersKept, WorkHandlersKept).     *)
(***************************************************************************)
EXTENDS SaveRestore, FiniteSetTheorems, TLAPS

\* What the locals of a handler range over.
Wants == [label : Labels, group : (SUBSET Handles) \ {{}}]

Locals == [label : SaveLabels \cup {None}, group : SUBSET Handles,
           file : SaveLabels \cup {None}, snap : Snapshots \cup {None},
           names : [Names -> Handles \cup {None}], todo : SUBSET Objects,
           object : Nat, id : Nat]

\* Where a handler has a snapshot in its hands.
HasSnapshot == {"snap_points", "open_file", "fill_file", "read_names", "clear",
                "put_back", "store_id", "replace_points"}

\* The handlers' side of the state, and the tables'.
Tables == <<federates, next_handle, sync_points, disk, instances, next_object_id,
            current_save, last_save_label>>

TableTypes ==
    /\ federates \in [Handles -> Names \cup {None}]
    /\ next_handle \in Nat
    /\ sync_points \in [Labels -> Points \cup {None}]
    /\ disk \in [SaveLabels -> Snapshots \cup {None, Partial}]
    /\ instances \in [Objects -> Handles \cup {None}]
    /\ next_object_id \in Nat
    /\ current_save \in Operations \cup {None}
    /\ last_save_label \in SaveLabels \cup {None}

HandlerTypes ==
    /\ DOMAIN pc = Handles
    /\ want \in [Handles -> Wants \cup {None}]
    /\ loc \in [Handles -> Locals]

\* What a handler holds at the step it is at.
HandlerOK(h) ==
    /\ pc[h] = "insert_point" => want[h] \in Wants
    /\ pc[h] = "set_save" => loc[h].label \in SaveLabels
    /\ pc[h] \in HasSnapshot => loc[h].snap \in Snapshots
    /\ pc[h] \in {"put_back", "store_id"} => \A o \in loc[h].todo : Restorable(h, o)

Types == TableTypes /\ HandlerTypes /\ \A h \in Handles : HandlerOK(h)

\* A step of one session: the handlers of the others stay where they are.
Alone(h) ==
    \A g \in Handles \ {h} : pc'[g] = pc[g] /\ want'[g] = want[g] /\ loc'[g] = loc[g]

\* An idle handler holds nothing.
LEMMA LocalsStart == NoLocals \in Locals
BY Zenon DEF NoLocals, Locals

\* The types hold in the initial state.
LEMMA TypesInit == SaveInit => Types
<1> SUFFICES ASSUME SaveInit PROVE Types
  OBVIOUS
<1>1. disk \in [SaveLabels -> Snapshots \cup {None, Partial}]
  BY DisksAssumption, Zenon DEF SaveInit
<1>2. loc \in [Handles -> Locals]
  BY LocalsStart, Zenon DEF SaveInit
<1>3. \A h \in Handles : pc[h] = "idle"
  BY Zenon DEF SaveInit, Init
<1>4. TableTypes
  <2>1. next_handle = 1 /\ next_object_id = 1
    BY Zenon DEF SaveInit, Init
  <2>2. next_handle \in Nat /\ next_object_id \in Nat
    BY <2>1, Zenon
  <2>3. federates \in [Handles -> Names \cup {None}]
    BY Zenon DEF SaveInit, Init
  <2>4. sync_points \in [Labels -> Points \cup {None}]
    BY Zenon DEF SaveInit, Init
  <2>5. instances \in [Objects -> Handles \cup {None}]
    BY Zenon DEF SaveInit
  <2> QED
    BY <1>1, <2>2, <2>3, <2>4, <2>5, Zenon DEF SaveInit, TableTypes
<1>5. HandlerTypes
  <2>1. DOMAIN pc = Handles
    BY Zenon DEF SaveInit, Init
  <2>2. want \in [Handles -> Wants \cup {None}]
    BY Zenon DEF SaveInit, Init
  <2> QED
    BY <1>2, <2>1, <2>2, Zenon DEF HandlerTypes
<1> QED
  BY <1>3, <1>4, <1>5, Zenon DEF Types, HandlerOK, HasSnapshot

\* Federates are read as a set of handles.
LEMMA JoinedHandles == Joined \in SUBSET Handles
BY Zenon DEF Joined

\* A session's step leaves the handlers of the other sessions where they are.
LEMMA AloneStep ==
    ASSUME Types, NEW h \in Handles, Leave(h) \/ Calls(h) \/ Work(h)
    PROVE  Alone(h)
<1> USE DEF Types, HandlerTypes, Alone, Goto, Done, syncVars
<1>1. CASE Leave(h)
  BY <1>1, Zenon DEF Leave, Resign
<1>2. CASE Calls(h)
  <2>1. CASE SyncCalls(h) /\ UNCHANGED srVars
    BY <2>1, Zenon DEF SyncCalls, srVars, RegisterReads, Achieved
  <2>2. CASE \E x \in SaveLabels : SaveReads(h, x) \/ RestoreReads(h, x)
    BY <2>2, Zenon DEF SaveReads, RestoreReads
  <2>3. CASE \E ok \in BOOLEAN : SaveProgressed(h, ok) \/ RestoreProgressed(h, ok)
    BY <2>3, Zenon DEF SaveProgressed, RestoreProgressed
  <2>4. CASE SaveBegun(h) \/ AbortSave(h) \/ AbortRestore(h)
    BY <2>4, Zenon DEF SaveBegun, AbortSave, AbortRestore
  <2>5. CASE DrawObject(h)
    BY <2>5, Zenon DEF DrawObject
  <2> QED
    BY <1>2, <2>1, <2>2, <2>3, <2>4, <2>5, Zenon DEF Calls
<1>3. CASE Work(h)
  <2>1. CASE RegisterInserts(h) /\ UNCHANGED srVars
    BY <2>1, Zenon DEF RegisterInserts, srVars
  <2>2. CASE SaveSets(h) \/ SaveEnded(h) \/ ReadLabel(h) \/ TellSaved(h)
    BY <2>2, Zenon DEF SaveSets, SaveEnded, ReadLabel, TellSaved
  <2>3. CASE SnapInstances(h) \/ SnapPoints(h) \/ OpenFile(h) \/ FillFile(h)
    BY <2>3, Zenon DEF SnapInstances, SnapPoints, OpenFile, FillFile
  <2>4. CASE ReadMembers(h) \/ RestoreSets(h) \/ ReadNames(h) \/ Clear(h)
    BY <2>4, Zenon DEF ReadMembers, RestoreSets, ReadNames, Clear
  <2>5. CASE PutBack(h) \/ StoreId(h) \/ ReplacePoints(h)
    BY <2>5, Zenon DEF PutBack, StoreId, ReplacePoints
  <2>6. CASE RestoreEnded(h) \/ InsertObject(h) \/ \E to \in Handles : Receive(h, to)
    BY <2>6, Zenon DEF RestoreEnded, InsertObject, Receive, Deliver
  <2> QED
    BY <1>3, <2>1, <2>2, <2>3, <2>4, <2>5, <2>6, Zenon DEF Work
<1> QED
  BY <1>1, <1>2, <1>3, Zenon

\* The handles that members of a snapshot have now are handles.
LEMMA NamedHandles ==
    ASSUME NEW names \in [Names -> Handles \cup {None}], NEW members \in SUBSET Names
    PROVE  {names[n] : n \in members} \ {None} \subseteq Handles
OBVIOUS

\* Every action keeps the types of the tables.
LEMMA TablesUnchanged == TableTypes /\ UNCHANGED Tables => TableTypes'
BY Zenon DEF TableTypes, Tables

\* Every step of a session keeps the types of the tables.
LEMMA TablesKept ==
    ASSUME Types, NEW h \in Handles, Calls(h) \/ Work(h)
    PROVE  TableTypes'
<1> USE DEF Types, fedVars, syncVars, saveVars, objVars, srVars
<1>1. ASSUME NEW l \in Labels, Achieved(h, l), UNCHANGED srVars PROVE TableTypes'
  <2>1. sync_points[l] \in Points
    BY <1>1, Zenon DEF Achieved, TableTypes
  <2>2. Reached(sync_points[l], h) \in Points
    BY <2>1, Zenon DEF Reached, Points
  <2>3. sync_points' \in [Labels -> Points \cup {None}]
    BY <1>1, <2>2, Zenon DEF Achieved, TableTypes
  <2> QED
    BY <1>1, <2>3, Zenon DEF Achieved, TableTypes
<1>2. CASE Calls(h)
  <2>1. ASSUME NEW l \in Labels, NEW subset \in Groups, RegisterReads(h, l, subset),
               UNCHANGED srVars
        PROVE TableTypes'
    BY <2>1, TablesUnchanged, Zenon DEF RegisterReads, Tables
  <2>2. ASSUME NEW x \in SaveLabels, SaveReads(h, x) \/ RestoreReads(h, x)
        PROVE TableTypes'
    BY <2>2, TablesUnchanged, Zenon DEF SaveReads, RestoreReads, Tables
  <2>3. ASSUME NEW ok \in BOOLEAN, SaveProgressed(h, ok) PROVE TableTypes'
    <3>1. Report(current_save, h, ok) \in Operations
      BY <2>3, Zenon DEF SaveProgressed, Report, Operations, Statuses, TableTypes
    <3> QED
      BY <2>3, <3>1, Zenon DEF SaveProgressed, TableTypes
  <2>4. ASSUME NEW ok \in BOOLEAN, RestoreProgressed(h, ok) PROVE TableTypes'
    BY <2>4, TablesUnchanged, Zenon DEF RestoreProgressed, Tables
  <2>5. CASE SaveBegun(h)
    <3>1. current_save' \in Operations
      BY <2>5, Zenon DEF SaveBegun, Operations, Statuses, TableTypes
    <3> QED
      BY <2>5, <3>1, Zenon DEF SaveBegun, TableTypes
  <2>6. CASE AbortSave(h)
    BY <2>6, Zenon DEF AbortSave, TableTypes
  <2>7. CASE AbortRestore(h)
    BY <2>7, TablesUnchanged, Zenon DEF AbortRestore, Tables
  <2>8. CASE DrawObject(h)
    <3>1. next_object_id' \in Nat
      BY <2>8 DEF DrawObject, TableTypes
    <3> QED
      BY <2>8, <3>1, Zenon DEF DrawObject, TableTypes
  <2> QED
    BY <1>1, <1>2, <2>1, <2>2, <2>3, <2>4, <2>5, <2>6, <2>7, <2>8, Zenon
       DEF Calls, SyncCalls
<1>3. CASE Work(h)
  <2>1. CASE RegisterInserts(h) /\ UNCHANGED srVars
    <3>1. want[h] \in Wants
      BY <2>1, Zenon DEF RegisterInserts, HandlerOK
    <3>2. NewPoint(want[h].group) \in Points
      BY <3>1, Zenon DEF NewPoint, Points, Wants
    <3>3. sync_points' \in [Labels -> Points \cup {None}]
      BY <2>1, <3>2, Zenon DEF RegisterInserts, TableTypes
    <3> QED
      BY <2>1, <3>3, Zenon DEF RegisterInserts, TableTypes
  <2>2. CASE SaveSets(h)
    <3>1. loc[h].label \in SaveLabels
      BY <2>2, Zenon DEF SaveSets, HandlerOK
    <3>2. Operation(h, loc[h].label) \in Operations
      BY <3>1, Zenon DEF Operation, Operations, Statuses
    <3> QED
      BY <2>2, <3>1, <3>2, Zenon DEF SaveSets, TableTypes
  <2>3. CASE SaveEnded(h) \/ ReadLabel(h) \/ TellSaved(h) \/ SnapInstances(h)
             \/ SnapPoints(h) \/ ReadMembers(h)
    BY <2>3, TablesUnchanged, Zenon DEF SaveEnded, ReadLabel, TellSaved, SnapInstances,
         SnapPoints, ReadMembers, Tables
  <2>4. CASE RestoreSets(h) \/ ReadNames(h) \/ RestoreEnded(h)
    BY <2>4, TablesUnchanged, Zenon DEF RestoreSets, ReadNames, RestoreEnded, Tables
  <2>5. CASE OpenFile(h)
    <3>1. disk' \in [SaveLabels -> Snapshots \cup {None, Partial}]
      BY <2>5, Zenon DEF OpenFile, TableTypes
    <3> QED
      BY <2>5, <3>1, Zenon DEF OpenFile, TableTypes
  <2>6. CASE FillFile(h)
    <3>1. loc[h].snap \in Snapshots
      BY <2>6, Zenon DEF FillFile, HandlerOK, HasSnapshot
    <3>2. disk' \in [SaveLabels -> Snapshots \cup {None, Partial}]
      BY <2>6, <3>1, Zenon DEF FillFile, TableTypes
    <3> QED
      BY <2>6, <3>2, Zenon DEF FillFile, TableTypes
  <2>7. CASE Clear(h)
    BY <2>7, Zenon DEF Clear, TableTypes
  <2>8. CASE PutBack(h)
    <3>1. instances' \in [Objects -> Handles \cup {None}]
      <4>1. CASE loc[h].todo = {}
        BY <2>8, <4>1, Zenon DEF PutBack, TableTypes
      <4>2. CASE loc[h].todo # {}
        <5>1. PICK o \in loc[h].todo :
                instances' = [instances EXCEPT ![o] = loc[h].names[loc[h].snap.instances[o]]]
          BY <2>8, <4>2, Zenon DEF PutBack
        <5>2. loc[h].snap.instances[o] \in Names
          BY <2>8, <5>1, Zenon DEF PutBack, HandlerOK, Restorable
        <5>3. loc[h].names \in [Names -> Handles \cup {None}]
          BY Zenon DEF HandlerTypes, Locals
        <5> QED
          BY <5>1, <5>2, <5>3, Zenon DEF TableTypes
      <4> QED
        BY <4>1, <4>2, Zenon
    <3> QED
      BY <2>8, <3>1, Zenon DEF PutBack, TableTypes
  <2>9. CASE StoreId(h)
    <3>1. loc[h].object \in Nat /\ loc[h].id \in Nat
      BY Zenon DEF HandlerTypes, Locals
    <3>2. PastHandle(loc[h].id, loc[h].object) \in Nat
      BY <3>1 DEF PastHandle
    <3> QED
      BY <2>9, <3>2, Zenon DEF StoreId, TableTypes
  <2>10. CASE ReplacePoints(h)
    <3>1. \A l \in Labels : RestoredPoint(h, l) \in Points \cup {None}
      <4>1. loc[h].snap.points \in [Labels -> (SUBSET Names) \cup {None}]
        BY <2>10, Zenon DEF ReplacePoints, HandlerOK, HasSnapshot, Snapshots
      <4>2. loc[h].names \in [Names -> Handles \cup {None}]
        BY Zenon DEF HandlerTypes, Locals
      <4>3. ASSUME NEW l \in Labels, loc[h].snap.points[l] # None
            PROVE  {loc[h].names[n] : n \in loc[h].snap.points[l]} \ {None} \subseteq Handles
        <5>1. loc[h].snap.points[l] \in SUBSET Names
          BY <4>1, <4>3, Zenon
        <5> QED
          BY <4>2, <5>1, NamedHandles, Zenon
      <4>4. \A group \in SUBSET Handles : NewPoint(group) \in Points
        BY Zenon DEF NewPoint, Points
      <4>5. ASSUME NEW l \in Labels PROVE RestoredPoint(h, l) \in Points \cup {None}
        <5>1. CASE loc[h].snap.points[l] = None
          BY <5>1, Zenon DEF RestoredPoint
        <5>2. CASE loc[h].snap.points[l] # None
          BY <5>2, <4>3, <4>4, Zenon DEF RestoredPoint
        <5> QED
          BY <5>1, <5>2, Zenon
      <4> QED
        BY <4>5, Zenon
    <3>2. sync_points' \in [Labels -> Points \cup {None}]
      BY <2>10, <3>1, Zenon DEF ReplacePoints
    <3> QED
      BY <2>10, <3>2, Zenon DEF ReplacePoints, TableTypes
  <2>11. CASE InsertObject(h)
    <3>1. instances' \in [Objects -> Handles \cup {None}]
      BY <2>11, Zenon DEF InsertObject, TableTypes
    <3> QED
      BY <2>11, <3>1, Zenon DEF InsertObject, TableTypes
  <2>12. ASSUME NEW to \in Handles, Receive(h, to) PROVE TableTypes'
    BY <2>12, TablesUnchanged, Zenon DEF Receive, Deliver, Tables
  <2> QED
    BY <1>3, <2>1, <2>2, <2>3, <2>4, <2>5, <2>6, <2>7, <2>8, <2>9, <2>10, <2>11, <2>12,
       Zenon DEF Work
<1> QED
  BY <1>2, <1>3, Zenon

\* Moving on, with new locals or the old ones.
LEMMA GotoStep ==
    ASSUME HandlerTypes, NEW h \in Handles, NEW step, Goto(h, step)
    PROVE  DOMAIN pc' = Handles /\ pc'[h] = step
BY Zenon DEF HandlerTypes, Goto

\* What a handler is left holding.
LEMMA LocStep ==
    ASSUME HandlerTypes, NEW h \in Handles, NEW r \in Locals, loc' = [loc EXCEPT ![h] = r]
    PROVE  loc' \in [Handles -> Locals] /\ loc'[h] = r
BY Zenon DEF HandlerTypes

\* A handler that ends needs nothing.
LEMMA DoneStep ==
    ASSUME HandlerTypes, NEW h \in Handles, Done(h), UNCHANGED want
    PROVE  HandlerTypes' /\ HandlerOK(h)'
<1>1. DOMAIN pc' = Handles /\ pc'[h] = "idle"
  BY GotoStep, Zenon DEF Done
<1>2. loc' \in [Handles -> Locals]
  BY LocStep, LocalsStart, Zenon DEF Done
<1> QED
  BY <1>1, <1>2, Zenon DEF HandlerTypes, HandlerOK, HasSnapshot

\* Where a handler is that needs nothing.
Free == {"idle", "save_done", "save_failed", "read_label", "snap_instances", "saved",
         "read_members", "set_restore", "restore_done", "restore_failed", "insert_object"}

\* Neither does one that goes on to a step with no needs.
LEMMA FreeStep ==
    ASSUME HandlerTypes, NEW h \in Handles, NEW step \in Free, Goto(h, step),
           loc' \in [Handles -> Locals], UNCHANGED want
    PROVE  HandlerTypes' /\ HandlerOK(h)'
<1>1. DOMAIN pc' = Handles /\ pc'[h] = step
  BY GotoStep, Zenon
<1> QED
  BY <1>1, Zenon DEF HandlerTypes, HandlerOK, HasSnapshot, Free

\* Neither does one that stays idle.
LEMMA StaysFree ==
    ASSUME HandlerTypes, NEW h \in Handles, pc[h] = "idle", UNCHANGED <<pc, want, loc>>
    PROVE  HandlerTypes' /\ HandlerOK(h)'
BY Zenon DEF HandlerTypes, HandlerOK, HasSnapshot

\* Every action leaves the handlers of its session what they need next.
LEMMA CallHandlersKept ==
    ASSUME Types, NEW h \in Handles, Calls(h)
    PROVE  HandlerTypes' /\ HandlerOK(h)'
<1>0. HandlerTypes /\ loc[h] \in Locals
  BY Zenon DEF Types, HandlerTypes
<1>1. ASSUME NEW l \in Labels, NEW subset \in Groups, RegisterReads(h, l, subset),
             UNCHANGED srVars
      PROVE HandlerTypes' /\ HandlerOK(h)'
  <2>1. h \in Joined
    BY <1>1, Zenon DEF RegisterReads, Ask, Idle, Joined
  <2>2. (IF subset # {} THEN subset ELSE Joined) \in (SUBSET Handles) \ {{}}
    BY <2>1, GroupsAssumption, JoinedHandles, Zenon
  <2>3. [label |-> l, group |-> IF subset # {} THEN subset ELSE Joined] \in Wants
    BY <2>2, Zenon DEF Wants
  <2>4. want' \in [Handles -> Wants \cup {None}] /\ want'[h] \in Wants
    BY <1>0, <1>1, <2>3, Zenon DEF RegisterReads, HandlerTypes
  <2>5. DOMAIN pc' = Handles /\ pc'[h] = "insert_point" /\ loc' = loc
    BY <1>0, <1>1, Zenon DEF RegisterReads, srVars, HandlerTypes
  <2> QED
    BY <1>0, <2>4, <2>5, Zenon DEF HandlerTypes, HandlerOK, HasSnapshot
<1>2. ASSUME NEW l \in Labels, Achieved(h, l), UNCHANGED srVars
      PROVE HandlerTypes' /\ HandlerOK(h)'
  BY <1>0, <1>2, StaysFree, Zenon DEF Achieved, Idle, srVars
<1>3. ASSUME NEW x \in SaveLabels, SaveReads(h, x)
      PROVE HandlerTypes' /\ HandlerOK(h)'
  <2> DEFINE r == [loc[h] EXCEPT !.label = x, !.group = Joined]
  <2>1. r \in Locals /\ r.label = x
    BY <1>0, JoinedHandles, Zenon DEF Locals
  <2>2. loc' = [loc EXCEPT ![h] = r]
    BY <1>3, Zenon DEF SaveReads
  <2> HIDE DEF r
  <2>3. loc' \in [Handles -> Locals] /\ loc'[h] = r
    BY <1>0, <2>1, <2>2, LocStep, Zenon
  <2>4. DOMAIN pc' = Handles /\ pc'[h] = "set_save" /\ want' = want
    BY <1>0, <1>3, GotoStep, Zenon DEF SaveReads, syncVars
  <2> QED
    BY <1>0, <2>1, <2>3, <2>4, Zenon DEF HandlerTypes, HandlerOK, HasSnapshot
<1>4. ASSUME NEW x \in SaveLabels, RestoreReads(h, x)
      PROVE HandlerTypes' /\ HandlerOK(h)'
  <2> DEFINE r == [loc[h] EXCEPT !.label = x, !.snap = disk[x]]
  <2>1. disk[x] \in Snapshots \cup {None}
    BY <1>4, Zenon DEF RestoreReads, Types, TableTypes
  <2>2. r \in Locals
    BY <1>0, <2>1, Zenon DEF Locals
  <2>3. loc' = [loc EXCEPT ![h] = r]
    BY <1>4, Zenon DEF RestoreReads
  <2> HIDE DEF r
  <2>4. loc' \in [Handles -> Locals]
    BY <1>0, <2>2, <2>3, LocStep, Zenon
  <2> QED
    BY <1>0, <1>4, <2>4, FreeStep, Zenon DEF RestoreReads, syncVars, Free
<1>5. ASSUME NEW ok \in BOOLEAN, SaveProgressed(h, ok)
      PROVE HandlerTypes' /\ HandlerOK(h)'
  <2> DEFINE op == Report(current_save, h, ok)
             r == [loc[h] EXCEPT !.label = op.label]
  <2>1. op.label \in SaveLabels
    BY <1>5, Zenon DEF SaveProgressed, Report, Operations, Types, TableTypes
  <2>2. r \in Locals
    BY <1>0, <2>1, Zenon DEF Locals
  <2>3. CASE AllDone(op)
    <3>1. loc' = [loc EXCEPT ![h] = r]
      BY <1>5, <2>3, Zenon DEF SaveProgressed
    <3>2. loc' \in [Handles -> Locals]
      BY <1>0, <2>2, <3>1, LocStep, Zenon
    <3>3. PICK step \in {"save_failed", "save_done"} : Goto(h, step)
      BY <1>5, <2>3, Zenon DEF SaveProgressed
    <3> QED
      BY <1>0, <1>5, <3>2, <3>3, FreeStep, Zenon DEF SaveProgressed, syncVars, Free
  <2>4. CASE ~AllDone(op)
    BY <1>0, <1>5, <2>4, StaysFree, Zenon DEF SaveProgressed, Idle, syncVars
  <2> QED
    BY <2>3, <2>4, Zenon
<1>6. ASSUME NEW ok \in BOOLEAN, RestoreProgressed(h, ok)
      PROVE HandlerTypes' /\ HandlerOK(h)'
  <2> DEFINE op == Report(current_restore, h, ok)
  <2>1. CASE AllDone(op)
    <3>1. PICK step \in {"restore_failed", "restore_done"} : Goto(h, step)
      BY <1>6, <2>1, Zenon DEF RestoreProgressed
    <3> QED
      BY <1>0, <1>6, <3>1, FreeStep, Zenon DEF RestoreProgressed, HandlerTypes, syncVars, Free
  <2>2. CASE ~AllDone(op)
    BY <1>0, <1>6, <2>2, StaysFree, Zenon DEF RestoreProgressed, Idle, syncVars
  <2> QED
    BY <2>1, <2>2, Zenon
<1>7. CASE SaveBegun(h) \/ AbortSave(h) \/ AbortRestore(h)
  BY <1>0, <1>7, StaysFree, Zenon DEF SaveBegun, AbortSave, AbortRestore, Ask, Idle, syncVars
<1>8. CASE DrawObject(h)
  <2> DEFINE r == [loc[h] EXCEPT !.object = next_object_id]
  <2>1. r \in Locals
    BY <1>0, Zenon DEF Locals, Types, TableTypes
  <2>2. loc' = [loc EXCEPT ![h] = r]
    BY <1>8, Zenon DEF DrawObject
  <2> HIDE DEF r
  <2>3. loc' \in [Handles -> Locals]
    BY <1>0, <2>1, <2>2, LocStep, Zenon
  <2> QED
    BY <1>0, <1>8, <2>3, FreeStep, Zenon DEF DrawObject, syncVars, Free
<1> QED
  BY <1>1, <1>2, <1>3, <1>4, <1>5, <1>6, <1>7, <1>8, Zenon DEF Calls, SyncCalls

\* So does every step inside a handler.
LEMMA WorkHandlersKept ==
    ASSUME Types, NEW h \in Handles, Work(h)
    PROVE  HandlerTypes' /\ HandlerOK(h)'
<1>0. HandlerTypes /\ loc[h] \in Locals /\ HandlerOK(h)
  BY Zenon DEF Types, HandlerTypes
<1>1. CASE RegisterInserts(h) /\ UNCHANGED srVars
  <2>1. DOMAIN pc' = Handles /\ pc'[h] = "idle" /\ loc' = loc
    BY <1>0, <1>1, Zenon DEF RegisterInserts, srVars, HandlerTypes
  <2>2. want' \in [Handles -> Wants \cup {None}]
    BY <1>0, <1>1, Zenon DEF RegisterInserts, HandlerTypes
  <2> QED
    BY <1>0, <2>1, <2>2, Zenon DEF HandlerTypes, HandlerOK, HasSnapshot
<1>2. CASE SaveSets(h) \/ TellSaved(h) \/ RestoreEnded(h) \/ InsertObject(h)
  BY <1>0, <1>2, DoneStep, Zenon DEF SaveSets, TellSaved, RestoreEnded, InsertObject, syncVars
<1>3. CASE ReplacePoints(h)
  BY <1>0, <1>3, DoneStep, Zenon DEF ReplacePoints
<1>4. CASE SaveEnded(h)
  <2>1. CASE pc[h] = "save_done"
    <3> DEFINE r == [loc[h] EXCEPT !.group = Joined]
    <3>1. r \in Locals
      BY <1>0, JoinedHandles, Zenon DEF Locals
    <3>2. loc' = [loc EXCEPT ![h] = r]
      BY <1>4, <2>1, Zenon DEF SaveEnded
    <3> HIDE DEF r
    <3>3. loc' \in [Handles -> Locals]
      BY <1>0, <3>1, <3>2, LocStep, Zenon
    <3> QED
      BY <1>0, <1>4, <2>1, <3>3, FreeStep, Zenon DEF SaveEnded, syncVars, Free
  <2>2. CASE pc[h] # "save_done"
    BY <1>0, <1>4, <2>2, DoneStep, Zenon DEF SaveEnded, syncVars
  <2> QED
    BY <2>1, <2>2, Zenon
<1>5. CASE ReadLabel(h)
  <2> DEFINE r == [loc[h] EXCEPT !.file = last_save_label]
  <2>1. r \in Locals
    BY <1>0, Zenon DEF Locals, Types, TableTypes
  <2>2. loc' = [loc EXCEPT ![h] = r]
    BY <1>5, Zenon DEF ReadLabel
  <2> HIDE DEF r
  <2>3. loc' \in [Handles -> Locals]
    BY <1>0, <2>1, <2>2, LocStep, Zenon
  <2> QED
    BY <1>0, <1>5, <2>3, FreeStep, Zenon DEF ReadLabel, syncVars, Free
<1>6. ASSUME NEW snap \in Snapshots, NEW step \in {"snap_points", "open_file"},
             loc' = [loc EXCEPT ![h].snap = snap], Goto(h, step), UNCHANGED want
      PROVE  HandlerTypes' /\ HandlerOK(h)'
  <2> DEFINE r == [loc[h] EXCEPT !.snap = snap]
  <2>1. r \in Locals /\ r.snap = snap
    BY <1>0, Zenon DEF Locals
  <2>2. loc' = [loc EXCEPT ![h] = r]
    BY <1>6, Zenon
  <2> HIDE DEF r
  <2>3. loc' \in [Handles -> Locals] /\ loc'[h] = r
    BY <1>0, <2>1, <2>2, LocStep, Zenon
  <2>4. DOMAIN pc' = Handles /\ pc'[h] = step
    BY <1>0, <1>6, GotoStep, Zenon
  <2> QED
    BY <1>0, <1>6, <2>1, <2>3, <2>4, Zenon DEF HandlerTypes, HandlerOK
<1>7. CASE SnapInstances(h)
  <2>1. SavedInstances \in [Objects -> Names \cup {None, Unknown}]
    BY Zenon DEF SavedInstances, NameOf, Types, TableTypes
  <2>2. [instances |-> SavedInstances, points |-> [l \in Labels |-> None]] \in Snapshots
    BY <2>1, Zenon DEF Snapshots
  <2> QED
    BY <1>6, <1>7, <2>2, Zenon DEF SnapInstances, syncVars
<1>8. CASE SnapPoints(h)
  <2>1. SavedPoints \in [Labels -> (SUBSET Names) \cup {None}]
    BY Zenon DEF SavedPoints, Joined, Types, TableTypes
  <2>2. loc[h].snap \in Snapshots
    BY <1>0, <1>8, Zenon DEF SnapPoints, HandlerOK, HasSnapshot
  <2>3. [loc[h].snap EXCEPT !.points = SavedPoints] \in Snapshots
    BY <2>1, <2>2, Zenon DEF Snapshots
  <2>4. loc' = [loc EXCEPT ![h].snap = [loc[h].snap EXCEPT !.points = SavedPoints]]
    BY <1>8, Zenon DEF SnapPoints
  <2> QED
    BY <1>6, <1>8, <2>3, <2>4, Zenon DEF SnapPoints, syncVars
<1>9. CASE OpenFile(h) \/ FillFile(h)
  <2>1. PICK step \in {"fill_file", "saved"} : Goto(h, step)
    BY <1>9, Zenon DEF OpenFile, FillFile
  <2>2. loc' = loc /\ want' = want /\ pc[h] \in {"open_file", "fill_file"}
    BY <1>9, Zenon DEF OpenFile, FillFile, syncVars
  <2>3. DOMAIN pc' = Handles /\ pc'[h] = step
    BY <1>0, <2>1, GotoStep, Zenon
  <2> QED
    BY <1>0, <2>2, <2>3, Zenon DEF HandlerTypes, HandlerOK, HasSnapshot
<1>10. CASE ReadMembers(h)
  <2> DEFINE r == [loc[h] EXCEPT !.group = Joined]
  <2>1. r \in Locals
    BY <1>0, JoinedHandles, Zenon DEF Locals
  <2>2. loc' = [loc EXCEPT ![h] = r]
    BY <1>10, Zenon DEF ReadMembers
  <2> HIDE DEF r
  <2>3. loc' \in [Handles -> Locals]
    BY <1>0, <2>1, <2>2, LocStep, Zenon
  <2> QED
    BY <1>0, <1>10, <2>3, FreeStep, Zenon DEF ReadMembers, syncVars, Free
<1>11. CASE RestoreSets(h)
  <2>1. CASE Done(h)
    BY <1>0, <1>11, <2>1, DoneStep, Zenon DEF RestoreSets, syncVars
  <2>2. CASE Goto(h, "read_names") /\ UNCHANGED loc /\ loc[h].snap # None
    <3>1. loc[h].snap \in Snapshots
      BY <1>0, <2>2, Zenon DEF Locals
    <3>2. DOMAIN pc' = Handles /\ pc'[h] = "read_names" /\ want' = want
      BY <1>0, <1>11, <2>2, GotoStep, Zenon DEF RestoreSets, syncVars
    <3> QED
      BY <1>0, <2>2, <3>1, <3>2, Zenon DEF HandlerTypes, HandlerOK
  <2> QED
    BY <1>11, <2>1, <2>2, Zenon DEF RestoreSets
<1>12. CASE ReadNames(h)
  <2> DEFINE names == [n \in Names |-> HandleOf(n)]
             r == [loc[h] EXCEPT !.names = names]
  <2>1. names \in [Names -> Handles \cup {None}]
    BY Zenon DEF HandleOf
  <2> HIDE DEF names
  <2>2. r \in Locals /\ r.snap = loc[h].snap
    BY <1>0, <2>1, Zenon DEF Locals
  <2>3. loc' = [loc EXCEPT ![h] = r]
    BY <1>12, Zenon DEF ReadNames, names
  <2> HIDE DEF r
  <2>4. loc' \in [Handles -> Locals] /\ loc'[h] = r
    BY <1>0, <2>2, <2>3, LocStep, Zenon
  <2>5. DOMAIN pc' = Handles /\ pc'[h] = "clear" /\ want' = want
    BY <1>0, <1>12, GotoStep, Zenon DEF ReadNames, syncVars
  <2>6. loc[h].snap \in Snapshots
    BY <1>0, <1>12, Zenon DEF ReadNames, HandlerOK, HasSnapshot
  <2> QED
    BY <1>0, <2>2, <2>4, <2>5, <2>6, Zenon DEF HandlerTypes, HandlerOK
<1>13. CASE Clear(h)
  <2> DEFINE r == [loc[h] EXCEPT !.todo = {o \in Objects : Restorable(h, o)}]
  <2>1. /\ r \in Locals /\ r.snap = loc[h].snap /\ r.names = loc[h].names
        /\ r.todo = {o \in Objects : Restorable(h, o)}
    BY <1>0, Zenon DEF Locals
  <2>2. loc' = [loc EXCEPT ![h] = r]
    BY <1>13, Zenon DEF Clear
  <2> HIDE DEF r
  <2>3. loc' \in [Handles -> Locals] /\ loc'[h] = r
    BY <1>0, <2>1, <2>2, LocStep, Zenon
  <2>4. DOMAIN pc' = Handles /\ pc'[h] = "put_back" /\ want' = want
    BY <1>0, <1>13, GotoStep, Zenon DEF Clear, syncVars
  <2>5. loc[h].snap \in Snapshots
    BY <1>0, <1>13, Zenon DEF Clear, HandlerOK, HasSnapshot
  <2> QED
    BY <1>0, <2>1, <2>3, <2>4, <2>5, Zenon DEF HandlerTypes, HandlerOK, Restorable
<1>14. CASE PutBack(h)
  <2>1. loc[h].snap \in Snapshots /\ \A o \in loc[h].todo : Restorable(h, o)
    BY <1>0, <1>14, Zenon DEF PutBack, HandlerOK, HasSnapshot
  <2>2. CASE loc[h].todo = {}
    <3>1. DOMAIN pc' = Handles /\ pc'[h] = "replace_points" /\ want' = want /\ loc' = loc
      BY <1>0, <1>14, <2>2, GotoStep, Zenon DEF PutBack, syncVars
    <3> QED
      BY <1>0, <2>1, <3>1, Zenon DEF HandlerTypes, HandlerOK
  <2>3. CASE loc[h].todo # {}
    <3>1. PICK o \in loc[h].todo :
             /\ loc' = [loc EXCEPT ![h].todo = @ \ {o}, ![h].object = o,
                                   ![h].id = next_object_id]
             /\ Goto(h, "store_id")
      BY <1>14, <2>3, Zenon DEF PutBack
    <3> DEFINE r == [loc[h] EXCEPT !.todo = @ \ {o}, !.object = o, !.id = next_object_id]
    <3>2. o \in Nat /\ next_object_id \in Nat
      BY <1>0 DEF Locals, Objects, Types, TableTypes
    <3>3. /\ r \in Locals /\ r.snap = loc[h].snap /\ r.names = loc[h].names
          /\ r.todo = loc[h].todo \ {o}
      BY <1>0, <3>2, Zenon DEF Locals
    <3>4. loc' = [loc EXCEPT ![h] = r]
      BY <3>1, Zenon
    <3> HIDE DEF r
    <3>5. loc' \in [Handles -> Locals] /\ loc'[h] = r
      BY <1>0, <3>3, <3>4, LocStep, Zenon
    <3>6. DOMAIN pc' = Handles /\ pc'[h] = "store_id" /\ want' = want
      BY <1>0, <1>14, <3>1, GotoStep, Zenon DEF PutBack, syncVars
    <3> QED
      BY <1>0, <2>1, <3>3, <3>5, <3>6, Zenon DEF HandlerTypes, HandlerOK, Restorable
  <2> QED
    BY <2>2, <2>3, Zenon
<1>15. CASE StoreId(h)
  <2>1. DOMAIN pc' = Handles /\ pc'[h] = "put_back" /\ want' = want /\ loc' = loc
    BY <1>0, <1>15, GotoStep, Zenon DEF StoreId, syncVars
  <2>2. pc[h] = "store_id"
    BY <1>15, Zenon DEF StoreId
  <2> QED
    BY <1>0, <2>1, <2>2, Zenon DEF HandlerTypes, HandlerOK, HasSnapshot, Restorable
<1>16. ASSUME NEW to \in Handles, Receive(h, to) PROVE HandlerTypes' /\ HandlerOK(h)'
  BY <1>0, <1>16, Zenon DEF Receive, Deliver, Restorable, syncVars, HandlerTypes, HandlerOK
<1> QED
  BY <1>1, <1>2, <1>3, <1>4, <1>5, <1>7, <1>8, <1>9, <1>10, <1>11, <1>12, <1>13, <1>14,
     <1>15, <1>16, Zenon DEF Work

\* Every step keeps the types.
LEMMA TypesNext == Types /\ [Next]_vars => Types'
<1> SUFFICES ASSUME Types, [Next]_vars PROVE Types'
  OBVIOUS
<1>1. CASE UNCHANGED vars
  BY <1>1, Zenon DEF Types, TableTypes, HandlerTypes, HandlerOK, vars, fedVars, syncVars, srVars,
       saveVars, objVars, Restorable
<1>2. ASSUME UNCHANGED <<pc, want, loc>>, TableTypes' PROVE Types'
  BY <1>2, Zenon DEF Types, HandlerTypes, HandlerOK, Restorable
<1>3. ASSUME NEW n \in Names, Enter(n) PROVE Types'
  <2>0. next_handle' = next_handle + 1 /\ next_handle \in Nat
    BY <1>3, Zenon DEF Enter, Join, Types, TableTypes
  <2>1. federates' \in [Handles -> Names \cup {None}] /\ next_handle' \in Nat
    <3>1. federates' = [federates EXCEPT ![next_handle] = n]
      BY <1>3, Zenon DEF Enter, Join
    <3>2. federates \in [Handles -> Names \cup {None}]
      BY Zenon DEF Types, TableTypes
    <3>3. federates' \in [Handles -> Names \cup {None}]
      BY <3>1, <3>2, Zenon
    <3> QED
      BY <2>0, <3>3
  <2>2. UNCHANGED <<sync_points, srVars>>
    BY <1>3, Zenon DEF Enter, Join, syncVars
  <2>3. TableTypes'
    BY <2>1, <2>2, Zenon DEF Types, TableTypes, srVars, saveVars, objVars
  <2>4. UNCHANGED <<pc, want, loc>>
    BY <1>3, Zenon DEF Enter, Join, syncVars, srVars
  <2> QED
    BY <1>2, <2>3, <2>4, Zenon
<1>4. ASSUME NEW h \in Handles, Leave(h) PROVE Types'
  <2>1. federates' \in [Handles -> Names \cup {None}] /\ next_handle' \in Nat
    BY <1>4, Zenon DEF Leave, Resign, Types, TableTypes
  <2>2. UNCHANGED <<sync_points, saveVars, objVars>>
    BY <1>4, Zenon DEF Leave, Resign, syncVars
  <2>3. TableTypes'
    BY <2>1, <2>2, Zenon DEF Types, TableTypes, saveVars, objVars
  <2>4. UNCHANGED <<pc, want, loc>>
    BY <1>4, Zenon DEF Leave, Resign, syncVars
  <2> QED
    BY <1>2, <2>3, <2>4, Zenon
<1>5. ASSUME NEW h \in Handles, Calls(h) \/ Work(h) PROVE Types'
  <2>1. TableTypes'
    BY <1>5, TablesKept, Zenon
  <2>2. HandlerTypes' /\ HandlerOK(h)'
    BY <1>5, CallHandlersKept, WorkHandlersKept, Zenon
  <2>3. ASSUME NEW g \in Handles \ {h} PROVE HandlerOK(g)'
    <3>1. pc'[g] = pc[g] /\ want'[g] = want[g] /\ loc'[g] = loc[g]
      BY <1>5, AloneStep, Zenon DEF Alone
    <3> QED
      BY <3>1, Zenon DEF Types, HandlerOK, Restorable
  <2> QED
    BY <2>1, <2>2, <2>3, Zenon DEF Types
<1> QED
  BY <1>1, <1>3, <1>4, <1>5, Zenon DEF Next

-----------------------------------------------------------------------------
\* A save and its label.  The side channel holds the label of the save on the
\* table; of one that was taken off, until a new one begins.
Ended == {"save_done", "read_label"}

Writing == {"snap_instances", "snap_points", "open_file", "fill_file"}

LabelKnown(h) ==
    /\ pc[h] \in Ended => loc[h].label = last_save_label \/ h \in overtaken
    /\ pc[h] \in Writing => loc[h].file = loc[h].label \/ h \in overtaken

CurrentLabel == current_save # None => current_save.label = last_save_label

LabelInv == CurrentLabel /\ \A h \in Handles : LabelKnown(h)

\* What a step of h must not take from the others.
LabelsLeft(h) ==
    /\ overtaken \ {h} \subseteq overtaken'
    /\ last_save_label' = last_save_label \/ Finishing \ {h} \subseteq overtaken'

\* A request leaves the label of every save under way known.
LEMMA LabelCalls ==
    ASSUME Types, LabelInv, NEW h \in Handles, Calls(h)
    PROVE  CurrentLabel' /\ LabelKnown(h)' /\ LabelsLeft(h)
<1> USE DEF saveVars, history
<1>0. HandlerTypes /\ loc[h] \in Locals
  BY Zenon DEF Types, HandlerTypes
<1>1. ASSUME pc'[h] \notin Ended \cup Writing,
             UNCHANGED <<current_save, last_save_label, overtaken>>
      PROVE  CurrentLabel' /\ LabelKnown(h)' /\ LabelsLeft(h)
  BY <1>1, Zenon DEF LabelInv, CurrentLabel, LabelKnown, LabelsLeft
<1>2. CASE SyncCalls(h) /\ UNCHANGED srVars
  <2>1. pc'[h] \in {"insert_point", "idle"}
    BY <1>0, <1>2, Zenon DEF SyncCalls, RegisterReads, Achieved, Idle, HandlerTypes
  <2> QED
    BY <1>1, <1>2, <2>1, Zenon DEF srVars, Ended, Writing
<1>3. ASSUME NEW x \in SaveLabels, SaveReads(h, x) \/ RestoreReads(h, x)
      PROVE  CurrentLabel' /\ LabelKnown(h)' /\ LabelsLeft(h)
  <2>1. pc'[h] \in {"set_save", "read_members"}
    BY <1>0, <1>3, GotoStep, Zenon DEF SaveReads, RestoreReads
  <2> QED
    BY <1>1, <1>3, <2>1, Zenon DEF SaveReads, RestoreReads, Ended, Writing
<1>4. ASSUME NEW ok \in BOOLEAN, SaveProgressed(h, ok)
      PROVE  CurrentLabel' /\ LabelKnown(h)' /\ LabelsLeft(h)
  <2> DEFINE op == Report(current_save, h, ok)
  <2>1. op.label = last_save_label /\ op.label = current_save.label
    BY <1>4, Zenon DEF SaveProgressed, Report, Operations, Types, TableTypes, LabelInv, CurrentLabel
  <2>2. /\ current_save' = IF AllDone(op) THEN None ELSE op
        /\ UNCHANGED <<last_save_label, overtaken>>
    BY <1>4, Zenon DEF SaveProgressed
  <2>3. CASE AllDone(op)
    <3>1. loc' = [loc EXCEPT ![h].label = op.label]
      BY <1>4, <2>3, Zenon DEF SaveProgressed
    <3> HIDE DEF op
    <3>2. loc'[h].label = op.label
      BY <1>0, <3>1, Zenon DEF HandlerTypes, Locals
    <3>3. pc'[h] \in {"save_failed", "save_done"}
      BY <1>0, <1>4, <2>3, GotoStep, Zenon DEF SaveProgressed, op
    <3> QED
      BY <2>1, <2>2, <2>3, <3>2, <3>3, Zenon
         DEF CurrentLabel, LabelKnown, LabelsLeft, Ended, Writing
  <2>4. CASE ~AllDone(op)
    <3>1. pc'[h] = "idle"
      BY <1>4, <2>4, Zenon DEF SaveProgressed, Idle
    <3> HIDE DEF op
    <3> QED
      BY <2>1, <2>2, <2>4, <3>1, Zenon DEF CurrentLabel, LabelKnown, LabelsLeft, Ended, Writing
  <2> QED
    BY <2>3, <2>4, Zenon
<1>5. ASSUME NEW ok \in BOOLEAN, RestoreProgressed(h, ok)
      PROVE  CurrentLabel' /\ LabelKnown(h)' /\ LabelsLeft(h)
  <2>1. pc'[h] \in {"restore_failed", "restore_done", "idle"}
    BY <1>0, <1>5, GotoStep, Zenon DEF RestoreProgressed, Idle
  <2> QED
    BY <1>1, <1>5, <2>1, Zenon DEF RestoreProgressed, Ended, Writing
<1>6. CASE SaveBegun(h)
  <2>1. current_save'.label = current_save.label /\ current_save # None
    BY <1>6, Zenon DEF SaveBegun, Operations, Types, TableTypes
  <2>2. pc'[h] = "idle" /\ UNCHANGED <<last_save_label, overtaken>>
    BY <1>6, Zenon DEF SaveBegun, Idle
  <2> QED
    BY <2>1, <2>2, Zenon DEF LabelInv, CurrentLabel, LabelKnown, LabelsLeft, Ended, Writing
<1>7. CASE AbortSave(h)
  <2>1. pc'[h] = "idle" /\ current_save' = None /\ UNCHANGED <<last_save_label, overtaken>>
    BY <1>7, Zenon DEF AbortSave, Ask, Idle
  <2> QED
    BY <2>1, Zenon DEF CurrentLabel, LabelKnown, LabelsLeft, Ended, Writing
<1>8. CASE AbortRestore(h)
  <2>1. pc'[h] = "idle"
    BY <1>8, Zenon DEF AbortRestore, Ask, Idle
  <2> QED
    BY <1>1, <1>8, <2>1, Zenon DEF AbortRestore, Ended, Writing
<1>9. CASE DrawObject(h)
  <2>1. pc'[h] = "insert_object"
    BY <1>0, <1>9, GotoStep, Zenon DEF DrawObject
  <2> QED
    BY <1>1, <1>9, <2>1, Zenon DEF DrawObject, Ended, Writing
<1> QED
  BY <1>2, <1>3, <1>4, <1>5, <1>6, <1>7, <1>8, <1>9, Zenon DEF Calls

\* So does every step inside a handler.
LEMMA LabelWork ==
    ASSUME Types, LabelInv, NEW h \in Handles, Work(h)
    PROVE  CurrentLabel' /\ LabelKnown(h)' /\ LabelsLeft(h)
<1> USE DEF saveVars, history
<1>0. HandlerTypes /\ loc[h] \in Locals
  BY Zenon DEF Types, HandlerTypes
<1>1. ASSUME pc'[h] \notin Ended \cup Writing,
             UNCHANGED <<current_save, last_save_label, overtaken>>
      PROVE  CurrentLabel' /\ LabelKnown(h)' /\ LabelsLeft(h)
  BY <1>1, Zenon DEF LabelInv, CurrentLabel, LabelKnown, LabelsLeft
<1>2. ASSUME LabelKnown(h)', UNCHANGED <<current_save, last_save_label, overtaken>>
      PROVE  CurrentLabel' /\ LabelKnown(h)' /\ LabelsLeft(h)
  BY <1>2, Zenon DEF LabelInv, CurrentLabel, LabelsLeft
<1>3. CASE SaveSets(h)
  <2>1. pc'[h] = "idle"
    BY <1>0, <1>3, GotoStep, Zenon DEF SaveSets, Done
  <2>2. CASE current_save # None
    BY <1>1, <1>3, <2>1, <2>2, Zenon DEF SaveSets, Ended, Writing
  <2>3. CASE current_save = None
    <3>1. /\ current_save' = Operation(h, loc[h].label)
          /\ last_save_label' = loc[h].label
          /\ overtaken' = overtaken \cup Finishing
      BY <1>3, <2>3, Zenon DEF SaveSets
    <3>2. Operation(h, loc[h].label).label = loc[h].label
      BY Zenon DEF Operation
    <3> QED
      BY <2>1, <3>1, <3>2, Zenon DEF CurrentLabel, LabelKnown, LabelsLeft, Ended, Writing
  <2> QED
    BY <2>2, <2>3, Zenon
<1>4. CASE TellSaved(h)
  <2>1. pc'[h] = "idle"
    BY <1>0, <1>4, GotoStep, Zenon DEF TellSaved, Done
  <2>2. overtaken' = overtaken \ {h} /\ UNCHANGED <<current_save, last_save_label>>
    BY <1>4, Zenon DEF TellSaved
  <2> QED
    BY <2>1, <2>2, Zenon DEF LabelInv, CurrentLabel, LabelKnown, LabelsLeft, Ended, Writing
<1>5. CASE SaveEnded(h)
  <2>1. CASE pc[h] = "save_done"
    <3>1. pc'[h] = "read_label"
      BY <1>0, <1>5, <2>1, GotoStep, Zenon DEF SaveEnded
    <3>2. loc' = [loc EXCEPT ![h].group = Joined]
      BY <1>5, <2>1, Zenon DEF SaveEnded
    <3>3. loc'[h].label = loc[h].label
      BY <1>0, <3>2, Zenon DEF HandlerTypes, Locals
    <3>4. UNCHANGED <<current_save, last_save_label, overtaken>>
      BY <1>5, Zenon DEF SaveEnded
    <3>5. loc[h].label = last_save_label \/ h \in overtaken
      BY <2>1, Zenon DEF LabelInv, LabelKnown, Ended
    <3> QED
      BY <1>2, <3>1, <3>3, <3>4, <3>5, Zenon DEF LabelKnown, Writing
  <2>2. CASE pc[h] # "save_done"
    <3>1. pc'[h] = "idle"
      BY <1>0, <1>5, <2>2, GotoStep, Zenon DEF SaveEnded, Done
    <3> QED
      BY <1>1, <1>5, <3>1, Zenon DEF SaveEnded, Ended, Writing
  <2> QED
    BY <2>1, <2>2, Zenon
<1>6. CASE ReadLabel(h)
  <2>1. pc'[h] = "snap_instances" /\ pc[h] = "read_label"
    BY <1>0, <1>6, GotoStep, Zenon DEF ReadLabel
  <2>2. loc' = [loc EXCEPT ![h].file = last_save_label]
    BY <1>6, Zenon DEF ReadLabel
  <2>3. loc'[h].file = last_save_label /\ loc'[h].label = loc[h].label
    BY <1>0, <2>2, Zenon DEF HandlerTypes, Locals
  <2>4. UNCHANGED <<current_save, last_save_label, overtaken>>
    BY <1>6, Zenon DEF ReadLabel
  <2>5. loc[h].label = last_save_label \/ h \in overtaken
    BY <2>1, Zenon DEF LabelInv, LabelKnown, Ended
  <2> QED
    BY <1>2, <2>1, <2>3, <2>4, <2>5, Zenon DEF LabelKnown, Ended
<1>7. ASSUME pc[h] \in Writing, pc'[h] \in Writing, loc'[h].file = loc[h].file,
             loc'[h].label = loc[h].label,
             UNCHANGED <<current_save, last_save_label, overtaken>>
      PROVE  CurrentLabel' /\ LabelKnown(h)' /\ LabelsLeft(h)
  <2>1. loc[h].file = loc[h].label \/ h \in overtaken
    BY <1>7, Zenon DEF LabelInv, LabelKnown
  <2> QED
    BY <1>2, <1>7, <2>1, Zenon DEF LabelKnown, Ended, Writing
<1>8. CASE SnapInstances(h) \/ SnapPoints(h)
  <2>1. pc[h] \in Writing /\ pc'[h] \in Writing
    BY <1>0, <1>8, GotoStep, Zenon DEF SnapInstances, SnapPoints, Writing
  <2>2. loc'[h].file = loc[h].file /\ loc'[h].label = loc[h].label
    BY <1>0, <1>8 DEF SnapInstances, SnapPoints, HandlerTypes, Locals
  <2>3. UNCHANGED <<current_save, last_save_label, overtaken>>
    BY <1>8, Zenon DEF SnapInstances, SnapPoints
  <2> QED
    BY <1>7, <2>1, <2>2, <2>3, Zenon
<1>9. CASE OpenFile(h) \/ FillFile(h)
  <2>1. pc[h] \in Writing /\ pc'[h] \in Writing \cup {"saved"} /\ loc' = loc
    BY <1>0, <1>9, GotoStep, Zenon DEF OpenFile, FillFile, Writing
  <2>2. UNCHANGED <<current_save, last_save_label, overtaken>>
    BY <1>9, Zenon DEF OpenFile, FillFile
  <2> QED
    BY <1>1, <1>7, <2>1, <2>2, Zenon DEF Ended, Writing
<1>10. CASE RegisterInserts(h) /\ UNCHANGED srVars
  <2>1. pc'[h] = "idle"
    BY <1>0, <1>10, Zenon DEF RegisterInserts, HandlerTypes
  <2> QED
    BY <1>1, <1>10, <2>1, Zenon DEF srVars, Ended, Writing
<1>11. CASE ReadMembers(h) \/ ReadNames(h) \/ Clear(h) \/ StoreId(h)
  <2>1. pc'[h] \in {"set_restore", "clear", "put_back"}
    BY <1>0, <1>11, GotoStep, Zenon DEF ReadMembers, ReadNames, Clear, StoreId
  <2> QED
    BY <1>1, <1>11, <2>1, Zenon DEF ReadMembers, ReadNames, Clear, StoreId, Ended, Writing
<1>12. CASE RestoreSets(h) \/ PutBack(h)
  <2>1. pc'[h] \in {"idle", "read_names", "replace_points", "store_id"}
    BY <1>0, <1>12, GotoStep, Zenon DEF RestoreSets, PutBack, Done
  <2> QED
    BY <1>1, <1>12, <2>1, Zenon DEF RestoreSets, PutBack, Ended, Writing
<1>13. CASE ReplacePoints(h) \/ RestoreEnded(h) \/ InsertObject(h)
  <2>1. pc'[h] = "idle"
    BY <1>0, <1>13, GotoStep, Zenon DEF ReplacePoints, RestoreEnded, InsertObject, Done
  <2> QED
    BY <1>1, <1>13, <2>1, Zenon DEF ReplacePoints, RestoreEnded, InsertObject, Ended, Writing
<1>14. ASSUME NEW to \in Handles, Receive(h, to)
       PROVE  CurrentLabel' /\ LabelKnown(h)' /\ LabelsLeft(h)
  <2>1. UNCHANGED <<pc, loc, current_save, last_save_label, overtaken>>
    BY <1>14, Zenon DEF Receive, Deliver
  <2> QED
    BY <1>2, <2>1, Zenon DEF LabelInv, LabelKnown
<1> QED
  BY <1>3, <1>4, <1>5, <1>6, <1>8, <1>9, <1>10, <1>11, <1>12, <1>13, <1>14, Zenon DEF Work

\* Every step keeps the labels of saves under way known.
LEMMA LabelNext == Types /\ LabelInv /\ [Next]_vars => LabelInv'
<1> SUFFICES ASSUME Types, LabelInv, [Next]_vars PROVE LabelInv'
  OBVIOUS
<1>1. ASSUME UNCHANGED <<pc, loc, current_save, last_save_label, overtaken>> PROVE LabelInv'
  BY <1>1, Zenon DEF LabelInv, CurrentLabel, LabelKnown
<1>2. CASE UNCHANGED vars
  BY <1>1, <1>2, Zenon DEF vars, srVars, saveVars, history
<1>3. ASSUME NEW n \in Names, Enter(n) PROVE LabelInv'
  BY <1>1, <1>3, Zenon DEF Enter, Join, srVars, saveVars, history
<1>4. ASSUME NEW h \in Handles, Leave(h) PROVE LabelInv'
  BY <1>1, <1>4, Zenon DEF Leave, Resign, saveVars, history
<1>5. ASSUME NEW h \in Handles, Calls(h) \/ Work(h) PROVE LabelInv'
  <2>1. CurrentLabel' /\ LabelKnown(h)' /\ LabelsLeft(h)
    BY <1>5, LabelCalls, LabelWork, Zenon
  <2>2. ASSUME NEW g \in Handles \ {h} PROVE LabelKnown(g)'
    <3>1. pc'[g] = pc[g] /\ loc'[g] = loc[g]
      BY <1>5, AloneStep, Zenon DEF Alone
    <3>2. LabelKnown(g)
      BY Zenon DEF LabelInv
    <3>3. pc[g] \in Ended => g \in Finishing
      BY Zenon DEF Ended, Finishing
    <3> QED
      BY <2>1, <3>1, <3>2, <3>3, Zenon DEF LabelKnown, LabelsLeft
  <2> QED
    BY <2>1, <2>2, Zenon DEF LabelInv
<1> QED
  BY <1>2, <1>3, <1>4, <1>5, Zenon DEF Next

\* persist_federation_snapshot_on_success: however many sessions finish saves
\* at the same time, one writes to the file of another save only if a save
\* began between the end of its own and the look at the side channel.
THEOREM SnapshotsLabelled == Spec => []SnapshotUnderOwnLabel
<1>1. SaveInit => Types /\ LabelInv
  BY TypesInit, Zenon DEF SaveInit, Init, LabelInv, CurrentLabel, LabelKnown, Ended, Writing
<1>2. Types /\ LabelInv /\ [Next]_vars => (Types /\ LabelInv)'
  BY TypesNext, LabelNext, Zenon
<1>3. LabelInv => SnapshotUnderOwnLabel
  BY Zenon DEF LabelInv, LabelKnown, SnapshotUnderOwnLabel, Writing
<1> QED
  BY <1>1, <1>2, <1>3, PTL DEF Spec

-----------------------------------------------------------------------------
\* A restore and the names.  A handle that has been drawn keeps its name until
\* its federate leaves, and is never given to another one; while a restore
\* puts instances back nobody else gets at them.
PuttingBack == {"put_back", "store_id"}

Fresh == \A h \in Handles : next_handle <= h => federates[h] = None

NamesRight(h) ==
    pc[h] \in PuttingBack \cup {"clear"} =>
        \A n \in Names : loc[h].names[n] # None =>
            /\ loc[h].names[n] < next_handle
            /\ federates[loc[h].names[n]] \in {n, None}

OnlyOne == \A g, h \in Handles : pc[g] \in PuttingBack /\ pc[h] \in PuttingBack => g = h

PutBackRight(h) ==
    pc[h] \in PuttingBack =>
        \A o \in Objects : instances[o] # None =>
            Restorable(h, o) /\ instances[o] = loc[h].names[loc[h].snap.instances[o]]

NamesInv ==
    /\ Fresh
    /\ OnlyOne
    /\ \A h \in Handles : NamesRight(h) /\ PutBackRight(h)

\* The steps that have to do with it, and what all others leave alone.
Restoring(h) == ReadNames(h) \/ Clear(h) \/ PutBack(h) \/ StoreId(h) \/ InsertObject(h)

\* No request touches federates or instances, or starts to put back.
LEMMA ElsewhereCalls ==
    ASSUME Types, NEW h \in Handles, Calls(h)
    PROVE  /\ UNCHANGED <<federates, next_handle, instances>>
           /\ pc'[h] \notin PuttingBack \cup {"clear"}
<1> USE DEF fedVars, objVars
<1>0. HandlerTypes
  BY Zenon DEF Types
<1>1. CASE SyncCalls(h) /\ UNCHANGED srVars
  BY <1>0, <1>1, Zenon DEF SyncCalls, RegisterReads, Achieved, Idle, HandlerTypes, srVars, PuttingBack
<1>2. ASSUME NEW x \in SaveLabels, SaveReads(h, x) \/ RestoreReads(h, x)
      PROVE  /\ UNCHANGED <<federates, next_handle, instances>>
             /\ pc'[h] \notin PuttingBack \cup {"clear"}
  BY <1>0, <1>2, GotoStep DEF SaveReads, RestoreReads, PuttingBack
<1>3. ASSUME NEW ok \in BOOLEAN, SaveProgressed(h, ok) \/ RestoreProgressed(h, ok)
      PROVE  /\ UNCHANGED <<federates, next_handle, instances>>
             /\ pc'[h] \notin PuttingBack \cup {"clear"}
  BY <1>0, <1>3, GotoStep DEF SaveProgressed, RestoreProgressed, Idle, PuttingBack
<1>4. CASE SaveBegun(h) \/ AbortSave(h) \/ AbortRestore(h)
  BY <1>4, Zenon DEF SaveBegun, AbortSave, AbortRestore, Ask, Idle, PuttingBack
<1>5. CASE DrawObject(h)
  BY <1>0, <1>5, GotoStep DEF DrawObject, PuttingBack
<1> QED
  BY <1>1, <1>2, <1>3, <1>4, <1>5, Zenon DEF Calls

\* Nor does a step inside a handler other than those of a restore.
LEMMA ElsewhereWork ==
    ASSUME Types, NEW h \in Handles, Work(h), ~Restoring(h)
    PROVE  /\ UNCHANGED <<federates, next_handle, instances>>
           /\ pc'[h] \notin PuttingBack \cup {"clear"} \/ UNCHANGED <<pc, loc>>
<1> USE DEF fedVars, objVars
<1>0. HandlerTypes
  BY Zenon DEF Types
<1>1. CASE RegisterInserts(h) /\ UNCHANGED srVars
  BY <1>0, <1>1, Zenon DEF RegisterInserts, HandlerTypes, srVars, PuttingBack
<1>2. CASE SaveSets(h) \/ SaveEnded(h) \/ ReadLabel(h) \/ TellSaved(h)
  BY <1>0, <1>2, GotoStep DEF SaveSets, SaveEnded, ReadLabel, TellSaved, Done, PuttingBack
<1>3. CASE SnapInstances(h) \/ SnapPoints(h) \/ OpenFile(h) \/ FillFile(h)
  BY <1>0, <1>3, GotoStep DEF SnapInstances, SnapPoints, OpenFile, FillFile, PuttingBack
<1>4. CASE ReadMembers(h) \/ RestoreSets(h) \/ ReplacePoints(h) \/ RestoreEnded(h)
  BY <1>0, <1>4, GotoStep DEF ReadMembers, RestoreSets, ReplacePoints, RestoreEnded, Done,
       PuttingBack
<1>5. ASSUME NEW to \in Handles, Receive(h, to)
      PROVE UNCHANGED <<federates, next_handle, instances, pc, loc>>
  BY <1>5, Zenon DEF Receive, Deliver
<1> QED
  BY <1>1, <1>2, <1>3, <1>4, <1>5, Zenon DEF Work, Restoring

\* Such a step keeps the names right.
LEMMA NamesElsewhere ==
    ASSUME Types, NamesInv, NEW h \in Handles, Alone(h),
           UNCHANGED <<federates, next_handle, instances>>,
           pc'[h] \notin PuttingBack \cup {"clear"} \/ UNCHANGED <<pc, loc>>
    PROVE  NamesInv'
<1>1. Fresh'
  BY Zenon DEF NamesInv, Fresh
<1>2. OnlyOne'
  BY Zenon DEF NamesInv, OnlyOne, Alone
<1>3. ASSUME NEW g \in Handles PROVE NamesRight(g)' /\ PutBackRight(g)'
  <2>1. CASE pc'[g] \notin PuttingBack \cup {"clear"}
    BY <2>1, Zenon DEF NamesRight, PutBackRight
  <2>2. CASE pc'[g] = pc[g] /\ loc'[g] = loc[g]
    BY <2>2, Zenon DEF NamesInv, NamesRight, PutBackRight, Restorable
  <2> QED
    BY <2>1, <2>2, Zenon DEF Alone
<1> QED
  BY <1>1, <1>2, <1>3, Zenon DEF NamesInv

\* So does a step of a restore.
LEMMA NamesRestoring ==
    ASSUME Types, NamesInv, NEW h \in Handles, Restoring(h), Alone(h)
    PROVE  NamesInv'
<1> USE DEF fedVars, objVars
<1>0. /\ HandlerTypes /\ loc[h] \in Locals
      /\ UNCHANGED <<federates, next_handle>>
  BY Zenon DEF Types, HandlerTypes, Restoring, ReadNames, Clear, PutBack, StoreId, InsertObject
<1>1. Fresh'
  BY <1>0, Zenon DEF NamesInv, Fresh
<1>2. ASSUME NEW g \in Handles \ {h} PROVE NamesRight(g)'
  BY <1>0, <1>2 DEF Alone, NamesInv, NamesRight
<1>3. ASSUME instances' = instances, NEW g \in Handles \ {h} PROVE PutBackRight(g)'
  BY <1>3 DEF Alone, NamesInv, PutBackRight, Restorable
<1>4. CASE ReadNames(h)
  <2>1. pc'[h] = "clear" /\ instances' = instances
    BY <1>0, <1>4, GotoStep, Zenon DEF ReadNames
  <2>2. loc' = [loc EXCEPT ![h].names = [n \in Names |-> HandleOf(n)]]
    BY <1>4, Zenon DEF ReadNames
  <2>3. \A n \in Names : loc'[h].names[n] = HandleOf(n)
    BY <1>0, <2>2, Zenon DEF HandlerTypes, Locals
  <2>4. ASSUME NEW n \in Names, HandleOf(n) # None
        PROVE  HandleOf(n) \in Handles /\ federates[HandleOf(n)] = n
    BY <2>4, Zenon DEF HandleOf
  <2>5. ASSUME NEW n \in Names, HandleOf(n) # None PROVE HandleOf(n) < next_handle
    <3>1. federates[HandleOf(n)] # None
      BY <2>4, <2>5, NoneAssumption, Zenon
    <3> QED
      BY <2>4, <2>5, <3>1 DEF NamesInv, Fresh, Handles, Types, TableTypes
  <2>6. NamesRight(h)' /\ PutBackRight(h)'
    BY <1>0, <2>1, <2>3, <2>4, <2>5, Zenon DEF NamesRight, PutBackRight, PuttingBack
  <2>7. OnlyOne'
    BY <2>1, Zenon DEF NamesInv, OnlyOne, Alone, PuttingBack
  <2> QED
    BY <1>1, <1>2, <1>3, <2>1, <2>6, <2>7, Zenon DEF NamesInv
<1>5. CASE Clear(h)
  <2>1. pc'[h] = "put_back" /\ pc[h] = "clear" /\ instances' = [o \in Objects |-> None]
    BY <1>0, <1>5, GotoStep, Zenon DEF Clear
  <2>2. loc' = [loc EXCEPT ![h].todo = {o \in Objects : Restorable(h, o)}]
    BY <1>5, Zenon DEF Clear
  <2>3. loc'[h].names = loc[h].names
    BY <1>0, <2>2, Zenon DEF HandlerTypes, Locals
  <2>4. \A g \in Handles : pc[g] \notin PuttingBack
    BY <1>5, Zenon DEF Clear, InstancesLocked, PuttingBack
  <2>5. OnlyOne'
    BY <2>4, Zenon DEF OnlyOne, Alone
  <2>6. NamesRight(h)'
    BY <1>0, <2>1, <2>3, Zenon DEF NamesInv, NamesRight
  <2>7. \A g \in Handles : PutBackRight(g)'
    BY <2>1, Zenon DEF PutBackRight
  <2> QED
    BY <1>1, <1>2, <2>5, <2>6, <2>7, Zenon DEF NamesInv
<1>6. CASE PutBack(h)
  <2>1. pc[h] = "put_back"
    BY <1>6, Zenon DEF PutBack
  <2>2. \A g \in Handles \ {h} : pc[g] \notin PuttingBack
    BY <2>1, Zenon DEF NamesInv, OnlyOne, PuttingBack
  <2>3. OnlyOne' /\ \A g \in Handles \ {h} : PutBackRight(g)'
    BY <2>2, Zenon DEF OnlyOne, PutBackRight, Alone
  <2>4. CASE loc[h].todo = {}
    <3>1. pc'[h] = "replace_points"
      BY <1>0, <1>6, <2>4, GotoStep, Zenon DEF PutBack
    <3> QED
      BY <1>1, <1>2, <2>3, <3>1, Zenon DEF NamesInv, NamesRight, PutBackRight, PuttingBack
  <2>5. CASE loc[h].todo # {}
    <3>1. PICK o \in loc[h].todo :
             /\ instances' = [instances EXCEPT ![o] = loc[h].names[loc[h].snap.instances[o]]]
             /\ loc' = [loc EXCEPT ![h].todo = @ \ {o}, ![h].object = o,
                                   ![h].id = next_object_id]
      BY <1>6, <2>5, Zenon DEF PutBack
    <3>2. loc'[h].names = loc[h].names /\ loc'[h].snap = loc[h].snap
      BY <1>0, <3>1, Zenon DEF HandlerTypes, Locals
    <3>3. Restorable(h, o)
      BY <2>1, Zenon DEF Types, HandlerOK
    <3>4. ASSUME NEW q \in Objects, instances'[q] # None
          PROVE  Restorable(h, q)' /\ instances'[q] = loc'[h].names[loc'[h].snap.instances[q]]
      <4>1. PutBackRight(h)
        BY Zenon DEF NamesInv
      <4> QED
        BY <2>1, <3>1, <3>2, <3>3, <3>4, <4>1, Zenon
           DEF PutBackRight, PuttingBack, Restorable, Types, TableTypes
    <3>5. NamesRight(h)'
      BY <1>0, <2>1, <3>2, Zenon DEF NamesInv, NamesRight, PuttingBack
    <3>6. PutBackRight(h)'
      BY <3>4, Zenon DEF PutBackRight
    <3> QED
      BY <1>1, <1>2, <2>3, <3>5, <3>6, Zenon DEF NamesInv
  <2> QED
    BY <2>4, <2>5, Zenon
<1>7. CASE StoreId(h)
  <2>1. pc[h] = "store_id" /\ pc'[h] = "put_back" /\ loc' = loc /\ instances' = instances
    BY <1>0, <1>7, GotoStep, Zenon DEF StoreId
  <2>2. OnlyOne'
    BY <2>1, Zenon DEF NamesInv, OnlyOne, Alone, PuttingBack
  <2>3. NamesRight(h)' /\ PutBackRight(h)'
    BY <1>0, <2>1, Zenon DEF NamesInv, NamesRight, PutBackRight, Restorable, PuttingBack
  <2> QED
    BY <1>1, <1>2, <1>3, <2>1, <2>2, <2>3, Zenon DEF NamesInv
<1>8. CASE InsertObject(h)
  <2>1. pc'[h] = "idle"
    BY <1>0, <1>8, GotoStep, Zenon DEF InsertObject, Done
  <2>2. \A g \in Handles : pc[g] \notin PuttingBack
    BY <1>8, Zenon DEF InsertObject, InstancesLocked, PuttingBack
  <2>3. \A g \in Handles : pc'[g] \notin PuttingBack
    BY <2>1, <2>2, Zenon DEF Alone, PuttingBack
  <2>4. NamesRight(h)'
    BY <2>1, Zenon DEF NamesRight, PuttingBack
  <2> QED
    BY <1>1, <1>2, <2>3, <2>4, Zenon DEF NamesInv, OnlyOne, PutBackRight
<1> QED
  BY <1>4, <1>5, <1>6, <1>7, <1>8, Zenon DEF Restoring

\* Every step keeps the names right.
LEMMA NamesNext == Types /\ NamesInv /\ [Next]_vars => NamesInv'
<1> SUFFICES ASSUME Types, NamesInv, [Next]_vars PROVE NamesInv'
  OBVIOUS
<1>1. CASE UNCHANGED vars
  BY <1>1 DEF NamesInv, Fresh, OnlyOne, NamesRight, PutBackRight, Restorable, vars, fedVars,
       srVars, objVars
<1>2. ASSUME UNCHANGED <<pc, loc, instances>>, Fresh',
             \A h \in Handles : h < next_handle => h < next_handle' /\ federates'[h] \in {federates[h], None}
      PROVE  NamesInv'
  <2>1. OnlyOne' /\ \A h \in Handles : PutBackRight(h)'
    BY <1>2, Zenon DEF NamesInv, OnlyOne, PutBackRight, Restorable
  <2>2. ASSUME NEW h \in Handles PROVE NamesRight(h)'
    <3>1. NamesRight(h) /\ loc[h].names \in [Names -> Handles \cup {None}]
      BY Zenon DEF NamesInv, Types, HandlerTypes, Locals
    <3> QED
      BY <1>2, <3>1, Zenon DEF NamesRight
  <2> QED
    BY <1>2, <2>1, <2>2, Zenon DEF NamesInv
<1>3. ASSUME NEW n \in Names, Enter(n) PROVE NamesInv'
  <2>1. /\ federates' = [federates EXCEPT ![next_handle] = n]
        /\ next_handle' = next_handle + 1 /\ next_handle \in Nat
        /\ UNCHANGED <<pc, loc, instances>>
    BY <1>3, Zenon DEF Enter, Join, srVars, objVars, Types, TableTypes
  <2>2. Fresh'
    BY <2>1 DEF NamesInv, Fresh, Handles, Types, TableTypes
  <2>3. \A h \in Handles : h < next_handle
           => h < next_handle' /\ federates'[h] \in {federates[h], None}
    BY <2>1 DEF Handles, Types, TableTypes
  <2> QED
    BY <1>2, <2>1, <2>2, <2>3, Zenon
<1>4. ASSUME NEW h \in Handles, Leave(h) PROVE NamesInv'
  <2>1. /\ federates' = [federates EXCEPT ![h] = None] /\ next_handle' = next_handle
        /\ UNCHANGED <<pc, loc, instances>>
    BY <1>4, Zenon DEF Leave, Resign, objVars
  <2>2. \A g \in Handles : federates'[g] \in {federates[g], None}
    BY <2>1, Zenon DEF Types, TableTypes
  <2>3. Fresh'
    BY <2>1, <2>2, Zenon DEF NamesInv, Fresh
  <2> QED
    BY <1>2, <2>1, <2>2, <2>3, Zenon
<1>5. ASSUME NEW h \in Handles, Calls(h) \/ Work(h) PROVE NamesInv'
  <2>1. Alone(h)
    BY <1>5, AloneStep, Zenon
  <2> QED
    BY <1>5, <2>1, ElsewhereCalls, ElsewhereWork, NamesElsewhere, NamesRestoring, Zenon
<1> QED
  BY <1>1, <1>3, <1>4, <1>5, Zenon DEF Next

\* No handler is at work at first, and no handle has been drawn.
LEMMA NamesInit == SaveInit => NamesInv
  BY DEF SaveInit, Init, NamesInv, Fresh, OnlyOne, NamesRight, PutBackRight, PuttingBack

\* apply_snapshot: whoever joins, resigns and registers meanwhile, a restore
\* gives an instance to the federate that has the saved registrar's name.
THEOREM RestoresKeepNames == Spec => []RestoreKeepsNames
<1>1. SaveInit => Types /\ NamesInv
  BY TypesInit, NamesInit, Zenon
<1>2. Types /\ NamesInv /\ [Next]_vars => (Types /\ NamesInv)'
  BY TypesNext, NamesNext, Zenon
<1>3. NamesInv => RestoreKeepsNames
  BY DEF NamesInv, NamesRight, PutBackRight, Restorable, RestoreKeepsNames, PuttingBack
<1> QED
  BY <1>1, <1>2, <1>3, PTL DEF Spec

-----------------------------------------------------------------------------
\* A registration and the handle it drew.  Handles are drawn below the counter,
\* a restore may put the counter back, and it marks what it thereby exposes.
BelowCounter ==
    /\ next_object_id >= 1
    /\ \A o \in Objects : instances[o] # None =>
         \/ o < next_object_id
         \/ o \in raced
         \/ \E h \in Handles : pc[h] = "store_id" /\ loc[h].object = o

Storing(h) ==
    pc[h] = "store_id" => loc[h].object \in Objects /\ loc[h].id <= next_object_id

\* The handle of a registration under way is free, or marked.
DrawnFree(h) ==
    pc[h] = "insert_object" =>
        /\ loc[h].object \in Objects
        /\ \/ loc[h].object \in raced
           \/ /\ loc[h].object < next_object_id
              /\ instances[loc[h].object] = None
              /\ ~InstancesLocked
              /\ \A g \in Handles \ {h} :
                   pc[g] = "insert_object" => loc[g].object # loc[h].object

ClashInv ==
    /\ BelowCounter
    /\ \A h \in Handles : Storing(h) /\ DrawnFree(h)

\* What the steps that have nothing to do with it leave alone.
Apart(h) ==
    /\ UNCHANGED <<instances, next_object_id, raced>>
    /\ \/ UNCHANGED <<pc, loc>>
       \/ pc[h] # "store_id" /\ pc'[h] \notin PuttingBack \cup {"insert_object"}

\* A request other than a registration has nothing to do with the instances.
LEMMA ApartCalls ==
    ASSUME Types, NEW h \in Handles, Calls(h), ~DrawObject(h)
    PROVE  Apart(h)
<1> USE DEF fedVars, objVars, history, Apart
<1>0. HandlerTypes
  BY Zenon DEF Types
<1>1. CASE SyncCalls(h) /\ UNCHANGED srVars
  <2>1. UNCHANGED <<instances, next_object_id, raced, loc>>
    BY <1>1, Zenon DEF srVars
  <2>2. pc' = pc \/ (pc[h] = "idle" /\ pc'[h] = "insert_point")
    BY <1>0, <1>1, Zenon DEF SyncCalls, RegisterReads, Achieved, Ask, Idle, HandlerTypes
  <2> QED
    BY <2>1, <2>2, Zenon DEF PuttingBack
<1>2. ASSUME NEW x \in SaveLabels, SaveReads(h, x) \/ RestoreReads(h, x)
      PROVE  Apart(h)
  BY <1>0, <1>2, GotoStep DEF SaveReads, RestoreReads, Ask, Idle, PuttingBack
<1>3. ASSUME NEW ok \in BOOLEAN, SaveProgressed(h, ok) \/ RestoreProgressed(h, ok)
      PROVE  Apart(h)
  BY <1>0, <1>3, GotoStep DEF SaveProgressed, RestoreProgressed, Idle, PuttingBack
<1>4. CASE SaveBegun(h) \/ AbortSave(h) \/ AbortRestore(h)
  BY <1>4, Zenon DEF SaveBegun, AbortSave, AbortRestore
<1> QED
  BY <1>1, <1>2, <1>3, <1>4, Zenon DEF Calls

\* Nor has a step inside a handler other than those of a restore.
LEMMA ApartWork ==
    ASSUME Types, NEW h \in Handles, Work(h), ~Restoring(h)
    PROVE  Apart(h)
<1> USE DEF fedVars, objVars, history, Apart
<1>0. HandlerTypes
  BY Zenon DEF Types
<1>1. CASE RegisterInserts(h) /\ UNCHANGED srVars
  <2>1. UNCHANGED <<instances, next_object_id, raced, loc>>
    BY <1>1, Zenon DEF srVars
  <2>2. pc[h] = "insert_point" /\ pc'[h] = "idle"
    BY <1>0, <1>1, Zenon DEF RegisterInserts, HandlerTypes
  <2> QED
    BY <2>1, <2>2, Zenon DEF PuttingBack
<1>2. CASE SaveSets(h) \/ SaveEnded(h) \/ ReadLabel(h) \/ TellSaved(h)
  BY <1>0, <1>2, GotoStep DEF SaveSets, SaveEnded, ReadLabel, TellSaved, Done, PuttingBack
<1>3. CASE SnapInstances(h) \/ SnapPoints(h) \/ OpenFile(h) \/ FillFile(h)
  BY <1>0, <1>3, GotoStep DEF SnapInstances, SnapPoints, OpenFile, FillFile, PuttingBack
<1>4. CASE ReadMembers(h) \/ RestoreSets(h) \/ ReplacePoints(h) \/ RestoreEnded(h)
  BY <1>0, <1>4, GotoStep DEF ReadMembers, RestoreSets, ReplacePoints, RestoreEnded, Done,
       PuttingBack
<1>5. ASSUME NEW to \in Handles, Receive(h, to) PROVE Apart(h)
  BY <1>5, Zenon DEF Receive, Deliver
<1> QED
  BY <1>1, <1>2, <1>3, <1>4, <1>5, Zenon DEF Work, Restoring

\* They keep the invariant.
LEMMA ClashApart ==
    ASSUME ClashInv, NEW h \in Handles, Alone(h), Apart(h)
    PROVE  ClashInv'
<1>0. UNCHANGED <<instances, next_object_id, raced>>
  BY Zenon DEF Apart
<1>1. ASSUME NEW g \in Handles
      PROVE  /\ pc[g] = "store_id" => pc'[g] = pc[g] /\ loc'[g] = loc[g]
             /\ pc'[g] \in PuttingBack \cup {"insert_object"} => pc'[g] = pc[g] /\ loc'[g] = loc[g]
  BY Zenon DEF Apart, Alone
<1>2. BelowCounter'
  <2>1. ASSUME NEW o \in Objects, \E g \in Handles : pc[g] = "store_id" /\ loc[g].object = o
        PROVE  \E g \in Handles : pc'[g] = "store_id" /\ loc'[g].object = o
    BY <1>1, <2>1, Zenon
  <2> QED
    BY <1>0, <2>1, Zenon DEF ClashInv, BelowCounter
<1>3. InstancesLocked' => InstancesLocked
  BY <1>1, Zenon DEF InstancesLocked, PuttingBack
<1>4. ASSUME NEW g \in Handles PROVE Storing(g)'
  BY <1>0, <1>1, <1>4, Zenon DEF ClashInv, Storing, PuttingBack
<1>5. ASSUME NEW g \in Handles PROVE DrawnFree(g)'
  <2> SUFFICES ASSUME pc'[g] = "insert_object" PROVE DrawnFree(g)'
    BY Zenon DEF DrawnFree
  <2>1. DrawnFree(g) /\ pc[g] = "insert_object" /\ loc'[g] = loc[g]
    BY <1>1, Zenon DEF ClashInv
  <2>2. \A f \in Handles : pc'[f] = "insert_object" => pc[f] = "insert_object" /\ loc'[f] = loc[f]
    BY <1>1, Zenon
  <2> QED
    BY <1>0, <1>3, <2>1, <2>2, Zenon DEF DrawnFree
<1> QED
  BY <1>2, <1>4, <1>5, Zenon DEF ClashInv

\* A handle is drawn from the counter, which moves past it.
LEMMA ClashDraw ==
    ASSUME Types, ClashInv, NEW h \in Handles, Alone(h), DrawObject(h)
    PROVE  ClashInv'
<1> USE DEF Types, TableTypes
<1>0. /\ HandlerTypes /\ pc[h] = "idle" /\ pc'[h] = "insert_object"
      /\ instances' = instances
  BY GotoStep, Zenon DEF DrawObject, Ask, Idle
<1>1. /\ loc'[h].object = next_object_id /\ next_object_id' = next_object_id + 1
      /\ next_object_id \in Objects
  BY <1>0 DEF DrawObject, HandlerTypes, Locals, ClashInv, BelowCounter, Objects
<1>2. raced \subseteq raced' /\ (InstancesLocked => next_object_id \in raced')
  BY Zenon DEF DrawObject
<1>3. \A g \in Handles : pc'[g] # "insert_object" \/ g # h => pc'[g] = pc[g] /\ loc'[g] = loc[g]
  BY <1>0, Zenon DEF Alone
<1>4. InstancesLocked' <=> InstancesLocked
  BY <1>0, <1>3, Zenon DEF InstancesLocked
<1>5. BelowCounter'
  <2>1. next_object_id' >= 1
    BY <1>1
  <2> QED
    BY <1>0, <1>1, <1>2, <1>3, <2>1 DEF ClashInv, BelowCounter, Objects
<1>6. ASSUME NEW g \in Handles PROVE Storing(g)'
  <2>1. CASE g = h
    BY <1>0, <2>1, Zenon DEF Storing
  <2>2. CASE g # h
    BY <1>1, <1>3, <2>2 DEF ClashInv, Storing, HandlerTypes, Locals
  <2> QED
    BY <2>1, <2>2, Zenon
<1>7. ASSUME NEW g \in Handles \ {h} PROVE DrawnFree(g)'
  <2>1. CASE pc[g] = "insert_object" /\ loc[g].object \notin raced
    <3>1. loc[g].object # next_object_id /\ loc[g].object < next_object_id'
      BY <1>1, <2>1 DEF ClashInv, DrawnFree, Objects
    <3> QED
      BY <1>0, <1>1, <1>3, <1>4, <2>1, <3>1 DEF ClashInv, DrawnFree
  <2>2. CASE pc[g] # "insert_object" \/ loc[g].object \in raced
    BY <1>2, <1>3, <2>2, Zenon DEF ClashInv, DrawnFree
  <2> QED
    BY <2>1, <2>2, Zenon
<1>8. DrawnFree(h)'
  <2>1. CASE InstancesLocked
    BY <1>1, <1>2, <2>1, Zenon DEF DrawnFree
  <2>2. CASE next_object_id \in raced
    BY <1>1, <1>2, <2>2, Zenon DEF DrawnFree
  <2>3. CASE ~InstancesLocked /\ next_object_id \notin raced
    <3>1. instances[next_object_id] = None
      BY <1>1, <2>3 DEF ClashInv, BelowCounter, InstancesLocked, Objects
    <3>2. \A g \in Handles \ {h} : pc[g] = "insert_object" => loc[g].object # next_object_id
      BY <1>1, <2>3 DEF ClashInv, DrawnFree, Objects
    <3>3. next_object_id < next_object_id'
      BY <1>1
    <3> QED
      BY <1>0, <1>1, <1>3, <1>4, <2>3, <3>1, <3>2, <3>3, Zenon DEF DrawnFree
  <2> QED
    BY <2>1, <2>2, <2>3, Zenon
<1> QED
  BY <1>5, <1>6, <1>7, <1>8, Zenon DEF ClashInv

\* A restore marks what is under way before it puts anything back, and what it
\* exposes when it puts the counter back.
LEMMA ClashRestoring ==
    ASSUME Types, OnlyOne, ClashInv, NEW h \in Handles, Restoring(h), Alone(h)
    PROVE  ClashInv'
<1> USE DEF objVars, history, Types, TableTypes
<1>0. HandlerTypes /\ loc[h] \in Locals
  BY Zenon DEF HandlerTypes
<1>1. CASE ReadNames(h)
  <2>1. Apart(h)
    BY <1>0, <1>1, GotoStep DEF ReadNames, Apart, PuttingBack
  <2> QED
    BY <2>1, ClashApart, Zenon
<1>2. CASE Clear(h)
  <2>1. /\ pc[h] = "clear" /\ pc'[h] = "put_back" /\ next_object_id' = next_object_id
        /\ instances' = [o \in Objects |-> None] /\ raced' = raced \cup InFlight
    BY <1>0, <1>2, GotoStep, Zenon DEF Clear
  <2>2. BelowCounter'
    BY <2>1, Zenon DEF ClashInv, BelowCounter
  <2>3. ASSUME NEW g \in Handles PROVE Storing(g)' /\ DrawnFree(g)'
    <3>1. CASE g = h
      BY <2>1, <3>1, Zenon DEF Storing, DrawnFree
    <3>2. CASE g # h
      <4>1. pc'[g] = pc[g] /\ loc'[g] = loc[g]
        BY <3>2, Zenon DEF Alone
      <4>2. pc[g] = "insert_object" => loc[g].object \in raced'
        BY <2>1, Zenon DEF InFlight
      <4> QED
        BY <2>1, <4>1, <4>2, Zenon DEF ClashInv, Storing, DrawnFree
    <3> QED
      BY <3>1, <3>2, Zenon
  <2> QED
    BY <2>2, <2>3, Zenon DEF ClashInv
<1>3. CASE PutBack(h)
  <2>1. /\ pc[h] = "put_back" /\ raced' = raced /\ next_object_id' = next_object_id
        /\ InstancesLocked
    BY <1>3, Zenon DEF PutBack, InstancesLocked
  <2>2. CASE loc[h].todo = {}
    <3>1. Apart(h)
      BY <1>0, <1>3, <2>1, <2>2, GotoStep DEF PutBack, Apart, PuttingBack
    <3> QED
      BY <3>1, ClashApart, Zenon
  <2>3. CASE loc[h].todo # {}
    <3>1. PICK o \in loc[h].todo :
             /\ instances' = [instances EXCEPT ![o] = loc[h].names[loc[h].snap.instances[o]]]
             /\ loc' = [loc EXCEPT ![h].todo = @ \ {o}, ![h].object = o,
                                   ![h].id = next_object_id]
             /\ Goto(h, "store_id")
      BY <1>3, <2>3, Zenon DEF PutBack
    <3>2. o \in Objects /\ loc'[h].object = o /\ loc'[h].id = next_object_id
      BY <1>0, <3>1, Zenon DEF HandlerTypes, Locals
    <3>3. pc'[h] = "store_id"
      BY <1>0, <3>1, GotoStep, Zenon
    <3>4. \A g \in Handles \ {h} : pc'[g] = pc[g] /\ loc'[g] = loc[g]
      BY Zenon DEF Alone
    <3>5. BelowCounter'
      <4>1. \A q \in Objects \ {o} : instances'[q] = instances[q]
        BY <3>1, Zenon
      <4>2. \A g \in Handles : pc[g] = "store_id" => pc'[g] = "store_id" /\ loc'[g] = loc[g]
        BY <2>1, <3>4, Zenon
      <4> QED
        BY <2>1, <3>2, <3>3, <4>1, <4>2 DEF ClashInv, BelowCounter
    <3>6. ASSUME NEW g \in Handles PROVE Storing(g)'
      BY <2>1, <3>2, <3>3, <3>4 DEF ClashInv, Storing
    <3>7. ASSUME NEW g \in Handles PROVE DrawnFree(g)'
      BY <2>1, <3>3, <3>4, Zenon DEF ClashInv, DrawnFree
    <3> QED
      BY <3>5, <3>6, <3>7, Zenon DEF ClashInv
  <2> QED
    BY <2>2, <2>3, Zenon
<1>4. CASE StoreId(h)
  <2>1. /\ pc[h] = "store_id" /\ pc'[h] = "put_back" /\ loc' = loc /\ instances' = instances
    BY <1>0, <1>4, GotoStep, Zenon DEF StoreId
  <2>2. /\ \A g \in Handles : pc[g] = "store_id" => g = h
        /\ \A g \in Handles : pc'[g] # "store_id"
        /\ \A g \in Handles : pc'[g] = "insert_object" => pc[g] = "insert_object"
        /\ InstancesLocked
    BY <2>1, Zenon DEF OnlyOne, PuttingBack, Alone, InstancesLocked
  <2>3. loc[h].object \in Objects /\ loc[h].id \in Nat /\ loc[h].id <= next_object_id
    BY <1>0, <2>1, Zenon DEF ClashInv, Storing, Locals
  <2>4. raced \subseteq raced'
    BY <1>4, Zenon DEF StoreId
  <2>5. BelowCounter'
    <3>1. CASE loc[h].id <= loc[h].object
      <4>1. /\ next_object_id' = loc[h].object + 1
            /\ raced' = raced \cup loc[h].object + 1 .. next_object_id - 1
        BY <1>4, <3>1, Zenon DEF StoreId, PastHandle
      <4>2. next_object_id' >= 1
        BY <2>3, <4>1 DEF Objects
      <4>3. ASSUME NEW q \in Objects, instances[q] # None
            PROVE  q < next_object_id' \/ q \in raced'
        <5>1. q < next_object_id \/ q \in raced \/ q = loc[h].object
          BY <2>2, <4>3, Zenon DEF ClashInv, BelowCounter
        <5> QED
          BY <2>3, <4>1, <5>1 DEF Objects
      <4> QED
        BY <2>1, <4>2, <4>3, Zenon DEF BelowCounter
    <3>2. CASE ~(loc[h].id <= loc[h].object)
      <4>1. next_object_id' = next_object_id /\ raced' = raced
        BY <1>4, <3>2, Zenon DEF StoreId
      <4>2. loc[h].object < next_object_id
        BY <2>3, <3>2 DEF Objects
      <4> QED
        BY <2>1, <2>2, <4>1, <4>2 DEF ClashInv, BelowCounter
    <3> QED
      BY <3>1, <3>2, Zenon
  <2>6. ASSUME NEW g \in Handles PROVE Storing(g)' /\ DrawnFree(g)'
    BY <2>1, <2>2, <2>4, Zenon DEF ClashInv, Storing, DrawnFree
  <2> QED
    BY <2>5, <2>6, Zenon DEF ClashInv
<1>5. CASE InsertObject(h)
  <2>1. /\ pc[h] = "insert_object" /\ pc'[h] = "idle" /\ ~InstancesLocked
        /\ instances' = [instances EXCEPT ![loc[h].object] = h]
        /\ next_object_id' = next_object_id /\ raced' = raced
    BY <1>0, <1>5, GotoStep, Zenon DEF InsertObject, Done
  <2>2. \A g \in Handles \ {h} : pc'[g] = pc[g] /\ loc'[g] = loc[g]
    BY Zenon DEF Alone
  <2>3. /\ loc[h].object \in Objects
        /\ loc[h].object \in raced \/ loc[h].object < next_object_id
    BY <2>1, Zenon DEF ClashInv, DrawnFree
  <2>4. \A q \in Objects : q # loc[h].object => instances'[q] = instances[q]
    BY <2>1, Zenon
  <2>5. BelowCounter'
    <3>1. \A g \in Handles : pc[g] # "store_id"
      BY <2>1, Zenon DEF InstancesLocked
    <3> QED
      BY <2>1, <2>3, <2>4, <3>1, Zenon DEF ClashInv, BelowCounter
  <2>6. ~InstancesLocked'
    BY <2>1, <2>2, Zenon DEF InstancesLocked
  <2>7. ASSUME NEW g \in Handles PROVE Storing(g)'
    BY <2>1, <2>2, Zenon DEF ClashInv, Storing
  <2>8. ASSUME NEW g \in Handles PROVE DrawnFree(g)'
    <3> SUFFICES ASSUME pc'[g] = "insert_object" PROVE DrawnFree(g)'
      BY Zenon DEF DrawnFree
    <3>1. g # h /\ pc[g] = "insert_object" /\ loc'[g] = loc[g] /\ DrawnFree(g)
      BY <2>1, <2>2, Zenon DEF ClashInv
    <3>2. \A f \in Handles : pc'[f] = "insert_object" => pc[f] = "insert_object" /\ loc'[f] = loc[f]
      BY <2>1, <2>2, Zenon
    <3>3. CASE loc[g].object \in raced
      BY <2>1, <3>1, <3>3, Zenon DEF DrawnFree
    <3>4. CASE loc[g].object \notin raced
      <4>1. loc[g].object # loc[h].object
        BY <2>1, <3>1, <3>4, Zenon DEF DrawnFree
      <4> QED
        BY <2>1, <2>4, <2>6, <3>1, <3>2, <3>4, <4>1 DEF DrawnFree
    <3> QED
      BY <3>3, <3>4, Zenon
  <2> QED
    BY <2>5, <2>7, <2>8, Zenon DEF ClashInv
<1> QED
  BY <1>1, <1>2, <1>3, <1>4, <1>5, Zenon DEF Restoring

\* Every step keeps it.
LEMMA ClashNext == Types /\ OnlyOne /\ ClashInv /\ [Next]_vars => ClashInv'
<1> SUFFICES ASSUME Types, OnlyOne, ClashInv, [Next]_vars PROVE ClashInv'
  OBVIOUS
<1>1. ASSUME UNCHANGED <<pc, loc, instances, next_object_id, raced>> PROVE ClashInv'
  BY <1>1, Zenon DEF ClashInv, BelowCounter, Storing, DrawnFree, InstancesLocked
<1>2. CASE UNCHANGED vars
  BY <1>1, <1>2, Zenon DEF vars, srVars, objVars, history
<1>3. ASSUME NEW n \in Names, Enter(n) PROVE ClashInv'
  BY <1>1, <1>3, Zenon DEF Enter, Join, srVars, objVars, history
<1>4. ASSUME NEW h \in Handles, Leave(h) PROVE ClashInv'
  BY <1>1, <1>4, Zenon DEF Leave, Resign, objVars, history
<1>5. ASSUME NEW h \in Handles, Calls(h) \/ Work(h) PROVE ClashInv'
  <2>1. Alone(h)
    BY <1>5, AloneStep, Zenon
  <2> QED
    BY <1>5, <2>1, ApartCalls, ApartWork, ClashApart, ClashDraw, ClashRestoring, Zenon
<1> QED
  BY <1>2, <1>3, <1>4, <1>5, Zenon DEF Next

\* register_object_instance: a handle that was drawn is free when its instance
\* is entered, unless a restore overlapped with drawing or using it.
THEOREM ClashesAreExplained == Spec => []ClashesExplained
<1>1. SaveInit => Types /\ NamesInv /\ ClashInv
  <2> SUFFICES ASSUME SaveInit PROVE ClashInv
    BY TypesInit, NamesInit, Zenon
  <2>1. next_object_id = 1 /\ \A o \in Objects : instances[o] = None
    BY Zenon DEF SaveInit
  <2>2. \A h \in Handles : pc[h] = "idle"
    BY Zenon DEF SaveInit, Init
  <2> QED
    BY <2>1, <2>2 DEF ClashInv, BelowCounter, Storing, DrawnFree
<1>2. Types /\ NamesInv /\ ClashInv /\ [Next]_vars => (Types /\ NamesInv /\ ClashInv)'
  BY TypesNext, NamesNext, ClashNext, Zenon DEF NamesInv
<1>3. ClashInv => ClashesExplained
  BY Zenon DEF ClashInv, DrawnFree, ClashesExplained
<1> QED
  BY <1>1, <1>2, <1>3, PTL DEF Spec

-----------------------------------------------------------------------------
\* Points are barriers.  A point that is open waits for someone, unless a
\* restore left it without participants.
PointsOpen ==
    \A l \in Labels : sync_points[l] # None =>
        /\ sync_points[l].achieved \subseteq sync_points[l].participants
        /\ sync_points[l].achieved = sync_points[l].participants
              => sync_points[l].participants = {}

\* The steps that touch a point.
LEMMA PointSteps ==
    ASSUME [Next]_vars
    PROVE  \/ UNCHANGED <<sync_points, epoch>>
           \/ \E h \in Handles :
                 \/ RegisterInserts(h)
                 \/ \E l \in Labels : Achieved(h, l)
                 \/ ReplacePoints(h)
<1> USE DEF syncVars
<1>1. CASE UNCHANGED vars
  BY <1>1, Zenon DEF vars
<1>2. ASSUME NEW n \in Names, Enter(n) PROVE UNCHANGED <<sync_points, epoch>>
  BY <1>2, Zenon DEF Enter, Join
<1>3. ASSUME NEW h \in Handles, Leave(h) PROVE UNCHANGED <<sync_points, epoch>>
  BY <1>3, Zenon DEF Leave, Resign
<1>4. ASSUME NEW h \in Handles, Calls(h), ~\E l \in Labels : Achieved(h, l)
      PROVE  UNCHANGED <<sync_points, epoch>>
  BY <1>4, Zenon DEF Calls, SyncCalls, RegisterReads, SaveReads, RestoreReads,
       SaveProgressed, RestoreProgressed, SaveBegun, AbortSave, AbortRestore, DrawObject
<1>5. ASSUME NEW h \in Handles, Work(h), ~RegisterInserts(h), ~ReplacePoints(h)
      PROVE  UNCHANGED <<sync_points, epoch>>
  BY <1>5, Zenon DEF Work, SaveSets, SaveEnded, ReadLabel, SnapInstances, SnapPoints,
       OpenFile, FillFile, TellSaved, ReadMembers, RestoreSets, ReadNames, Clear, PutBack,
       StoreId, RestoreEnded, InsertObject, Receive, Deliver
<1> QED
  BY <1>1, <1>2, <1>3, <1>4, <1>5, Zenon DEF Next

\* Equal counts mean equal sets: the comparison of sizes in
\* synchronization_point_achieved asks whether every participant has achieved.
LEMMA AchievedMeansAll ==
    ASSUME NEW point \in Points, point.achieved \subseteq point.participants
    PROVE  AllAchieved(point) <=> point.achieved = point.participants
<1>1. IsFiniteSet(Handles)
  BY FS_Interval, MaxHandleAssumption DEF Handles
<1>2. point.participants \in SUBSET Handles
  BY Zenon DEF Points
<1>3. IsFiniteSet(point.participants)
  BY <1>1, <1>2, FS_Subset, Zenon
<1>4. Cardinality(point.participants) = Cardinality(point.achieved)
         => point.participants = point.achieved
  BY <1>3, FS_Subset, Zenon
<1> QED
  BY <1>4, Zenon DEF AllAchieved

\* Every step keeps a point only while somebody is missing.
LEMMA PointsOpenNext == Types /\ PointsOpen /\ [Next]_vars => PointsOpen'
<1> SUFFICES ASSUME Types, PointsOpen, [Next]_vars PROVE PointsOpen'
  OBVIOUS
<1>1. CASE UNCHANGED <<sync_points, epoch>>
  BY <1>1, Zenon DEF PointsOpen
<1>2. ASSUME NEW h \in Handles, RegisterInserts(h) PROVE PointsOpen'
  <2>1. want[h] \in Wants
    BY <1>2, Zenon DEF RegisterInserts, Types, HandlerOK
  <2>2. want[h].group # {}
    BY <2>1, Zenon DEF Wants
  <2>3. sync_points' = sync_points
          \/ sync_points' = [sync_points EXCEPT ![want[h].label] = NewPoint(want[h].group)]
    BY <1>2, Zenon DEF RegisterInserts
  <2> QED
    BY <2>2, <2>3 DEF PointsOpen, NewPoint, Types, TableTypes
<1>3. ASSUME NEW h \in Handles, NEW l \in Labels, Achieved(h, l) PROVE PointsOpen'
  <2> DEFINE p == Reached(sync_points[l], h)
  <2>1. sync_points[l] \in Points /\ h \in sync_points[l].participants
    BY <1>3, Zenon DEF Achieved, Types, TableTypes
  <2>2. p \in Points /\ p.achieved \subseteq p.participants
    BY <1>3, <2>1, Zenon DEF Reached, Points, PointsOpen, Achieved
  <2> HIDE DEF p
  <2>3. ~AllAchieved(p) => p.achieved # p.participants
    BY <2>2, AchievedMeansAll, Zenon
  <2>4. sync_points' = [sync_points EXCEPT ![l] = IF AllAchieved(p) THEN None ELSE p]
    BY <1>3, Zenon DEF Achieved, p
  <2> QED
    BY <2>2, <2>3, <2>4, Zenon DEF PointsOpen, Types, TableTypes
<1>4. ASSUME NEW h \in Handles, ReplacePoints(h) PROVE PointsOpen'
  <2>1. \A l \in Labels : RestoredPoint(h, l) # None => RestoredPoint(h, l).achieved = {}
    BY Zenon DEF RestoredPoint, NewPoint
  <2>2. sync_points' = [l \in Labels |-> RestoredPoint(h, l)]
    BY <1>4, Zenon DEF ReplacePoints
  <2> QED
    BY <2>1, <2>2, Zenon DEF PointsOpen
<1> QED
  BY <1>1, <1>2, <1>3, <1>4, PointSteps, Zenon

\* Every step is a step of the barrier, or leaves it alone.
LEMMA BarrierStep ==
    ASSUME Types, Types', PointsOpen, PointsOpen', [Next]_vars
    PROVE  [AbstractBarrier!Next]_(AbstractBarrier!barrierVars)
<1> DEFINE missing == [l \in Labels |-> MissingOf(l)]
<1>0. ASSUME NEW l \in Labels PROVE
         /\ missing[l] = MissingOf(l) /\ missing'[l] = MissingOf(l)'
         /\ MissingOf(l) \in (SUBSET Handles) \cup {None}
         /\ MissingOf(l)' \in (SUBSET Handles) \cup {None}
         /\ MissingOf(l) = None <=> sync_points[l] = None
  BY NoneAssumption, Zenon DEF MissingOf, Types, TableTypes, Points
<1>1. CASE UNCHANGED <<sync_points, epoch>>
  BY <1>1, Zenon DEF AbstractBarrier!barrierVars, MissingOf
<1>2. ASSUME NEW h \in Handles, RegisterInserts(h), sync_points' # sync_points
      PROVE  \E l \in Labels, group \in (SUBSET Handles) \ {{}} : AbstractBarrier!Open(l, group)
  <2>1. PICK l \in Labels, group \in (SUBSET Handles) \ {{}} :
          l = want[h].label /\ group = want[h].group
    BY <1>2, Zenon DEF RegisterInserts, Types, HandlerOK, Wants
  <2>2. sync_points[l] = None
    BY <1>2, <2>1, Zenon DEF RegisterInserts, Unique
  <2>3. sync_points' = [sync_points EXCEPT ![l] = NewPoint(group)] /\ epoch' = epoch
    BY <1>2, <2>1, Zenon DEF RegisterInserts
  <2>4. MissingOf(l)' = group
    <3>1. NewPoint(group) \in Points
      BY Zenon DEF NewPoint, Points
    <3>2. NewPoint(group) # None /\ NewPoint(group).participants \ NewPoint(group).achieved = group
      BY <3>1, NoneAssumption, Zenon DEF NewPoint
    <3>3. sync_points'[l] = NewPoint(group)
      BY <2>3, Zenon DEF Types, TableTypes
    <3> QED
      BY <3>2, <3>3, Zenon DEF MissingOf
  <2>5. \A k \in Labels \ {l} : MissingOf(k)' = MissingOf(k)
    BY <2>3, Zenon DEF MissingOf, Types, TableTypes
  <2>6. missing' = [missing EXCEPT ![l] = group]
    BY <2>4, <2>5, Zenon
  <2>7. AbstractBarrier!Open(l, group)
    BY <1>0, <2>2, <2>3, <2>6, Zenon DEF AbstractBarrier!Open
  <2> QED
    BY <2>7, Zenon
<1>3. ASSUME NEW h \in Handles, NEW l \in Labels, Achieved(h, l)
      PROVE  UNCHANGED <<missing, epoch>> \/ AbstractBarrier!Arrive(l, h)
  <2> DEFINE p == Reached(sync_points[l], h)
  <2>1. /\ sync_points[l] \in Points /\ h \in sync_points[l].participants
        /\ sync_points[l] # None /\ epoch' = epoch
    BY <1>3, Zenon DEF Achieved, Types, TableTypes
  <2>2. /\ p \in Points /\ p.achieved = sync_points[l].achieved \cup {h}
        /\ p.participants = sync_points[l].participants
    BY <2>1, Zenon DEF Reached, Points
  <2>3. sync_points' = [sync_points EXCEPT ![l] = IF AllAchieved(p) THEN None ELSE p]
    BY <1>3, Zenon DEF Achieved
  <2> HIDE DEF p
  <2>4. p.achieved \subseteq p.participants
    BY <2>1, <2>2, Zenon DEF PointsOpen
  <2>5. AllAchieved(p) <=> p.achieved = p.participants
    BY <2>2, <2>4, AchievedMeansAll, Zenon
  <2>6. \A k \in Labels \ {l} : MissingOf(k)' = MissingOf(k)
    BY <2>3, Zenon DEF MissingOf, Types, TableTypes
  <2>7. MissingOf(l) = sync_points[l].participants \ sync_points[l].achieved
    BY <2>1, Zenon DEF MissingOf
  <2>8. MissingOf(l)' = IF AllAchieved(p) THEN None ELSE p.participants \ p.achieved
    <3>1. sync_points'[l] = IF AllAchieved(p) THEN None ELSE p
      BY <2>3, Zenon DEF Types, TableTypes
    <3>2. p # None
      BY <2>2, NoneAssumption, Zenon
    <3> QED
      BY <3>1, <3>2, Zenon DEF MissingOf
  <2>9. CASE h \in sync_points[l].achieved
    <3>1. p.achieved = sync_points[l].achieved /\ ~AllAchieved(p)
      BY <2>1, <2>2, <2>5, <2>9, Zenon DEF PointsOpen
    <3>2. MissingOf(l)' = MissingOf(l)
      BY <2>2, <2>7, <2>8, <3>1, Zenon
    <3> QED
      BY <2>1, <2>6, <3>2, Zenon
  <2>10. CASE h \notin sync_points[l].achieved
    <3>1. h \in MissingOf(l)
      BY <2>1, <2>7, <2>10, Zenon
    <3>2. AllAchieved(p) <=> MissingOf(l) = {h}
      BY <2>1, <2>2, <2>4, <2>5, <2>7, <2>10, Zenon DEF PointsOpen
    <3>3. p.participants \ p.achieved = MissingOf(l) \ {h}
      BY <2>2, <2>7, Zenon
    <3>4. MissingOf(l)' = IF MissingOf(l) = {h} THEN None ELSE MissingOf(l) \ {h}
      BY <2>8, <3>2, <3>3, Zenon
    <3>5. missing' = [missing EXCEPT ![l] = IF @ = {h} THEN None ELSE @ \ {h}]
      BY <2>6, <3>4, Zenon
    <3> QED
      BY <1>0, <2>1, <3>1, <3>5, Zenon DEF AbstractBarrier!Arrive
  <2> QED
    BY <2>9, <2>10, Zenon
<1>4. ASSUME NEW h \in Handles, ReplacePoints(h) PROVE AbstractBarrier!Replace
  <2>1. epoch' = epoch + 1
    BY <1>4, Zenon DEF ReplacePoints
  <2>2. missing' \in [Labels -> (SUBSET Handles) \cup {None}]
    BY <1>0, Zenon
  <2> QED
    BY <2>1, <2>2, Zenon DEF AbstractBarrier!Replace, AbstractBarrier!Waits
<1>5. CASE UNCHANGED <<missing, epoch>>
  BY <1>5, Zenon DEF AbstractBarrier!barrierVars
<1>6. ASSUME NEW h \in Handles, RegisterInserts(h), sync_points' = sync_points
      PROVE  UNCHANGED <<missing, epoch>>
  BY <1>6, Zenon DEF RegisterInserts, MissingOf
<1> HIDE DEF missing
<1> QED
  BY <1>1, <1>2, <1>3, <1>4, <1>5, <1>6, PointSteps, Zenon DEF AbstractBarrier!Next

\* No barrier is open in the initial state.
LEMMA BarrierInit == SaveInit => AbstractBarrier!Init
BY Zenon DEF SaveInit, Init, AbstractBarrier!Init, MissingOf

\* No point is registered in the initial state.
LEMMA PointsInit == SaveInit => PointsOpen
BY DEF SaveInit, Init, PointsOpen

\* Types and open points hold in every reachable state.
LEMMA PointsAlways == Spec => [](Types /\ PointsOpen)
<1>1. SaveInit => Types /\ PointsOpen
  BY TypesInit, PointsInit, Zenon
<1>2. Types /\ PointsOpen /\ [Next]_vars => (Types /\ PointsOpen)'
  BY TypesNext, PointsOpenNext, Zenon
<1> QED
  BY <1>1, <1>2, PTL DEF Spec

\* register_synchronization_point and synchronization_point_achieved: with
\* any number of federates joining, resigning, saving and restoring between
\* their steps, points are barriers.
THEOREM PointsAreBarriers == Spec => ImplementsBarrier
<1>1. SaveInit => AbstractBarrier!Init
  BY BarrierInit, Zenon
<1>2. Types /\ PointsOpen /\ (Types /\ PointsOpen)' /\ [Next]_vars
         => [AbstractBarrier!Next]_(AbstractBarrier!barrierVars)
  BY BarrierStep, Zenon
<1> QED
  BY <1>1, <1>2, PointsAlways, PTL DEF Spec, ImplementsBarrier, AbstractBarrier!Spec
=============================================================================
