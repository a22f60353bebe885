--------------------------- MODULE SaveRestore ---------------------------
(***************************************************************************)
(* Federation save and restore (dispatch/save.rs, dispatch/restore.rs) and *)
(* the snapshots they write and read (persistence.rs), composed with the   *)
(* synchronization points they save and replace and with the registration  *)
(* of object instances they run beside.                                    *)
(*                                                                         *)
(* An object instance is its handle and its registrar; the owners of its   *)
(* attributes are saved and restored by the same look-up of names as the   *)
(* registrar.  The disk outlives the RTI: a behaviour starts with a new    *)
(* federation and with whatever file an earlier run has left, a half       *)
(* written one included.                                                   *)
(***************************************************************************)
EXTENDS SyncPoints

CONSTANTS
    SaveLabels,    \* labels of saves
    MaxObject,     \* bound on the object handles drawn
    Disks,         \* the contents of the save directory at the start
    Unknown,       \* the registrar name written for a federate that left
    Partial        \* a file that is open for writing, or was left so

Objects == 1 .. MaxObject

VARIABLES
    current_save,     \* SaveOperation, or None
    last_save_label,  \* the label of the save begun last, or None
    current_restore,  \* RestoreOperation, or None
    disk,             \* label -> FederationSnapshot, Partial, or None
    instances,        \* object handle -> its registrar, or None
    next_object_id,   \* Federation.next_object_id
    loc,              \* the locals of a save, restore or registration handler
    told,             \* handle -> the operations it was asked to take part in
    overtaken,        \* sessions whose finished save a new one overtook (history)
    raced             \* object handles an overlapping restore may clash with (history)

saveVars == <<current_save, last_save_label, current_restore, disk>>
objVars == <<instances, next_object_id>>
history == <<overtaken, raced>>
srVars == <<saveVars, objVars, loc, told, history>>
vars == <<fedVars, syncVars, ioVars, pc, requests, epoch, srVars>>

NoLocals == [label |-> None, group |-> {}, file |-> None, snap |-> None,
             names |-> [n \in Names |-> None], todo |-> {}, object |-> 0, id |-> 0]

Statuses == {"absent", "initiated", "begun", "complete", "not_complete"}

Goto(h, step) == pc' = [pc EXCEPT ![h] = step]

\* Back to the session loop: the handler's locals are gone.
Done(h) == Goto(h, "idle") /\ loc' = [loc EXCEPT ![h] = NoLocals]

-----------------------------------------------------------------------------
\* Federation::snapshot, with the federates' lock held throughout: names for
\* handles, "<unknown>" for a registrar that has left.  It goes through the
\* instances first and the synchronization points in a later section.
NameOf(h) == IF federates[h] = None THEN Unknown ELSE federates[h]

SavedInstances ==
    [o \in Objects |-> IF instances[o] = None THEN None ELSE NameOf(instances[o])]

SavedPoints ==
    [l \in Labels |-> IF sync_points[l] = None THEN None
                      ELSE {federates[h] : h \in sync_points[l].participants \cap Joined}]

\* A restore holds the lock of the instances while it puts them back.
InstancesLocked == \E s \in Handles : pc[s] \in {"put_back", "store_id"}

-----------------------------------------------------------------------------
\* request_federation_save: the federates are read before the write lock.
SaveReads(h, x) ==
    /\ Ask(h)
    /\ loc' = [loc EXCEPT ![h].label = x, ![h].group = Joined]
    /\ Goto(h, "set_save")
    /\ UNCHANGED <<fedVars, syncVars, ioVars, epoch, saveVars, objVars, told, history>>

Operation(h, x) ==
    [label |-> x,
     statuses |-> [f \in Handles |-> IF f \in loc[h].group THEN "initiated" ELSE "absent"]]

Finishing == {s \in Handles : pc[s] \in {"save_done", "read_label"}}

\* Mutant: the label is noted before the request is refused.
SaveSetsLabelFirst(h) ==
    LET x == loc[h].label IN
    /\ pc[h] = "set_save"
    /\ last_save_label' = x
    /\ IF current_save # None
       THEN /\ UNCHANGED <<current_save, overtaken>>
            /\ UNCHANGED out
       ELSE /\ current_save' = Operation(h, x)
            /\ overtaken' = overtaken \cup Finishing
            /\ Send(h, Callback("save", x, loc[h].group))
    /\ Done(h)
    /\ UNCHANGED <<fedVars, syncVars, announced, requests, epoch,
                   current_restore, disk, objVars, told, raced>>

SaveSets(h) ==
    LET x == loc[h].label IN
    /\ pc[h] = "set_save"
    /\ IF current_save # None
       THEN /\ UNCHANGED <<current_save, last_save_label, overtaken>>
            /\ UNCHANGED out
       ELSE /\ current_save' = Operation(h, x)
            /\ last_save_label' = x
            /\ overtaken' = overtaken \cup Finishing
            /\ Send(h, Callback("save", x, loc[h].group))
    /\ Done(h)
    /\ UNCHANGED <<fedVars, syncVars, announced, requests, epoch,
                   current_restore, disk, objVars, told, raced>>

\* federate_save_begun: one write lock.
SaveBegun(h) ==
    /\ Idle(h)
    /\ current_save # None
    /\ current_save.statuses[h] = "initiated"
    /\ current_save' = [current_save EXCEPT !.statuses[h] = "begun"]
    /\ UNCHANGED <<fedVars, syncVars, ioVars, pc, requests, epoch, last_save_label,
                   current_restore, disk, objVars, loc, told, history>>

\* The end both operations share: the reporting federate's status is set,
\* whether it takes part or not and whether it has begun or not; the
\* operation is over when no status is open.
Report(op, h, ok) ==
    [op EXCEPT !.statuses[h] = IF ok THEN "complete" ELSE "not_complete"]

Waiting(op) == {h \in Handles : op.statuses[h] \in {"initiated", "begun"}}

\* Mutant: a save ends with successes only.
AllDoneSuccessfully(op) == \A h \in Handles : op.statuses[h] \in {"absent", "complete"}

AllDone(op) == Waiting(op) = {}

AnyFailed(op) == \E h \in Handles : op.statuses[h] = "not_complete"

\* federate_save_progressed, the write lock.
SaveProgressed(h, ok) ==
    LET op == Report(current_save, h, ok) IN
    /\ Idle(h)
    /\ current_save # None
    /\ current_save' = IF AllDone(op) THEN None ELSE op
    /\ IF AllDone(op)
       THEN /\ Goto(h, IF AnyFailed(op) THEN "save_failed" ELSE "save_done")
            /\ loc' = [loc EXCEPT ![h].label = op.label]
       ELSE UNCHANGED <<pc, loc>>
    /\ told' = [told EXCEPT ![h] = @ \ {"save"}]
    /\ UNCHANGED <<fedVars, syncVars, ioVars, requests, epoch, last_save_label,
                   current_restore, disk, objVars, history>>

\* Whom to tell is read before the snapshot is written.
SaveEnded(h) ==
    /\ pc[h] \in {"save_done", "save_failed"}
    /\ IF pc[h] = "save_done"
       THEN /\ loc' = [loc EXCEPT ![h].group = Joined]
            /\ Goto(h, "read_label")
            /\ UNCHANGED out
       ELSE /\ Done(h)
            /\ Send(h, Callback("not_saved", None, Joined))
    /\ UNCHANGED <<fedVars, syncVars, announced, requests, epoch, saveVars, objVars,
                   told, history>>

\* persist_federation_snapshot_on_success: the label comes from the side
\* channel, then the snapshot is taken, then the file written.  Failures of
\* the write are logged and otherwise ignored.
ReadLabel(h) ==
    /\ pc[h] = "read_label"
    /\ loc' = [loc EXCEPT ![h].file = last_save_label]
    /\ Goto(h, "snap_instances")
    /\ UNCHANGED <<fedVars, syncVars, ioVars, requests, epoch, saveVars, objVars,
                   told, history>>

SnapInstances(h) ==
    /\ pc[h] = "snap_instances"
    /\ ~InstancesLocked
    /\ loc' = [loc EXCEPT ![h].snap =
          [instances |-> SavedInstances, points |-> [l \in Labels |-> None]]]
    /\ Goto(h, "snap_points")
    /\ UNCHANGED <<fedVars, syncVars, ioVars, requests, epoch, saveVars, objVars,
                   told, history>>

SnapPoints(h) ==
    /\ pc[h] = "snap_points"
    /\ loc' = [loc EXCEPT ![h].snap.points = SavedPoints]
    /\ Goto(h, "open_file")
    /\ UNCHANGED <<fedVars, syncVars, ioVars, requests, epoch, saveVars, objVars,
                   told, history>>

\* write_snapshot: fs::write truncates the file before it fills it, and may
\* fail before or after that.
OpenFile(h) ==
    /\ pc[h] = "open_file"
    /\ \/ /\ disk' = [disk EXCEPT ![loc[h].file] = Partial]
          /\ Goto(h, "fill_file")
       \/ /\ UNCHANGED disk
          /\ Goto(h, "saved")
    /\ UNCHANGED <<fedVars, syncVars, ioVars, requests, epoch, current_save,
                   last_save_label, current_restore, objVars, loc, told, history>>

FillFile(h) ==
    /\ pc[h] = "fill_file"
    /\ \/ disk' = [disk EXCEPT ![loc[h].file] = loc[h].snap]
       \/ UNCHANGED disk
    /\ Goto(h, "saved")
    /\ UNCHANGED <<fedVars, syncVars, ioVars, requests, epoch, current_save,
                   last_save_label, current_restore, objVars, loc, told, history>>

TellSaved(h) ==
    /\ pc[h] = "saved"
    /\ Send(h, Callback("saved", None, loc[h].group))
    /\ Done(h)
    /\ overtaken' = overtaken \ {h}
    /\ UNCHANGED <<fedVars, syncVars, announced, requests, epoch, saveVars, objVars,
                   told, raced>>

\* abort_federation_save
AbortSave(h) ==
    /\ Ask(h)
    /\ current_save # None
    /\ current_save' = None
    /\ UNCHANGED <<fedVars, syncVars, ioVars, pc, epoch, last_save_label,
                   current_restore, disk, objVars, loc, told, history>>

-----------------------------------------------------------------------------
\* request_federation_restore.  read_snapshot comes first: no file is no
\* snapshot, an unreadable one ends the request.
RestoreReads(h, x) ==
    /\ Ask(h)
    /\ disk[x] # Partial
    /\ loc' = [loc EXCEPT ![h].label = x, ![h].snap = disk[x]]
    /\ Goto(h, "read_members")
    /\ UNCHANGED <<fedVars, syncVars, ioVars, epoch, saveVars, objVars, told, history>>

ReadMembers(h) ==
    /\ pc[h] = "read_members"
    /\ loc' = [loc EXCEPT ![h].group = Joined]
    /\ Goto(h, "set_restore")
    /\ UNCHANGED <<fedVars, syncVars, ioVars, requests, epoch, saveVars, objVars,
                   told, history>>

Begun(h) == Callback("restore", loc[h].label, loc[h].group)

RestoreSets(h) ==
    /\ pc[h] = "set_restore"
    /\ IF current_restore # None
       THEN Done(h) /\ UNCHANGED <<current_restore, out>>
       ELSE /\ current_restore' = Operation(h, loc[h].label)
            /\ IF loc[h].snap = None
               THEN Done(h) /\ Send(h, Begun(h))
               ELSE Goto(h, "read_names") /\ UNCHANGED <<loc, out>>
    /\ UNCHANGED <<fedVars, syncVars, announced, requests, epoch, current_save,
                   last_save_label, disk, objVars, told, history>>

\* Mutant: names are matched in the order of joining.
HandleOfFirst(n) == IF Joined = {} THEN None ELSE CHOOSE h \in Joined : \A g \in Joined : h <= g

\* Federation::apply_snapshot: who is called what today, then the instances
\* in one section, then the synchronization points in another.
HandleOf(n) == IF \E h \in Handles : federates[h] = n
               THEN CHOOSE h \in Handles : federates[h] = n ELSE None

ReadNames(h) ==
    /\ pc[h] = "read_names"
    /\ loc' = [loc EXCEPT ![h].names = [n \in Names |-> HandleOf(n)]]
    /\ Goto(h, "clear")
    /\ UNCHANGED <<fedVars, syncVars, ioVars, requests, epoch, saveVars, objVars,
                   told, history>>

\* Instances whose registrar is not joined today are left out.
Restorable(h, o) ==
    /\ loc[h].snap.instances[o] \in Names
    /\ loc[h].names[loc[h].snap.instances[o]] # None

\* Handles drawn for registrations that have not reached the table yet.
InFlight == {loc[s].object : s \in {t \in Handles : pc[t] = "insert_object"}}

Clear(h) ==
    /\ pc[h] = "clear"
    /\ ~InstancesLocked
    /\ instances' = [o \in Objects |-> None]
    /\ loc' = [loc EXCEPT ![h].todo = {o \in Objects : Restorable(h, o)}]
    /\ Goto(h, "put_back")
    /\ raced' = raced \cup InFlight
    /\ UNCHANGED <<fedVars, syncVars, ioVars, requests, epoch, saveVars, next_object_id,
                   told, overtaken>>

\* One instance is put back and next_object_id loaded; it is stored, if it
\* has to move past the restored handle, in a step of its own: registrations
\* draw handles without the lock.
PutBack(h) ==
    /\ pc[h] = "put_back"
    /\ IF loc[h].todo = {}
       THEN /\ Goto(h, "replace_points")
            /\ UNCHANGED <<instances, loc>>
       ELSE \E o \in loc[h].todo :
            /\ instances' = [instances EXCEPT ![o] =
                  loc[h].names[loc[h].snap.instances[o]]]
            /\ loc' = [loc EXCEPT ![h].todo = @ \ {o}, ![h].object = o,
                                  ![h].id = next_object_id]
            /\ Goto(h, "store_id")
    /\ UNCHANGED <<fedVars, syncVars, ioVars, requests, epoch, saveVars, next_object_id,
                   told, history>>

\* Mutant: the counter is left where it is.
PastHandleStays(cur, o) == cur

PastHandle(cur, o) == IF cur <= o THEN o + 1 ELSE cur

StoreId(h) ==
    /\ pc[h] = "store_id"
    /\ IF loc[h].id <= loc[h].object
       THEN /\ next_object_id' = PastHandle(loc[h].id, loc[h].object)
            /\ raced' = raced \cup loc[h].object + 1 .. next_object_id - 1
       ELSE UNCHANGED <<next_object_id, raced>>
    /\ Goto(h, "put_back")
    /\ UNCHANGED <<fedVars, syncVars, ioVars, requests, epoch, saveVars, instances, loc,
                   told, overtaken>>

RestoredPoint(h, l) ==
    LET members == loc[h].snap.points[l] IN
    IF members = None THEN None
    ELSE NewPoint({loc[h].names[n] : n \in members} \ {None})

ReplacePoints(h) ==
    /\ pc[h] = "replace_points"
    /\ sync_points' = [l \in Labels |-> RestoredPoint(h, l)]
    /\ epoch' = epoch + 1
    /\ Send(h, Begun(h))
    /\ Done(h)
    /\ UNCHANGED <<fedVars, want, announced, requests, saveVars, objVars, told, history>>

\* federate_restore_progressed and what follows it.
RestoreProgressed(h, ok) ==
    LET op == Report(current_restore, h, ok) IN
    /\ Idle(h)
    /\ current_restore # None
    /\ current_restore' = IF AllDone(op) THEN None ELSE op
    /\ IF AllDone(op)
       THEN Goto(h, IF AnyFailed(op) THEN "restore_failed" ELSE "restore_done")
       ELSE UNCHANGED pc
    /\ told' = [told EXCEPT ![h] = @ \ {"restore"}]
    /\ UNCHANGED <<fedVars, syncVars, ioVars, requests, epoch, current_save,
                   last_save_label, disk, objVars, loc, history>>

RestoreEnded(h) ==
    /\ pc[h] \in {"restore_done", "restore_failed"}
    /\ Send(h, Callback(IF pc[h] = "restore_done" THEN "restored" ELSE "not_restored",
                          None, Joined))
    /\ Done(h)
    /\ UNCHANGED <<fedVars, syncVars, announced, requests, epoch, saveVars, objVars,
                   told, history>>

\* abort_federation_restore
AbortRestore(h) ==
    /\ Ask(h)
    /\ current_restore # None
    /\ current_restore' = None
    /\ UNCHANGED <<fedVars, syncVars, ioVars, pc, epoch, current_save, last_save_label,
                   disk, objVars, loc, told, history>>

-----------------------------------------------------------------------------
\* register_object_instance, as far as a restore meets it: the handle is
\* drawn without a lock, the instance inserted under one.
DrawObject(h) ==
    /\ Ask(h)
    /\ next_object_id <= MaxObject
    /\ loc' = [loc EXCEPT ![h].object = next_object_id]
    /\ next_object_id' = next_object_id + 1
    /\ Goto(h, "insert_object")
    /\ raced' = IF InstancesLocked THEN raced \cup {next_object_id} ELSE raced
    /\ UNCHANGED <<fedVars, syncVars, ioVars, epoch, saveVars, instances, told, overtaken>>

InsertObject(h) ==
    /\ pc[h] = "insert_object"
    /\ ~InstancesLocked
    /\ instances' = [instances EXCEPT ![loc[h].object] = h]
    /\ Done(h)
    /\ UNCHANGED <<fedVars, syncVars, ioVars, requests, epoch, saveVars, next_object_id,
                   told, history>>

-----------------------------------------------------------------------------
\* What a federate hears of saves and restores.
Hear(h, m) ==
    told' = [told EXCEPT ![h] =
        IF m.cb \in {"save", "restore"} /\ federates[h] # None THEN @ \cup {m.cb} ELSE @]

Receive(s, to) ==
    /\ Deliver(s, to)
    /\ Hear(to, out[s])
    /\ UNCHANGED <<saveVars, objVars, loc, history>>

\* A snapshot being taken holds the federates' lock.
FederatesLocked == \E s \in Handles : pc[s] = "snap_points"

Enter(n) ==
    /\ ~FederatesLocked
    /\ Join(n)
    /\ UNCHANGED srVars

Leave(h) ==
    /\ ~FederatesLocked
    /\ Resign(h)
    /\ told' = [told EXCEPT ![h] = {}]
    /\ UNCHANGED <<saveVars, objVars, loc, history>>

Calls(h) ==
    \/ SyncCalls(h) /\ UNCHANGED srVars
    \/ \E x \in SaveLabels : SaveReads(h, x) \/ RestoreReads(h, x)
    \/ \E ok \in BOOLEAN : SaveProgressed(h, ok) \/ RestoreProgressed(h, ok)
    \/ SaveBegun(h)
    \/ AbortSave(h)
    \/ AbortRestore(h)
    \/ DrawObject(h)

\* The steps by which a session gets on with what it has begun.
Work(h) ==
    \/ RegisterInserts(h) /\ UNCHANGED srVars
    \/ SaveSets(h)
    \/ SaveEnded(h)
    \/ ReadLabel(h)
    \/ SnapInstances(h)
    \/ SnapPoints(h)
    \/ OpenFile(h)
    \/ FillFile(h)
    \/ TellSaved(h)
    \/ ReadMembers(h)
    \/ RestoreSets(h)
    \/ ReadNames(h)
    \/ Clear(h)
    \/ PutBack(h)
    \/ StoreId(h)
    \/ ReplacePoints(h)
    \/ RestoreEnded(h)
    \/ InsertObject(h)
    \/ \E to \in Handles : Receive(h, to)

Next ==
    \/ \E n \in Names : Enter(n)
    \/ \E h \in Handles : Leave(h) \/ Calls(h) \/ Work(h)

SaveInit ==
    /\ Init
    /\ current_save = None
    /\ last_save_label = None
    /\ current_restore = None
    /\ disk \in Disks
    /\ instances = [o \in Objects |-> None]
    /\ next_object_id = 1
    /\ loc = [h \in Handles |-> NoLocals]
    /\ told = [h \in Handles |-> {}]
    /\ overtaken = {}
    /\ raced = {}

Spec == SaveInit /\ [][Next]_vars

\* Sessions get on with their work, and a federate that was told of a point
\* or a save says sooner or later how it went.
AchievesTold(h, l) == l \in announced[h] /\ Achieved(h, l) /\ UNCHANGED srVars

ReportsTold(h) == "save" \in told[h] /\ \E ok \in BOOLEAN : SaveProgressed(h, ok)

FairSpec ==
    /\ Spec
    /\ \A h \in Handles :
          /\ WF_vars(Work(h))
          /\ WF_vars(ReportsTold(h))
          /\ \A l \in Labels : WF_vars(AchievesTold(h, l))

-----------------------------------------------------------------------------
Snapshots == [instances : [Objects -> Names \cup {None, Unknown}],
              points : [Labels -> (SUBSET Names) \cup {None}]]

\* What is on disk at the start was written by this program, if not to the end.
ASSUME DisksAssumption == Disks \subseteq [SaveLabels -> Snapshots \cup {None, Partial}]

Operations == [label : SaveLabels, statuses : [Handles -> Statuses]]

Messages == [cb : {"announce", "synchronized", "save", "saved", "not_saved", "restore",
                   "restored", "not_restored"},
             label : Labels \cup SaveLabels \cup {None},
             to : (SUBSET Handles) \ {{}}]

\* The tables and the locals of the handlers keep their types; a point that is
\* open has not been achieved by all, and only its participants achieve it.
TypeOK ==
    /\ federates \in [Handles -> Names \cup {None}]
    /\ next_handle \in 1 .. MaxHandle + 1
    /\ \A l \in Labels : sync_points[l] # None =>
          /\ sync_points[l] \in Points
          /\ sync_points[l].achieved \subseteq sync_points[l].participants
    /\ \A h \in Handles : out[h] # None => out[h] \in Messages
    /\ announced \in [Handles -> SUBSET Labels]
    /\ current_save \in Operations \cup {None}
    /\ current_restore \in Operations \cup {None}
    /\ last_save_label \in SaveLabels \cup {None}
    /\ \A x \in SaveLabels : disk[x] \in Snapshots \cup {None, Partial}
    /\ instances \in [Objects -> Handles \cup {None}]
    /\ next_object_id \in 1 .. MaxObject + 1

\* persist_federation_snapshot_on_success: a snapshot goes to the file of
\* the save it belongs to, unless a new save began after this one was taken
\* off the table and before its label was read.
SnapshotUnderOwnLabel ==
    \A h \in Handles :
        pc[h] \in {"open_file", "fill_file"} /\ loc[h].file # loc[h].label
            => h \in overtaken

\* apply_snapshot: what a restore puts back belongs to the federate that has
\* today the name it was saved under, or to one that had it when the restore
\* began and has left since.
RestoreKeepsNames ==
    \A h \in Handles : pc[h] \in {"put_back", "store_id"} =>
        \A o \in Objects : instances[o] # None =>
            federates[instances[o]] \in {loc[h].snap.instances[o], None}

\* register_object_instance: a handle that was drawn is free, unless a
\* restore overlapped with drawing or using it.
ClashesExplained ==
    \A h \in Handles :
        pc[h] = "insert_object" /\ instances[loc[h].object] # None
            => loc[h].object \in raced

MissingOf(l) ==
    IF sync_points[l] = None THEN None
    ELSE sync_points[l].participants \ sync_points[l].achieved

AbstractBarrier == INSTANCE Barrier WITH missing <- [l \in Labels |-> MissingOf(l)]

\* Synchronization points, registered in two sections and completed by
\* comparing two counts, are barriers.
ImplementsBarrier == AbstractBarrier!Spec

\* synchronization_point_achieved: a point closes, unless someone it waits for
\* has left or was never told of it (a restore opens points again without
\* announcing them), or a restore left it without participants.
PointsClose ==
    \A l \in Labels :
        sync_points[l] # None ~>
            \/ sync_points[l] = None
            \/ sync_points[l].participants = {}
            \/ \E h \in MissingOf(l) : federates[h] = None \/ l \notin announced[h]

\* federate_save_progressed: a save ends, unless someone it waits for has left
\* or was never told of it.
SavesEnd ==
    current_save # None ~>
        \/ current_save = None
        \/ \E h \in Waiting(current_save) : federates[h] = None \/ "save" \notin told[h]

\* What the federates do together ends, points as well as saves, and nobody who
\* is there and was told waits for somebody who has already answered.
OperationsEnd == PointsClose /\ SavesEnd
=============================================================================
