---------------------------- MODULE Barrier ----------------------------
(***************************************************************************)
(* What a synchronization point promises, whatever the order in which the  *)
(* sessions get at it: under one label there is at most one point, it      *)
(* waits for each of its participants once, and it is gone with the last   *)
(* arrival and not before.  A restore, and a restart of the RTI, replace   *)
(* all points at once; they are counted.                                   *)
(***************************************************************************)
EXTENDS Naturals

CONSTANTS
    Labels,    \* the labels points are registered under
    Handles,   \* the federate handles that may take part
    None

VARIABLES
    missing,   \* label -> the participants yet to arrive, or None: no point
    epoch      \* how often all points were replaced

barrierVars == <<missing, epoch>>

Waits == [Labels -> (SUBSET Handles) \cup {None}]

Init ==
    /\ missing = [l \in Labels |-> None]
    /\ epoch = 0

Open(l, group) ==
    /\ missing[l] = None
    /\ missing' = [missing EXCEPT ![l] = group]
    /\ UNCHANGED epoch

Arrive(l, h) ==
    /\ missing[l] # None
    /\ h \in missing[l]
    /\ missing' = [missing EXCEPT ![l] = IF @ = {h} THEN None ELSE @ \ {h}]
    /\ UNCHANGED epoch

Replace ==
    /\ missing' \in Waits
    /\ epoch' = epoch + 1

Next ==
    \/ \E l \in Labels, group \in (SUBSET Handles) \ {{}} : Open(l, group)
    \/ \E l \in Labels, h \in Handles : Arrive(l, h)
    \/ Replace

Spec == Init /\ [][Next]_barrierVars

=============================================================================
