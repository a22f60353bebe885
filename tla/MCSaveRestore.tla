---- MODULE MCSaveRestore ----
(***************************************************************************)
(* Small instances of SaveRestore for TLC.                                 *)
(***************************************************************************)
EXTENDS SaveRestore

CONSTANTS fp, fq,    \* federate names
          sync,      \* the label of a synchronization point
          sx, sy     \* labels of saves

\* The directory of an RTI that starts again: sx was saved, sy was not.
Earlier == [instances |-> [o \in Objects |-> IF o = 1 THEN fq ELSE None],
            points |-> [l \in Labels |-> {fp, fq}]]

MCDisks == {[s \in SaveLabels |-> IF s = sx THEN Earlier ELSE None]}

\* Everyone, or the second federate whether it has joined or not.
MCGroups == {{}, {2}}

====
