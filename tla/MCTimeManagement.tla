---- MODULE MCTimeManagement ----
(***************************************************************************)
(* Small instances of TimeManagement for TLC.                              *)
(***************************************************************************)
EXTENDS TimeManagement

CONSTANTS a, b, c   \* federates

Pair  == {a, b}
Trio  == {a, b, c}

UpTo1 == 0 .. 1
UpTo2 == 0 .. 2
MCInfinity == 9

AllRoles == ServiceNames \ {"update"}

FirstTwo == {a, b}
LastTwo  == {b, c}

====
