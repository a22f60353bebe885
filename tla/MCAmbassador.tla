---- MODULE MCAmbassador ----
(***************************************************************************)
(* A small instance of Ambassador for TLC.                                 *)
(***************************************************************************)
EXTENDS Ambassador

CONSTANTS c, d, cb   \* tasks
====
