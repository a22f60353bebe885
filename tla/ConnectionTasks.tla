---- MODULE ConnectionTasks ----
(***************************************************************************)
(* The tasks that an accept loop spawns, one for each connection           *)
(* (crates/hla-rti/src/lib.rs, serve): ConnectionLimits decides which      *)
(* connections get one, SessionLifecycle follows what it does.             *)
(***************************************************************************)
EXTENDS Integers

CONSTANTS MaxTasks,   \* connections accepted in all
          None

Tasks == 1 .. MaxTasks
====
