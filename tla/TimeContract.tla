---- MODULE TimeContract ----
(***************************************************************************)
(* What the RTI promises a federate about its logical time, with the locks *)
(* the sessions and the lower bound left out: a federate has at most one   *)
(* advance request outstanding, its time moves only when that request is   *)
(* granted, to exactly the time it asked for, and it never moves back.     *)
(***************************************************************************)
EXTENDS Integers

CONSTANTS
    Federates,      \* federate handles
    Times,          \* the logical times a federate can name
    None            \* Option::None for a pending advance

VARIABLES
    current_time,   \* granted logical time of every federate
    pending_advance \* requested time, or None

vars == <<current_time, pending_advance>>

Init ==
    /\ current_time = [f \in Federates |-> 0]
    /\ pending_advance = [f \in Federates |-> None]

Request(f, t) ==
    /\ pending_advance[f] = None
    /\ current_time[f] <= t
    /\ pending_advance' = [pending_advance EXCEPT ![f] = t]
    /\ UNCHANGED current_time

\* One critical section may grant several federates at once.
Grant(S) ==
    /\ \A f \in S : pending_advance[f] # None
    /\ current_time' = [f \in Federates |->
            IF f \in S THEN pending_advance[f] ELSE current_time[f]]
    /\ pending_advance' = [f \in Federates |->
            IF f \in S THEN None ELSE pending_advance[f]]

\* A federate that resigns takes its request with it.
Withdraw(f) ==
    /\ pending_advance' = [pending_advance EXCEPT ![f] = None]
    /\ UNCHANGED current_time

Next ==
    \/ \E f \in Federates, t \in Times : Request(f, t)
    \/ \E S \in SUBSET Federates : Grant(S)
    \/ \E f \in Federates : Withdraw(f)

Spec == Init /\ [][Next]_vars
====
