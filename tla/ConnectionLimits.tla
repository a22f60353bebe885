---- MODULE ConnectionLimits ----
(***************************************************************************)
(* Admission of connections (crates/hla-rti/src/lib.rs: check_limits, the  *)
(* accept loops of serve, serve_ws and serve_tls, and the tasks they       *)
(* spawn): the count of connections per peer address and the limits that   *)
(* read it.  Several accept loops may run on one node.                     *)
(***************************************************************************)
EXTENDS ConnectionTasks, FiniteSets

CONSTANTS Ips,        \* peer addresses
          Loops,      \* accept loops
          Plain,      \* those of them without a TLS or WebSocket handshake
          max_total, max_per_ip   \* ConnectionLimits

ASSUME LimitsAssumption ==
    /\ MaxTasks \in Nat
    /\ IsFiniteSet(Ips) /\ IsFiniteSet(Loops) /\ Plain \subseteq Loops
    /\ Loops # {}
    /\ max_total \in Nat \cup {None} /\ max_per_ip \in Nat \cup {None}
    /\ None \notin Nat /\ None \notin Ips

VARIABLES
    loop,                \* what each accept loop does next
    peer,                \* peer.ip() of the socket it has accepted
    spawned,             \* tasks spawned
    stage,               \* what each task does next
    ip,                  \* the address each task counts under
    connections_per_ip,  \* RtiNode.connections_per_ip; None: no entry
    erased               \* counts lost with a removed entry, by address

limitVars == <<loop, peer, spawned, stage, ip, connections_per_ip, erased>>

Enter(t, l) == stage' = [stage EXCEPT ![t] = l]

\* connections_per_ip.get(&ip).unwrap_or(0)
Count(i) == IF connections_per_ip[i] = None THEN 0 ELSE connections_per_ip[i]

SetCount(i, n) == connections_per_ip' = [connections_per_ip EXCEPT ![i] = n]

\* RtiNode.connections has the sessions past their handshake.
Connections == {t \in Tasks : stage[t] = "session"}

\* Connections that were counted and have not been discounted.
Counted(i) ==
    {t \in Tasks : /\ stage[t] \in {"upgrade", "handshake", "session", "discount"}
                   /\ ip[t] = i}

----------------------------------------------------------------------------
(* An accept loop.                                                         *)

\* Sockets in the hands of a loop, kept below the tasks that are left.
InHand == Cardinality({l \in Loops : loop[l] # "accept"})

BelowTotal == max_total # None => Cardinality(Connections) < max_total

\* accept, then the first half of check_limits; a socket over the limit is
\* dropped and the loop accepts again.
AcceptSocket(l, i) ==
    /\ loop[l] = "accept"
    /\ spawned + InHand < MaxTasks
    /\ BelowTotal
    /\ loop' = [loop EXCEPT ![l] = "check"]
    /\ peer' = [peer EXCEPT ![l] = i]
    /\ UNCHANGED <<spawned, stage, ip, connections_per_ip, erased>>

\* Mutation of BelowPerIp: one connection more.
AtMostPerIp(i) == max_per_ip # None => Count(i) <= max_per_ip

BelowPerIp(i) == max_per_ip # None => Count(i) < max_per_ip

\* The second half of check_limits.
CheckPerIp(l) ==
    /\ loop[l] = "check"
    /\ loop' = [loop EXCEPT ![l] =
                    IF BelowPerIp(peer[l]) THEN "count" ELSE "accept"]
    /\ UNCHANGED <<peer, spawned, stage, ip, connections_per_ip, erased>>

\* Count the connection and spawn its task.
Spawn(l) ==
    /\ loop[l] = "count"
    /\ spawned' = spawned + 1
    /\ SetCount(peer[l], Count(peer[l]) + 1)
    /\ ip' = [ip EXCEPT ![spawned + 1] = peer[l]]
    /\ Enter(spawned + 1, IF l \in Plain THEN "handshake" ELSE "upgrade")
    /\ loop' = [loop EXCEPT ![l] = "accept"]
    /\ UNCHANGED <<peer, erased>>

----------------------------------------------------------------------------
(* A connection's task.                                                    *)

Upgraded(t) ==
    /\ stage[t] = "upgrade"
    /\ Enter(t, "handshake")
    /\ UNCHANGED <<loop, peer, spawned, ip, connections_per_ip, erased>>

\* entry.saturating_sub(1), on the entry if there is one.
Less(i) ==
    IF connections_per_ip[i] \in {None, 0} THEN connections_per_ip[i]
    ELSE connections_per_ip[i] - 1

\* The TLS or WebSocket handshake fails: an entry at zero is left in the map.
UpgradeFails(t) ==
    /\ stage[t] = "upgrade"
    /\ SetCount(ip[t], Less(ip[t]))
    /\ Enter(t, "done")
    /\ UNCHANGED <<loop, peer, spawned, ip, erased>>

\* handle_connection enters the session in the connection map, or its
\* handshake fails; later it leaves the map.
Session(t) ==
    /\ stage[t] = "handshake"
    /\ Enter(t, "session") \/ Enter(t, "discount")
    /\ UNCHANGED <<loop, peer, spawned, ip, connections_per_ip, erased>>

Disconnect(t) ==
    /\ stage[t] = "session"
    /\ Enter(t, "discount")
    /\ UNCHANGED <<loop, peer, spawned, ip, connections_per_ip, erased>>

\* Mutation of Discount: the count is not lowered.
DiscountSkipped(t) ==
    /\ stage[t] = "discount"
    /\ Enter(t, "done")
    /\ UNCHANGED <<loop, peer, spawned, ip, connections_per_ip, erased>>

\* Lower the count; at zero, let go of the entry and then remove it ...
Discount(t) ==
    /\ stage[t] = "discount"
    /\ SetCount(ip[t], Less(ip[t]))
    /\ Enter(t, IF Less(ip[t]) = 0 THEN "remove" ELSE "done")
    /\ UNCHANGED <<loop, peer, spawned, ip, erased>>

\* ... whatever it has become.
RemoveEntry(t) ==
    /\ stage[t] = "remove"
    /\ erased' = [erased EXCEPT ![ip[t]] = @ + Count(ip[t])]
    /\ SetCount(ip[t], None)
    /\ Enter(t, "done")
    /\ UNCHANGED <<loop, peer, spawned, ip>>

----------------------------------------------------------------------------

LimitsInit ==
    /\ loop = [l \in Loops |-> "accept"]
    /\ peer = [l \in Loops |-> None]
    /\ spawned = 0
    /\ stage = [t \in Tasks |-> "idle"]
    /\ ip = [t \in Tasks |-> None]
    /\ connections_per_ip = [i \in Ips |-> None]
    /\ erased = [i \in Ips |-> 0]

LimitsNext ==
    \/ \E l \in Loops : \/ \E i \in Ips : AcceptSocket(l, i)
                        \/ CheckPerIp(l)
                        \/ Spawn(l)
    \/ \E t \in Tasks : \/ Upgraded(t) \/ UpgradeFails(t)
                        \/ Session(t) \/ Disconnect(t)
                        \/ Discount(t) \/ RemoveEntry(t)

LimitsSpec == LimitsInit /\ [][LimitsNext]_limitVars

----------------------------------------------------------------------------
(* Properties.                                                             *)

Stages == {"idle", "upgrade", "handshake", "session", "discount", "remove",
           "done"}

\* Every variable keeps its type: the count is absent or a natural number, even
\* after an entry that counted a live connection was removed under it, so that
\* connections are discounted more often than the new entry counts them.
LimitsTypeOK ==
    /\ loop \in [Loops -> {"accept", "check", "count"}]
    /\ peer \in [Loops -> Ips \cup {None}]
    /\ spawned \in 0 .. MaxTasks
    /\ stage \in [Tasks -> Stages]
    /\ ip \in [Tasks -> Ips \cup {None}]
    /\ connections_per_ip \in [Ips -> Nat \cup {None}]
    /\ erased \in [Ips -> Nat]

\* check_limits refuses a peer for its address only when that many of its
\* connections are really alive: clean-up that races with accept never leaves a
\* count too high, which would lock a peer out for good.
RefusedOnlyAtLimit ==
    [][\A l \in Loops :
        loop[l] = "check" /\ loop'[l] = "accept" =>
            Cardinality(Counted(peer[l])) >= max_per_ip]_limitVars

\* A peer has at most max_per_ip connections, plus one for each further accept
\* loop that checked before the others counted, plus what clean-up erased.
OvershootBounded ==
    max_per_ip # None =>
        \A i \in Ips : Cardinality(Counted(i)) <=
            max_per_ip + (Cardinality(Loops) - 1) + erased[i]

=============================================================================
