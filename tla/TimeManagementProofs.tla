---- MODULE TimeManagementProofs ----
(***************************************************************************)
(* What TimeManagement guarantees for every set of federates, of times and *)
(* of lookaheads, and every bound.                                         *)
(*                                                                         *)
(* First what a step does to grants: it is a step of TimeContract, a grant *)
(* that no race disturbed waits for LBTS, a request that can be granted is *)
(* attended to, a message is released with a grant, and no update comes    *)
(* from the past.  Each of these lemmas takes what it needs of the state,  *)
(* its type and what LBTS is, as hypotheses.  Then what the operators      *)
(* compute (the least of a set of naturals, the sorted queue, the lists of *)
(* callbacks, LBTS), the types, and the theorems.                          *)
(***************************************************************************)
EXTENDS TimeManagement, FiniteSetTheorems, TLAPS

----------------------------------------------------------------------------
(* Logical time: the contract and monotonicity.                            *)

\* Seen through the pair of time and request, a step of the handlers is a
\* step of the contract or leaves both alone.
LEMMA ContractStep ==
    ASSUME TypeOK, [Next]_vars
    PROVE  [Contract!Next]_(Contract!vars)
<1> USE DEF Contract!vars, Contract!Next
<1>1. ASSUME UNCHANGED timeVars PROVE [Contract!Next]_(Contract!vars)
    BY <1>1, Zenon DEF timeVars
<1>2. ASSUME NEW S \in SUBSET Federates, GrantTo(S),
             \A f \in S : pending_advance[f] # None
      PROVE  Contract!Next
    BY <1>2, Zenon DEF GrantTo, Contract!Grant
<1>3. ASSUME NEW s \in Federates, Call(s)
      PROVE  [Contract!Next]_(Contract!vars)
  <2>1. ASSUME NEW t \in Times, TimeAdvanceRequest(s, t) PROVE Contract!Next
    <3>1. Contract!Request(s, t)
        BY <2>1, TimesAssumption, Zenon DEF TimeAdvanceRequest, MayRequest, TypeOK,
           Contract!Request
    <3> QED BY <3>1, Zenon
  <2>2. CASE Resign(s)
    <3>1. Contract!Withdraw(s)
        BY <2>2, Zenon DEF Resign, Contract!Withdraw
    <3> QED BY <3>1, Zenon
  <2>3. \/ UNCHANGED timeVars
        \/ \E t \in Times : TimeAdvanceRequest(s, t)
        \/ Resign(s)
      BY <1>3, Zenon DEF Call, EnableTimeRegulation, ModifyLookahead,
         DisableTimeRegulation, EnableTimeConstrained, DisableTimeConstrained,
         UpdateAttributeValuesWithTime, SendInteractionWithTime, Send, Join
  <2> QED BY <1>1, <2>1, <2>2, <2>3, Zenon
<1>4. ASSUME NEW s \in Federates, Step(s)
      PROVE  [Contract!Next]_(Contract!vars)
  <2>1. CASE Apply(s)
    <3>1. /\ Granted(s) \in SUBSET Federates
          /\ \A f \in Granted(s) : pending_advance[f] # None
        BY Zenon DEF Granted, TypeOK
    <3> QED BY <1>2, <2>1, <3>1, Zenon DEF Apply
  <2>2. CASE GrantSelf(s)
    <3> DEFINE S == IF pending_advance[s] = time[s] THEN {s} ELSE {}
    <3>1. S \in SUBSET Federates /\ \A f \in S : pending_advance[f] # None
        BY TimesAssumption, Zenon DEF TypeOK
    <3>2. GrantTo(S)
        BY <2>2, Zenon DEF GrantSelf
    <3> HIDE DEF S
    <3> QED BY <1>2, <3>1, <3>2, Zenon
  <2>3. UNCHANGED timeVars \/ Apply(s) \/ GrantSelf(s)
      BY <1>4, Zenon DEF Step, ReadBound, Select, Recheck, SnapshotPending,
         ReadTsoBound, FilterOne, DrainOne, DrainSelf, Route, Enqueue, Deliver
  <2> QED BY <1>1, <2>1, <2>2, <2>3, Zenon
<1>5. CASE UNCHANGED vars
    BY <1>1, <1>5, Zenon DEF vars
<1> QED BY <1>3, <1>4, <1>5, Zenon DEF Next

\* A step of the contract keeps requests ahead of times and times growing.
LEMMA ContractMonotone ==
    ASSUME TypeOK, PendingNotBehind, [Contract!Next]_(Contract!vars)
    PROVE  /\ PendingNotBehind'
           /\ \A f \in Federates : current_time[f] <= current_time'[f]
<1>0. /\ \A f \in Federates : current_time[f] \in Nat
      /\ \A f \in Federates : pending_advance[f] # None => pending_advance[f] \in Nat
    BY TimesAssumption, Zenon DEF TypeOK
<1>1. CASE UNCHANGED Contract!vars
    BY <1>0, <1>1 DEF Contract!vars, PendingNotBehind
<1>2. ASSUME NEW g \in Federates, NEW t \in Times, Contract!Request(g, t)
      PROVE  /\ PendingNotBehind'
             /\ \A f \in Federates : current_time[f] <= current_time'[f]
  <2>1. \A f \in Federates :
            pending_advance'[f] = IF f = g THEN t ELSE pending_advance[f]
      BY <1>2, Zenon DEF Contract!Request, TypeOK
  <2>2. current_time' = current_time /\ current_time[g] <= t
      BY <1>2, Zenon DEF Contract!Request
  <2> QED BY <1>0, <2>1, <2>2 DEF PendingNotBehind
<1>3. ASSUME NEW S \in SUBSET Federates, Contract!Grant(S)
      PROVE  /\ PendingNotBehind'
             /\ \A f \in Federates : current_time[f] <= current_time'[f]
    BY <1>0, <1>3 DEF Contract!Grant, PendingNotBehind
<1>4. ASSUME NEW g \in Federates, Contract!Withdraw(g)
      PROVE  /\ PendingNotBehind'
             /\ \A f \in Federates : current_time[f] <= current_time'[f]
  <2>1. \A f \in Federates :
            pending_advance'[f] = IF f = g THEN None ELSE pending_advance[f]
      BY <1>4, Zenon DEF Contract!Withdraw, TypeOK
  <2>2. current_time' = current_time
      BY <1>4, Zenon DEF Contract!Withdraw
  <2> QED BY <1>0, <2>1, <2>2 DEF PendingNotBehind
<1> QED BY <1>1, <1>2, <1>3, <1>4, Zenon DEF Contract!Next

----------------------------------------------------------------------------
(* Grants and LBTS.                                                        *)

\* LBTS is the least of the regulators' commitments, Infinity without any.
LbtsLeast ==
    /\ Lbts \in Nat /\ Lbts <= Infinity
    /\ \A r \in is_regulating : Lbts <= current_time[r] + lookahead[r]
    /\ Lbts = Infinity \/ \E r \in is_regulating : Lbts = current_time[r] + lookahead[r]

\* So what is below every commitment is below LBTS.
LEMMA LbtsGreatest ==
    ASSUME LbtsLeast, NEW x \in Nat, x <= Infinity,
           \A r \in is_regulating : x <= current_time[r] + lookahead[r]
    PROVE  x <= Lbts
BY Zenon DEF LbtsLeast

\* The bound of a session that is not raced still is a lower bound, and the
\* list it is about to grant respects it.
BoundIsLower(s) ==
    s \notin raced /\ pc[s] \in {"select", "apply"} =>
        \A r \in is_regulating : bound[s] <= current_time[r] + lookahead[r]
ListRespectsBound(s) ==
    s \notin raced /\ pc[s] = "apply" =>
        \A x \in to_grant[s] : x[1] \in is_constrained => x[2] <= bound[s]

\* A caller that grants itself is unconstrained: only its own session could
\* have changed that.
SelfGrantIsFree(s) == pc[s] = "grant_self" => s \notin is_constrained

GrantInv ==
    \A s \in Federates :
        BoundIsLower(s) /\ ListRespectsBound(s) /\ SelfGrantIsFree(s)

\* Unless a role change races every session, a step adds no regulator and no
\* constrained federate and lowers no commitment; only a session that reads
\* LBTS anew stops being raced.
LEMMA RoleStep ==
    ASSUME TypeOK, PendingNotBehind, NEW a \in Federates, Call(a) \/ Step(a),
           raced' # Federates
    PROVE  /\ is_regulating' \subseteq is_regulating
           /\ is_constrained' \subseteq is_constrained
           /\ \A r \in Federates : current_time[r] <= current_time'[r]
           /\ \A r \in Federates : lookahead[r] <= lookahead'[r]
           /\ ReadBound(a) \/ raced' = raced
<1>0. /\ \A f \in Federates : current_time[f] \in Nat /\ lookahead[f] \in Nat
      /\ lookahead \in [Federates -> Lookaheads]
    BY TimesAssumption, Zenon DEF TypeOK
<1>l. UNCHANGED lookahead => \A r \in Federates : lookahead[r] <= lookahead'[r]
    BY <1>0
<1>1. \A r \in Federates : current_time[r] <= current_time'[r]
    BY ContractStep, ContractMonotone, Zenon DEF Next
<1>2. ASSUME NEW l \in Lookaheads, ModifyLookahead(a, l)
      PROVE  \A r \in Federates : lookahead[r] <= lookahead'[r]
  <2>1. ~(l < lookahead[a]) /\ lookahead' = [lookahead EXCEPT ![a] = l]
      BY <1>2, Zenon DEF ModifyLookahead
  <2> QED BY <1>0, <2>1, TimesAssumption
<1>3. CASE Call(a)
  <2>1. \/ UNCHANGED <<is_regulating, is_constrained, lookahead, raced>>
        \/ \E l \in Lookaheads : ModifyLookahead(a, l)
        \/ DisableTimeRegulation(a)
        \/ DisableTimeConstrained(a)
        \/ Resign(a)
      BY <1>3, Zenon DEF Call, EnableTimeRegulation, EnableTimeConstrained,
         TimeAdvanceRequest, UpdateAttributeValuesWithTime,
         SendInteractionWithTime, Send, Join, roleVars
  <2>2. CASE UNCHANGED <<is_regulating, is_constrained, lookahead, raced>>
      BY <1>l, <1>1, <2>2, Zenon
  <2>3. ASSUME NEW l \in Lookaheads, ModifyLookahead(a, l)
        PROVE  /\ UNCHANGED <<is_regulating, is_constrained, raced>>
               /\ \A r \in Federates : lookahead[r] <= lookahead'[r]
      BY <1>2, <2>3, Zenon DEF ModifyLookahead
  <2>4. CASE DisableTimeRegulation(a)
      BY <1>l, <1>1, <2>4, Zenon DEF DisableTimeRegulation
  <2>5. CASE DisableTimeConstrained(a)
      BY <1>l, <1>1, <2>5, Zenon DEF DisableTimeConstrained
  <2>6. CASE Resign(a)
      BY <1>l, <1>1, <2>6, Zenon DEF Resign, RemoveFederate
  <2> QED BY <1>1, <2>1, <2>2, <2>3, <2>4, <2>5, <2>6, Zenon
<1>4. CASE Step(a)
  <2>1. UNCHANGED roleVars /\ (ReadBound(a) \/ raced' = raced)
      BY <1>4, Zenon DEF Step, ReadBound, Select, Apply, Recheck, SnapshotPending,
         ReadTsoBound, FilterOne, DrainOne, GrantSelf, DrainSelf, Route,
         Enqueue, Deliver
  <2> QED BY <1>l, <1>1, <2>1, Zenon DEF roleVars
<1> QED BY <1>3, <1>4, Zenon

\* A session enters the grant pass by reading LBTS, and reaches its second
\* half only through the first; it leaves its bound and its list alone
\* otherwise.
LEMMA FrameStep ==
    ASSUME TypeOK, NEW a \in Federates, Call(a) \/ Step(a),
           NEW s \in Federates, pc'[s] \in {"select", "apply"}
    PROVE  \/ s = a /\ ReadBound(s)
           \/ s = a /\ Select(s)
           \/ /\ pc'[s] = pc[s] /\ bound'[s] = bound[s]
              /\ to_grant'[s] = to_grant[s]
<1>0. /\ pc \in [Federates -> Labels] /\ bound \in [Federates -> Nat]
      /\ to_grant \in [Federates -> SUBSET Requests]
    BY Zenon DEF TypeOK
<1>1. CASE s # a
    BY <1>0, <1>1, Zenon DEF Call, EnableTimeRegulation, EnableTimeConstrained,
       TimeAdvanceRequest, UpdateAttributeValuesWithTime, ModifyLookahead,
       DisableTimeRegulation, DisableTimeConstrained, Resign,
       SendInteractionWithTime, Send, Join, frameVars, Goto, Finish,
       Step, ReadBound, Select, Apply, Recheck, SnapshotPending,
       ReadTsoBound, FilterOne, DrainOne, GrantSelf, DrainSelf, Route,
       Enqueue, Deliver
<1>2. CASE s = a /\ Call(a)
    BY <1>0, <1>2, Zenon DEF Call, EnableTimeRegulation, EnableTimeConstrained,
       TimeAdvanceRequest, UpdateAttributeValuesWithTime, ModifyLookahead,
       DisableTimeRegulation, DisableTimeConstrained, Resign,
       SendInteractionWithTime, Send, Join, frameVars, Goto, Finish
<1>3. CASE s = a /\ Step(a)
    BY <1>0, <1>3, Zenon DEF Goto, Finish,
       Step, Apply, Recheck, SnapshotPending,
       ReadTsoBound, FilterOne, DrainOne, GrantSelf, DrainSelf, Route,
       Enqueue, Deliver
<1> QED BY <1>1, <1>2, <1>3, Zenon

\* A session that selects lists only what its bound allows.
LEMMA SelectRespectsBound ==
    ASSUME TypeOK, NEW s \in Federates, Select(s), pc'[s] = "apply"
    PROVE  /\ bound'[s] = bound[s] /\ pc[s] = "select"
           /\ \A x \in to_grant'[s] : x[1] \in is_constrained => x[2] <= bound[s]
<1>1. to_grant'[s] = Grantable(s) /\ pc[s] = "select"
    BY Zenon DEF Select, TypeOK
<1>2. bound' = bound
    BY DEF Select, Finish, TypeOK
<1> QED BY <1>1, <1>2, Zenon DEF Grantable

\* Every step keeps the invariant of the grants.
LEMMA GrantInvStep ==
    ASSUME TypeOK, TypeOK', LbtsLeast, PendingNotBehind, GrantInv, [Next]_vars
    PROVE  GrantInv'
<1>1. CASE UNCHANGED vars
    BY <1>1, Zenon DEF vars, roleVars, timeVars, frameVars, GrantInv, BoundIsLower,
       ListRespectsBound, SelfGrantIsFree
<1>2. ASSUME NEW a \in Federates, Call(a) \/ Step(a), NEW s \in Federates
      PROVE  BoundIsLower(s)' /\ ListRespectsBound(s)' /\ SelfGrantIsFree(s)'
  <2>1. SelfGrantIsFree(s)'
    <3>1. SelfGrantIsFree(s)
        BY Zenon DEF GrantInv
    <3>0. pc \in [Federates -> Labels]
        BY Zenon DEF TypeOK
    <3>2. CASE Call(a)
      <4>1. CASE s = a
        <5>1. \/ pc'[s] # "grant_self"
              \/ UNCHANGED <<pc, is_constrained>>
              \/ \E t \in Times : TimeAdvanceRequest(s, t)
            BY <3>0, <3>2, <4>1, Zenon DEF Call, EnableTimeRegulation,
               EnableTimeConstrained, UpdateAttributeValuesWithTime,
               ModifyLookahead, DisableTimeRegulation, DisableTimeConstrained,
               Resign, Begin, SendInteractionWithTime, Send, Join, frameVars,
               Goto, Finish
        <5>2. ASSUME NEW t \in Times, TimeAdvanceRequest(s, t)
              PROVE  SelfGrantIsFree(s)'
            BY <3>0, <5>2, Zenon DEF TimeAdvanceRequest, SelfGrantIsFree, Goto, roleVars
        <5> QED BY <3>1, <5>1, <5>2, Zenon DEF SelfGrantIsFree
      <4>2. CASE s # a
        <5>1. pc'[s] = pc[s]
            BY <3>0, <3>2, <4>2, Zenon DEF Call, EnableTimeRegulation,
               EnableTimeConstrained, TimeAdvanceRequest,
               UpdateAttributeValuesWithTime, ModifyLookahead,
               DisableTimeRegulation, DisableTimeConstrained, Resign,
               SendInteractionWithTime, Send, Join, frameVars, Goto, Finish
        <5>2. s \in is_constrained' => s \in is_constrained
            BY <3>2, <4>2, Zenon DEF Call, EnableTimeRegulation,
               EnableTimeConstrained, TimeAdvanceRequest,
               UpdateAttributeValuesWithTime, ModifyLookahead, roleVars,
               DisableTimeRegulation, DisableTimeConstrained, Resign,
               RemoveFederate, SendInteractionWithTime, Send, Join
        <5> QED BY <3>1, <5>1, <5>2, Zenon DEF SelfGrantIsFree
      <4> QED BY <4>1, <4>2, Zenon
    <3>3. CASE Step(a)
      <4>1. UNCHANGED is_constrained
          BY <3>3, Zenon DEF roleVars, Step, ReadBound, Select, Apply, Recheck,
             SnapshotPending, ReadTsoBound, FilterOne, DrainOne, GrantSelf,
             DrainSelf, Route, Enqueue, Deliver
      <4>2. pc'[s] = "grant_self" => pc[s] = "grant_self"
        <5>1. \E l \in Labels \ {"grant_self"} : pc' = [pc EXCEPT ![a] = l]
            BY <3>3, Zenon DEF Step, ReadBound, Select, Apply, Recheck,
               SnapshotPending, ReadTsoBound, FilterOne, DrainOne, GrantSelf,
               DrainSelf, Route, Enqueue, Deliver, Goto, Finish, Labels
        <5> QED BY <3>0, <5>1, Zenon
      <4> QED BY <3>1, <4>1, <4>2, Zenon DEF SelfGrantIsFree
    <3> QED BY <1>2, <3>2, <3>3, Zenon
  <2>2. SUFFICES ASSUME s \notin raced', pc'[s] \in {"select", "apply"}
                 PROVE  /\ \A r \in is_regulating' :
                              bound'[s] <= current_time'[r] + lookahead'[r]
                        /\ pc'[s] = "apply" => \A x \in to_grant'[s] :
                              x[1] \in is_constrained' => x[2] <= bound'[s]
      BY <2>1, Zenon DEF BoundIsLower, ListRespectsBound
  <2>3. /\ is_regulating' \subseteq is_regulating
        /\ is_constrained' \subseteq is_constrained
        /\ \A r \in Federates : current_time[r] <= current_time'[r]
        /\ \A r \in Federates : lookahead[r] <= lookahead'[r]
        /\ ReadBound(a) \/ raced' = raced
      BY <1>2, <2>2, RoleStep, Zenon
  <2>4. \A r \in is_regulating' :
            /\ r \in is_regulating
            /\ current_time[r] \in Nat /\ lookahead[r] \in Nat
            /\ current_time'[r] \in Nat /\ lookahead'[r] \in Nat
            /\ current_time[r] <= current_time'[r]
            /\ lookahead[r] <= lookahead'[r]
      BY <2>3, TimesAssumption, Zenon DEF TypeOK
  <2>b. bound[s] \in Nat
      BY TimesAssumption, Zenon DEF TypeOK
  <2>l. ASSUME NEW b \in Nat,
               \A r \in is_regulating : b <= current_time[r] + lookahead[r]
        PROVE  \A r \in is_regulating' : b <= current_time'[r] + lookahead'[r]
      BY <2>4, <2>l
  <2>5. CASE s = a /\ ReadBound(s)
    <3>1. bound'[s] = Lbts /\ pc'[s] = "select"
        BY <2>5, Zenon DEF ReadBound, Goto, TypeOK
    <3>2. Lbts \in Nat /\ \A r \in is_regulating : Lbts <= current_time[r] + lookahead[r]
        BY Zenon DEF LbtsLeast
    <3>3. pc'[s] # "apply"
        BY <3>1, Zenon
    <3> QED BY <2>l, <3>1, <3>2, <3>3, Zenon
  <2>6. CASE s = a /\ Select(s)
    <3>1. s \notin raced
        BY <2>2, <2>3, <2>6, Zenon DEF Select, ReadBound
    <3>2. pc'[s] = "apply"
        BY <2>2, <2>6 DEF Select, Finish, Goto, TypeOK
    <3>3. /\ bound'[s] = bound[s] /\ pc[s] = "select"
          /\ \A x \in to_grant'[s] : x[1] \in is_constrained => x[2] <= bound[s]
        BY <2>6, <3>2, SelectRespectsBound, Zenon
    <3>4. \A r \in is_regulating : bound[s] <= current_time[r] + lookahead[r]
        BY <3>1, <3>3, Zenon DEF GrantInv, BoundIsLower
    <3> QED BY <2>b, <2>l, <2>3, <3>3, <3>4, Zenon
  <2>7. CASE /\ ~(s = a /\ ReadBound(s))
             /\ pc'[s] = pc[s] /\ bound'[s] = bound[s]
             /\ to_grant'[s] = to_grant[s]
    <3>1. s \notin raced
      <4>1. CASE raced' = raced
          BY <2>2, <4>1, Zenon
      <4>2. CASE ReadBound(a)
          BY <2>2, <2>7, <4>2, Zenon DEF ReadBound
      <4> QED BY <2>3, <4>1, <4>2, Zenon
    <3>2. BoundIsLower(s) /\ ListRespectsBound(s)
        BY Zenon DEF GrantInv
    <3>3. \A r \in is_regulating : bound[s] <= current_time[r] + lookahead[r]
        BY <2>2, <2>7, <3>1, <3>2, Zenon DEF BoundIsLower
    <3>4. pc[s] = "apply" =>
             \A x \in to_grant[s] : x[1] \in is_constrained => x[2] <= bound[s]
        BY <3>1, <3>2, Zenon DEF ListRespectsBound
    <3> QED BY <2>b, <2>l, <2>3, <2>7, <3>3, <3>4, Zenon
  <2> QED BY <1>2, <2>2, <2>5, <2>6, <2>7, FrameStep, Zenon
<1> QED BY <1>1, <1>2, Zenon DEF Next, GrantInv

\* A step moves a constrained federate past LBTS only if it is the grant pass
\* of a raced session.
LEMMA NoOvertaking ==
    ASSUME TypeOK, LbtsLeast, GrantInv, Next, NEW f \in Federates, Overtakes(f)
    PROVE  \E s \in raced : pc[s] = "apply" /\ pc'[s] = "recheck"
<1>1. PICK s \in Federates : Call(s) \/ Step(s)
    BY Zenon DEF Next
<1>2. f \in is_constrained /\ current_time'[f] # current_time[f]
      /\ current_time'[f] > Lbts
    BY Zenon DEF Overtakes
<1>3. Apply(s) \/ GrantSelf(s)
    BY <1>1, <1>2, Zenon DEF Step, ReadBound, Select, Recheck, SnapshotPending,
       ReadTsoBound, FilterOne, DrainOne, DrainSelf, Route, Enqueue, Deliver,
       timeVars, Call, EnableTimeRegulation, ModifyLookahead,
       DisableTimeRegulation, EnableTimeConstrained, DisableTimeConstrained,
       TimeAdvanceRequest, UpdateAttributeValuesWithTime,
       SendInteractionWithTime, Send, Join, Resign
<1>4. CASE GrantSelf(s)
  <2>1. s \notin is_constrained
      BY <1>4, Zenon DEF GrantInv, SelfGrantIsFree, GrantSelf
  <2> QED BY <1>2, <1>4, <2>1, Zenon DEF GrantSelf, GrantTo
<1>5. CASE Apply(s)
  <2>1. pc[s] = "apply" /\ pc'[s] = "recheck"
      BY <1>5, Zenon DEF Apply, Goto, TypeOK
  <2>2. ASSUME s \notin raced PROVE FALSE
    <3>1. current_time'[f] = pending_advance[f] /\ f \in Granted(s)
        BY <1>2, <1>5, Zenon DEF Apply, GrantTo
    <3>2. <<f, pending_advance[f]>> \in to_grant[s] /\ pending_advance[f] \in Times
        BY <3>1, Zenon DEF Granted, TypeOK
    <3>3. pending_advance[f] <= bound[s]
        BY <1>2, <2>1, <2>2, <3>2, Zenon DEF GrantInv, ListRespectsBound
    <3>4. \A r \in is_regulating : bound[s] <= current_time[r] + lookahead[r]
        BY <2>1, <2>2, Zenon DEF GrantInv, BoundIsLower
    <3>5. \A r \in is_regulating : current_time[r] \in Nat /\ lookahead[r] \in Nat
        BY TimesAssumption, Zenon DEF TypeOK
    <3>6. pending_advance[f] \in Nat /\ bound[s] \in Nat /\ Infinity \in Nat
          /\ pending_advance[f] + 0 < Infinity
        BY <3>2, TimesAssumption, Zenon DEF TypeOK
    <3>7. pending_advance[f] <= Lbts
      <4> DEFINE x == pending_advance[f]
      <4>1. x \in Nat /\ x <= Infinity
            /\ \A r \in is_regulating : x <= current_time[r] + lookahead[r]
          BY <3>3, <3>4, <3>5, <3>6
      <4> HIDE DEF x
      <4>2. x <= Lbts
          BY <4>1, LbtsGreatest, Zenon
      <4> QED BY <4>2, Zenon DEF x
    <3>8. Lbts \in Nat
        BY Zenon DEF LbtsLeast
    <3> QED BY <1>2, <3>1, <3>6, <3>7, <3>8
  <2> QED BY <2>1, <2>2, Zenon
<1> QED BY <1>3, <1>4, <1>5, Zenon

----------------------------------------------------------------------------
(* Federations in which LBTS does not fall.                                *)

\* No service is called that lowers LBTS, or that drops the constraint of a
\* federate whose request waits.
Steady ==
    Services \cap {"enable_regulation", "modify_lookahead", "disable_constrained"} = {}

\* What a session has read of LBTS stays below it.
BoundsLow == \A s \in Federates : bound[s] <= Lbts

\* An unconstrained federate has a request only until its own session, or
\* another before it, has granted it.
OwnRequests ==
    \A f \in Federates :
        f \notin is_constrained /\ pending_advance[f] # None =>
            pc[f] = "grant_self" /\ pending_advance[f] = time[f]

\* A step of one session leaves the locals of the others alone, their roles
\* and their requests too, except that it may grant a request.
LEMMA OthersStep ==
    ASSUME TypeOK, NEW a \in Federates, Call(a) \/ Step(a),
           NEW f \in Federates, f # a
    PROVE  /\ pc'[f] = pc[f] /\ time'[f] = time[f] /\ bound'[f] = bound[f]
           /\ todo'[f] = todo[f] /\ to_grant'[f] = to_grant[f]
           /\ callbacks'[f] = callbacks[f] /\ calls'[f] = calls[f]
           /\ f \in federates' <=> f \in federates
           /\ f \in is_constrained' <=> f \in is_constrained
           /\ \/ pending_advance'[f] = pending_advance[f] /\ current_time'[f] = current_time[f]
              \/ /\ pending_advance[f] # None /\ pending_advance'[f] = None
                 /\ current_time'[f] = pending_advance[f]
<1>0. /\ pc \in [Federates -> Labels] /\ bound \in [Federates -> Nat]
      /\ time \in [Federates -> Times] /\ calls \in [Federates -> Nat]
      /\ todo \in [Federates -> SUBSET Requests] /\ to_grant \in [Federates -> SUBSET Requests]
      /\ callbacks \in [Federates -> Seq(Callbacks)]
      /\ pending_advance \in [Federates -> Times \cup {None}]
      /\ current_time \in [Federates -> Times]
  BY Zenon DEF TypeOK
<1>1. pc'[f] = pc[f] /\ time'[f] = time[f] /\ bound'[f] = bound[f]
  <2>1. CASE Call(a)
    <3>1. /\ pc' = pc \/ \E l : pc' = [pc EXCEPT ![a] = l]
          /\ time' = time \/ \E t : time' = [time EXCEPT ![a] = t]
          /\ bound' = bound \/ \E b : bound' = [bound EXCEPT ![a] = b]
      BY <2>1, Zenon DEF Call, EnableTimeRegulation, EnableTimeConstrained,
         TimeAdvanceRequest, UpdateAttributeValuesWithTime, ModifyLookahead,
         DisableTimeRegulation, DisableTimeConstrained, Resign,
         SendInteractionWithTime, Send, Join, frameVars, Goto, Finish
    <3>2. QED  BY <1>0, <3>1, Zenon
  <2>2. CASE Step(a)
    BY <1>0, <2>2, Zenon DEF Goto, Finish, Step, ReadBound, Select, Apply, Recheck,
       SnapshotPending, ReadTsoBound, FilterOne, DrainOne, GrantSelf, DrainSelf,
       Route, Enqueue, Deliver
  <2>3. QED  BY <2>1, <2>2, Zenon
<1>2. todo'[f] = todo[f] /\ to_grant'[f] = to_grant[f]
  BY <1>0, Zenon DEF Call, EnableTimeRegulation, EnableTimeConstrained,
     TimeAdvanceRequest, UpdateAttributeValuesWithTime, ModifyLookahead,
     DisableTimeRegulation, DisableTimeConstrained, Resign,
     SendInteractionWithTime, Send, Join, frameVars,
     Step, ReadBound, Select, Apply, Recheck, SnapshotPending,
     ReadTsoBound, FilterOne, DrainOne, GrantSelf, DrainSelf, Route,
     Enqueue, Deliver
<1>3. callbacks'[f] = callbacks[f]
  <2>1. CASE Call(a)
    BY <1>0, <2>1, Zenon DEF Call, EnableTimeRegulation, EnableTimeConstrained,
       TimeAdvanceRequest, UpdateAttributeValuesWithTime, ModifyLookahead,
       DisableTimeRegulation, DisableTimeConstrained, Resign,
       SendInteractionWithTime, Send, Join, frameVars, Finish
  <2>2. CASE Step(a)
    <3>1. callbacks' = callbacks \/ \E q : callbacks' = [callbacks EXCEPT ![a] = q]
      BY <2>2, Zenon DEF Step, ReadBound, Select, Apply, Recheck, SnapshotPending,
         ReadTsoBound, FilterOne, DrainOne, GrantSelf, DrainSelf, Route,
         Enqueue, Deliver, Finish, DrainTsoUpTo
    <3>2. QED  BY <1>0, <3>1, Zenon
  <2>3. QED  BY <2>1, <2>2, Zenon
<1>c. calls'[f] = calls[f]
  BY <1>0, Zenon DEF Call, EnableTimeRegulation, EnableTimeConstrained,
     TimeAdvanceRequest, UpdateAttributeValuesWithTime, ModifyLookahead,
     DisableTimeRegulation, DisableTimeConstrained, Resign, Begin, countVars,
     SendInteractionWithTime, Send, Join,
     Step, ReadBound, Select, Apply, Recheck, SnapshotPending,
     ReadTsoBound, FilterOne, DrainOne, GrantSelf, DrainSelf, Route,
     Enqueue, Deliver
<1>4. /\ f \in federates' <=> f \in federates
      /\ f \in is_constrained' <=> f \in is_constrained
  BY Zenon DEF Call, EnableTimeRegulation, EnableTimeConstrained,
     TimeAdvanceRequest, UpdateAttributeValuesWithTime, ModifyLookahead,
     DisableTimeRegulation, DisableTimeConstrained, Resign, RemoveFederate,
     SendInteractionWithTime, Send, Join, roleVars,
     Step, ReadBound, Select, Apply, Recheck, SnapshotPending,
     ReadTsoBound, FilterOne, DrainOne, GrantSelf, DrainSelf, Route,
     Enqueue, Deliver
<1>5. \/ pending_advance'[f] = pending_advance[f] /\ current_time'[f] = current_time[f]
      \/ /\ pending_advance[f] # None /\ pending_advance'[f] = None
         /\ current_time'[f] = pending_advance[f]
  <2>1. CASE Apply(a)
    BY <2>1, Zenon DEF Apply, GrantTo, Granted
  <2>2. CASE GrantSelf(a)
    BY <2>2, Zenon DEF GrantSelf, GrantTo
  <2>3. CASE ~Apply(a) /\ ~GrantSelf(a)
    BY <1>0, <2>3, Zenon DEF Call, EnableTimeRegulation, EnableTimeConstrained,
       TimeAdvanceRequest, UpdateAttributeValuesWithTime, ModifyLookahead,
       DisableTimeRegulation, DisableTimeConstrained, Resign,
       SendInteractionWithTime, Send, Join, timeVars,
       Step, ReadBound, Select, Recheck, SnapshotPending,
       ReadTsoBound, FilterOne, DrainOne, DrainSelf, Route, Enqueue, Deliver
  <2>4. QED  BY <2>1, <2>2, <2>3, Zenon
<1>6. QED  BY <1>1, <1>2, <1>3, <1>c, <1>4, <1>5, Zenon

\* With steady roles regulators only become fewer and their lookahead stays.
LEMMA SteadyRoles ==
    ASSUME Steady, [Next]_vars
    PROVE  is_regulating' \subseteq is_regulating /\ lookahead' = lookahead
<1>1. CASE UNCHANGED vars
  BY <1>1, Zenon DEF vars, roleVars
<1>2. ASSUME NEW a \in Federates, Call(a)
      PROVE  is_regulating' \subseteq is_regulating /\ lookahead' = lookahead
  <2>1. ~\E l \in Lookaheads : EnableTimeRegulation(a, l) \/ ModifyLookahead(a, l)
    BY Zenon DEF Steady, EnableTimeRegulation, ModifyLookahead, Begin
  <2>2. QED
    BY <1>2, <2>1, Zenon DEF Call, EnableTimeConstrained,
       TimeAdvanceRequest, UpdateAttributeValuesWithTime,
       DisableTimeRegulation, DisableTimeConstrained, Resign, RemoveFederate,
       SendInteractionWithTime, Send, Join, roleVars
<1>3. ASSUME NEW a \in Federates, Step(a)
      PROVE  is_regulating' \subseteq is_regulating /\ lookahead' = lookahead
  BY <1>3, Zenon DEF roleVars, Step, ReadBound, Select, Apply, Recheck,
     SnapshotPending, ReadTsoBound, FilterOne, DrainOne, GrantSelf,
     DrainSelf, Route, Enqueue, Deliver
<1>4. QED  BY <1>1, <1>2, <1>3, Zenon DEF Next

\* So LBTS never falls.
LEMMA LbtsRises ==
    ASSUME Steady, TypeOK, TypeOK', LbtsLeast, LbtsLeast', PendingNotBehind, [Next]_vars
    PROVE  Lbts \in Nat /\ Lbts' \in Nat /\ Lbts <= Lbts'
<1>1. Lbts \in Nat /\ Lbts' \in Nat /\ Lbts <= Infinity
  BY Zenon DEF LbtsLeast
<1>2. CASE Lbts' = Infinity
  BY <1>1, <1>2, Zenon
<1>3. ASSUME NEW f \in is_regulating', Lbts' = current_time'[f] + lookahead'[f]
      PROVE  Lbts <= Lbts'
  <2>1. f \in is_regulating /\ f \in Federates /\ lookahead'[f] = lookahead[f]
    BY SteadyRoles, Zenon DEF TypeOK
  <2>2. current_time[f] \in Nat /\ lookahead[f] \in Nat /\ current_time'[f] \in Nat
    BY <2>1, TimesAssumption, Zenon DEF TypeOK
  <2>3. current_time[f] <= current_time'[f]
    BY <2>1, ContractStep, ContractMonotone, Zenon
  <2>4. Lbts <= current_time[f] + lookahead[f]
    BY <2>1, Zenon DEF LbtsLeast
  <2>5. QED  BY <1>1, <1>3, <2>1, <2>2, <2>3, <2>4
<1>4. QED  BY <1>1, <1>2, <1>3, Zenon DEF LbtsLeast

\* Every step keeps the bounds below LBTS.
LEMMA BoundsLowStep ==
    ASSUME Steady, TypeOK, TypeOK', LbtsLeast, LbtsLeast', PendingNotBehind, BoundsLow, [Next]_vars
    PROVE  BoundsLow'
<1>0. Lbts \in Nat /\ Lbts' \in Nat /\ Lbts <= Lbts'
  BY LbtsRises, Zenon
<1>1. ASSUME NEW s \in Federates
      PROVE  bound'[s] \in {bound[s], Lbts, 0}
  <2>1. CASE UNCHANGED vars
    BY <2>1, Zenon DEF vars, frameVars
  <2>2. ASSUME NEW a \in Federates, Call(a) \/ Step(a), s # a PROVE bound'[s] = bound[s]
    BY <2>2, OthersStep, Zenon
  <2>3. ASSUME Call(s) PROVE bound'[s] \in {bound[s], 0}
    <3>1. bound' = bound \/ bound' = [bound EXCEPT ![s] = 0]
      BY <2>3, Zenon DEF Call, EnableTimeRegulation, EnableTimeConstrained,
         TimeAdvanceRequest, UpdateAttributeValuesWithTime, ModifyLookahead,
         DisableTimeRegulation, DisableTimeConstrained, Resign,
         SendInteractionWithTime, Send, Join, frameVars, Finish
    <3>2. QED  BY <3>1, Zenon DEF TypeOK
  <2>4. ASSUME Step(s) PROVE bound'[s] \in {bound[s], Lbts, 0}
    <3>1. bound' = bound \/ \E b \in {Lbts, 0} : bound' = [bound EXCEPT ![s] = b]
      BY <2>4, Zenon DEF Step, ReadBound, Select, Apply, Recheck, SnapshotPending,
         ReadTsoBound, FilterOne, DrainOne, GrantSelf, DrainSelf, Route, Enqueue,
         Deliver, Finish
    <3>2. QED  BY <3>1, Zenon DEF TypeOK
  <2>5. QED  BY <2>1, <2>2, <2>3, <2>4, Zenon DEF Next
<1>2. ASSUME NEW s \in Federates PROVE bound'[s] <= Lbts'
  <2>1. bound[s] \in Nat /\ bound[s] <= Lbts
    BY Zenon DEF TypeOK, BoundsLow
  <2>2. QED  BY <1>0, <1>1, <2>1
<1>3. QED  BY <1>2, Zenon DEF BoundsLow

\* Every step keeps the requests of unconstrained federates their own.
LEMMA OwnRequestsStep ==
    ASSUME Steady, TypeOK, OwnRequests, [Next]_vars
    PROVE  OwnRequests'
<1>1. CASE UNCHANGED vars
  BY <1>1, Zenon DEF vars, roleVars, timeVars, frameVars, OwnRequests
<1>2. ASSUME NEW a \in Federates, Call(a) \/ Step(a), NEW f \in Federates,
             f \notin is_constrained', pending_advance'[f] # None
      PROVE  pc'[f] = "grant_self" /\ pending_advance'[f] = time'[f]
  <2>1. CASE f # a
    BY <1>2, <2>1, OthersStep, Zenon DEF OwnRequests
  <2>2. CASE f = a /\ Call(a)
    <3>1. ~DisableTimeConstrained(a)
      BY Zenon DEF Steady, DisableTimeConstrained, Begin
    <3>2. ASSUME NEW t \in Times, TimeAdvanceRequest(a, t)
          PROVE  pc'[f] = "grant_self" /\ pending_advance'[f] = time'[f]
      BY <1>2, <2>2, <3>2, Zenon DEF TimeAdvanceRequest, Goto, roleVars, TypeOK
    <3>3. CASE Resign(a)
      BY <1>2, <2>2, <3>3, Zenon DEF Resign, TypeOK
    <3>4. ASSUME UNCHANGED pending_advance, f \notin is_constrained, pc[f] = "idle"
          PROVE  FALSE
      BY <1>2, <3>4, Zenon DEF OwnRequests
    <3>5. CASE Join(a)
      <4>1. f \notin is_constrained /\ UNCHANGED <<pending_advance, pc, time>>
        BY <1>2, <2>2, <3>5, Zenon DEF Join, timeVars, frameVars
      <4>2. QED  BY <1>2, <4>1, Zenon DEF OwnRequests
    <3>6. QED
      BY <1>2, <2>2, <3>1, <3>2, <3>3, <3>4, <3>5, Zenon
      DEF Call, EnableTimeRegulation, EnableTimeConstrained, ModifyLookahead,
          DisableTimeRegulation, UpdateAttributeValuesWithTime,
          SendInteractionWithTime, Send, Begin, roleVars, timeVars
  <2>3. CASE f = a /\ Step(a)
    <3>1. UNCHANGED is_constrained
      BY <2>3, Zenon DEF roleVars, Step, ReadBound, Select, Apply, Recheck,
         SnapshotPending, ReadTsoBound, FilterOne, DrainOne, GrantSelf,
         DrainSelf, Route, Enqueue, Deliver
    <3>2. pending_advance[f] # None
      <4>1. CASE Apply(a)
        BY <1>2, <2>3, <4>1, Zenon DEF Apply, GrantTo, Granted
      <4>2. CASE GrantSelf(a)
        BY <1>2, <2>3, <4>2, Zenon DEF GrantSelf, GrantTo
      <4>3. CASE ~Apply(a) /\ ~GrantSelf(a)
        BY <1>2, <2>3, <4>3, Zenon DEF timeVars, Step, ReadBound, Select, Recheck,
           SnapshotPending, ReadTsoBound, FilterOne, DrainOne,
           DrainSelf, Route, Enqueue, Deliver
      <4>4. QED  BY <4>1, <4>2, <4>3, Zenon
    <3>3. pc[a] = "grant_self" /\ pending_advance[a] = time[a]
      BY <1>2, <2>3, <3>1, <3>2, Zenon DEF OwnRequests
    <3>4. GrantSelf(a)
      BY <2>3, <3>3, Zenon DEF Step, ReadBound, Select, Apply, Recheck,
         SnapshotPending, ReadTsoBound, FilterOne, DrainOne,
         DrainSelf, Route, Enqueue, Deliver
    <3>5. QED  BY <1>2, <2>3, <3>3, <3>4, Zenon DEF GrantSelf, GrantTo
  <2>4. QED  BY <1>2, <2>1, <2>2, <2>3, Zenon
<1>3. QED  BY <1>1, <1>2, Zenon DEF Next, OwnRequests

SteadyInv == BoundsLow /\ OwnRequests

----------------------------------------------------------------------------
(* No request that could be granted is left waiting.                       *)

\* A federate does not become constrained while it has a request: the handler
\* of the request is still running.
LEMMA StaysFree ==
    ASSUME TypeOK, OwnRequests, NEW a \in Federates, Call(a) \/ Step(a),
           NEW f \in Federates, f \notin is_constrained, pending_advance[f] # None
    PROVE  f \notin is_constrained'
<1>1. CASE f # a
  BY <1>1, OthersStep, Zenon
<1>2. CASE f = a
  <2>1. ~EnableTimeConstrained(a)
    BY <1>2, Zenon DEF EnableTimeConstrained, Begin, OwnRequests
  <2>2. is_constrained' \subseteq is_constrained
    BY <2>1, Zenon DEF Call, EnableTimeRegulation,
       TimeAdvanceRequest, UpdateAttributeValuesWithTime, ModifyLookahead,
       DisableTimeRegulation, DisableTimeConstrained, Resign, RemoveFederate,
       SendInteractionWithTime, Send, Join, roleVars,
       Step, ReadBound, Select, Apply, Recheck, SnapshotPending,
       ReadTsoBound, FilterOne, DrainOne, GrantSelf, DrainSelf, Route,
       Enqueue, Deliver
  <2>3. QED  BY <2>2, Zenon
<1>3. QED  BY <1>1, <1>2, Zenon

\* Only a joined federate has a request.
MembersOnly == \A f \in Federates \ federates : pending_advance[f] = None

\* Requests come from joined federates and go when they leave.
LEMMA MembersOnlyStep ==
    ASSUME TypeOK, MembersOnly, [Next]_vars
    PROVE  MembersOnly'
<1>1. CASE UNCHANGED vars
  BY <1>1, Zenon DEF vars, roleVars, timeVars, MembersOnly
<1>2. ASSUME NEW a \in Federates, Call(a) \/ Step(a), NEW f \in Federates, f \notin federates'
      PROVE  pending_advance'[f] = None
  <2>1. CASE f # a
    BY <1>2, <2>1, OthersStep, Zenon DEF MembersOnly
  <2>2. CASE f = a /\ Call(a)
    BY <1>2, <2>2, Zenon DEF Call, EnableTimeRegulation, EnableTimeConstrained,
       TimeAdvanceRequest, UpdateAttributeValuesWithTime, ModifyLookahead,
       DisableTimeRegulation, DisableTimeConstrained, Resign, RemoveFederate, Begin,
       SendInteractionWithTime, Send, Join, roleVars, timeVars, MembersOnly, TypeOK
  <2>3. CASE f = a /\ Step(a)
    <3>1. f \notin federates
      BY <1>2, <2>3, Zenon DEF Step, ReadBound, Select, Apply, Recheck, SnapshotPending,
         ReadTsoBound, FilterOne, DrainOne, GrantSelf, DrainSelf, Route, Enqueue,
         Deliver, roleVars
    <3>2. pending_advance[f] = None
      BY <3>1, Zenon DEF MembersOnly
    <3>3. \/ pending_advance' = pending_advance \/ \E S : GrantTo(S)
      BY <2>3, Zenon DEF Step, ReadBound, Select, Apply, Recheck, SnapshotPending,
         ReadTsoBound, FilterOne, DrainOne, GrantSelf, DrainSelf, Route, Enqueue,
         Deliver, timeVars
    <3>4. QED  BY <3>2, <3>3, Zenon DEF GrantTo
  <2>4. QED  BY <1>2, <2>1, <2>2, <2>3, Zenon
<1>3. QED  BY <1>1, <1>2, Zenon DEF Next, MembersOnly

\* A request that can be granted.
Ready(f) ==
    /\ f \in federates /\ pending_advance[f] # None
    /\ f \notin is_constrained \/ pending_advance[f] <= Lbts

\* The sections of a handler before it reads LBTS for the grant pass proper.
Early == {"try_grant", "snapshot", "read_tso_bound", "filter", "drain",
          "grant_self", "drain_self"}

\* Session s is going to read LBTS anew, or has seen the request of f and will
\* grant it, or finds that LBTS has risen and starts over.
Attends(s, f) ==
    \/ pc[s] \in Early
    \/ pc[s] = "select" /\ (f \notin is_constrained \/ pending_advance[f] <= bound[s])
    \/ pc[s] = "apply" /\ <<f, pending_advance[f]>> \in to_grant[s]
    \/ pc[s] = "recheck" /\ bound[s] < Lbts

Attended ==
    /\ MembersOnly
    /\ \A f \in Federates : Ready(f) => \E s \in Federates : Attends(s, f)

\* Besides steady roles: nobody resigns, for no grant pass follows.
NobodyLeaves == "resign" \notin Services

\* LBTS depends on the roles and times only.
LEMMA LbtsSame ==
    ASSUME UNCHANGED <<current_time, lookahead, is_regulating>>
    PROVE  Lbts' = Lbts
BY Zenon DEF Lbts

\* A grant pass that leaves the request of f behind has either passed it over
\* for good reason or finds LBTS risen and starts over.
LEMMA ApplyAttends ==
    ASSUME Steady, TypeOK, TypeOK', LbtsLeast, LbtsLeast', PendingNotBehind, BoundsLow, Attended,
           NEW a \in Federates, Apply(a), NEW f \in Federates, Ready(f)'
    PROVE  \E s \in Federates : Attends(s, f)'
<1>1. Lbts \in Nat /\ Lbts' \in Nat /\ Lbts <= Lbts'
  BY LbtsRises, Zenon DEF Next, Step
<1>2. /\ pc[a] = "apply" /\ pc'[a] = "recheck" /\ bound' = bound
      /\ UNCHANGED <<federates, is_constrained>>
  BY Zenon DEF Apply, Goto, roleVars, TypeOK
<1>3. pending_advance'[f] = pending_advance[f] /\ f \notin Granted(a)
  BY Zenon DEF Apply, GrantTo, Ready
<1>4. pending_advance[f] \in Nat /\ bound[a] \in Nat /\ bound[a] <= Lbts
  BY <1>3, TimesAssumption, Zenon DEF Ready, TypeOK, BoundsLow
<1>5. CASE Ready(f)
  <2>1. PICK s \in Federates : Attends(s, f)
    BY <1>5, Zenon DEF Attended
  <2>2. CASE s = a
    <3>1. <<f, pending_advance[f]>> \in to_grant[a]
      BY <1>2, <2>1, <2>2, Zenon DEF Attends, Early
    <3>2. f \in Granted(a)
      BY <1>5, <3>1, Zenon DEF Granted, Ready
    <3>3. QED  BY <1>3, <3>2, Zenon
  <2>3. CASE s # a
    <3>1. pc'[s] = pc[s] /\ bound'[s] = bound[s] /\ to_grant'[s] = to_grant[s]
      BY <2>3, OthersStep, Zenon DEF Step
    <3>2. bound[s] \in Nat
      BY Zenon DEF TypeOK
    <3>3. bound[s] < Lbts => bound[s] < Lbts'
      BY <1>1, <3>2
    <3>4. Attends(s, f)'
      BY <1>2, <1>3, <2>1, <3>1, <3>3, Zenon DEF Attends
    <3>5. QED  BY <3>4, Zenon
  <2>4. QED  BY <2>2, <2>3, Zenon
<1>6. CASE ~Ready(f)
  <2>1. f \in is_constrained /\ ~(pending_advance[f] <= Lbts) /\ pending_advance[f] <= Lbts'
    BY <1>2, <1>3, <1>6, Zenon DEF Ready
  <2>2. bound[a] < Lbts'
    BY <1>1, <1>4, <2>1
  <2>3. Attends(a, f)'
    BY <1>2, <2>2, Zenon DEF Attends
  <2>4. QED  BY <2>3, Zenon
<1>7. QED  BY <1>5, <1>6, Zenon

\* A step that grants nothing and changes no commitment leaves every request
\* attended.
LEMMA QuietAttends ==
    ASSUME Steady, NobodyLeaves, TypeOK, LbtsLeast, BoundsLow, OwnRequests, Attended,
           NEW a \in Federates, Call(a) \/ Step(a),
           UNCHANGED <<timeVars, is_regulating, lookahead>>,
           NEW f \in Federates, Ready(f)'
    PROVE  \E s \in Federates : Attends(s, f)'
<1>1. Lbts' = Lbts /\ pending_advance' = pending_advance
  BY LbtsSame, Zenon DEF timeVars
<1>2. ~DisableTimeConstrained(a) /\ ~Resign(a)
  BY Zenon DEF Steady, NobodyLeaves, DisableTimeConstrained, Resign, Begin
<1>3. is_constrained \subseteq is_constrained'
  BY <1>2, Zenon DEF Call, EnableTimeRegulation, EnableTimeConstrained,
     TimeAdvanceRequest, UpdateAttributeValuesWithTime, ModifyLookahead,
     DisableTimeRegulation, SendInteractionWithTime, Send, Join, roleVars,
     Step, ReadBound, Select, Apply, Recheck, SnapshotPending,
     ReadTsoBound, FilterOne, DrainOne, GrantSelf, DrainSelf, Route,
     Enqueue, Deliver
<1>4. f \in federates
  BY <1>1, Zenon DEF Attended, MembersOnly, Ready
<1>5. Ready(f)
  BY <1>1, <1>3, <1>4, Zenon DEF Ready
<1>6. PICK s \in Federates : Attends(s, f)
  BY <1>5, Zenon DEF Attended
<1>7. f \in is_constrained' => f \in is_constrained
  BY <1>5, StaysFree, Zenon DEF Ready
<1>8. CASE s # a
  <2>1. pc'[s] = pc[s] /\ bound'[s] = bound[s] /\ to_grant'[s] = to_grant[s]
    BY <1>8, OthersStep, Zenon
  <2>2. Attends(s, f)'
    BY <1>1, <1>6, <1>7, <2>1, Zenon DEF Attends
  <2>3. QED  BY <2>2, Zenon
<1>9. CASE s = a /\ pc'[a] \in Early
  <2>1. Attends(a, f)'
    BY <1>9, Zenon DEF Attends
  <2>2. QED  BY <2>1, Zenon
<1>10. CASE s = a /\ pc[a] = "select" /\ Step(a)
  <2>1. Select(a)
    BY <1>10, Zenon DEF Step, ReadBound, Apply, Recheck, SnapshotPending,
       ReadTsoBound, FilterOne, DrainOne, GrantSelf, DrainSelf, Route, Enqueue, Deliver
  <2>2. f \notin is_constrained \/ pending_advance[f] <= bound[a]
    BY <1>6, <1>10, Zenon DEF Attends, Early
  <2>3. <<f, pending_advance[f]>> \in Grantable(a)
    <3>1. <<f, pending_advance[f]>> \in Pendings(federates)
      BY <1>5, Zenon DEF Pendings, Ready
    <3>2. QED  BY <2>2, <3>1 DEF Grantable
  <2>4. pc'[a] = "apply" /\ to_grant'[a] = Grantable(a)
    BY <2>1, <2>3, Zenon DEF Select, Goto, TypeOK
  <2>5. Attends(a, f)'
    BY <1>1, <2>3, <2>4, Zenon DEF Attends
  <2>6. QED  BY <2>5, Zenon
<1>11. CASE s = a /\ pc[a] = "recheck" /\ Step(a)
  <2>1. Recheck(a)
    BY <1>11, Zenon DEF Step, ReadBound, Apply, Select, SnapshotPending,
       ReadTsoBound, FilterOne, DrainOne, GrantSelf, DrainSelf, Route, Enqueue, Deliver
  <2>2. bound[a] < Lbts
    BY <1>6, <1>11, Zenon DEF Attends, Early
  <2>3. Lbts > bound[a]
    <3>1. Lbts \in Nat /\ bound[a] \in Nat
      BY Zenon DEF TypeOK, LbtsLeast
    <3>2. QED  BY <2>2, <3>1
  <2>4. pc'[a] = "try_grant"
    BY <2>1, <2>3, Zenon DEF Recheck, LbtsRose, Goto, TypeOK
  <2>5. QED  BY <1>9, <1>11, <2>4, Zenon DEF Early
<1>12. CASE s = a /\ pc[a] \in Early /\ Step(a)
  <2>1. pc'[a] \in Early \/ ReadBound(a)
    BY <1>12, Zenon DEF Step, Select, Apply, Recheck, SnapshotPending,
       ReadTsoBound, FilterOne, DrainOne, GrantSelf, DrainSelf, Route, Enqueue,
       Deliver, Goto, TypeOK, Early
  <2>2. CASE ReadBound(a)
    <3>1. pc'[a] = "select" /\ bound'[a] = Lbts
      BY <2>2, Zenon DEF ReadBound, Goto, TypeOK
    <3>2. Attends(a, f)'
      BY <1>1, <3>1, Zenon DEF Attends, Ready
    <3>3. QED  BY <3>2, Zenon
  <2>3. QED  BY <1>9, <1>12, <2>1, <2>2, Zenon
<1>13. CASE s = a /\ pc[a] = "apply" /\ Step(a)
  <2>1. Apply(a)
    BY <1>13, Zenon DEF Step, ReadBound, Recheck, Select, SnapshotPending,
       ReadTsoBound, FilterOne, DrainOne, GrantSelf, DrainSelf, Route, Enqueue, Deliver
  <2>2. f \in Granted(a)
    BY <1>5, <1>6, <1>13, Zenon DEF Attends, Granted, Ready, Early
  <2>3. QED  BY <1>1, <1>5, <2>1, <2>2, Zenon DEF Apply, GrantTo, Ready
<1>14. CASE s = a /\ Call(a)
  <2>1. pc[a] = "idle" \/ UNCHANGED frameVars
    BY <1>14, Zenon DEF Call, EnableTimeRegulation, EnableTimeConstrained,
       TimeAdvanceRequest, UpdateAttributeValuesWithTime, ModifyLookahead,
       DisableTimeRegulation, DisableTimeConstrained, Resign,
       SendInteractionWithTime, Send, Join, Begin
  <2>2. CASE pc[a] = "idle"
    BY <1>6, <1>14, <2>2, Zenon DEF Attends, Early
  <2>3. CASE UNCHANGED frameVars
    <3>1. Attends(a, f)'
      BY <1>1, <1>6, <1>7, <1>14, <2>3, Zenon DEF Attends, frameVars
    <3>2. QED  BY <3>1, Zenon
  <2>4. QED  BY <2>1, <2>2, <2>3, Zenon
<1>15. pc[s] \in Early \cup {"select", "apply", "recheck"}
  BY <1>6, Zenon DEF Attends
<1>16. QED  BY <1>8, <1>10, <1>11, <1>12, <1>13, <1>14, <1>15, Zenon

\* Every step leaves every request that can be granted attended.
LEMMA AttendedStep ==
    ASSUME Steady, NobodyLeaves, TypeOK, TypeOK', LbtsLeast, LbtsLeast', PendingNotBehind, BoundsLow,
           OwnRequests, Attended, [Next]_vars
    PROVE  Attended'
<1>1. ASSUME NEW f \in Federates, Ready(f)' PROVE \E s \in Federates : Attends(s, f)'
  <2>1. CASE UNCHANGED vars
    <3>1. Lbts' = Lbts
      BY <2>1, LbtsSame, Zenon DEF vars, roleVars, timeVars
    <3>2. Ready(f)
      BY <1>1, <2>1, <3>1, Zenon DEF vars, roleVars, timeVars, Ready
    <3>3. PICK s \in Federates : Attends(s, f)
      BY <3>2, Zenon DEF Attended
    <3>4. Attends(s, f)'
      BY <2>1, <3>1, <3>3, Zenon DEF vars, roleVars, timeVars, frameVars, Attends
    <3>5. QED  BY <3>4, Zenon
  <2>2. ASSUME NEW a \in Federates, Call(a) \/ Step(a)
        PROVE  \E s \in Federates : Attends(s, f)'
    <3>1. CASE Apply(a)
      BY <1>1, <3>1, ApplyAttends, Zenon
    <3>2. CASE pc'[a] \in Early
      <4>1. Attends(a, f)'
        BY <3>2, Zenon DEF Attends
      <4>2. QED  BY <4>1, Zenon
    <3>3. CASE UNCHANGED <<timeVars, is_regulating, lookahead>>
      BY <1>1, <2>2, <3>3, QuietAttends, Zenon
    <3>4. CASE Call(a)
      <4>1. ~\E l \in Lookaheads : EnableTimeRegulation(a, l) \/ ModifyLookahead(a, l)
        BY Zenon DEF Steady, EnableTimeRegulation, ModifyLookahead, Begin
      <4>2. ~Resign(a)
        BY Zenon DEF NobodyLeaves, Resign, Begin
      <4>3. ASSUME DisableTimeRegulation(a) \/ \E t \in Times : TimeAdvanceRequest(a, t)
            PROVE  pc'[a] \in Early
        <5>1. CASE DisableTimeRegulation(a)
          BY <5>1, Zenon DEF DisableTimeRegulation, Goto, Early, TypeOK
        <5>2. ASSUME NEW t \in Times, TimeAdvanceRequest(a, t) PROVE pc'[a] \in Early
          <6>1. Goto(a, "grant_self") \/ Goto(a, "snapshot")
            BY <5>2, Zenon DEF TimeAdvanceRequest
          <6>2. QED  BY <6>1, Zenon DEF Goto, Early, TypeOK
        <5>3. QED  BY <4>3, <5>1, <5>2, Zenon
      <4>4. pc'[a] \in Early \/ UNCHANGED <<timeVars, is_regulating, lookahead>>
        BY <3>4, <4>1, <4>2, <4>3, Zenon DEF Call, EnableTimeConstrained,
           UpdateAttributeValuesWithTime, DisableTimeConstrained,
           SendInteractionWithTime, Send, Join, roleVars
      <4>5. QED  BY <3>2, <3>3, <4>4, Zenon
    <3>5. CASE Step(a) /\ ~Apply(a)
      <4>1. GrantSelf(a) => pc'[a] \in Early
        BY Zenon DEF GrantSelf, Goto, Early, TypeOK
      <4>2. GrantSelf(a) \/ UNCHANGED <<timeVars, is_regulating, lookahead>>
        BY <3>5, Zenon DEF Step, ReadBound, Select, Recheck, SnapshotPending,
           ReadTsoBound, FilterOne, DrainOne, DrainSelf, Route, Enqueue, Deliver, roleVars
      <4>3. QED  BY <3>2, <3>3, <4>1, <4>2, Zenon
    <3>6. QED  BY <2>2, <3>1, <3>4, <3>5, Zenon
  <2>3. QED  BY <2>1, <2>2, Zenon DEF Next
<1>2. MembersOnly'
  BY MembersOnlyStep, Zenon DEF Attended
<1>3. QED  BY <1>1, <1>2, Zenon DEF Attended

----------------------------------------------------------------------------
(* Messages leave the queue with a grant.                                  *)

\* A federate that has resigned: its handle is not used again.
Gone(f) == f \notin federates /\ calls[f] # 0

\* A federate that has left does not come back, logical time does not go back,
\* and a request stays until it is granted or its federate leaves.
LEMMA RequestStays ==
    ASSUME TypeOK, TypeOK', PendingNotBehind,
           NEW a \in Federates, Call(a) \/ Step(a), NEW f \in Federates
    PROVE  /\ Gone(f) => Gone(f)'
           /\ current_time[f] <= current_time'[f]
           /\ pending_advance[f] # None =>
                 \/ Gone(f)'
                 \/ pending_advance'[f] = pending_advance[f]
                 \/ current_time'[f] = pending_advance[f]
<1>0. /\ current_time[f] \in Nat /\ calls[f] \in Nat
      /\ pending_advance[f] # None =>
            pending_advance[f] \in Nat /\ current_time[f] <= pending_advance[f]
  BY TimesAssumption, Zenon DEF TypeOK, PendingNotBehind
<1>1. CASE f # a
  <2>1. calls'[f] = calls[f] /\ (f \in federates' <=> f \in federates)
    BY <1>1, OthersStep, Zenon
  <2>2. \/ pending_advance'[f] = pending_advance[f] /\ current_time'[f] = current_time[f]
        \/ pending_advance[f] # None /\ current_time'[f] = pending_advance[f]
    BY <1>1, OthersStep, Zenon
  <2>3. current_time[f] <= current_time'[f]
    BY <1>0, <2>2
  <2>4. QED  BY <2>1, <2>2, <2>3, Zenon DEF Gone
<1>2. CASE f = a
  <2>1. CASE Resign(a)
    <3>1. f \notin federates' /\ calls'[f] = calls[f] + 1 /\ current_time' = current_time
      BY <1>2, <2>1, Zenon DEF Resign, RemoveFederate, Begin, TypeOK
    <3>2. Gone(f)'
      BY <1>0, <3>1 DEF Gone
    <3>3. current_time[f] <= current_time'[f]
      BY <1>0, <3>1
    <3>4. QED  BY <3>2, <3>3, Zenon
  <2>2. CASE Call(a) /\ ~Resign(a)
    <3>1. current_time' = current_time
      BY <2>2, Zenon DEF Call, EnableTimeRegulation, EnableTimeConstrained,
         TimeAdvanceRequest, UpdateAttributeValuesWithTime, ModifyLookahead,
         DisableTimeRegulation, DisableTimeConstrained,
         SendInteractionWithTime, Send, Join, timeVars
    <3>2. pending_advance'[f] = pending_advance[f] \/ pending_advance[f] = None
      BY <1>2, <2>2, Zenon DEF Call, EnableTimeRegulation, EnableTimeConstrained,
         TimeAdvanceRequest, UpdateAttributeValuesWithTime, ModifyLookahead,
         DisableTimeRegulation, DisableTimeConstrained, MayRequest,
         SendInteractionWithTime, Send, Join, timeVars
    <3>3. Gone(f) => UNCHANGED <<federates, calls>>
      BY <1>2, <2>2, Zenon DEF Call, EnableTimeRegulation, EnableTimeConstrained,
         TimeAdvanceRequest, UpdateAttributeValuesWithTime, ModifyLookahead,
         DisableTimeRegulation, DisableTimeConstrained, Begin,
         SendInteractionWithTime, Send, Join, Gone
    <3>4. current_time[f] <= current_time'[f]
      BY <1>0, <3>1
    <3>5. QED  BY <3>2, <3>3, <3>4, Zenon DEF Gone
  <2>3. CASE Step(a)
    <3>1. UNCHANGED <<federates, calls>>
      BY <2>3, Zenon DEF Step, ReadBound, Select, Apply, Recheck, SnapshotPending,
         ReadTsoBound, FilterOne, DrainOne, GrantSelf, DrainSelf, Route, Enqueue,
         Deliver, roleVars, countVars
    <3>2. ASSUME NEW S, GrantTo(S), f \in S => pending_advance[f] # None
          PROVE  \/ pending_advance'[f] = pending_advance[f] /\ current_time'[f] = current_time[f]
                 \/ pending_advance[f] # None /\ current_time'[f] = pending_advance[f]
      BY <3>2, Zenon DEF GrantTo
    <3>3. \/ pending_advance'[f] = pending_advance[f] /\ current_time'[f] = current_time[f]
          \/ pending_advance[f] # None /\ current_time'[f] = pending_advance[f]
      <4>1. CASE Apply(a)
        BY <3>2, <4>1, Zenon DEF Apply, Granted
      <4>2. CASE GrantSelf(a)
        <5>1. pending_advance[f] = time[f] => pending_advance[f] # None
          BY TimesAssumption, Zenon DEF TypeOK
        <5>2. QED  BY <1>2, <3>2, <4>2, <5>1, Zenon DEF GrantSelf
      <4>3. CASE ~Apply(a) /\ ~GrantSelf(a)
        BY <2>3, <4>3, Zenon DEF Step, ReadBound, Select, Recheck, SnapshotPending,
           ReadTsoBound, FilterOne, DrainOne, DrainSelf, Route, Enqueue,
           Deliver, timeVars
      <4>4. QED  BY <4>1, <4>2, <4>3, Zenon
    <3>4. current_time[f] <= current_time'[f]
      BY <1>0, <3>3
    <3>5. QED  BY <3>1, <3>3, <3>4, Zenon DEF Gone
  <2>4. QED  BY <2>1, <2>2, <2>3, Zenon
<1>3. QED  BY <1>1, <1>2, Zenon

\* The time was granted, or is asked for, or its federate is gone.
Seen(f, t) == Gone(f) \/ t <= current_time[f] \/ pending_advance[f] = t

\* The same, and what is asked for can be granted.
Passes(f, t) ==
    \/ Gone(f)
    \/ t <= current_time[f]
    \/ pending_advance[f] = t /\ (f \notin is_constrained \/ t <= Lbts)

\* The callbacks that release no message, or release it no earlier than the
\* grant up to its time stamp.
Settled ==
    {cb \in Callbacks :
        cb.kind = "tso" => Gone(cb.to) \/ cb.time <= current_time[cb.to]}

\* What was seen, or passed, or is settled, stays so: LBTS only rises, and a
\* request goes only with its grant or its federate.
LEMMA ReleaseStays ==
    ASSUME Steady, TypeOK, TypeOK', LbtsLeast, LbtsLeast', PendingNotBehind, OwnRequests,
           NEW a \in Federates, Call(a) \/ Step(a)
    PROVE  /\ \A f \in Federates, t \in Times : Seen(f, t) => Seen(f, t)'
           /\ \A f \in Federates, t \in Times : Passes(f, t) => Passes(f, t)'
           /\ Settled \subseteq Settled'
<1>0. Lbts \in Nat /\ Lbts' \in Nat /\ Lbts <= Lbts'
  BY LbtsRises, Zenon DEF Next
<1>1. ASSUME NEW f \in Federates, NEW t \in Times, t <= current_time[f]
      PROVE  t <= current_time'[f]
  <2>1. t \in Nat /\ current_time[f] \in Nat /\ current_time'[f] \in Nat
    BY TimesAssumption, Zenon DEF TypeOK
  <2>2. current_time[f] <= current_time'[f]
    BY RequestStays, Zenon
  <2>3. QED  BY <1>1, <2>1, <2>2
<1>2. ASSUME NEW f \in Federates, NEW t \in Times, pending_advance[f] = t
      PROVE  Gone(f)' \/ t <= current_time'[f] \/ pending_advance'[f] = t
  <2>1. t \in Nat /\ t # None
    BY TimesAssumption, Zenon
  <2>2. Gone(f)' \/ pending_advance'[f] = t \/ current_time'[f] = t
    BY <1>2, <2>1, RequestStays, Zenon
  <2>3. current_time'[f] = t => t <= current_time'[f]
    BY <2>1
  <2>4. QED  BY <2>2, <2>3, Zenon
<1>3. ASSUME NEW f \in Federates, NEW t \in Times, Seen(f, t) PROVE Seen(f, t)'
  <2>1. Gone(f) => Gone(f)'
    BY RequestStays, Zenon
  <2>2. QED  BY <1>1, <1>2, <1>3, <2>1, Zenon DEF Seen
<1>4. ASSUME NEW f \in Federates, NEW t \in Times, Passes(f, t) PROVE Passes(f, t)'
  <2>1. Gone(f) => Gone(f)'
    BY RequestStays, Zenon
  <2>2. ASSUME pending_advance[f] = t, f \notin is_constrained \/ t <= Lbts
        PROVE  f \notin is_constrained' \/ t <= Lbts'
    <3>1. t \in Nat /\ t # None
      BY TimesAssumption, Zenon
    <3>2. CASE f \notin is_constrained
      BY <2>2, <3>1, <3>2, StaysFree, Zenon
    <3>3. CASE t <= Lbts
      <4>1. t <= Lbts'
        BY <1>0, <3>1, <3>3
      <4>2. QED  BY <4>1, Zenon
    <3>4. QED  BY <2>2, <3>2, <3>3, Zenon
  <2>3. QED  BY <1>1, <1>2, <1>4, <2>1, <2>2, Zenon DEF Passes
<1>5. ASSUME NEW cb \in Settled PROVE cb \in Settled'
  <2>1. cb.to \in Federates /\ cb.time \in Times
    BY <1>5, Zenon DEF Settled, Callbacks
  <2>2. Gone(cb.to) => Gone(cb.to)'
    BY <2>1, RequestStays, Zenon
  <2>3. QED  BY <1>1, <1>5, <2>1, <2>2, Zenon DEF Settled
<1>6. QED  BY <1>3, <1>4, <1>5, Zenon

\* What a session holds on its way through the two passes: the requests it has
\* seen, those that passed the filter, and its own.
Held(s) ==
    /\ pc[s] \in {"read_tso_bound", "filter"} => \A x \in todo[s] : Seen(x[1], x[2])
    /\ pc[s] \in {"filter", "drain"} => \A x \in to_grant[s] : Passes(x[1], x[2])
    /\ pc[s] \notin {"filter", "drain", "apply"} => to_grant[s] = {}
    /\ pc[s] = "grant_self" => Seen(s, time[s])
    /\ pc[s] = "drain_self" => Gone(s) \/ time[s] <= current_time[s]

\* The requests a session holds name a federate and a time.
LEMMA RequestsHeld ==
    ASSUME TypeOK, NEW s \in Federates, NEW x \in todo[s] \cup to_grant[s]
    PROVE  x[1] \in Federates /\ x[2] \in Times /\ x = <<x[1], x[2]>>
<1>1. x \in Requests
  BY Zenon DEF TypeOK
<1>2. QED  BY <1>1 DEF Requests

\* The steps of the other sessions do not spoil what a session holds.
LEMMA HeldByOthers ==
    ASSUME Steady, TypeOK, TypeOK', LbtsLeast, LbtsLeast', PendingNotBehind, OwnRequests,
           NEW a \in Federates, Call(a) \/ Step(a),
           NEW s \in Federates, s # a, Held(s)
    PROVE  Held(s)'
<1>1. /\ pc'[s] = pc[s] /\ time'[s] = time[s] /\ todo'[s] = todo[s]
      /\ to_grant'[s] = to_grant[s]
  BY OthersStep, Zenon
<1>2. /\ \A f \in Federates, t \in Times : Seen(f, t) => Seen(f, t)'
      /\ \A f \in Federates, t \in Times : Passes(f, t) => Passes(f, t)'
  BY ReleaseStays, Zenon
<1>3. \A x \in todo[s] \cup to_grant[s] : x[1] \in Federates /\ x[2] \in Times
  BY RequestsHeld, Zenon
<1>4. pc'[s] \in {"read_tso_bound", "filter"} => \A x \in todo'[s] : Seen(x[1], x[2])'
  BY <1>1, <1>2, <1>3, Zenon DEF Held
<1>5. pc'[s] \in {"filter", "drain"} => \A x \in to_grant'[s] : Passes(x[1], x[2])'
  BY <1>1, <1>2, <1>3, Zenon DEF Held
<1>6. time[s] \in Times
  BY Zenon DEF TypeOK
<1>7. pc'[s] = "grant_self" => Seen(s, time[s])'
  <2>1. pc[s] = "grant_self" => Seen(s, time[s])
    BY Zenon DEF Held
  <2>2. QED  BY <1>1, <1>2, <1>6, <2>1, Zenon DEF Seen
<1>8. pc'[s] = "drain_self" => Gone(s)' \/ time'[s] <= current_time'[s]
  <2>1. Gone(s) => Gone(s)'
    BY RequestStays, Zenon
  <2>2. current_time[s] <= current_time'[s]
    BY RequestStays, Zenon
  <2>3. time[s] \in Nat /\ current_time[s] \in Nat /\ current_time'[s] \in Nat
    BY TimesAssumption, Zenon DEF TypeOK
  <2>4. time[s] <= current_time[s] => time[s] <= current_time'[s]
    BY <2>2, <2>3
  <2>5. QED  BY <1>1, <2>1, <2>4, Zenon DEF Held
<1>9. QED  BY <1>1, <1>4, <1>5, <1>7, <1>8, Zenon DEF Held, Seen

\* A session's own steps keep what it holds: the snapshot sees the requests
\* outstanding, the filter compares them with a bound below LBTS.
LEMMA HeldByOwn ==
    ASSUME Steady, TypeOK, TypeOK', LbtsLeast, LbtsLeast', PendingNotBehind, BoundsLow, OwnRequests,
           NEW a \in Federates, Call(a) \/ Step(a), Held(a)
    PROVE  Held(a)'
<1>1. /\ \A f \in Federates, t \in Times : Seen(f, t) => Seen(f, t)'
      /\ \A f \in Federates, t \in Times : Passes(f, t) => Passes(f, t)'
  BY ReleaseStays, Zenon
<1>2. \A x \in todo[a] \cup to_grant[a] : x[1] \in Federates /\ x[2] \in Times
  BY RequestsHeld, Zenon
<1>3. pc \in [Federates -> Labels] /\ todo \in [Federates -> SUBSET Requests]
      /\ to_grant \in [Federates -> SUBSET Requests] /\ time \in [Federates -> Times]
  BY Zenon DEF TypeOK
<1>10. CASE pc'[a] \notin {"read_tso_bound", "filter", "drain", "apply", "grant_self",
                           "drain_self"} /\ to_grant'[a] = {}
  BY <1>10, Zenon DEF Held
<1>11. CASE SnapshotPending(a)
  <2>1. pc[a] = "snapshot" /\ pc'[a] = "read_tso_bound" /\ to_grant' = to_grant
        /\ todo'[a] = Pendings(federates) /\ UNCHANGED <<roleVars, timeVars, countVars>>
    BY <1>3, <1>11, Zenon DEF SnapshotPending, Goto
  <2>2. ASSUME NEW x \in todo'[a] PROVE Seen(x[1], x[2])'
    <3>1. PICK f \in federates : x = <<f, pending_advance[f]>>
      BY <2>1, <2>2, Zenon DEF Pendings
    <3>2. x[1] = f /\ x[2] = pending_advance[f]
      BY <3>1
    <3>3. QED  BY <2>1, <3>2, Zenon DEF Seen, timeVars
  <2>3. QED  BY <2>1, <2>2, Zenon DEF Held
<1>12. CASE ReadTsoBound(a)
  <2>1. pc[a] = "read_tso_bound" /\ pc'[a] \in {"try_grant", "filter"}
        /\ to_grant' = to_grant /\ todo' = todo
    <3>1. pc'[a] = IF todo[a] = {} THEN "try_grant" ELSE "filter"
      BY <1>3, <1>12, Zenon DEF ReadTsoBound, Goto
    <3>2. QED  BY <1>12, <3>1, Zenon DEF ReadTsoBound
  <2>2. to_grant'[a] = {}
    BY <2>1, Zenon DEF Held
  <2>3. \A x \in todo'[a] : Seen(x[1], x[2])'
    BY <1>1, <1>2, <2>1, Zenon DEF Held
  <2>4. QED  BY <2>1, <2>2, <2>3, Zenon DEF Held
<1>13. ASSUME NEW x \in todo[a], FilterOne(a, x) PROVE Held(a)'
  <2>1. pc[a] = "filter" /\ todo'[a] = todo[a] \ {x}
        /\ to_grant'[a] \subseteq to_grant[a] \cup {x}
        /\ UNCHANGED <<roleVars, timeVars, countVars>>
    BY <1>3, <1>13, Zenon DEF FilterOne
  <2>2. pc'[a] = IF todo'[a] # {} THEN "filter"
                 ELSE IF to_grant'[a] # {} THEN "drain" ELSE "try_grant"
    BY <1>3, <1>13, Zenon DEF FilterOne, Goto
  <2>3. ASSUME x \in to_grant'[a], x \notin to_grant[a] PROVE Passes(x[1], x[2])
    <3>1. x[1] \notin is_constrained \/ x[2] <= bound[a]
      BY <1>3, <1>13, <2>3, Zenon DEF FilterOne
    <3>2. x[2] \in Nat /\ bound[a] \in Nat /\ bound[a] <= Lbts /\ Lbts \in Nat
      BY <1>2, TimesAssumption, Zenon DEF TypeOK, BoundsLow, LbtsLeast
    <3>3. x[2] <= bound[a] => x[2] <= Lbts
      BY <3>2
    <3>4. Seen(x[1], x[2])
      BY <2>1, Zenon DEF Held
    <3>5. QED  BY <3>1, <3>3, <3>4, Zenon DEF Seen, Passes
  <2>4. \A y \in to_grant[a] : Passes(y[1], y[2])
    BY <2>1, Zenon DEF Held
  <2>5. \A y \in to_grant'[a] : Passes(y[1], y[2])'
    BY <1>1, <1>2, <2>1, <2>3, <2>4, Zenon
  <2>6. \A y \in todo'[a] : Seen(y[1], y[2])'
    BY <1>1, <1>2, <2>1, Zenon DEF Held
  <2>7. pc'[a] \in {"filter", "drain", "try_grant"} /\ (pc'[a] = "try_grant" => to_grant'[a] = {})
    BY <2>2, Zenon
  <2>8. QED  BY <2>5, <2>6, <2>7, Zenon DEF Held
<1>14. ASSUME NEW x \in to_grant[a], DrainOne(a, x) PROVE Held(a)'
  <2>1. pc[a] = "drain" /\ to_grant'[a] = to_grant[a] \ {x}
    BY <1>3, <1>14, Zenon DEF DrainOne
  <2>2. pc'[a] = IF to_grant'[a] # {} THEN "drain" ELSE "try_grant"
    BY <1>3, <1>14, Zenon DEF DrainOne, Goto
  <2>3. \A y \in to_grant'[a] : Passes(y[1], y[2])'
    BY <1>1, <1>2, <2>1, Zenon DEF Held
  <2>4. QED  BY <2>2, <2>3, Zenon DEF Held
<1>15. CASE GrantSelf(a)
  <2>1. pc[a] = "grant_self" /\ pc'[a] = "drain_self" /\ to_grant' = to_grant /\ time' = time
    BY <1>3, <1>15, Zenon DEF GrantSelf, Goto
  <2>2. Seen(a, time[a]) /\ to_grant[a] = {}
    BY <2>1, Zenon DEF Held
  <2>3. time[a] \in Nat /\ current_time[a] \in Nat /\ current_time'[a] \in Nat
        /\ time[a] \in Times
    BY TimesAssumption, Zenon DEF TypeOK
  <2>4. CASE pending_advance[a] = time[a]
    <3>1. current_time'[a] = time[a]
      BY <1>15, <2>4, Zenon DEF GrantSelf, GrantTo
    <3>2. time[a] <= current_time'[a]
      BY <2>3, <3>1
    <3>3. QED  BY <2>1, <2>2, <3>2, Zenon DEF Held
  <2>5. CASE Gone(a)
    <3>1. Gone(a)'
      BY <2>5, RequestStays, Zenon
    <3>2. QED  BY <2>1, <2>2, <3>1, Zenon DEF Held
  <2>6. CASE time[a] <= current_time[a]
    <3>1. current_time[a] <= current_time'[a]
      BY RequestStays, Zenon
    <3>2. time[a] <= current_time'[a]
      BY <2>3, <2>6, <3>1
    <3>3. QED  BY <2>1, <2>2, <3>2, Zenon DEF Held
  <2>7. QED  BY <2>2, <2>4, <2>5, <2>6, Zenon DEF Seen
<1>16. CASE Select(a)
  <2>1. CASE Grantable(a) = {}
    <3>1. to_grant'[a] = {} /\ pc'[a] \in {"idle", "deliver"}
      BY <1>3, <1>16, <2>1, Zenon DEF Select, Finish
    <3>2. QED  BY <3>1, Zenon DEF Held
  <2>2. CASE Grantable(a) # {}
    <3>1. pc'[a] = "apply"
      BY <1>3, <1>16, <2>2, Zenon DEF Select, Goto
    <3>2. QED  BY <3>1, Zenon DEF Held
  <2>3. QED  BY <2>1, <2>2, Zenon
<1>17. CASE ReadBound(a) \/ Apply(a) \/ Recheck(a) \/ DrainSelf(a)
  <2>1. to_grant[a] = {} \/ Apply(a)
    BY <1>17, Zenon DEF Held, ReadBound, Recheck, DrainSelf
  <2>2. to_grant'[a] = {}
    BY <1>3, <1>17, <2>1, Zenon DEF Apply, ReadBound, Recheck, DrainSelf
  <2>3. pc'[a] \in {"select", "recheck", "try_grant", "idle", "deliver", "snapshot"}
    BY <1>3, <1>17, Zenon DEF Apply, ReadBound, Recheck, DrainSelf, Goto, Finish
  <2>4. QED  BY <1>10, <2>2, <2>3, Zenon
<1>18. CASE Route(a) \/ Enqueue(a) \/ Deliver(a)
  <2>1. to_grant[a] = {}
    BY <1>18, Zenon DEF Held, Route, Enqueue, Deliver
  <2>2. to_grant'[a] = {}
    BY <1>18, <2>1, Zenon DEF Route, Enqueue, Deliver
  <2>3. pc'[a] \in {"enqueue", "idle", "deliver"}
    BY <1>3, <1>18, Zenon DEF Route, Enqueue, Deliver, Goto, Finish
  <2>4. QED  BY <1>10, <2>2, <2>3, Zenon
<1>19. ASSUME NEW t \in Times, TimeAdvanceRequest(a, t) PROVE Held(a)'
  <2>1. pc[a] = "idle" /\ to_grant' = to_grant
    BY <1>19, Zenon DEF TimeAdvanceRequest, Begin
  <2>2. to_grant'[a] = {}
    BY <2>1, Zenon DEF Held
  <2>3. CASE a \in is_constrained
    <3>1. pc'[a] = "snapshot"
      BY <1>3, <1>19, <2>3, Zenon DEF TimeAdvanceRequest, Goto
    <3>2. QED  BY <1>10, <2>2, <3>1, Zenon
  <2>4. CASE a \notin is_constrained
    <3>1. pc'[a] = "grant_self" /\ time'[a] = t
      BY <1>3, <1>19, <2>4, Zenon DEF TimeAdvanceRequest, Goto
    <3>2. pending_advance'[a] = t
      BY <1>19, Zenon DEF TimeAdvanceRequest, TypeOK
    <3>3. QED  BY <2>2, <3>1, <3>2, Zenon DEF Held, Seen
  <2>5. QED  BY <2>3, <2>4, Zenon
<1>20. CASE Call(a) /\ UNCHANGED frameVars
  <2>1. /\ pc'[a] = pc[a] /\ time'[a] = time[a] /\ todo'[a] = todo[a]
        /\ to_grant'[a] = to_grant[a] /\ (pc[a] = "idle" \/ Join(a))
    BY <1>20, Zenon DEF frameVars, Call, EnableTimeRegulation, EnableTimeConstrained,
         TimeAdvanceRequest, UpdateAttributeValuesWithTime, ModifyLookahead,
         DisableTimeRegulation, DisableTimeConstrained, Resign, Begin,
         SendInteractionWithTime, Send
  <2>2. CASE pc[a] = "idle"
    <3>1. to_grant[a] = {}
      BY <2>2, Zenon DEF Held
    <3>2. QED  BY <2>1, <2>2, <3>1, Zenon DEF Held
  <2>3. CASE Join(a)
    <3>1. \A x \in todo'[a] : Seen(x[1], x[2]) => Seen(x[1], x[2])'
      BY <1>1, <1>2, <2>1, Zenon
    <3>2. \A x \in to_grant'[a] : Passes(x[1], x[2]) => Passes(x[1], x[2])'
      BY <1>1, <1>2, <2>1, Zenon
    <3>3. Seen(a, time[a]) => Seen(a, time[a])'
      <4>1. time[a] \in Times
        BY Zenon DEF TypeOK
      <4>2. QED  BY <1>1, <2>1, <4>1, Zenon DEF Seen
    <3>4. current_time' = current_time /\ (Gone(a) => Gone(a)')
      BY <2>3, RequestStays, Zenon DEF Join, timeVars
    <3>5. QED  BY <2>1, <3>1, <3>2, <3>3, <3>4, Zenon DEF Held, Seen
  <2>4. QED  BY <2>1, <2>2, <2>3, Zenon
<1>21. CASE Call(a) /\ ~(\E t \in Times : TimeAdvanceRequest(a, t)) /\ ~UNCHANGED frameVars
  <2>1. pc[a] = "idle" /\ to_grant' = to_grant
    BY <1>21, Zenon DEF Call, EnableTimeRegulation, EnableTimeConstrained,
       UpdateAttributeValuesWithTime, ModifyLookahead,
       DisableTimeRegulation, DisableTimeConstrained, Resign, Begin,
       SendInteractionWithTime, Send, Join
  <2>2. to_grant'[a] = {}
    BY <2>1, Zenon DEF Held
  <2>3. pc'[a] \in {"try_grant", "route", "idle", "deliver"}
    BY <1>3, <1>21, Zenon DEF Call, EnableTimeRegulation, EnableTimeConstrained,
       UpdateAttributeValuesWithTime, ModifyLookahead,
       DisableTimeRegulation, DisableTimeConstrained, Resign,
       SendInteractionWithTime, Send, Join, Goto, Finish
  <2>4. QED  BY <1>10, <2>2, <2>3, Zenon
<1>22. CASE Step(a)
  BY <1>11, <1>12, <1>13, <1>14, <1>15, <1>16, <1>17, <1>18, <1>22, Zenon DEF Step
<1>23. QED  BY <1>19, <1>20, <1>21, <1>22, Zenon

\* Session s is on its way to grant the request of f, and will.
Grants(s, f) ==
    /\ Ready(f)
    /\ \/ pc[s] \in {"drain", "try_grant"}
       \/ pc[s] = "select" /\ (f \notin is_constrained \/ pending_advance[f] <= bound[s])
       \/ pc[s] = "apply" /\ <<f, pending_advance[f]>> \in to_grant[s]

\* What session s may have among its callbacks: what is settled, and the
\* messages it has drained for a grant that it will make itself if nobody
\* else does before.
Covered(s) ==
    {cb \in Callbacks :
        \/ cb \in Settled
        \/ Grants(s, cb.to) /\ cb.time <= pending_advance[cb.to]}

\* A session on its way to grant a request stays on it until the request is gone.
LEMMA GrantsStay ==
    ASSUME Steady, TypeOK, TypeOK', OwnRequests,
           NEW a \in Federates, Call(a) \/ Step(a),
           NEW s \in Federates, NEW f \in Federates, Grants(s, f), Ready(f)',
           pending_advance'[f] = pending_advance[f]
    PROVE  Grants(s, f)'
<1>1. pending_advance[f] # None /\ f \in federates /\ pc \in [Federates -> Labels]
  BY Zenon DEF Grants, Ready, TypeOK
<1>2. f \notin is_constrained => f \notin is_constrained'
  BY <1>1, StaysFree, Zenon
<1>3. CASE s # a \/ UNCHANGED frameVars
  <2>1. pc'[s] = pc[s] /\ bound'[s] = bound[s] /\ to_grant'[s] = to_grant[s]
    <3>1. CASE s # a
      BY <3>1, OthersStep, Zenon
    <3>2. CASE UNCHANGED frameVars
      BY <3>2, Zenon DEF frameVars
    <3>3. QED  BY <1>3, <3>1, <3>2, Zenon
  <2>2. QED  BY <1>2, <2>1, Zenon DEF Grants
<1>4. CASE s = a /\ Call(a) /\ ~UNCHANGED frameVars
  <2>1. pc[s] = "idle"
    BY <1>4, Zenon DEF Call, EnableTimeRegulation, EnableTimeConstrained,
       TimeAdvanceRequest, UpdateAttributeValuesWithTime, ModifyLookahead,
       DisableTimeRegulation, DisableTimeConstrained, Resign, Begin,
       SendInteractionWithTime, Send, Join
  <2>2. QED  BY <2>1, Zenon DEF Grants
<1>5. CASE s = a /\ Step(a)
  <2>1. CASE pc[s] = "drain"
    <3>1. PICK x \in to_grant[s] : DrainOne(s, x)
      BY <1>5, <2>1, Zenon DEF Step, ReadBound, Select, Apply, Recheck, SnapshotPending,
         ReadTsoBound, FilterOne, GrantSelf, DrainSelf, Route, Enqueue, Deliver
    <3>2. pc'[s] \in {"drain", "try_grant"}
      BY <1>1, <3>1, Zenon DEF DrainOne, Goto
    <3>3. QED  BY <3>2, Zenon DEF Grants
  <2>2. CASE pc[s] = "try_grant"
    <3>1. ReadBound(s)
      BY <1>5, <2>2, Zenon DEF Step, DrainOne, Select, Apply, Recheck, SnapshotPending,
         ReadTsoBound, FilterOne, GrantSelf, DrainSelf, Route, Enqueue, Deliver
    <3>2. pc'[s] = "select" /\ bound'[s] = Lbts /\ UNCHANGED <<roleVars, timeVars>>
      BY <1>1, <3>1, Zenon DEF ReadBound, Goto, TypeOK
    <3>3. Lbts' = Lbts
      BY <3>2, LbtsSame, Zenon DEF roleVars, timeVars
    <3>4. QED  BY <3>2, <3>3, Zenon DEF Grants, Ready
  <2>3. CASE pc[s] = "select"
    <3>1. Select(s)
      BY <1>5, <2>3, Zenon DEF Step, DrainOne, ReadBound, Apply, Recheck, SnapshotPending,
         ReadTsoBound, FilterOne, GrantSelf, DrainSelf, Route, Enqueue, Deliver
    <3>2. f \notin is_constrained \/ pending_advance[f] <= bound[s]
      BY <2>3, Zenon DEF Grants
    <3>3. <<f, pending_advance[f]>> \in Pendings(federates)
      BY <1>1, Zenon DEF Pendings
    <3>4. <<f, pending_advance[f]>> \in Grantable(s)
      BY <3>2, <3>3 DEF Grantable
    <3>5. pc'[s] = "apply" /\ to_grant'[s] = Grantable(s)
      <4>1. Goto(s, "apply") /\ to_grant' = [to_grant EXCEPT ![s] = Grantable(s)]
        BY <3>1, <3>4, Zenon DEF Select
      <4>2. QED  BY <1>1, <4>1, Zenon DEF Goto, TypeOK
    <3>6. QED  BY <3>4, <3>5, Zenon DEF Grants
  <2>4. CASE pc[s] = "apply"
    <3>1. Apply(s)
      BY <1>5, <2>4, Zenon DEF Step, DrainOne, Select, ReadBound, Recheck, SnapshotPending,
         ReadTsoBound, FilterOne, GrantSelf, DrainSelf, Route, Enqueue, Deliver
    <3>2. f \in Granted(s)
      BY <1>1, <2>4, Zenon DEF Grants, Granted
    <3>3. QED  BY <1>1, <3>1, <3>2, Zenon DEF Apply, GrantTo
  <2>5. QED  BY <2>1, <2>2, <2>3, <2>4, Zenon DEF Grants
<1>6. QED  BY <1>3, <1>4, <1>5, Zenon

\* What may be among the callbacks of a session may stay there.
LEMMA CoveredStays ==
    ASSUME Steady, TypeOK, TypeOK', LbtsLeast, LbtsLeast', PendingNotBehind, OwnRequests, MembersOnly',
           NEW a \in Federates, Call(a) \/ Step(a), NEW s \in Federates
    PROVE  Covered(s) \subseteq Covered(s)'
<1>1. SUFFICES ASSUME NEW cb \in Covered(s) PROVE cb \in Covered(s)'
  BY Zenon
<1>2. cb \in Callbacks /\ cb.to \in Federates /\ cb.time \in Times
  BY <1>1, Zenon DEF Covered, Callbacks
<1>3. CASE cb \in Settled
  BY <1>2, <1>3, ReleaseStays, Zenon DEF Covered
<1>4. CASE Grants(s, cb.to) /\ cb.time <= pending_advance[cb.to]
  <2> DEFINE f == cb.to
  <2>0. f \in Federates
    BY <1>2, Zenon
  <2> HIDE DEF f
  <2>1. pending_advance[f] # None /\ pending_advance[f] \in Times
        /\ (f \notin is_constrained \/ pending_advance[f] <= Lbts)
    BY <1>4, <2>0, Zenon DEF Grants, Ready, TypeOK, f
  <2>2. CASE Gone(f)'
    BY <1>2, <2>2, Zenon DEF Covered, Settled, f
  <2>3. CASE current_time'[f] = pending_advance[f]
    BY <1>2, <1>4, <2>3, Zenon DEF Covered, Settled, f
  <2>4. CASE pending_advance'[f] = pending_advance[f]
    <3>1. f \in federates'
      BY <2>0, <2>1, <2>4, Zenon DEF MembersOnly
    <3>2. f \notin is_constrained' \/ pending_advance[f] <= Lbts'
      <4>1. CASE f \notin is_constrained
        BY <2>0, <2>1, <4>1, StaysFree, Zenon
      <4>2. CASE pending_advance[f] <= Lbts
        <5>1. Lbts \in Nat /\ Lbts' \in Nat /\ Lbts <= Lbts'
          BY LbtsRises, Zenon DEF Next
        <5>2. pending_advance[f] \in Nat
          BY <2>1, TimesAssumption, Zenon
        <5>3. pending_advance[f] <= Lbts'
          BY <4>2, <5>1, <5>2
        <5>4. QED  BY <5>3, Zenon
      <4>3. QED  BY <2>1, <4>1, <4>2, Zenon
    <3>3. Ready(f)'
      BY <2>1, <2>4, <3>1, <3>2, Zenon DEF Ready
    <3>4. Grants(s, f)'
      BY <1>4, <2>0, <2>4, <3>3, GrantsStay, Zenon DEF f
    <3>5. QED  BY <1>2, <1>4, <2>4, <3>4, Zenon DEF Covered, f
  <2>5. QED  BY <2>0, <2>1, <2>2, <2>3, <2>4, RequestStays, Zenon
<1>5. QED  BY <1>1, <1>3, <1>4, Zenon DEF Covered

----------------------------------------------------------------------------
(* No message from the past.                                               *)

\* Only updates carry time stamps, and nobody becomes constrained: a message
\* without the check of the lookahead, or a federate that has run ahead and
\* then asks to be constrained, is outside the promise.
Promising == Services \cap {"interaction", "enable_constrained"} = {}

\* No constrained federate is ahead of what a regulating one has promised, and
\* an unconstrained sender still keeps the promise when it routes.
PastInv ==
    /\ raced = {}
    /\ \A s \in is_regulating, f \in is_constrained :
          current_time[f] <= current_time[s] + lookahead[s]
    /\ \A s \in is_regulating \ is_constrained :
          pc[s] = "route" => HonoursLookahead(s, time[s])

\* Every step keeps the promise.
LEMMA PastInvStep ==
    ASSUME Steady, Promising, TypeOK, TypeOK', LbtsLeast, PendingNotBehind, GrantInv, OwnRequests,
           PastInv, [Next]_vars
    PROVE  PastInv'
<1>1. CASE UNCHANGED vars
  BY <1>1, Zenon DEF PastInv, HonoursLookahead, vars, roleVars, timeVars, frameVars
<1>2. ASSUME NEW a \in Federates, Call(a) \/ Step(a) PROVE PastInv'
  <2>1. /\ ~EnableTimeConstrained(a) /\ ~DisableTimeConstrained(a)
        /\ ~\E l \in Lookaheads : EnableTimeRegulation(a, l) \/ ModifyLookahead(a, l)
        /\ ~\E t \in Times : SendInteractionWithTime(a, t)
    BY Zenon DEF Steady, Promising, EnableTimeConstrained, DisableTimeConstrained,
       EnableTimeRegulation, ModifyLookahead, SendInteractionWithTime, Send, Begin
  <2>2. raced' \subseteq raced /\ lookahead' = lookahead
    BY <1>2, <2>1, Zenon DEF Call, TimeAdvanceRequest, UpdateAttributeValuesWithTime,
       DisableTimeRegulation, Resign, Send, Join, roleVars,
       Step, ReadBound, Select, Apply, Recheck, SnapshotPending,
       ReadTsoBound, FilterOne, DrainOne, GrantSelf, DrainSelf, Route,
       Enqueue, Deliver
  <2>3. is_regulating' \subseteq is_regulating /\ is_constrained' \subseteq is_constrained
        /\ \A s \in is_regulating' : s \in is_constrained => s \in is_constrained'
    BY <1>2, <2>1, Zenon DEF Call, TimeAdvanceRequest, UpdateAttributeValuesWithTime,
       DisableTimeRegulation, Resign, RemoveFederate, Send, Join, roleVars,
       Step, ReadBound, Select, Apply, Recheck, SnapshotPending,
       ReadTsoBound, FilterOne, DrainOne, GrantSelf, DrainSelf, Route,
       Enqueue, Deliver
  <2>4. \A f \in Federates : current_time[f] \in Nat /\ current_time'[f] \in Nat
                             /\ lookahead[f] \in Nat /\ time[f] \in Nat
    BY TimesAssumption, Zenon DEF TypeOK
  <2>5. \A f \in Federates : current_time[f] <= current_time'[f]
    BY <1>2, RequestStays, Zenon
  <2>6. raced' = {}
    BY <2>2, Zenon DEF PastInv
  <2>7. ASSUME NEW s \in is_regulating', NEW f \in is_constrained'
        PROVE  current_time'[f] <= current_time'[s] + lookahead'[s]
    <3>1. s \in is_regulating /\ f \in is_constrained /\ s \in Federates /\ f \in Federates
      BY <2>3, Zenon DEF TypeOK
    <3>2. current_time[f] <= current_time[s] + lookahead[s]
      BY <3>1, Zenon DEF PastInv
    <3>3. Lbts \in Nat /\ Lbts <= current_time[s] + lookahead[s]
      BY <3>1, Zenon DEF LbtsLeast
    <3>4. ~Overtakes(f)
      <4>1. CASE UNCHANGED vars
        BY <4>1, Zenon DEF Overtakes, vars, timeVars
      <4>2. CASE ~UNCHANGED vars
        <5>1. Overtakes(f) => \E r \in raced : TRUE
          BY <3>1, <4>2, NoOvertaking, Zenon
        <5>2. QED  BY <5>1, Zenon DEF PastInv
      <4>3. QED  BY <4>1, <4>2, Zenon
    <3>5. current_time'[f] = current_time[f] \/ ~(current_time'[f] > Lbts)
      BY <3>1, <3>4, Zenon DEF Overtakes
    <3>6. QED  BY <2>2, <2>4, <2>5, <3>1, <3>2, <3>3, <3>5
  <2>8. ASSUME NEW s \in is_regulating' \ is_constrained', pc'[s] = "route"
        PROVE  HonoursLookahead(s, time[s])'
    <3>1. s \in is_regulating /\ s \notin is_constrained /\ s \in Federates /\ s \in federates
      BY <2>3, <2>8, Zenon DEF TypeOK
    <3>2. CASE s # a
      <4>1. pc[s] = "route" /\ time'[s] = time[s]
        BY <1>2, <2>8, <3>1, <3>2, OthersStep, Zenon
      <4>2. pending_advance[s] = None
        BY <3>1, <4>1, Zenon DEF OwnRequests
      <4>3. current_time'[s] = current_time[s]
        BY <1>2, <3>1, <3>2, <4>2, OthersStep, Zenon
      <4>4. HonoursLookahead(s, time[s])
        BY <3>1, <4>1, Zenon DEF PastInv
      <4>5. QED  BY <2>2, <3>1, <4>1, <4>3, <4>4, Zenon DEF HonoursLookahead
    <3>3. CASE s = a
      <4>1. PICK t \in Times : UpdateAttributeValuesWithTime(a, t)
        <5>1. pc \in [Federates -> Labels]
          BY Zenon DEF TypeOK
        <5>2. ~Step(a)
          BY <2>8, <3>1, <3>3, <5>1, Zenon DEF Step, ReadBound, Select, Apply, Recheck,
             SnapshotPending, ReadTsoBound, FilterOne, DrainOne, GrantSelf, DrainSelf, Route,
             Enqueue, Deliver, Goto, Finish
        <5>3. ~Join(a) /\ ~Resign(a) /\ ~DisableTimeRegulation(a)
          BY <2>8, <3>1, <3>3, Zenon DEF Join, Resign, RemoveFederate, DisableTimeRegulation
        <5>4. ~\E u \in Times : TimeAdvanceRequest(a, u)
          BY <2>8, <3>3, <5>1, Zenon DEF TimeAdvanceRequest, Goto
        <5>5. QED  BY <1>2, <2>1, <5>2, <5>3, <5>4, Zenon DEF Call
      <4>2. time'[s] = t /\ current_time' = current_time /\ HonoursLookahead(s, t)
        BY <3>3, <4>1, Zenon DEF UpdateAttributeValuesWithTime, Send, timeVars, TypeOK
      <4>3. QED  BY <2>2, <3>1, <4>2, Zenon DEF HonoursLookahead
    <3>4. QED  BY <3>2, <3>3, Zenon
  <2>9. QED  BY <2>6, <2>7, <2>8, Zenon DEF PastInv
<1>3. QED  BY <1>1, <1>2, Zenon DEF Next

----------------------------------------------------------------------------
(* The operators the model is built from.                                  *)

\* What the provers know of sequences, as facts to cite: the length of a list.
LEMMA LenFacts ==
    ASSUME NEW S, NEW q \in Seq(S)
    PROVE  Len(q) \in Nat /\ q \in [1 .. Len(q) -> S] /\ DOMAIN q = 1 .. Len(q)
OBVIOUS

\* A function on an initial segment is a list.
LEMMA FunctionIsList ==
    ASSUME NEW S, NEW n \in Nat, NEW q \in [1 .. n -> S]
    PROVE  q \in Seq(S)
OBVIOUS

\* A list over a set is one over a larger set.
LEMMA MoreElements ==
    ASSUME NEW S, NEW T, NEW q \in Seq(S), S \subseteq T
    PROVE  q \in Seq(T)
OBVIOUS

\* What concatenation returns.
LEMMA ConcatFacts ==
    ASSUME NEW S, NEW p \in Seq(S), NEW q \in Seq(S)
    PROVE  /\ p \o q \in Seq(S)
           /\ Len(p \o q) = Len(p) + Len(q)
           /\ \A i \in 1 .. Len(p) + Len(q) :
                (p \o q)[i] = IF i <= Len(p) THEN p[i] ELSE q[i - Len(p)]
OBVIOUS

\* What SubSeq returns.
LEMMA SubSeqFacts ==
    ASSUME NEW S, NEW q, NEW m \in Int, NEW n \in Int, \A i \in m .. n : q[i] \in S
    PROVE  /\ SubSeq(q, m, n) \in Seq(S)
           /\ Len(SubSeq(q, m, n)) = IF m <= n THEN n - m + 1 ELSE 0
           /\ \A i \in 1 .. n - m + 1 : SubSeq(q, m, n)[i] = q[m + i - 1]
OBVIOUS

\* Head and tail of a list that has them.
LEMMA HeadTailFacts ==
    ASSUME NEW S, NEW q \in Seq(S), q # <<>>
    PROVE  Head(q) \in S /\ Tail(q) \in Seq(S)
OBVIOUS

\* What Append returns.
LEMMA AppendFacts ==
    ASSUME NEW S, NEW q \in Seq(S), NEW x \in S
    PROVE  /\ Append(q, x) \in Seq(S)
           /\ Len(Append(q, x)) = Len(q) + 1
           /\ \A i \in 1 .. Len(q) : Append(q, x)[i] = q[i]
           /\ Append(q, x)[Len(q) + 1] = x
OBVIOUS

\* A nonempty set of naturals has a least element.
LEMMA LeastNatural ==
    ASSUME NEW S \in SUBSET Nat, S # {}
    PROVE  \E x \in S : \A y \in S : x <= y
<1>1. PICK x \in S : \A y \in S : ~(<<y, x>> \in OpToRel(<, Nat))
    BY WFMin, NatLessThanWellFounded, Zenon
<1>2. \A y \in S : ~(y < x)
    BY <1>1, Zenon DEF OpToRel
<1> QED BY <1>2

\* FiniteSetsExt!Min of a nonempty set of naturals is its least element.
LEMMA MinNatural ==
    ASSUME NEW S \in SUBSET Nat, S # {}
    PROVE  Min(S) \in S /\ \A y \in S : Min(S) <= y
<1>1. \E x \in S : \A y \in S : x <= y
    BY LeastNatural, Zenon
<1> QED BY <1>1, Zenon DEF Min

\* partition_point on a sorted queue splits it at the given time.
LEMMA PartitionPointSplits ==
    ASSUME NEW q \in Seq(Messages), NEW t \in Times,
           \A i, j \in DOMAIN q : i < j => q[i].time <= q[j].time
    PROVE  LET k == PartitionPoint(q, t)
           IN /\ k \in 0 .. Len(q)
              /\ \A i \in 1 .. k : q[i].time <= t
              /\ \A i \in k + 1 .. Len(q) : q[i].time > t
<1> DEFINE Above == {i \in 1 .. Len(q) : q[i].time > t}
           Splits(k) == /\ \A i \in 1 .. k : q[i].time <= t
                        /\ \A i \in k + 1 .. Len(q) : q[i].time > t
<1>a. q \in [1 .. Len(q) -> Messages] /\ Len(q) \in Nat
    BY LenFacts, Zenon
<1>0. \A i \in 1 .. Len(q) : q[i].time \in Nat
    BY <1>a, TimesAssumption, Zenon DEF Messages
<1>1. \E k \in 0 .. Len(q) : Splits(k)
  <2>1. CASE Above = {}
    <3>1. Len(q) \in 0 .. Len(q)
        BY LenFacts
    <3>2. Splits(Len(q))
        BY <1>0, <2>1, TimesAssumption, LenFacts
    <3> QED BY <3>1, <3>2, Zenon
  <2>2. CASE Above # {}
    <3>0. Above \in SUBSET Nat
        BY <1>a
    <3>1. PICK x \in Above : \A y \in Above : x <= y
      <4> HIDE DEF Above
      <4> QED BY <2>2, <3>0, LeastNatural, Zenon
    <3>2. x - 1 \in 0 .. Len(q)
        BY LenFacts
    <3>3. Splits(x - 1)
      <4>1. \A i \in 1 .. x - 1 : q[i].time <= t
          BY <1>0, <3>1, LenFacts, TimesAssumption
      <4>2. ASSUME NEW i \in x .. Len(q)
            PROVE  q[i].time > t
        <5>1. /\ x \in 1 .. Len(q) /\ i \in 1 .. Len(q)
              /\ q[x].time > t
              /\ x <= i
            BY <1>a
        <5>2. q[x].time <= q[i].time
            BY <1>0, <1>a, <5>1
        <5> QED BY <1>0, <5>1, <5>2, TimesAssumption
      <4> QED BY <4>1, <4>2
    <3> QED BY <3>2, <3>3, Zenon
  <2> QED BY <2>1, <2>2, Zenon
<1> QED BY <1>1, Zenon DEF PartitionPoint

\* The order of a TSO queue.
Sorted(q) == \A i, j \in DOMAIN q : i < j => q[i].time <= q[j].time

\* What SubSeq returns for the front and for the back of a queue.
LEMMA PrefixProperties ==
    ASSUME NEW q \in Seq(Messages), NEW k \in 0 .. Len(q)
    PROVE  /\ SubSeq(q, 1, k) \in Seq(Messages)
           /\ Len(SubSeq(q, 1, k)) = k
           /\ \A i \in 1 .. k : SubSeq(q, 1, k)[i] = q[i]
<1>1. q \in [1 .. Len(q) -> Messages] /\ Len(q) \in Nat
    BY LenFacts, Zenon
<1>2. \A i \in 1 .. k : q[i] \in Messages
    BY <1>1
<1>3. 1 \in Int /\ k \in Int
    BY <1>1
<1> QED BY <1>1, <1>2, <1>3, SubSeqFacts

\* What is left of a queue from a position on.
LEMMA SuffixProperties ==
    ASSUME NEW q \in Seq(Messages), NEW k \in 0 .. Len(q)
    PROVE  /\ SubSeq(q, k + 1, Len(q)) \in Seq(Messages)
           /\ Len(SubSeq(q, k + 1, Len(q))) = Len(q) - k
           /\ \A i \in 1 .. Len(q) - k : SubSeq(q, k + 1, Len(q))[i] = q[k + i]
<1>1. q \in [1 .. Len(q) -> Messages] /\ Len(q) \in Nat
    BY LenFacts, Zenon
<1> DEFINE m == k + 1
           n == Len(q)
<1>2. \A i \in m .. n : q[i] \in Messages
    BY <1>1
<1>3. m \in Int /\ n \in Int
    BY <1>1
<1> HIDE DEF m, n
<1>4. /\ SubSeq(q, m, n) \in Seq(Messages)
      /\ Len(SubSeq(q, m, n)) = IF m <= n THEN n - m + 1 ELSE 0
      /\ \A i \in 1 .. n - m + 1 : SubSeq(q, m, n)[i] = q[m + i - 1]
    BY <1>2, <1>3, SubSeqFacts
<1>5. n - m + 1 = n - k /\ \A i \in Int : m + i - 1 = k + i
    BY <1>1 DEF m, n
<1>6. k \in Int /\ k <= n
    BY <1>1 DEF n
<1>7. Len(SubSeq(q, m, n)) = n - k
    BY <1>3, <1>4, <1>6 DEF m
<1>8. \A i \in 1 .. n - k : SubSeq(q, m, n)[i] = q[k + i]
    BY <1>3, <1>4, <1>5, <1>6
<1> QED BY <1>4, <1>7, <1>8, Zenon DEF m, n

\* A drain leaves a sorted queue and releases messages of it.
LEMMA DrainSorted ==
    ASSUME NEW q \in Seq(Messages), NEW t \in Times, Sorted(q)
    PROVE  /\ Later(q, t) \in Seq(Messages) /\ Sorted(Later(q, t))
           /\ Due(q, t) \in Seq(Messages)
<1> DEFINE k == PartitionPoint(q, t)
<1>1. k \in 0 .. Len(q)
    BY PartitionPointSplits, Zenon DEF Sorted
<1>2. q \in [1 .. Len(q) -> Messages] /\ Len(q) \in Nat
    BY LenFacts, Zenon
<1> HIDE DEF k
<1>3. /\ SubSeq(q, k + 1, Len(q)) \in Seq(Messages)
      /\ Len(SubSeq(q, k + 1, Len(q))) = Len(q) - k
      /\ \A i \in 1 .. Len(q) - k : SubSeq(q, k + 1, Len(q))[i] = q[k + i]
    BY <1>1, <1>2, SuffixProperties, Zenon
<1>4. Sorted(SubSeq(q, k + 1, Len(q)))
  <2>1. DOMAIN SubSeq(q, k + 1, Len(q)) = 1 .. Len(q) - k
      BY <1>3, LenFacts, Zenon
  <2> SUFFICES ASSUME NEW i \in 1 .. Len(q) - k, NEW j \in 1 .. Len(q) - k, i < j
               PROVE  q[k + i].time <= q[k + j].time
      BY <1>3, <2>1, Zenon DEF Sorted
  <2> QED BY <1>1, <1>2 DEF Sorted
<1>5. SubSeq(q, 1, k) \in Seq(Messages)
    BY <1>1, PrefixProperties, Zenon
<1> QED BY <1>3, <1>4, <1>5, Zenon DEF k, Later, Due

\* An insertion at the partition point leaves a sorted queue.
LEMMA InsertSorted ==
    ASSUME NEW q \in Seq(Messages), NEW m \in Messages, Sorted(q)
    PROVE  InsertByTime(q, m) \in Seq(Messages) /\ Sorted(InsertByTime(q, m))
<1> DEFINE k == PartitionPoint(q, m.time)
           lo == SubSeq(q, 1, k)
           hi == SubSeq(q, k + 1, Len(q))
           r  == (lo \o <<m>>) \o hi
<1>0. m.time \in Times
    BY Zenon DEF Messages
<1>1. /\ k \in 0 .. Len(q)
      /\ \A i \in 1 .. k : q[i].time <= m.time
      /\ \A i \in k + 1 .. Len(q) : q[i].time > m.time
    BY <1>0, PartitionPointSplits, Zenon DEF Sorted
<1>2. q \in [1 .. Len(q) -> Messages] /\ Len(q) \in Nat
    BY LenFacts, Zenon
<1>a. \A i \in 1 .. Len(q) : q[i].time \in Nat
    BY <1>2, TimesAssumption, Zenon DEF Messages
<1> HIDE DEF k
<1>3. /\ lo \in Seq(Messages) /\ Len(lo) = k
      /\ \A i \in 1 .. k : lo[i] = q[i]
    BY <1>1, PrefixProperties, Zenon
<1>4. /\ hi \in Seq(Messages) /\ Len(hi) = Len(q) - k
      /\ \A i \in 1 .. Len(q) - k : hi[i] = q[k + i]
    BY <1>1, SuffixProperties, Zenon
<1> HIDE DEF lo, hi
<1>5. /\ lo \o <<m>> \in Seq(Messages) /\ Len(lo \o <<m>>) = k + 1
      /\ \A i \in 1 .. k + 1 : (lo \o <<m>>)[i] = IF i <= k THEN lo[i] ELSE m
    BY <1>1, <1>3, ConcatFacts
<1> DEFINE l == lo \o <<m>>
<1> HIDE DEF l
<1>6. /\ l \o hi \in Seq(Messages) /\ Len(l \o hi) = Len(q) + 1
      /\ \A i \in 1 .. Len(q) + 1 : (l \o hi)[i] =
            IF i <= k + 1 THEN l[i] ELSE hi[i - (k + 1)]
  <2>1. l \in Seq(Messages) /\ Len(l) = k + 1
      BY <1>5, Zenon DEF l
  <2>2. /\ l \o hi \in Seq(Messages)
        /\ Len(l \o hi) = Len(l) + Len(hi)
        /\ \A i \in 1 .. Len(l) + Len(hi) : (l \o hi)[i] =
                IF i <= Len(l) THEN l[i] ELSE hi[i - Len(l)]
      BY <1>4, <2>1, ConcatFacts, Zenon
  <2>3. Len(l) + Len(hi) = Len(q) + 1
      BY <1>1, <1>2, <1>4, <2>1
  <2> QED BY <2>1, <2>2, <2>3, Zenon
<1>7. /\ \A i \in 1 .. k : (l \o hi)[i] = q[i]
      /\ (l \o hi)[k + 1] = m
      /\ \A i \in k + 2 .. Len(q) + 1 : (l \o hi)[i] = q[i - 1]
  <2>1. \A i \in 1 .. k : (l \o hi)[i] = q[i]
      BY <1>1, <1>2, <1>3, <1>5, <1>6 DEF l
  <2>2. (l \o hi)[k + 1] = m
      BY <1>1, <1>2, <1>5, <1>6 DEF l
  <2>3. ASSUME NEW i \in k + 2 .. Len(q) + 1
        PROVE  (l \o hi)[i] = q[i - 1]
    <3>1. /\ i \in 1 .. Len(q) + 1 /\ ~ (i <= k + 1)
          /\ i - (k + 1) \in 1 .. Len(q) - k
          /\ k + (i - (k + 1)) = i - 1
        BY <1>1, <1>2
    <3>2. (l \o hi)[i] = hi[i - (k + 1)]
        BY <1>6, <3>1, Zenon
    <3>3. hi[i - (k + 1)] = q[k + (i - (k + 1))]
        BY <1>4, <3>1, Zenon
    <3> QED BY <3>1, <3>2, <3>3, Zenon
  <2> QED BY <2>1, <2>2, <2>3, Zenon
<1>8. Sorted(l \o hi)
  <2> DEFINE w == l \o hi
  <2>1. DOMAIN w = 1 .. Len(q) + 1
      BY <1>6, LenFacts, Zenon
  <2>2. m.time \in Nat
      BY <1>0, TimesAssumption, Zenon
  <2>3. \A i, j \in 1 .. Len(q) : i < j => q[i].time <= q[j].time
      BY <1>2, Zenon DEF Sorted
  <2> HIDE DEF w
  <2>4. /\ \A i \in 1 .. k : w[i] = q[i]
        /\ w[k + 1] = m
        /\ \A i \in k + 2 .. Len(q) + 1 : w[i] = q[i - 1]
      BY <1>7, Zenon DEF w
  <2>5. \A i, j \in 1 .. Len(q) + 1 : i < j => w[i].time <= w[j].time
    <3> DEFINE n == Len(q)
    <3>1. n \in Nat /\ k \in 0 .. n
        BY <1>1, <1>2, Zenon
    <3> HIDE DEF n
    <3>2. SUFFICES \A i, j \in 1 .. n + 1 : i < j => w[i].time <= w[j].time
        BY Zenon DEF n
    <3>3. /\ n \in Nat /\ k \in 0 .. n /\ m.time \in Nat
          /\ \A i \in 1 .. n : q[i].time \in Nat
          /\ \A i, j \in 1 .. n : i < j => q[i].time <= q[j].time
          /\ \A i \in k + 1 .. n : q[i].time > m.time
          /\ \A i \in 1 .. k : q[i].time <= m.time
          /\ \A i \in 1 .. k : w[i] = q[i]
          /\ w[k + 1] = m
          /\ \A i \in k + 2 .. n + 1 : w[i] = q[i - 1]
        BY <1>1, <1>a, <2>2, <2>3, <2>4, <3>1, Zenon DEF n
    <3> TAKE i, j \in 1 .. n + 1
    <3> HAVE i < j
    <3>4. CASE j <= k
      <4>1. i \in 1 .. k /\ j \in 1 .. k /\ i \in 1 .. n /\ j \in 1 .. n
          BY <3>3, <3>4
      <4> QED BY <3>3, <4>1, Zenon
    <3>5. CASE j = k + 1
      <4>1. i \in 1 .. k
          BY <3>3, <3>5
      <4> QED BY <3>3, <3>5, <4>1, Zenon
    <3>6. CASE j > k + 1 /\ i <= k
      <4>1. i \in 1 .. k /\ i \in 1 .. n /\ j \in k + 2 .. n + 1
            /\ j - 1 \in 1 .. n /\ i < j - 1
          BY <3>3, <3>6
      <4>2. w[i] = q[i] /\ w[j] = q[j - 1]
          BY <3>3, <4>1, Zenon
      <4> QED BY <3>3, <4>1, <4>2, Zenon
    <3>7. CASE j > k + 1 /\ i = k + 1
      <4>1. j \in k + 2 .. n + 1 /\ j - 1 \in k + 1 .. n /\ j - 1 \in 1 .. n
          BY <3>3, <3>7
      <4>2. w[i] = m /\ w[j] = q[j - 1]
          BY <3>3, <3>7, <4>1, Zenon
      <4> QED BY <3>3, <4>1, <4>2
    <3>8. CASE i > k + 1
      <4>1. i \in k + 2 .. n + 1 /\ j \in k + 2 .. n + 1 /\ i - 1 \in 1 .. n
            /\ j - 1 \in 1 .. n /\ i - 1 < j - 1
          BY <3>3, <3>8
      <4>2. w[i] = q[i - 1] /\ w[j] = q[j - 1]
          BY <3>3, <4>1, Zenon
      <4> QED BY <3>3, <4>1, <4>2, Zenon
    <3> QED BY <3>3, <3>4, <3>5, <3>6, <3>7, <3>8
  <2> QED BY <2>1, <2>5, Zenon DEF w, Sorted
<1>9. InsertByTime(q, m) = l \o hi
  <2>1. (k + 1) - 1 = k
      BY <1>1
  <2> QED BY <2>1, Zenon DEF InsertByTime, k, l, lo, hi
<1> QED BY <1>6, <1>8, <1>9, Zenon

\* ListOf lists a finite set.
LEMMA ListOfType ==
    ASSUME NEW S, IsFiniteSet(S)
    PROVE  ListOf(S) \in Seq(S)
<1>1. Cardinality(S) \in Nat /\ ExistsBijection(1 .. Cardinality(S), S)
    BY FS_CardinalityType, Zenon
<1>2. \E f \in [1 .. Cardinality(S) -> S] : IsInjective(f)
    BY <1>1, Zenon DEF ExistsBijection, Bijection, Injection
<1>3. ListOf(S) \in [1 .. Cardinality(S) -> S]
    BY <1>2, Zenon DEF ListOf
<1> QED BY <1>1, <1>3, FunctionIsList, Zenon

\* A list of one callback for each federate of a set.
LEMMA CallbackListType ==
    ASSUME NEW S \in SUBSET Federates, NEW h \in [S -> Callbacks]
    PROVE  ListOf({h[f] : f \in S}) \in Seq(Callbacks)
<1> DEFINE T == {h[f] : f \in S}
<1>1. IsFiniteSet(S)
    BY RolesAssumption, FS_Subset, Zenon
<1>2. h \in Surjection(S, T)
    BY Zenon DEF Surjection
<1>3. IsFiniteSet(T)
    BY <1>1, <1>2, FS_Surjection, Zenon
<1>4. T \subseteq Callbacks
    OBVIOUS
<1> HIDE DEF T
<1>5. ListOf(T) \in Seq(T)
    BY <1>3, ListOfType, Zenon
<1> QED BY <1>4, <1>5, MoreElements, Zenon DEF T

\* The TAGs of a grant pass.
LEMMA TagsType ==
    ASSUME TypeOK, NEW s, NEW S \in SUBSET Federates,
           \A f \in S : pending_advance[f] # None
    PROVE  Tags(s, S) \in Seq(Callbacks)
<1> DEFINE h == [f \in S |-> Tag(f, pending_advance[f])]
<1>1. h \in [S -> Callbacks]
    BY Zenon DEF TypeOK, Tag, Callbacks
<1>2. {Tag(f, pending_advance[f]) : f \in S} = {h[f] : f \in S}
    OBVIOUS
<1> HIDE DEF h
<1> QED BY <1>1, <1>2, CallbackListType, Zenon DEF Tags

\* The callbacks of the messages a drain releases.
LEMMA ReleasedType ==
    ASSUME NEW f \in Federates, NEW q \in Seq(Messages)
    PROVE  ReleasedTo(f, q) \in Seq(Callbacks)
<1>1. q \in [1 .. Len(q) -> Messages] /\ Len(q) \in Nat
    BY LenFacts, Zenon
<1>2. ReleasedTo(f, q) \in [1 .. Len(q) -> Callbacks]
    BY <1>1, Zenon DEF ReleasedTo, Released, Callbacks, Messages
<1> QED BY <1>1, <1>2, FunctionIsList

\* LBTS is the least of the commitments and Infinity.
LEMMA LbtsIsLeast == TypeOK => LbtsLeast
<1> SUFFICES ASSUME TypeOK PROVE LbtsLeast
    BY Zenon
<1> DEFINE S == {current_time[f] + lookahead[f] : f \in is_regulating}
                    \cup {Infinity}
<1>0. \A f \in is_regulating : current_time[f] + lookahead[f] \in Nat
  <2> TAKE f \in is_regulating
  <2>1. current_time[f] \in Nat /\ lookahead[f] \in Nat
      BY TimesAssumption, Zenon DEF TypeOK
  <2> QED BY <2>1
<1>1. S \in SUBSET Nat /\ S # {}
    BY <1>0, TimesAssumption, Zenon
<1>2. Min(S) \in S /\ \A y \in S : Min(S) <= y
  <2> HIDE DEF S
  <2> QED BY <1>1, MinNatural, Zenon
<1> QED BY <1>1, <1>2, Zenon DEF Lbts, LbtsLeast

----------------------------------------------------------------------------
(* Type correctness and the order of the queues.                           *)

\* A session that delivers has something to deliver.
DeliverNonEmpty ==
    \A s \in Federates : pc[s] = "deliver" => callbacks[s] # <<>>

\* The order of the queues is needed for the type: partition_point is an
\* index of the queue only because the queue is sorted.
Inv == TypeOK /\ QueueSorted /\ DeliverNonEmpty

\* A call is recorded in its counter.
LEMMA BeginType ==
    ASSUME TypeOK, NEW s \in Federates, NEW v, Begin(s, v)
    PROVE  calls' \in [Federates -> Nat]
BY DEF Begin, TypeOK

\* A handler's return leaves the frame well typed.
LEMMA FinishType ==
    ASSUME TypeOK, DeliverNonEmpty, NEW s \in Federates,
           NEW cbs \in Seq(Callbacks), Finish(s, cbs)
    PROVE  /\ callbacks' \in [Federates -> Seq(Callbacks)]
           /\ pc' \in [Federates -> Labels]
           /\ time' \in [Federates -> Times]
           /\ msg' \in [Federates -> Nat]
           /\ bound' \in [Federates -> Nat]
           /\ DeliverNonEmpty'
BY TimesAssumption, Zenon DEF Finish, TypeOK, DeliverNonEmpty, Labels

\* The drain of one queue keeps types and order.
LEMMA DrainType ==
    ASSUME Inv, NEW s \in Federates, NEW f \in Federates, NEW t \in Times,
           NEW cbs \in Seq(Callbacks), DrainTsoUpTo(s, f, t, cbs)
    PROVE  /\ tso_queue' \in [Federates -> Seq(Messages)]
           /\ QueueSorted'
           /\ callbacks' \in [Federates -> Seq(Callbacks)]
<1>1. tso_queue[f] \in Seq(Messages) /\ Sorted(tso_queue[f])
    BY Zenon DEF Inv, TypeOK, QueueSorted, Sorted
<1>2. /\ Later(tso_queue[f], t) \in Seq(Messages)
      /\ Sorted(Later(tso_queue[f], t))
      /\ Due(tso_queue[f], t) \in Seq(Messages)
    BY <1>1, DrainSorted, Zenon
<1>3. ReleasedTo(f, Due(tso_queue[f], t)) \in Seq(Callbacks)
    BY <1>2, ReleasedType, Zenon
<1>4. callbacks[s] \o ReleasedTo(f, Due(tso_queue[f], t)) \o cbs
            \in Seq(Callbacks)
  <2>1. callbacks[s] \in Seq(Callbacks)
      BY Zenon DEF Inv, TypeOK
  <2>2. callbacks[s] \o ReleasedTo(f, Due(tso_queue[f], t)) \in Seq(Callbacks)
      BY <1>3, <2>1, ConcatFacts, Zenon
  <2> QED BY <2>2, ConcatFacts, Zenon
<1>5. tso_queue' = [tso_queue EXCEPT ![f] = Later(tso_queue[f], t)]
    BY Zenon DEF DrainTsoUpTo, Inv, TypeOK
<1>6. tso_queue' \in [Federates -> Seq(Messages)]
    BY <1>2, <1>5, Zenon DEF Inv, TypeOK
<1>7. \A g \in Federates : Sorted(tso_queue'[g])
    BY <1>2, <1>5, Zenon DEF Inv, TypeOK, QueueSorted, Sorted
<1>8. callbacks' \in [Federates -> Seq(Callbacks)]
    BY <1>4, Zenon DEF DrainTsoUpTo, Inv, TypeOK
<1> QED BY <1>6, <1>7, <1>8, Zenon DEF QueueSorted, Sorted

\* The handlers of the grant pass keep the invariant.
LEMMA GrantPassInv ==
    ASSUME Inv, NEW s \in Federates,
           \/ ReadBound(s) \/ Select(s) \/ Apply(s) \/ Recheck(s)
    PROVE  Inv'
<1> USE DEF Inv
<1>0. callbacks[s] \in Seq(Callbacks)
    BY Zenon DEF TypeOK
<1>1. CASE ReadBound(s)
    BY <1>1, LbtsIsLeast, Zenon DEF LbtsLeast, ReadBound, TypeOK, QueueSorted, DeliverNonEmpty,
       Labels, Goto, roleVars, timeVars, countVars
<1>2. CASE Select(s)
  <2>1. Grantable(s) \in SUBSET Requests
      BY DEF Grantable, Pendings, Requests, TypeOK
  <2>2. to_grant' \in [Federates -> SUBSET Requests]
      BY <1>2, <2>1, Zenon DEF Select, TypeOK
  <2>3. CASE Finish(s, callbacks[s])
      BY <1>0, <1>2, <2>2, <2>3, FinishType, Zenon DEF Select, TypeOK, QueueSorted,
         roleVars, timeVars, countVars
  <2>4. CASE Goto(s, "apply") /\ UNCHANGED <<callbacks, time, msg, bound>>
      BY <1>2, <2>2, <2>4, Zenon DEF Select, TypeOK, QueueSorted, DeliverNonEmpty,
         Labels, Goto, roleVars, timeVars, countVars
  <2> QED BY <1>2, <2>3, <2>4, Zenon DEF Select
<1>3. CASE Apply(s)
  <2>1. /\ Granted(s) \in SUBSET Federates
        /\ \A f \in Granted(s) : pending_advance[f] # None
      BY Zenon DEF Granted, TypeOK
  <2>2. Tags(s, Granted(s)) \in Seq(Callbacks)
      BY <2>1, TagsType, Zenon
  <2>3. callbacks[s] \o Tags(s, Granted(s)) \in Seq(Callbacks)
      BY <1>0, <2>2, ConcatFacts, Zenon
  <2>4. callbacks' \in [Federates -> Seq(Callbacks)]
      BY <1>3, <2>3, Zenon DEF Apply, TypeOK
  <2>5. /\ current_time' \in [Federates -> Times]
        /\ pending_advance' \in [Federates -> Times \cup {None}]
      BY <1>3, <2>1, Zenon DEF Apply, GrantTo, TypeOK
  <2>6. DeliverNonEmpty'
      BY <1>3, Zenon DEF Apply, Goto, DeliverNonEmpty, TypeOK
  <2> QED
      BY <1>3, <2>4, <2>5, <2>6, Zenon DEF Apply, TypeOK, QueueSorted, Labels, Goto,
         roleVars, countVars
<1>4. CASE Recheck(s)
  <2>1. CASE Finish(s, callbacks[s])
      BY <1>0, <1>4, <2>1, FinishType, Zenon DEF Recheck, TypeOK, QueueSorted,
         roleVars, timeVars, countVars
  <2>2. CASE Goto(s, "try_grant") /\ UNCHANGED <<callbacks, time, msg, bound>>
      BY <1>4, <2>2, Zenon DEF Recheck, TypeOK, QueueSorted, DeliverNonEmpty,
         Labels, Goto, roleVars, timeVars, countVars
  <2> QED BY <1>4, <2>1, <2>2, Zenon DEF Recheck
<1> QED BY <1>1, <1>2, <1>3, <1>4, Zenon

\* The drain before the grant pass keeps the invariant.
LEMMA DrainPassInv ==
    ASSUME Inv, NEW s \in Federates,
           \/ SnapshotPending(s) \/ ReadTsoBound(s)
           \/ \E x \in todo[s] : FilterOne(s, x)
           \/ \E x \in to_grant[s] : DrainOne(s, x)
    PROVE  Inv'
<1> USE DEF Inv
<1>1. CASE SnapshotPending(s)
  <2>1. Pendings(federates) \in SUBSET Requests
      BY DEF Pendings, Requests, TypeOK
  <2> QED
      BY <1>1, <2>1, Zenon DEF SnapshotPending, TypeOK, QueueSorted, DeliverNonEmpty,
         Labels, Goto, roleVars, timeVars, countVars
<1>2. CASE ReadTsoBound(s)
    BY <1>2, LbtsIsLeast, Zenon DEF LbtsLeast, ReadTsoBound, TypeOK, QueueSorted, DeliverNonEmpty,
       Labels, Goto, roleVars, timeVars, countVars
<1>3. CASE \E x \in todo[s] : FilterOne(s, x)
  <2> PICK x \in todo[s] : FilterOne(s, x)
      BY <1>3, Zenon
  <2>1. x \in Requests
      BY Zenon DEF TypeOK
  <2>2. todo' \in [Federates -> SUBSET Requests]
      BY Zenon DEF FilterOne, TypeOK
  <2>3. to_grant' \in [Federates -> SUBSET Requests]
      BY <2>1, Zenon DEF FilterOne, TypeOK
  <2>4. pc' \in [Federates -> Labels] /\ DeliverNonEmpty'
      BY Zenon DEF FilterOne, TypeOK, DeliverNonEmpty, Labels, Goto
  <2> QED
      BY <2>2, <2>3, <2>4, Zenon DEF FilterOne, TypeOK, QueueSorted, roleVars,
         timeVars, countVars
<1>4. CASE \E x \in to_grant[s] : DrainOne(s, x)
  <2> PICK x \in to_grant[s] : DrainOne(s, x)
      BY <1>4, Zenon
  <2>0. x \in Requests
      BY Zenon DEF TypeOK
  <2>1. x[1] \in Federates /\ x[2] \in Times
      BY <2>0, Zenon DEF Requests
  <2>2. DrainTsoUpTo(s, x[1], x[2], <<>>) /\ <<>> \in Seq(Callbacks)
      BY DEF DrainOne
  <2>3. /\ tso_queue' \in [Federates -> Seq(Messages)]
        /\ QueueSorted'
        /\ callbacks' \in [Federates -> Seq(Callbacks)]
      BY <2>1, <2>2, DrainType, Zenon
  <2>4. to_grant' \in [Federates -> SUBSET Requests]
      BY Zenon DEF DrainOne, TypeOK
  <2>5. pc' \in [Federates -> Labels]
      BY Zenon DEF DrainOne, TypeOK, Labels, Goto
  <2>6. DeliverNonEmpty'
      BY DEF DrainOne, DrainTsoUpTo, TypeOK, DeliverNonEmpty, Goto
  <2> QED
      BY <2>3, <2>4, <2>5, <2>6, Zenon DEF DrainOne, TypeOK, roleVars, timeVars,
         countVars
<1> QED BY <1>1, <1>2, <1>3, <1>4, Zenon

\* The rest of an advance request keeps the invariant.
LEMMA OwnGrantInv ==
    ASSUME Inv, NEW s \in Federates, GrantSelf(s) \/ DrainSelf(s)
    PROVE  Inv'
<1> USE DEF Inv
<1>1. CASE GrantSelf(s)
  <2>1. /\ current_time' \in [Federates -> Times]
        /\ pending_advance' \in [Federates -> Times \cup {None}]
      BY <1>1, TimesAssumption, Zenon DEF GrantSelf, GrantTo, TypeOK
  <2> QED
      BY <1>1, <2>1, Zenon DEF GrantSelf, TypeOK, QueueSorted, DeliverNonEmpty,
         Labels, Goto, roleVars, countVars
<1>2. CASE DrainSelf(s)
  <2>1. time[s] \in Times
      BY Zenon DEF TypeOK
  <2>2. Tag(s, time[s]) \in Callbacks
      BY <2>1, Zenon DEF Tag, Callbacks
  <2>3. <<Tag(s, time[s])>> \in Seq(Callbacks)
      BY <2>2
  <2>4. /\ tso_queue' \in [Federates -> Seq(Messages)]
        /\ QueueSorted'
        /\ callbacks' \in [Federates -> Seq(Callbacks)]
      BY <1>2, <2>1, <2>3, DrainType, Zenon DEF DrainSelf
  <2>5. DeliverNonEmpty' /\ pc' \in [Federates -> Labels]
      BY <1>2, Zenon DEF DrainSelf, DrainTsoUpTo, TypeOK, DeliverNonEmpty, Goto, Labels
  <2> QED
      BY <1>2, <2>4, <2>5, Zenon DEF DrainSelf, TypeOK, roleVars, timeVars, countVars
<1> QED BY <1>1, <1>2, Zenon

\* Routing, queueing and delivering keep the invariant.
LEMMA MessageInv ==
    ASSUME Inv, NEW s \in Federates, Route(s) \/ Enqueue(s) \/ Deliver(s)
    PROVE  Inv'
<1> USE DEF Inv
<1>0. time[s] \in Times /\ msg[s] \in Nat /\ callbacks[s] \in Seq(Callbacks)
    BY Zenon DEF TypeOK
<1>1. CASE Route(s)
  <2> DEFINE subscribers == federates \ {s}
             queued == {f \in subscribers : Holds(f, time[s])}
             now == subscribers \ queued
             h == [f \in now |-> Immediate(f, time[s], msg[s])]
             cbs == ListOf({Immediate(f, time[s], msg[s]) : f \in now})
  <2>1. now \in SUBSET Federates /\ queued \in SUBSET Federates
      BY Zenon DEF TypeOK
  <2>2. h \in [now -> Callbacks]
      BY <1>0, <2>1, Zenon DEF Immediate, Callbacks
  <2>3. {Immediate(f, time[s], msg[s]) : f \in now} = {h[f] : f \in now}
      BY Zenon
  <2>4. cbs \in Seq(Callbacks)
    <3> HIDE DEF now, h
    <3> QED BY <2>1, <2>2, <2>3, CallbackListType, Zenon
  <2>5. todo' = [todo EXCEPT ![s] = {<<f, time[s]>> : f \in queued}]
      BY <1>1, Zenon DEF Route
  <2>6. todo' \in [Federates -> SUBSET Requests]
    <3> HIDE DEF queued
    <3>1. {<<f, time[s]>> : f \in queued} \in SUBSET Requests
        BY <1>0, <2>1 DEF Requests
    <3> QED BY <2>5, <3>1, Zenon DEF TypeOK
  <2>7. \/ Finish(s, cbs)
        \/ /\ Goto(s, "enqueue")
           /\ callbacks' = [callbacks EXCEPT ![s] = cbs]
           /\ UNCHANGED <<time, msg, bound>>
      BY <1>1, Zenon DEF Route
  <2>8. UNCHANGED <<roleVars, timeVars, tso_queue, to_grant, inbox, countVars,
                    raced>>
      BY <1>1, Zenon DEF Route
  <2> HIDE DEF cbs
  <2>9. CASE Finish(s, cbs)
      BY <2>4, <2>6, <2>8, <2>9, FinishType, Zenon DEF TypeOK, QueueSorted,
         roleVars, timeVars, countVars
  <2>10. CASE /\ Goto(s, "enqueue")
              /\ callbacks' = [callbacks EXCEPT ![s] = cbs]
              /\ UNCHANGED <<time, msg, bound>>
      BY <2>4, <2>6, <2>8, <2>10, Zenon DEF TypeOK, QueueSorted, DeliverNonEmpty,
         Labels, Goto, roleVars, timeVars, countVars
  <2> QED BY <2>7, <2>9, <2>10, Zenon
<1>2. CASE Enqueue(s)
  <2> DEFINE m == [id |-> msg[s], time |-> time[s]]
  <2>1. m \in Messages
      BY <1>0, Zenon DEF Messages
  <2> HIDE DEF m
  <2>2. \A f \in Federates : /\ InsertByTime(tso_queue[f], m) \in Seq(Messages)
                             /\ Sorted(InsertByTime(tso_queue[f], m))
      BY <2>1, InsertSorted, Zenon DEF TypeOK, QueueSorted, Sorted
  <2>3. tso_queue' = [f \in Federates |->
            IF f \in federates /\ <<f, time[s]>> \in todo[s]
            THEN InsertByTime(tso_queue[f], m) ELSE tso_queue[f]]
      BY <1>2, Zenon DEF Enqueue, m
  <2>4. tso_queue' \in [Federates -> Seq(Messages)]
      BY <2>2, <2>3, Zenon DEF TypeOK
  <2>5. \A f \in Federates : Sorted(tso_queue'[f])
      BY <2>2, <2>3 DEF QueueSorted, Sorted
  <2>6. QueueSorted'
      BY <2>5, Zenon DEF QueueSorted, Sorted
  <2>7. todo' \in [Federates -> SUBSET Requests]
      BY <1>2, Zenon DEF Enqueue, TypeOK
  <2> QED
      BY <1>0, <1>2, <2>4, <2>6, <2>7, FinishType, Zenon DEF Enqueue, TypeOK,
         roleVars, timeVars, countVars
<1>3. CASE Deliver(s)
  <2>1. callbacks[s] # <<>>
      BY <1>3, Zenon DEF Deliver, DeliverNonEmpty
  <2>2. Head(callbacks[s]) \in Callbacks /\ Tail(callbacks[s]) \in Seq(Callbacks)
      BY <1>0, <2>1, HeadTailFacts, Zenon
  <2> DEFINE cb == Head(callbacks[s])
  <2>3. cb.to \in Federates
      BY <2>2, Zenon DEF Callbacks
  <2>4. inbox' = [inbox EXCEPT ![cb.to] = Append(inbox[cb.to], cb)]
      BY <1>3, <2>3, Zenon DEF Deliver, TypeOK
  <2>5. Append(inbox[cb.to], cb) \in Seq(Callbacks)
      BY <2>2, <2>3, AppendFacts, Zenon DEF TypeOK
  <2>6. inbox' \in [Federates -> Seq(Callbacks)]
      BY <2>3, <2>4, <2>5, Zenon DEF TypeOK
  <2> QED
      BY <1>3, <2>2, <2>6, FinishType, Zenon DEF Deliver, TypeOK, QueueSorted,
         roleVars, timeVars, countVars
<1> QED BY <1>1, <1>2, <1>3, Zenon

\* The first critical section of every service keeps the invariant.
LEMMA CallInv ==
    ASSUME Inv, NEW s \in Federates, Call(s)
    PROVE  Inv'
<1> USE DEF Inv
<1>0. /\ <<Enabled(s, current_time[s])>> \in Seq(Callbacks)
      /\ 0 \in Times
  <2>1. current_time[s] \in Times /\ 0 \in Times
      BY TimesAssumption, Zenon DEF TypeOK
  <2> HIDE DEF Inv
  <2>2. Enabled(s, current_time[s]) \in Callbacks
      BY <2>1, Zenon DEF Enabled, Callbacks
  <2> QED BY <2>1, <2>2
<1>1. ASSUME NEW l \in Lookaheads, EnableTimeRegulation(s, l) PROVE Inv'
    BY <1>0, <1>1, BeginType, Zenon DEF EnableTimeRegulation, Begin, TypeOK,
       QueueSorted, DeliverNonEmpty, Labels, Goto, timeVars
<1>2. ASSUME NEW l \in Lookaheads, ModifyLookahead(s, l) PROVE Inv'
    BY <1>2, BeginType, Zenon DEF ModifyLookahead, Begin, TypeOK, QueueSorted,
       DeliverNonEmpty, frameVars, timeVars
<1>3. CASE DisableTimeRegulation(s)
    BY <1>3, BeginType, Zenon DEF DisableTimeRegulation, TypeOK, QueueSorted,
       DeliverNonEmpty, Labels, Goto, timeVars
<1>4. CASE EnableTimeConstrained(s)
  <2>1. calls' \in [Federates -> Nat] /\ s \in federates
      BY <1>4, BeginType, Zenon DEF EnableTimeConstrained, Begin
  <2> QED
      BY <1>0, <1>4, <2>1, FinishType, Zenon DEF EnableTimeConstrained, TypeOK,
         QueueSorted, timeVars
<1>5. CASE DisableTimeConstrained(s)
    BY <1>5, BeginType, Zenon DEF DisableTimeConstrained, TypeOK, QueueSorted,
       DeliverNonEmpty, frameVars, timeVars
<1>6. ASSUME NEW t \in Times, TimeAdvanceRequest(s, t) PROVE Inv'
  <2>1. calls' \in [Federates -> Nat]
      BY <1>6, BeginType, Zenon DEF TimeAdvanceRequest
  <2>2. asked' \in [Federates -> Nat]
      BY <1>6 DEF TimeAdvanceRequest, TypeOK
  <2>3. pending_advance' \in [Federates -> Times \cup {None}]
      BY <1>6, Zenon DEF TimeAdvanceRequest, TypeOK
  <2>4. time' \in [Federates -> Times] /\ pc' \in [Federates -> Labels]
    <3>1. time \in [Federates -> Times] /\ pc \in [Federates -> Labels]
        BY Zenon DEF TypeOK
    <3>2. \/ Goto(s, "snapshot") /\ time' = time
          \/ Goto(s, "grant_self") /\ time' = [time EXCEPT ![s] = t]
        BY <1>6, Zenon DEF TimeAdvanceRequest
    <3>3. CASE Goto(s, "snapshot") /\ time' = time
        BY <3>1, <3>3, Zenon DEF Goto, Labels
    <3>4. CASE Goto(s, "grant_self") /\ time' = [time EXCEPT ![s] = t]
        BY <3>1, <3>4, Zenon DEF Goto, Labels
    <3> QED BY <3>2, <3>3, <3>4, Zenon
  <2>5. DeliverNonEmpty'
      BY <1>6, Zenon DEF TimeAdvanceRequest, TypeOK, DeliverNonEmpty, Goto
  <2> QED
      BY <1>6, <2>1, <2>2, <2>3, <2>4, <2>5, Zenon DEF TimeAdvanceRequest, TypeOK,
         QueueSorted, roleVars
<1>7. ASSUME NEW t \in Times, NEW v, Send(s, v, t) PROVE Inv'
  <2>1. calls' \in [Federates -> Nat]
      BY <1>7, BeginType, Zenon DEF Send
  <2>2. sent' \in Seq(Federates) /\ Len(sent) \in Nat
      BY <1>7, AppendFacts, LenFacts, Zenon DEF Send, TypeOK
  <2>3. msg' \in [Federates -> Nat] /\ time' \in [Federates -> Times]
      BY <1>7, <2>2 DEF Send, TypeOK
  <2>4. pc' \in [Federates -> Labels] /\ DeliverNonEmpty'
      BY <1>7, Zenon DEF Send, TypeOK, DeliverNonEmpty, Labels, Goto
  <2> QED
      BY <1>7, <2>1, <2>2, <2>3, <2>4, Zenon DEF Send, TypeOK, QueueSorted,
         roleVars, timeVars
<1>8. CASE Join(s)
    BY <1>8, Zenon DEF Join, TypeOK, QueueSorted, DeliverNonEmpty, frameVars, timeVars
<1>9. CASE Resign(s)
  <2>1. calls' \in [Federates -> Nat]
      BY <1>9, BeginType, Zenon DEF Resign
  <2>2. tso_queue' \in [Federates -> Seq(Messages)] /\ QueueSorted'
    <3>1. <<>> \in Seq(Messages) /\ DOMAIN <<>> = {}
        OBVIOUS
    <3>2. tso_queue' = [tso_queue EXCEPT ![s] = <<>>]
        BY <1>9, Zenon DEF Resign
    <3>3. tso_queue' \in [Federates -> Seq(Messages)]
        BY <3>1, <3>2, Zenon DEF TypeOK
    <3>4. \A f \in Federates : tso_queue'[f] = IF f = s THEN <<>> ELSE tso_queue[f]
        BY <3>2, Zenon DEF TypeOK
    <3>5. QueueSorted'
        BY <3>1, <3>4, Zenon DEF QueueSorted
    <3> QED BY <3>3, <3>5, Zenon
  <2> QED
      BY <1>9, <2>1, <2>2, Zenon DEF Resign, RemoveFederate, TypeOK, DeliverNonEmpty,
         frameVars
<1> QED
    BY <1>1, <1>2, <1>3, <1>4, <1>5, <1>6, <1>7, <1>8, <1>9, Zenon
       DEF Call, UpdateAttributeValuesWithTime, SendInteractionWithTime

\* The initial states satisfy the invariant.
LEMMA InitInv == Init => Inv
<1> SUFFICES ASSUME Init PROVE Inv
    OBVIOUS
<1>1. TypeOK
    BY RolesAssumption, TimesAssumption DEF Init, TypeOK, Labels
<1>2. QueueSorted /\ DeliverNonEmpty
    BY DEF Init, QueueSorted, DeliverNonEmpty
<1> QED BY <1>1, <1>2, Zenon DEF Inv

\* Every step keeps the invariant.
LEMMA StepInv == Inv /\ [Next]_vars => Inv'
<1> SUFFICES ASSUME Inv, [Next]_vars PROVE Inv'
    BY Zenon
<1>1. CASE UNCHANGED vars
    BY <1>1, Zenon DEF Inv, TypeOK, QueueSorted, DeliverNonEmpty, vars, roleVars,
       timeVars, frameVars, countVars
<1>2. ASSUME NEW s \in Federates, Step(s) PROVE Inv'
    BY <1>2, GrantPassInv, DrainPassInv, OwnGrantInv, MessageInv, Zenon DEF Step
<1> QED BY <1>1, <1>2, CallInv, Zenon DEF Next

\* The types of TimeState, FederateSession and the handlers' locals hold in
\* every reachable state, for every instance.
THEOREM TypeCorrect == Spec => []TypeOK
<1>1. Inv => TypeOK
    BY Zenon DEF Inv
<1> QED BY <1>1, InitInv, StepInv, PTL DEF Spec

\* The TSO queues are sorted in every reachable state, whichever sessions
\* insert and drain: the binary searches of data_flow.rs are well defined.
THEOREM QueuesSorted == Spec => []QueueSorted
<1>1. Inv => QueueSorted
    BY Zenon DEF Inv
<1> QED BY <1>1, InitInv, StepInv, PTL DEF Spec

----------------------------------------------------------------------------
(* Logical time: the contract and monotonicity.                            *)

\* The handlers, with all their locks and races, implement the contract: time
\* moves only by a grant of an outstanding request, to the time requested.
THEOREM ContractImplemented == Spec => ImplementsContract
<1>1. Init => Contract!Init
    BY Zenon DEF Init, Contract!Init
<1>2. TypeOK /\ [Next]_vars => [Contract!Next]_(Contract!vars)
    BY ContractStep, Zenon
<1> QED BY <1>1, <1>2, TypeCorrect, PTL DEF Spec, Contract!Spec, ImplementsContract

\* A pending advance is never behind the federate's time.
THEOREM PendingNeverBehind == Spec => []PendingNotBehind
<1>1. Init => PendingNotBehind
    BY Zenon DEF Init, PendingNotBehind
<1>2. TypeOK /\ PendingNotBehind /\ [Next]_vars => PendingNotBehind'
    BY ContractStep, ContractMonotone, Zenon
<1> QED BY <1>1, <1>2, TypeCorrect, PTL DEF Spec

\* Logical time is monotonic, as the comment on TimeState says.
THEOREM TimeMonotone == Spec => TimeNeverDecreases
<1>1. TypeOK /\ PendingNotBehind /\ [Next]_vars
        => \A f \in Federates : current_time[f] <= current_time'[f]
    BY ContractStep, ContractMonotone, Zenon
<1>2. TypeOK /\ PendingNotBehind /\ [Next]_vars
        => [\A f \in Federates : current_time[f] <= current_time'[f]]_vars
    BY <1>1, Zenon
<1> QED BY <1>2, TypeCorrect, PendingNeverBehind, PTL DEF Spec, TimeNeverDecreases

----------------------------------------------------------------------------
(* Grants and LBTS.                                                        *)

\* LBTS is what it should be in every reachable state.
LEMMA LbtsAlways == Spec => []LbtsLeast
BY TypeCorrect, LbtsIsLeast, PTL

\* The grant pass is sound in every interleaving in which no role change
\* falls between the reading of LBTS and the grant.
THEOREM GrantsWaitForLbts == Spec => OvertakesOnlyIfRaced
<1>1. Init => GrantInv
    BY Zenon DEF Init, GrantInv, BoundIsLower, ListRespectsBound, SelfGrantIsFree
<1>2. TypeOK /\ TypeOK' /\ LbtsLeast /\ PendingNotBehind /\ GrantInv /\ [Next]_vars
        => GrantInv'
    BY GrantInvStep, Zenon
<1>3. TypeOK /\ LbtsLeast /\ GrantInv /\ [Next]_vars =>
        [\A f \in Federates : Overtakes(f) =>
            \E s \in raced : pc[s] = "apply" /\ pc'[s] = "recheck"]_vars
    BY NoOvertaking, Zenon
<1> QED
    BY <1>1, <1>2, <1>3, TypeCorrect, LbtsAlways, PendingNeverBehind, PTL
       DEF Spec, OvertakesOnlyIfRaced

\* Both hold throughout, from the start.
LEMMA SteadyInvariant == ASSUME Steady PROVE Spec => []SteadyInv
<1>1. ASSUME Init PROVE SteadyInv
  <2>1. TypeOK
    BY <1>1, InitInv, Zenon DEF Inv
  <2>2. Lbts \in Nat
    BY <2>1, LbtsIsLeast, Zenon DEF LbtsLeast
  <2>3. \A s \in Federates : bound[s] = 0
    BY <1>1, Zenon DEF Init
  <2>4. BoundsLow
    BY <2>2, <2>3 DEF BoundsLow
  <2>5. OwnRequests
    BY <1>1, Zenon DEF Init, OwnRequests
  <2>6. QED  BY <2>4, <2>5, Zenon DEF SteadyInv
<1>2. TypeOK /\ TypeOK' /\ LbtsLeast /\ LbtsLeast' /\ PendingNotBehind /\ SteadyInv /\ [Next]_vars => SteadyInv'
  BY BoundsLowStep, OwnRequestsStep, Zenon DEF SteadyInv
<1>3. QED  BY <1>1, <1>2, TypeCorrect, LbtsAlways, PendingNeverBehind, PTL DEF Spec

\* As long as no role change can lower LBTS, nobody drops a constraint and
\* nobody resigns, a request that can be granted is never left behind: some
\* session is about to look at it, whatever the order in which requests were
\* recorded, bounds read and grants applied.
THEOREM GrantsAreMade ==
    ASSUME Steady, NobodyLeaves
    PROVE  Spec => []NoStuckGrant
<1>1. Init => Attended
  BY Zenon DEF Init, Attended, MembersOnly, Ready
<1>2. TypeOK /\ TypeOK' /\ LbtsLeast /\ LbtsLeast' /\ PendingNotBehind /\ SteadyInv /\ Attended /\ [Next]_vars
        => Attended'
  BY AttendedStep, Zenon DEF SteadyInv
<1>3. ASSUME TypeOK, Attended PROVE NoStuckGrant
  <2>1. SUFFICES ASSUME AllIdle, NEW f \in federates, pending_advance[f] # None
                 PROVE  f \in is_constrained /\ pending_advance[f] > Lbts
    BY Zenon DEF NoStuckGrant
  <2>2. \A s \in Federates : ~Attends(s, f)
    BY <2>1, Zenon DEF AllIdle, Attends, Early
  <2>3. ~Ready(f)
    BY <1>3, <2>2, Zenon DEF Attended, TypeOK
  <2>4. f \in is_constrained /\ ~(pending_advance[f] <= Lbts)
    BY <2>1, <2>3, Zenon DEF Ready
  <2>5. pending_advance[f] \in Nat /\ Lbts \in Nat
    BY <1>3, <2>1, LbtsIsLeast, TimesAssumption, Zenon DEF TypeOK, LbtsLeast
  <2>6. QED  BY <2>4, <2>5
<1>4. QED
  BY <1>1, <1>2, <1>3, TypeCorrect, LbtsAlways, PendingNeverBehind, SteadyInvariant, PTL DEF Spec

----------------------------------------------------------------------------
(* Messages leave the queue with a grant.                                  *)

\* The callbacks that release no message.
Plain == {cb \in Callbacks : cb.kind # "tso"}

\* A list of one callback for each federate of a set, none of them a release.
LEMMA PlainListType ==
    ASSUME NEW S \in SUBSET Federates, NEW h \in [S -> Plain]
    PROVE  ListOf({h[f] : f \in S}) \in Seq(Plain)
<1> DEFINE T == {h[f] : f \in S}
<1>1. IsFiniteSet(S)
  BY RolesAssumption, FS_Subset, Zenon
<1>2. h \in Surjection(S, T)
  BY Zenon DEF Surjection
<1>3. IsFiniteSet(T)
  BY <1>1, <1>2, FS_Surjection, Zenon
<1>4. T \subseteq Plain
  OBVIOUS
<1> HIDE DEF T
<1>5. ListOf(T) \in Seq(T)
  BY <1>3, ListOfType, Zenon
<1> QED  BY <1>4, <1>5, MoreElements, Zenon DEF T

\* The TAGs of a grant pass release nothing.
LEMMA TagsPlain ==
    ASSUME TypeOK, NEW s \in Federates
    PROVE  Tags(s, Granted(s)) \in Seq(Plain)
<1> DEFINE S == Granted(s)
           h == [f \in S |-> Tag(f, pending_advance[f])]
<1>1. S \in SUBSET Federates /\ \A f \in S : pending_advance[f] \in Times
  BY Zenon DEF TypeOK, Granted
<1>2. h \in [S -> Plain]
  BY <1>1, Zenon DEF Tag, Plain, Callbacks
<1>3. {Tag(f, pending_advance[f]) : f \in S} = {h[f] : f \in S}
  OBVIOUS
<1> HIDE DEF h
<1> QED  BY <1>1, <1>2, <1>3, PlainListType, Zenon DEF Tags

\* The messages routed at once are not releases.
LEMMA ImmediatePlain ==
    ASSUME TypeOK, NEW s \in Federates, NEW S \in SUBSET Federates
    PROVE  ListOf({Immediate(f, time[s], msg[s]) : f \in S}) \in Seq(Plain)
<1> DEFINE h == [f \in S |-> Immediate(f, time[s], msg[s])]
<1>1. time[s] \in Times /\ msg[s] \in Nat
  BY Zenon DEF TypeOK
<1>2. h \in [S -> Plain]
  BY <1>1, Zenon DEF Immediate, Plain, Callbacks
<1>3. {Immediate(f, time[s], msg[s]) : f \in S} = {h[f] : f \in S}
  OBVIOUS
<1> HIDE DEF h
<1> QED  BY <1>2, <1>3, PlainListType, Zenon

\* A drain up to t releases messages of f with time stamps up to t.
LEMMA ReleasedUpTo ==
    ASSUME NEW f \in Federates, NEW t \in Times, NEW q \in Seq(Messages), Sorted(q)
    PROVE  ReleasedTo(f, Due(q, t)) \in Seq({cb \in Callbacks : cb.to = f /\ cb.time <= t})
<1> DEFINE k == PartitionPoint(q, t)
           T == {cb \in Callbacks : cb.to = f /\ cb.time <= t}
<1>1. k \in 0 .. Len(q) /\ \A i \in 1 .. k : q[i].time <= t
  BY PartitionPointSplits, Zenon DEF Sorted
<1> HIDE DEF k
<1>2. /\ SubSeq(q, 1, k) \in Seq(Messages) /\ Len(SubSeq(q, 1, k)) = k
      /\ \A i \in 1 .. k : SubSeq(q, 1, k)[i] = q[i]
  BY <1>1, PrefixProperties, Zenon
<1>3. SubSeq(q, 1, k) \in [1 .. k -> Messages] /\ k \in Nat
  BY <1>2, LenFacts, Zenon
<1>4. \A i \in 1 .. k : Released(f, SubSeq(q, 1, k)[i]) \in T
  BY <1>1, <1>2, <1>3, Zenon DEF Released, Callbacks, Messages
<1>5. ReleasedTo(f, SubSeq(q, 1, k)) \in [1 .. k -> T]
  BY <1>2, <1>4, Zenon DEF ReleasedTo
<1>6. ReleasedTo(f, SubSeq(q, 1, k)) \in Seq(T)
  <2> HIDE DEF T
  <2>1. QED  BY <1>3, <1>5, FunctionIsList
<1>7. QED  BY <1>6, Zenon DEF Due, k

\* Whatever a session adds to its callbacks is a notice, or a message drained
\* up to a time that was granted or that this session is about to grant.
LEMMA CallbacksCovered ==
    ASSUME Steady, Inv, TypeOK', LbtsLeast, LbtsLeast', PendingNotBehind, OwnRequests, MembersOnly, MembersOnly',
           NEW a \in Federates, Call(a) \/ Step(a), Held(a),
           callbacks[a] \in Seq(Covered(a))
    PROVE  callbacks'[a] \in Seq(Covered(a)')
<1>0. TypeOK /\ QueueSorted /\ DeliverNonEmpty
  BY Zenon DEF Inv
<1>1. callbacks[a] \in Seq(Covered(a)')
  BY <1>0, CoveredStays, MoreElements, Zenon
<1>2. \A q \in Seq(Plain) : q \in Seq(Covered(a)')
  <2>1. Plain \subseteq Covered(a)'
    BY Zenon DEF Plain, Covered, Settled
  <2>2. QED  BY <2>1, MoreElements, Zenon
<1>3. callbacks \in [Federates -> Seq(Callbacks)] /\ pc \in [Federates -> Labels]
  BY <1>0, Zenon DEF TypeOK
<1>4. ASSUME NEW f \in Federates, NEW t \in Times, NEW cbs \in Seq(Plain),
             DrainTsoUpTo(a, f, t, cbs),
             \/ Gone(f)' \/ t <= current_time'[f]
             \/ Grants(a, f)' /\ pending_advance'[f] = t
      PROVE  callbacks'[a] \in Seq(Covered(a)')
  <2> DEFINE U == {cb \in Callbacks : cb.to = f /\ cb.time <= t}
             r == ReleasedTo(f, Due(tso_queue[f], t))
  <2>1. tso_queue[f] \in Seq(Messages) /\ Sorted(tso_queue[f])
    BY <1>0, Zenon DEF TypeOK, QueueSorted, Sorted
  <2>2. r \in Seq(U)
    BY <2>1, ReleasedUpTo, Zenon
  <2>3. ASSUME NEW cb \in U PROVE cb \in Covered(a)'
    <3>1. cb \in Callbacks /\ cb.to = f /\ cb.time <= t /\ cb.time \in Times
      BY <2>3, Zenon DEF Callbacks
    <3>2. cb.time \in Nat /\ t \in Nat /\ current_time'[f] \in Nat
      BY <3>1, TimesAssumption, Zenon DEF TypeOK
    <3>3. t <= current_time'[f] => cb.time <= current_time'[f]
      BY <3>1, <3>2
    <3>4. QED  BY <1>4, <3>1, <3>3, Zenon DEF Covered, Settled
  <2> HIDE DEF U
  <2>4. U \subseteq Covered(a)'
    BY <2>3, Zenon
  <2>5. r \in Seq(Covered(a)')
    BY <2>2, <2>4, MoreElements, Zenon
  <2>6. callbacks'[a] = (callbacks[a] \o r) \o cbs
    BY <1>3, <1>4, Zenon DEF DrainTsoUpTo
  <2> HIDE DEF r
  <2>7. cbs \in Seq(Covered(a)')
    BY <1>2, Zenon
  <2>8. callbacks[a] \o r \in Seq(Covered(a)')
    BY <1>1, <2>5, ConcatFacts, Zenon
  <2>9. QED  BY <2>6, <2>7, <2>8, ConcatFacts, Zenon
<1>5. ASSUME NEW x \in to_grant[a], DrainOne(a, x)
      PROVE  callbacks'[a] \in Seq(Covered(a)')
  <2>1. pc[a] = "drain" /\ DrainTsoUpTo(a, x[1], x[2], <<>>)
        /\ UNCHANGED <<roleVars, timeVars, countVars>>
    BY <1>5, Zenon DEF DrainOne
  <2>2. pc'[a] \in {"drain", "try_grant"}
    BY <1>3, <1>5, Zenon DEF DrainOne, Goto
  <2>3. x[1] \in Federates /\ x[2] \in Times
    BY <1>0, RequestsHeld, Zenon
  <2>4. Passes(x[1], x[2])
    BY <2>1, Zenon DEF Held
  <2>5. Passes(x[1], x[2])'
    BY <1>0, <2>3, <2>4, ReleaseStays, Zenon
  <2>6. x[2] # None /\ (pending_advance'[x[1]] = x[2] => x[1] \in federates')
    BY <2>3, TimesAssumption, Zenon DEF MembersOnly
  <2>7. \/ Gone(x[1])' \/ x[2] <= current_time'[x[1]]
        \/ Grants(a, x[1])' /\ pending_advance'[x[1]] = x[2]
    BY <2>2, <2>5, <2>6, Zenon DEF Passes, Grants, Ready
  <2>8. <<>> \in Seq(Plain)
    OBVIOUS
  <2>9. QED  BY <1>4, <2>1, <2>3, <2>7, <2>8, Zenon
<1>6. CASE DrainSelf(a)
  <2>1. pc[a] = "drain_self" /\ DrainTsoUpTo(a, a, time[a], <<Tag(a, time[a])>>)
        /\ UNCHANGED <<roleVars, timeVars, countVars>>
    BY <1>6, Zenon DEF DrainSelf
  <2>2. time[a] \in Times
    BY <1>0, Zenon DEF TypeOK
  <2>3. Gone(a)' \/ time[a] <= current_time'[a]
    BY <2>1, Zenon DEF Held, Gone, roleVars, timeVars, countVars
  <2>4. Tag(a, time[a]) \in Plain
    BY <2>2, Zenon DEF Tag, Plain, Callbacks
  <2>5. <<Tag(a, time[a])>> \in Seq(Plain)
    BY <2>4
  <2>6. QED  BY <1>4, <2>1, <2>2, <2>3, <2>5, Zenon
<1>7. CASE Apply(a)
  <2>1. callbacks'[a] = callbacks[a] \o Tags(a, Granted(a))
    BY <1>3, <1>7, Zenon DEF Apply
  <2>2. Tags(a, Granted(a)) \in Seq(Covered(a)')
    BY <1>0, <1>2, TagsPlain, Zenon
  <2>3. QED  BY <1>1, <2>1, <2>2, ConcatFacts, Zenon
<1>8. CASE Route(a)
  <2> DEFINE queued == {f \in federates \ {a} : Holds(f, time[a])}
             now == (federates \ {a}) \ queued
             cbs == ListOf({Immediate(f, time[a], msg[a]) : f \in now})
  <2>1. now \in SUBSET Federates
    BY <1>0, Zenon DEF TypeOK
  <2>2. callbacks' = [callbacks EXCEPT ![a] = cbs]
    BY <1>8, Zenon DEF Route, Finish
  <2>3. cbs \in Seq(Plain)
    <3> HIDE DEF now
    <3> QED  BY <1>0, <2>1, ImmediatePlain, Zenon
  <2> HIDE DEF cbs
  <2>4. callbacks'[a] = cbs
    BY <1>3, <2>2, Zenon
  <2>5. QED  BY <1>2, <2>3, <2>4, Zenon
<1>9. CASE Deliver(a)
  <2>1. callbacks[a] # <<>>
    BY <1>0, <1>9, Zenon DEF Deliver, DeliverNonEmpty
  <2>2. callbacks'[a] = Tail(callbacks[a])
    BY <1>3, <1>9, Zenon DEF Deliver, Finish
  <2>3. Tail(callbacks[a]) \in Seq(Covered(a)')
    BY <1>1, <2>1, HeadTailFacts, Zenon
  <2>4. QED  BY <2>2, <2>3, Zenon
<1>10. ASSUME callbacks' = [callbacks EXCEPT ![a] = <<Enabled(a, current_time[a])>>]
       PROVE  callbacks'[a] \in Seq(Covered(a)')
  <2>1. Enabled(a, current_time[a]) \in Plain
    BY <1>0, Zenon DEF Enabled, Plain, Callbacks, TypeOK
  <2>2. <<Enabled(a, current_time[a])>> \in Seq(Plain)
    BY <2>1
  <2>3. QED  BY <1>2, <1>3, <1>10, <2>2, Zenon
<1>11. CASE callbacks'[a] = callbacks[a]
  BY <1>1, <1>11, Zenon
<1>12. CASE Call(a)
  <2>1. callbacks' = callbacks \/ callbacks' = [callbacks EXCEPT ![a] = <<Enabled(a, current_time[a])>>]
    BY <1>12, Zenon DEF Call, EnableTimeRegulation, EnableTimeConstrained,
       TimeAdvanceRequest, UpdateAttributeValuesWithTime, ModifyLookahead,
       DisableTimeRegulation, DisableTimeConstrained, Resign, frameVars,
       SendInteractionWithTime, Send, Join, Finish
  <2>2. QED  BY <1>10, <1>11, <2>1, Zenon
<1>13. CASE ReadBound(a) \/ Select(a) \/ Recheck(a) \/ SnapshotPending(a) \/ ReadTsoBound(a)
            \/ (\E x \in todo[a] : FilterOne(a, x)) \/ GrantSelf(a) \/ Enqueue(a)
  <2>1. callbacks'[a] = callbacks[a]
    BY <1>3, <1>13, Zenon DEF ReadBound, Select, Recheck, SnapshotPending,
       ReadTsoBound, FilterOne, GrantSelf, Enqueue, Finish
  <2>2. QED  BY <1>11, <2>1, Zenon
<1>14. CASE Step(a)
  BY <1>5, <1>6, <1>7, <1>8, <1>9, <1>13, <1>14, Zenon DEF Step
<1>15. QED  BY <1>12, <1>14, Zenon

\* The strengthening of ReleasedWithGrant: what each session holds on the way
\* from the filter to the grant, and what may be among its callbacks.
ReleaseInv ==
    /\ MembersOnly
    /\ \A s \in Federates : Held(s) /\ callbacks[s] \in Seq(Covered(s))
    /\ \A f \in Federates : inbox[f] \in Seq({cb \in Settled : cb.to = f})

\* A callback is delivered to its own federate, and by then its grant is made.
LEMMA InboxSettled ==
    ASSUME Steady, Inv, TypeOK', LbtsLeast, LbtsLeast', PendingNotBehind, OwnRequests, ReleaseInv,
           NEW a \in Federates, Call(a) \/ Step(a), NEW f \in Federates
    PROVE  inbox'[f] \in Seq({cb \in Settled : cb.to = f}')
<1> DEFINE S == {cb \in Settled : cb.to = f}
<1>0. TypeOK /\ DeliverNonEmpty
  BY Zenon DEF Inv
<1>1. S \subseteq S'
  BY <1>0, ReleaseStays, Zenon
<1>2. inbox[f] \in Seq(S)
  BY Zenon DEF ReleaseInv
<1>3. \A cb \in Settled : cb \in Settled'
  BY <1>0, ReleaseStays, Zenon
<1> HIDE DEF S
<1>4. inbox[f] \in Seq(S')
  BY <1>1, <1>2, MoreElements, Zenon
<1>5. CASE Deliver(a)
  <2> DEFINE cb == Head(callbacks[a])
  <2>1. callbacks[a] # <<>> /\ pc[a] = "deliver"
    BY <1>0, <1>5, Zenon DEF Deliver, DeliverNonEmpty
  <2>2. callbacks[a] \in Seq(Covered(a))
    BY Zenon DEF ReleaseInv
  <2>3. cb \in Covered(a)
    BY <2>1, <2>2, HeadTailFacts, Zenon
  <2>4. inbox' = [inbox EXCEPT ![cb.to] = Append(inbox[cb.to], cb)]
    <3>1. cb.to \in Federates
      BY <2>3, Zenon DEF Covered, Callbacks
    <3>2. QED  BY <1>0, <1>5, <3>1, Zenon DEF Deliver, TypeOK
  <2> HIDE DEF cb
  <2>5. cb \in Settled
    BY <2>1, <2>3, Zenon DEF Covered, Grants
  <2>6. CASE cb.to = f
    <3>1. cb \in S'
      BY <1>3, <2>5, <2>6, Zenon DEF S
    <3>2. inbox'[f] = Append(inbox[f], cb)
      BY <1>0, <2>4, <2>6, Zenon DEF TypeOK
    <3>3. inbox'[f] \in Seq(S')
      BY <1>4, <3>1, <3>2
    <3>4. QED  BY <3>3, Zenon DEF S
  <2>7. CASE cb.to # f
    <3>1. inbox'[f] = inbox[f]
      BY <1>0, <2>4, <2>7, Zenon DEF TypeOK
    <3>2. QED  BY <1>4, <3>1, Zenon DEF S
  <2>8. QED  BY <2>6, <2>7, Zenon
<1>6. CASE ~Deliver(a)
  <2>1. inbox' = inbox
    BY <1>6, Zenon DEF Call, EnableTimeRegulation, EnableTimeConstrained,
       TimeAdvanceRequest, UpdateAttributeValuesWithTime, ModifyLookahead,
       DisableTimeRegulation, DisableTimeConstrained, Resign,
       SendInteractionWithTime, Send, Join,
       Step, ReadBound, Select, Apply, Recheck, SnapshotPending,
       ReadTsoBound, FilterOne, DrainOne, GrantSelf, DrainSelf, Route, Enqueue
  <2>2. QED  BY <1>4, <2>1, Zenon DEF S
<1>7. QED  BY <1>5, <1>6, Zenon

\* The strengthening is inductive.
LEMMA ReleaseInvStep ==
    ASSUME Steady, Inv, TypeOK', LbtsLeast, LbtsLeast', PendingNotBehind, SteadyInv, ReleaseInv, [Next]_vars
    PROVE  ReleaseInv'
<1>0. TypeOK /\ BoundsLow /\ OwnRequests
  BY Zenon DEF Inv, SteadyInv
<1>1. MembersOnly'
  BY <1>0, MembersOnlyStep, Zenon DEF ReleaseInv
<1>2. CASE UNCHANGED vars
  <2>1. Lbts' = Lbts
    BY <1>2, LbtsSame, Zenon DEF vars, roleVars, timeVars
  <2>2. ASSUME NEW s \in Federates PROVE Held(s)' /\ callbacks'[s] \in Seq(Covered(s)')
    <3>1. Held(s) /\ callbacks[s] \in Seq(Covered(s))
      BY Zenon DEF ReleaseInv
    <3>2. Held(s)'
      BY <1>2, <2>1, <3>1, Zenon DEF vars, roleVars, timeVars, frameVars, countVars, Held,
         Seen, Passes, Gone
    <3>3. Covered(s)' = Covered(s)
      BY <1>2, <2>1, Zenon DEF vars, roleVars, timeVars, frameVars, countVars, Covered,
         Settled, Grants, Ready, Gone
    <3>4. QED  BY <1>2, <3>1, <3>2, <3>3, Zenon DEF vars, frameVars
  <2>3. Settled' = Settled
    BY <1>2, Zenon DEF vars, roleVars, timeVars, countVars, Settled, Gone
  <2>4. \A f \in Federates : inbox'[f] \in Seq({cb \in Settled' : cb.to = f})
    BY <1>2, <2>3, Zenon DEF ReleaseInv, vars
  <2>5. QED  BY <1>1, <2>2, <2>4, Zenon DEF ReleaseInv
<1>3. ASSUME NEW a \in Federates, Call(a) \/ Step(a) PROVE ReleaseInv'
  <2>1. ASSUME NEW s \in Federates PROVE Held(s)'
    <3>1. Held(s)
      BY Zenon DEF ReleaseInv
    <3>2. CASE s # a
      BY <1>0, <1>3, <3>1, <3>2, HeldByOthers, Zenon
    <3>3. CASE s = a
      BY <1>0, <1>3, <3>1, <3>3, HeldByOwn, Zenon
    <3>4. QED  BY <3>2, <3>3, Zenon
  <2>2. ASSUME NEW s \in Federates PROVE callbacks'[s] \in Seq(Covered(s)')
    <3>1. Held(s) /\ callbacks[s] \in Seq(Covered(s))
      BY Zenon DEF ReleaseInv
    <3>2. CASE s # a
      <4>1. callbacks'[s] = callbacks[s]
        BY <1>0, <1>3, <3>2, OthersStep, Zenon
      <4>2. Covered(s) \subseteq Covered(s)'
        BY <1>0, <1>1, <1>3, CoveredStays, Zenon
      <4>3. QED  BY <3>1, <4>1, <4>2, MoreElements, Zenon
    <3>3. CASE s = a
      BY <1>0, <1>1, <1>3, <3>1, <3>3, CallbacksCovered, Zenon DEF ReleaseInv
    <3>4. QED  BY <3>2, <3>3, Zenon
  <2>3. \A f \in Federates : inbox'[f] \in Seq({cb \in Settled : cb.to = f}')
    BY <1>0, <1>3, InboxSettled, Zenon
  <2>4. QED  BY <1>1, <2>1, <2>2, <2>3, Zenon DEF ReleaseInv
<1>4. QED  BY <1>2, <1>3, Zenon DEF Next

\* As long as no role change can lower LBTS and nobody drops a constraint, a
\* message of the TSO queue reaches its federate only with a grant up to its
\* time stamp, although drain_tso_up_to runs before the grant, under another
\* lock and after another reading of LBTS, and any session may make the grant.
THEOREM ReleasesComeWithGrants ==
    ASSUME Steady
    PROVE  Spec => []ReleasedWithGrant
<1>1. Init => ReleaseInv
  <2>1. SUFFICES ASSUME Init PROVE ReleaseInv
    BY Zenon
  <2>2. ASSUME NEW s \in Federates
        PROVE  Held(s) /\ callbacks[s] = <<>> /\ inbox[s] = <<>> /\ pending_advance[s] = None
    BY <2>1, Zenon DEF Init, Held
  <2>3. \A S : <<>> \in Seq(S)
    OBVIOUS
  <2>4. QED  BY <2>2, <2>3, Zenon DEF ReleaseInv, MembersOnly
<1>2. Inv /\ TypeOK' /\ LbtsLeast /\ LbtsLeast' /\ PendingNotBehind /\ SteadyInv /\ ReleaseInv /\ [Next]_vars
        => ReleaseInv'
  BY ReleaseInvStep, Zenon
<1>3. TypeOK /\ ReleaseInv => ReleasedWithGrant
  <2>1. SUFFICES ASSUME TypeOK, ReleaseInv, NEW f \in federates, NEW i \in DOMAIN inbox[f],
                        inbox[f][i].kind = "tso"
                 PROVE  inbox[f][i].time <= current_time[f]
    BY Zenon DEF ReleasedWithGrant
  <2>2. f \in Federates
    BY <2>1, Zenon DEF TypeOK
  <2>3. inbox[f] \in Seq({cb \in Settled : cb.to = f})
    BY <2>1, <2>2, Zenon DEF ReleaseInv
  <2>4. inbox[f][i] \in {cb \in Settled : cb.to = f}
    <3> DEFINE S == {cb \in Settled : cb.to = f}
    <3> HIDE DEF S
    <3>1. inbox[f] \in Seq(S)
      BY <2>3, Zenon DEF S
    <3>2. inbox[f][i] \in S
      BY <2>1, <3>1
    <3>3. QED  BY <3>2, Zenon DEF S
  <2>5. QED  BY <2>1, <2>4, Zenon DEF Settled, Gone
<1>4. QED
  BY <1>1, <1>2, <1>3, InitInv, StepInv, TypeCorrect, LbtsAlways, PendingNeverBehind, SteadyInvariant, PTL
     DEF Spec

\* A time-stamped update of a regulating federate never reaches a constrained
\* federate that has already passed its time stamp, whoever is granted what
\* between the check of the sender's lookahead and the routing, unless the
\* sender itself is constrained and was granted an advance in between.
THEOREM NoUpdateFromThePast ==
    ASSUME Steady, Promising
    PROVE  Spec => NoMessageFromThePast
<1>1. Init => GrantInv /\ PastInv
  <2>1. SUFFICES ASSUME Init PROVE GrantInv /\ PastInv
    BY Zenon
  <2>2. GrantInv
    BY <2>1, Zenon DEF Init, GrantInv, BoundIsLower, ListRespectsBound, SelfGrantIsFree
  <2>3. raced = {} /\ \A s \in Federates : pc[s] = "idle"
    BY <2>1, Zenon DEF Init
  <2>4. ASSUME NEW s \in is_regulating, NEW f \in is_constrained
        PROVE  current_time[f] <= current_time[s] + lookahead[s]
    <3>1. s \in Federates /\ f \in Federates
      BY <2>1, RolesAssumption, Zenon DEF Init
    <3>2. current_time[f] = 0 /\ current_time[s] = 0 /\ lookahead[s] \in Nat
      BY <2>1, <3>1, TimesAssumption, Zenon DEF Init
    <3>3. QED  BY <3>2
  <2>5. \A s \in is_regulating : pc[s] # "route"
    BY <2>1, <2>3, RolesAssumption, Zenon DEF Init
  <2>6. QED  BY <2>2, <2>3, <2>4, <2>5, Zenon DEF PastInv
<1>2. TypeOK /\ TypeOK' /\ LbtsLeast /\ LbtsLeast' /\ PendingNotBehind /\ SteadyInv /\ GrantInv /\ PastInv /\ [Next]_vars
        => GrantInv' /\ PastInv'
  BY GrantInvStep, PastInvStep, Zenon DEF SteadyInv
<1>3. ASSUME TypeOK, PastInv, NEW s \in is_regulating, pc[s] = "route"
      PROVE  \/ \A f \in is_constrained \ {s} : current_time[f] <= time[s]
             \/ s \in is_constrained /\ ~HonoursLookahead(s, time[s])
  <2>1. CASE HonoursLookahead(s, time[s])
    <3>1. time[s] >= current_time[s] + lookahead[s]
      BY <2>1, Zenon DEF HonoursLookahead
    <3>2. ASSUME NEW f \in is_constrained PROVE current_time[f] <= time[s]
      <4>1. current_time[f] <= current_time[s] + lookahead[s]
        BY <1>3, Zenon DEF PastInv
      <4>2. current_time[f] \in Nat /\ current_time[s] \in Nat /\ lookahead[s] \in Nat
            /\ time[s] \in Nat
        BY <1>3, TimesAssumption, Zenon DEF TypeOK
      <4>3. QED  BY <3>1, <4>1, <4>2
    <3>3. QED  BY <3>2, Zenon
  <2>2. QED  BY <1>3, <2>1, Zenon DEF PastInv
<1>4. TypeOK /\ PastInv /\ [Next]_vars =>
        [\A s \in is_regulating : pc[s] = "route" /\ pc'[s] # "route" =>
            \/ \A f \in is_constrained \ {s} : current_time[f] <= time[s]
            \/ s \in is_constrained /\ ~HonoursLookahead(s, time[s])]_vars
  BY <1>3, Zenon
<1>5. QED
  BY <1>1, <1>2, <1>4, TypeCorrect, LbtsAlways, PendingNeverBehind, SteadyInvariant, PTL
     DEF Spec, NoMessageFromThePast
====
