---- MODULE AmbassadorProofs ----
(***************************************************************************)
(* Proofs about Ambassador, for any number of tasks and calls, any range   *)
(* of sequence numbers and any capacity of the channels.                   *)
(***************************************************************************)
EXTENDS Ambassador, TLAPS

\* A task without a call holds no answer, one with a call knows its id; the
\* claims of calls leave room for that of disconnect.
Calling ==
    /\ \A t \in Tasks : IF pc[t] = "idle" THEN mine[t] = NoCall /\ answer[t] = None
                                          ELSE mine[t].id \in CallIds
    /\ disconnect = "no" => claims <= MaxCalls

Shape == TypeOK /\ Calling

\* The assumption on the constants, fact by fact.
LEMMA Bounds ==
    /\ MaxSeq \in Nat /\ Capacity \in Nat /\ NetCapacity \in Nat
    /\ MaxCalls \in Nat /\ MaxPushes \in Nat /\ None \notin Nat
BY BoundsAssumption

\* A channel with room takes another frame.
LEMMA Room ==
    ASSUME NEW S, NEW q \in Seq(S), NEW x \in S, NEW N \in Nat, Len(q) < N
    PROVE  Append(q, x) \in Seq(S) /\ Len(Append(q, x)) <= N
OBVIOUS

\* An empty channel fits.
LEMMA NoFrames ==
    ASSUME NEW S, NEW N \in Nat
    PROVE  <<>> \in Seq(S) /\ Len(<<>>) <= N
OBVIOUS

\* A frame is taken from a channel that has one.
LEMMA Taken ==
    ASSUME NEW S, NEW q \in Seq(S), NEW N \in Nat, Len(q) <= N, q # <<>>
    PROVE  Head(q) \in S /\ Tail(q) \in Seq(S) /\ Len(Tail(q)) <= N
OBVIOUS

\* Shape holds before the first call.
LEMMA ShapeInit == Init => Shape
<1>1. MaxSeq \in Nat /\ 1 % (MaxSeq + 1) \in 0 .. MaxSeq
  BY Bounds
<1> QED BY <1>1, Bounds DEF Init, Shape, TypeOK, Calling, SequenceNumbers, NoCall, Pending

\* claim_next_outbound_seq stays within the range of the numbers.
LEMMA FollowingTyped == \A n \in SequenceNumbers : Following(n) \in SequenceNumbers
BY Bounds DEF SequenceNumbers, Following

\* Closing channels keeps the type of the answers.
LEMMA ClosingTyped ==
    ASSUME TypeOK, NEW ids
    PROVE  Closing(ids) \in [Tasks -> {None, Empty} \cup CallIds]
BY DEF TypeOK, Closing

\* An idle task has no entry, and nothing closes its channel.
LEMMA ClosingIdle ==
    ASSUME Shape, NEW ids \in SUBSET ({None} \cup CallIds), NEW t \in Tasks, pc[t] = "idle"
    PROVE  Closing(ids)[t] = None
BY Bounds DEF Shape, Calling, Closing, NoCall, CallIds

\* Entries are calls.
LEMMA PendingTyped == TypeOK => Pending \subseteq CallIds
BY DEF TypeOK, Pending

\* Who enters a call or takes an entry out forgets the abandoned one there.
LEMMA EntriesStay ==
    ASSUME TypeOK, NEW n \in SequenceNumbers, NEW x \in {None} \cup CallIds,
           pending' = [pending EXCEPT ![n] = x],
           abandoned' = abandoned \ {pending[n]}
    PROVE  /\ pending' \in [SequenceNumbers -> {None} \cup CallIds]
           /\ abandoned' \subseteq Pending'
<1>1. pending' \in [SequenceNumbers -> {None} \cup CallIds]
  BY DEF TypeOK
<1>2. ASSUME NEW k \in abandoned, k # pending[n]
      PROVE  k \in Pending'
  <2>1. PICK m \in SequenceNumbers : pending[m] = k /\ k # None
    BY <1>2 DEF TypeOK, Pending
  <2>2. m # n /\ pending'[m] = k
    BY <1>2, <2>1 DEF TypeOK
  <2> QED BY <2>1, <2>2 DEF Pending
<1> QED BY <1>1, <1>2

\* Claiming a number keeps the shape.
LEMMA ClaimShape ==
    ASSUME Shape, NEW t \in Tasks, Claim(t)
    PROVE  Shape'
<1> USE Bounds
<1>1. claims + 1 \in 1 .. MaxCalls
  BY DEF Shape, TypeOK, Claim
<1>2. next_outbound_seq' \in SequenceNumbers
  BY FollowingTyped DEF Shape, TypeOK, Claim, Claimed
<1>3. mine' \in [Tasks -> [id : 0 .. MaxCalls, seq : SequenceNumbers, late : BOOLEAN]]
  BY <1>1 DEF Shape, TypeOK, Claim
<1>4. Pending' = Pending
  BY DEF Claim, Pending
<1>5. TypeOK'
  BY <1>1, <1>2, <1>3, <1>4 DEF Shape, TypeOK, Claim, Claimed, netVars
<1>6. Calling'
  BY <1>1 DEF Shape, TypeOK, Calling, Claim, Claimed, CallIds
<1> QED BY <1>5, <1>6 DEF Shape

\* Entering a waiter keeps the shape.
LEMMA InsertShape ==
    ASSUME Shape, NEW t \in Tasks, Insert(t)
    PROVE  Shape'
<1>1. mine[t].id \in CallIds /\ mine[t].seq \in SequenceNumbers
  BY DEF Shape, TypeOK, Calling, Insert
<1>2. pending' \in [SequenceNumbers -> {None} \cup CallIds] /\ abandoned' \subseteq Pending'
  BY <1>1, EntriesStay, Zenon DEF Shape, Insert
<1>3. IsDrained \in BOOLEAN
  BY DEF IsDrained
<1>4. mine' \in [Tasks -> [id : 0 .. MaxCalls, seq : SequenceNumbers, late : BOOLEAN]]
  BY <1>3, Zenon DEF Shape, TypeOK, Insert
<1>5. \A u \in Tasks : mine'[u].id = mine[u].id /\ (u # t => mine'[u] = mine[u])
  BY DEF Shape, TypeOK, Insert
<1>6. pending[mine[t].seq] \in {None} \cup CallIds
  BY <1>1 DEF Shape, TypeOK
<1>7. answer' \in [Tasks -> {None, Empty} \cup CallIds]
  BY ClosingTyped DEF Shape, Insert
<1>8. \A u \in Tasks : pc'[u] = "idle" => u # t /\ pc[u] = "idle" /\ answer'[u] = None
  BY <1>6, ClosingIdle, ClosingTyped DEF Shape, TypeOK, Insert
<1>9. TypeOK'
  BY <1>2, <1>4, <1>7, Zenon DEF Shape, TypeOK, Insert, netVars
<1>10. Calling'
  BY <1>1, <1>5, <1>8, Zenon DEF Shape, TypeOK, Calling, Insert
<1> QED BY <1>9, <1>10 DEF Shape

\* Nothing of a task's call is left once it is over.
LEMMA OverShape ==
    ASSUME Shape, NEW t \in Tasks, Over(t), answer' = [answer EXCEPT ![t] = None],
           disconnect' \in {disconnect, "done"}, UNCHANGED claims
    PROVE  /\ pc' \in [Tasks -> {"idle", "insert", "send", "wait"}]
           /\ mine' \in [Tasks -> [id : 0 .. MaxCalls, seq : SequenceNumbers, late : BOOLEAN]]
           /\ answer' \in [Tasks -> {None, Empty} \cup CallIds]
           /\ Calling'
<1>1. NoCall \in [id : 0 .. MaxCalls, seq : SequenceNumbers, late : BOOLEAN]
  BY Bounds DEF NoCall, SequenceNumbers
<1>2. /\ pc' \in [Tasks -> {"idle", "insert", "send", "wait"}]
      /\ mine' \in [Tasks -> [id : 0 .. MaxCalls, seq : SequenceNumbers, late : BOOLEAN]]
      /\ answer' \in [Tasks -> {None, Empty} \cup CallIds]
  BY <1>1 DEF Shape, TypeOK, Over
<1>3. \A u \in Tasks : /\ u = t => pc'[u] = "idle" /\ mine'[u] = NoCall /\ answer'[u] = None
                       /\ u # t => pc'[u] = pc[u] /\ mine'[u] = mine[u] /\ answer'[u] = answer[u]
  BY DEF Shape, TypeOK, Over
<1> QED BY <1>2, <1>3 DEF Shape, Calling

\* Queueing a request, or failing to, keeps the shape.
LEMMA SendShape ==
    ASSUME Shape, NEW t \in Tasks, Send(t)
    PROVE  Shape'
<1>1. Pending' = Pending
  BY DEF Send, Pending
<1>2. CASE writer
  <2> DEFINE frame == [type |-> "call", seq |-> mine[t].seq, id |-> mine[t].id]
  <2>1. frame \in Frames
    BY DEF Shape, TypeOK, Frames
  <2>2. out' \in Seq(Frames) /\ Len(out') <= Capacity
    <3>1. out \in Seq(Frames) /\ Len(out) < Capacity /\ out' = Append(out, frame)
      BY <1>2 DEF Shape, TypeOK, Send
    <3> HIDE DEF frame
    <3> QED BY <2>1, <3>1, Bounds, Room
  <2>3. TypeOK'
    BY <1>1, <1>2, <2>2, Zenon DEF Shape, TypeOK, Send
  <2>4. Calling'
    BY <1>2 DEF Shape, TypeOK, Calling, Send
  <2> QED BY <2>3, <2>4 DEF Shape
<1>3. CASE ~ writer
  <2>1. /\ Over(t) /\ answer' = [answer EXCEPT ![t] = None]
        /\ UNCHANGED <<claims, disconnect, out>>
        /\ abandoned' = abandoned \cup ({mine[t].id} \cap Pending)
    BY <1>3 DEF Send
  <2>2. abandoned' \subseteq Pending'
    BY <1>1, <2>1 DEF Shape, TypeOK
  <2>3. pump' \in {"read", "handler", "in_call", "beat", "done"}
    BY <1>3 DEF Shape, TypeOK, Send
  <2>4. TypeOK'
    BY <2>1, <2>2, <2>3, OverShape, Zenon DEF Shape, TypeOK, Send
  <2> QED BY <2>1, <2>4, OverShape, Zenon DEF Shape
<1> QED BY <1>2, <1>3

\* Returning keeps the shape.
LEMMA ReturnShape ==
    ASSUME Shape, NEW t \in Tasks, Return(t)
    PROVE  Shape'
<1>1. Pending' = Pending
  BY DEF Return, Pending
<1>2. TypeOK'
  BY <1>1, OverShape, Zenon DEF Shape, TypeOK, Return, netVars
<1> QED BY <1>2, OverShape, Zenon DEF Shape, Return

\* Giving a call up keeps the shape.
LEMMA GiveUpShape ==
    ASSUME Shape, NEW t \in Tasks, GiveUp(t)
    PROVE  Shape'
<1>1. Pending' = Pending
  BY DEF GiveUp, Pending
<1>2. abandoned' \subseteq Pending'
  BY <1>1 DEF Shape, TypeOK, GiveUp
<1>3. TypeOK'
  BY <1>2, OverShape, Zenon DEF Shape, TypeOK, GiveUp, netVars
<1> QED BY <1>3, OverShape, Zenon DEF Shape, GiveUp

\* What moves frames only.
LEMMA FramesShape ==
    ASSUME Shape, UNCHANGED <<callVars, disconnect>>,
           out' \in Seq(Frames), Len(out') <= Capacity,
           wire' \in Seq(Frames), Len(wire') <= NetCapacity,
           back' \in Seq(Frames), Len(back') <= NetCapacity,
           writer' \in BOOLEAN, server' \in BOOLEAN, pushes' \in 0 .. MaxPushes,
           pump' \in {"read", "handler", "in_call", "beat", "done"}
    PROVE  Shape'
<1>1. Pending' = Pending
  BY DEF callVars, Pending
<1>2. TypeOK'
  BY <1>1 DEF Shape, TypeOK, callVars
<1>3. Calling'
  BY DEF Shape, Calling, callVars
<1> QED BY <1>2, <1>3 DEF Shape

\* The writer task and the RTI keep the shape.
LEMMA ConnectionShape ==
    ASSUME Shape, Connection
    PROVE  Shape'
<1>1. CASE WriterSends
  <2>1. Head(out) \in Frames /\ Tail(out) \in Seq(Frames) /\ Len(Tail(out)) <= Capacity
    BY <1>1, Bounds, Taken, Zenon DEF Shape, TypeOK, WriterSends
  <2>2. out' \in {Tail(out), <<>>} /\ wire' \in {wire, Append(wire, Head(out))}
        /\ (wire' # wire => Len(wire) < NetCapacity) /\ writer' \in {writer, FALSE}
    BY <1>1, Zenon DEF WriterSends
  <2>3. wire' \in Seq(Frames) /\ Len(wire') <= NetCapacity
    <3>1. wire \in Seq(Frames) /\ Len(wire) <= NetCapacity
      BY DEF Shape, TypeOK
    <3>2. CASE wire' = wire
      BY <3>1, <3>2
    <3>3. CASE wire' # wire
      BY <2>1, <2>2, <3>1, <3>3, Bounds, Room
    <3> QED BY <3>2, <3>3
  <2>4. out' \in Seq(Frames) /\ Len(out') <= Capacity
    BY <2>1, <2>2, Bounds, NoFrames, Zenon
  <2> QED BY <1>1, <2>2, <2>3, <2>4, FramesShape, Zenon DEF Shape, TypeOK, WriterSends
<1>2. CASE ServerReads
  <2>1. Head(wire) \in Frames /\ Tail(wire) \in Seq(Frames) /\ Len(Tail(wire)) <= NetCapacity
    BY <1>2, Bounds, Taken, Zenon DEF Shape, TypeOK, ServerReads
  <2>2. /\ [Head(wire) EXCEPT !.type = "response"] \in Frames
        /\ [Head(wire) EXCEPT !.type = "terminated"] \in Frames
    BY <2>1 DEF Frames
  <2>3. /\ wire' \in {Tail(wire), <<>>}
        /\ server' \in {server, FALSE}
        /\ \/ back' = back
           \/ /\ Len(back) < NetCapacity
              /\ \E x \in Frames : back' = Append(back, x)
    BY <1>2, <2>2, Zenon DEF ServerReads
  <2>4. wire' \in Seq(Frames) /\ Len(wire') <= NetCapacity
    BY <2>1, <2>3, Bounds, NoFrames, Zenon
  <2>5. back' \in Seq(Frames) /\ Len(back') <= NetCapacity
    <3>1. back \in Seq(Frames) /\ Len(back) <= NetCapacity
      BY DEF Shape, TypeOK
    <3>2. CASE back' = back
      BY <3>1, <3>2
    <3>3. CASE back' # back
      BY <2>3, <3>1, <3>3, Bounds, Room
    <3> QED BY <3>2, <3>3
  <2> QED BY <1>2, <2>3, <2>4, <2>5, FramesShape, Zenon DEF Shape, TypeOK, ServerReads
<1>3. ASSUME NEW type \in {"callback", "heartbeat"}, ServerPushes(type)
      PROVE  Shape'
  <2>1. [type |-> type, seq |-> 0, id |-> 0] \in Frames
    BY Bounds DEF Frames, SequenceNumbers
  <2>2. back' \in Seq(Frames) /\ Len(back') <= NetCapacity
    BY <1>3, <2>1, Bounds, Room, Zenon DEF Shape, TypeOK, ServerPushes
  <2>3. pushes' \in 0 .. MaxPushes
    BY <1>3, Bounds DEF Shape, TypeOK, ServerPushes
  <2> QED BY <1>3, <2>2, <2>3, FramesShape, Zenon DEF Shape, TypeOK, ServerPushes
<1>4. CASE ServerCloses
  <2>1. wire' \in Seq(Frames) /\ Len(wire') <= NetCapacity
    BY <1>4, Bounds, NoFrames DEF ServerCloses
  <2> QED BY <1>4, <2>1, FramesShape, Zenon DEF Shape, TypeOK, ServerCloses
<1> QED BY <1>1, <1>2, <1>3, <1>4 DEF Connection

\* Draining takes every entry out and closes the channels of those who wait.
LEMMA DrainedShape ==
    ASSUME Shape, Drained, UNCHANGED <<next_outbound_seq, claims, pc, mine, netVars>>,
           pump' \in {pump, "done"},
           disconnect' \in {"no", "drain", "abort", "done"},
           disconnect' = "no" => disconnect = "no"
    PROVE  Shape'
<1>1. answer' \in [Tasks -> {None, Empty} \cup CallIds]
  BY ClosingTyped DEF Shape, Drained
<1>2. \A t \in Tasks : pc[t] = "idle" => answer'[t] = None
  BY ClosingIdle, PendingTyped DEF Shape, Drained
<1>3. pending' \in [SequenceNumbers -> {None} \cup CallIds] /\ abandoned' \subseteq Pending'
  BY DEF Drained
<1>4. TypeOK'
  BY <1>1, <1>3 DEF Shape, TypeOK, netVars
<1>5. Calling'
  BY <1>2 DEF Shape, Calling
<1> QED BY <1>4, <1>5 DEF Shape

\* Reading a frame keeps the shape: its answer goes to no idle task.
LEMMA PumpReadsShape ==
    ASSUME Shape, PumpReads
    PROVE  Shape'
<1> DEFINE frame == Head(back)
<1>1. frame \in Frames /\ Tail(back) \in Seq(Frames) /\ Len(Tail(back)) <= NetCapacity
  BY Bounds, Taken, Zenon DEF Shape, TypeOK, PumpReads
<1>2. CASE frame.type = "response"
  <2>1. PumpResponds(frame) /\ UNCHANGED pump
    BY <1>2 DEF PumpReads
  <2>2. frame.seq \in SequenceNumbers /\ frame.id \in {Empty} \cup CallIds
    BY <1>1, Bounds DEF Frames, Empty, CallIds
  <2> HIDE DEF frame
  <2>3. pending' \in [SequenceNumbers -> {None} \cup CallIds] /\ abandoned' \subseteq Pending'
    BY <2>1, <2>2, EntriesStay, Zenon DEF Shape, PumpResponds
  <2>4. answer' \in [Tasks -> {None, Empty} \cup CallIds]
    BY <2>1, <2>2 DEF Shape, TypeOK, PumpResponds
  <2>5. ASSUME NEW t \in Tasks, pc[t] = "idle"
        PROVE  answer'[t] = None
    <3>1. mine[t].id = 0 /\ answer[t] = None
      BY <2>5 DEF Shape, Calling, NoCall
    <3>2. t \notin Waiter(pending[frame.seq])
      BY <2>2, <3>1, Bounds DEF Shape, TypeOK, Waiter, CallIds
    <3> QED BY <2>1, <3>1, <3>2 DEF PumpResponds
  <2>6. TypeOK'
    BY <1>1, <2>1, <2>3, <2>4 DEF Shape, TypeOK, PumpReads
  <2>7. Calling'
    BY <2>5 DEF Shape, Calling, PumpReads
  <2> QED BY <2>6, <2>7 DEF Shape
<1>3. CASE frame.type # "response"
  <2>1. pump' \in {"handler", "beat", "read"} /\ UNCHANGED <<pending, answer, abandoned>>
    BY <1>3 DEF PumpReads
  <2>2. UNCHANGED <<callVars, disconnect>>
    BY <2>1 DEF PumpReads, callVars
  <2> QED BY <1>1, <2>1, <2>2, FramesShape DEF Shape, TypeOK, PumpReads
<1> QED BY <1>2, <1>3

\* The pump keeps the shape.
LEMMA PumpShape ==
    ASSUME Shape, Pump
    PROVE  Shape'
<1>1. CASE HandlerReturns
  BY <1>1, FramesShape DEF Shape, TypeOK, HandlerReturns, netVars
<1>2. CASE PumpBeats
  <2>1. [type |-> "beat", seq |-> 0, id |-> 0] \in Frames
    BY Bounds DEF Frames, SequenceNumbers
  <2>2. out' \in Seq(Frames) /\ Len(out') <= Capacity
    <3>1. out \in Seq(Frames) /\ Len(out) <= Capacity
      BY DEF Shape, TypeOK
    <3>2. CASE writer
      BY <1>2, <2>1, <3>1, <3>2, Bounds, Room DEF PumpBeats
    <3>3. CASE ~ writer
      BY <1>2, <3>1, <3>3 DEF PumpBeats
    <3> QED BY <3>2, <3>3
  <2> QED BY <1>2, <2>2, FramesShape DEF Shape, TypeOK, PumpBeats
<1>3. CASE PumpEnds
  BY <1>3, DrainedShape DEF Shape, TypeOK, PumpEnds, PumpDrains
<1> QED BY <1>1, <1>2, <1>3, PumpReadsShape DEF Pump

\* disconnect keeps the shape.
LEMMA DisconnectShape ==
    ASSUME Shape, Disconnect
    PROVE  Shape'
<1>1. CASE DisconnectSends
  <2>1. claims + 1 \in 0 .. MaxCalls + 1 /\ next_outbound_seq \in SequenceNumbers
    BY <1>1, Bounds DEF Shape, TypeOK, Calling, DisconnectSends
  <2>2. [type |-> "terminate", seq |-> next_outbound_seq, id |-> 0] \in Frames
    BY <2>1, Bounds DEF Frames
  <2>3. out' \in Seq(Frames) /\ Len(out') <= Capacity
    <3>1. out \in Seq(Frames) /\ Len(out) <= Capacity
      BY DEF Shape, TypeOK
    <3>2. CASE writer
      BY <1>1, <2>2, <3>1, <3>2, Bounds, Room DEF DisconnectSends
    <3>3. CASE ~ writer
      BY <1>1, <3>1, <3>3 DEF DisconnectSends
    <3> QED BY <3>2, <3>3
  <2>4. next_outbound_seq' \in SequenceNumbers /\ claims' = claims + 1
    BY <1>1, <2>1, FollowingTyped DEF DisconnectSends, Claimed
  <2>5. Pending' = Pending
    BY <1>1 DEF DisconnectSends, Pending
  <2>6. TypeOK'
    BY <1>1, <2>1, <2>3, <2>4, <2>5 DEF Shape, TypeOK, DisconnectSends
  <2>7. Calling'
    BY <1>1 DEF Shape, Calling, DisconnectSends
  <2> QED BY <2>6, <2>7 DEF Shape
<1>2. CASE DisconnectDrains
  BY <1>2, DrainedShape DEF Shape, TypeOK, DisconnectDrains
<1>3. CASE DisconnectAborts
  <2>1. Pending' = Pending
    BY <1>3 DEF DisconnectAborts, Pending
  <2>2. Handler \in Tasks
    BY DEF Tasks
  <2>3. TypeOK'
    BY <1>3, <2>1, <2>2, OverShape, Zenon DEF Shape, TypeOK, DisconnectAborts, netVars
  <2> QED BY <1>3, <2>2, <2>3, OverShape, Zenon DEF Shape, DisconnectAborts
<1> QED BY <1>1, <1>2, <1>3 DEF Disconnect

\* Every step keeps the shape.
LEMMA ShapeStep == Shape /\ [Next]_vars => Shape'
<1> SUFFICES ASSUME Shape, [Next]_vars
             PROVE  Shape'
  OBVIOUS
<1>1. ASSUME NEW t \in Tasks, Call(t)
      PROVE  Shape'
  BY <1>1, ClaimShape, InsertShape, SendShape, ReturnShape, GiveUpShape DEF Call
<1>2. CASE UNCHANGED vars
  BY <1>2 DEF Shape, TypeOK, Calling, Pending, vars, callVars, netVars
<1> QED BY <1>1, <1>2, ConnectionShape, PumpShape, DisconnectShape DEF Next

\* The state of a federate's calls stays within its types, and no channel gets
\* more frames than it has room for.
THEOREM AmbassadorTyped == Spec => []TypeOK
<1>1. Shape => TypeOK
  BY DEF Shape
<1> QED BY <1>1, ShapeInit, ShapeStep, PTL DEF Spec

-----------------------------------------------------------------------------
(* Numbers                                                                 *)

\* Going round, n is as far behind the next number as call id is behind the
\* next call, unless the numbers have gone round since.
Numbered(id, n) ==
    claims - id <= MaxSeq =>
      n + (claims - id) + 1 \in {next_outbound_seq, next_outbound_seq + MaxSeq + 1}

\* The next call gets the next number.
LEMMA NumberedFirst ==
    ASSUME TypeOK, Claimed, NEW k, k = claims + 1, NEW n, n = next_outbound_seq
    PROVE  Numbered(k, n)'
BY Bounds DEF TypeOK, Claimed, Following, Numbered, SequenceNumbers

\* A claim puts a call, and its number, one further behind.
LEMMA NumberedStill ==
    ASSUME TypeOK, Claimed, NEW k \in CallIds, k <= claims, NEW n \in SequenceNumbers,
           Numbered(k, n)
    PROVE  Numbered(k, n)'
BY Bounds DEF TypeOK, Claimed, Following, Numbered, SequenceNumbers, CallIds

\* Two calls of one number are more than a round apart.
LEMMA SameNumber ==
    ASSUME TypeOK, NEW j \in CallIds, NEW k \in CallIds, j <= claims, k <= claims,
           NEW n \in SequenceNumbers, Numbered(j, n), Numbered(k, n)
    PROVE  j = k \/ Lapped(j) \/ Lapped(k)
<1> SUFFICES ASSUME ~ Lapped(j), ~ Lapped(k)
             PROVE  j = k
  OBVIOUS
<1>1. /\ claims \in Nat /\ next_outbound_seq \in Nat /\ MaxSeq \in Nat
      /\ j \in Nat /\ k \in Nat /\ n \in Nat
      /\ claims - j <= MaxSeq /\ claims - k <= MaxSeq
  BY Bounds DEF TypeOK, SequenceNumbers, CallIds, Lapped
<1>2. /\ n + (claims - j) + 1 \in {next_outbound_seq, next_outbound_seq + MaxSeq + 1}
      /\ n + (claims - k) + 1 \in {next_outbound_seq, next_outbound_seq + MaxSeq + 1}
  BY <1>1 DEF Numbered
<1> QED BY <1>1, <1>2

\* A request or a response with the number that g gives to its call.
Labelled(g) ==
    {frame \in Frames : frame.type \in {"call", "response"} =>
       frame.id \in CallIds /\ frame.id <= claims /\ frame.seq = g[frame.id]}

\* Tasks, entries and frames agree on which call has which number, and g says
\* which.
Labels(g) ==
    /\ \A k \in CallIds : k <= claims => Numbered(k, g[k])
    /\ \A t \in Tasks : mine[t].id # 0 => mine[t].id <= claims /\ mine[t].seq = g[mine[t].id]
    /\ \A n \in SequenceNumbers : pending[n] # None => pending[n] <= claims /\ g[pending[n]] = n
    /\ out \in Seq(Labelled(g))
    /\ wire \in Seq(Labelled(g))
    /\ back \in Seq(Labelled(g))

Numbering == \E g \in [CallIds -> SequenceNumbers] : Labels(g)

\* Before the first call any numbering will do.
LEMMA NumberingInit == Init => Numbering
<1> SUFFICES ASSUME Init
             PROVE  Numbering
  OBVIOUS
<1> DEFINE g == [k \in CallIds |-> 0]
<1>1. g \in [CallIds -> SequenceNumbers]
  BY Bounds DEF SequenceNumbers
<1> HIDE DEF g
<1>2. Labels(g)
  BY Bounds DEF Init, Labels, NoCall, CallIds
<1> QED BY <1>1, <1>2 DEF Numbering

\* A claim extends the numbering, and nobody has met the new id.
LEMMA ClaimedLabels ==
    ASSUME Shape, Claimed, NEW g \in [CallIds -> SequenceNumbers], Labels(g),
           NEW h, h = [g EXCEPT ![claims + 1] = next_outbound_seq]
    PROVE  /\ h \in [CallIds -> SequenceNumbers]
           /\ \A k \in CallIds : k <= claims => h[k] = g[k]
           /\ claims + 1 \in CallIds => h[claims + 1] = next_outbound_seq
           /\ \A k \in CallIds : k <= claims' => Numbered(k, h[k])'
           /\ Labelled(g) \subseteq Labelled(h)'
<1>1. h \in [CallIds -> SequenceNumbers]
  BY Zenon DEF Shape, TypeOK
<1>2. \A k \in CallIds : k <= claims => h[k] = g[k]
  BY Bounds DEF Shape, TypeOK, CallIds
<1>3. claims + 1 \in CallIds => h[claims + 1] = next_outbound_seq
  OBVIOUS
<1>4. claims' = claims + 1 /\ claims \in Nat
  BY Bounds DEF Shape, TypeOK, Claimed
<1>5. ASSUME NEW k \in CallIds, k <= claims'
      PROVE  Numbered(k, h[k])'
  <2>1. CASE k <= claims
    <3>1. Numbered(k, g[k])
      BY <2>1 DEF Labels
    <3>2. Numbered(k, g[k])'
      BY <2>1, <3>1, NumberedStill DEF Shape
    <3> QED BY <1>2, <2>1, <3>2
  <2>2. CASE k = claims + 1
    BY <1>3, <2>2, NumberedFirst DEF Shape
  <2> QED BY <1>4, <1>5, <2>1, <2>2 DEF CallIds
<1>6. Labelled(g) \subseteq Labelled(h)'
  BY <1>2, <1>4 DEF Labelled, CallIds
<1> QED BY <1>1, <1>2, <1>3, <1>5, <1>6, Zenon

\* A list over a set is one over a larger set.
LEMMA MoreFrames ==
    ASSUME NEW S, NEW T, S \subseteq T, NEW q \in Seq(S)
    PROVE  q \in Seq(T)
OBVIOUS

\* A call's claim extends the numbering.
LEMMA ClaimLabels ==
    ASSUME Shape, Numbering, NEW t \in Tasks, Claim(t)
    PROVE  Numbering'
<1>1. PICK g \in [CallIds -> SequenceNumbers] : Labels(g)
  BY DEF Numbering
<1>2. PICK h : h = [g EXCEPT ![claims + 1] = next_outbound_seq]
  BY Zenon
<1>3. /\ h \in [CallIds -> SequenceNumbers]
      /\ \A k \in CallIds : k <= claims => h[k] = g[k]
      /\ claims + 1 \in CallIds => h[claims + 1] = next_outbound_seq
      /\ \A k \in CallIds : k <= claims' => Numbered(k, h[k])'
      /\ Labelled(g) \subseteq Labelled(h)'
  BY <1>1, <1>2, ClaimedLabels, Zenon DEF Claim
<1>4. claims \in Nat /\ claims' = claims + 1 /\ claims + 1 \in CallIds
  BY Bounds DEF Shape, TypeOK, Claim, Claimed, CallIds
<1>5. ASSUME NEW u \in Tasks, mine'[u].id # 0
      PROVE  mine'[u].id <= claims' /\ mine'[u].seq = h[mine'[u].id]
  <2>1. CASE u = t
    BY <1>3, <1>4, <2>1 DEF Shape, TypeOK, Claim
  <2>2. CASE u # t
    <3>1. mine'[u] = mine[u] /\ mine[u].id \in CallIds
      BY <1>5, <2>2 DEF Shape, TypeOK, Claim, CallIds
    <3>2. mine[u].id <= claims /\ mine[u].seq = g[mine[u].id]
      BY <1>1, <1>5, <3>1 DEF Labels
    <3> QED BY <1>3, <1>4, <3>1, <3>2 DEF CallIds
  <2> QED BY <2>1, <2>2
<1>6. ASSUME NEW n \in SequenceNumbers, pending'[n] # None
      PROVE  pending'[n] <= claims' /\ h[pending'[n]] = n
  <2>1. pending'[n] = pending[n] /\ pending[n] \in CallIds
    BY <1>6 DEF Shape, TypeOK, Claim
  <2>2. pending[n] <= claims /\ g[pending[n]] = n
    BY <1>1, <1>6, <2>1 DEF Labels
  <2> QED BY <1>3, <1>4, <2>1, <2>2 DEF CallIds
<1>7. out' \in Seq(Labelled(h)') /\ wire' \in Seq(Labelled(h)') /\ back' \in Seq(Labelled(h)')
  <2>1. UNCHANGED <<out, wire, back>>
    BY DEF Claim, netVars
  <2> QED BY <1>1, <1>3, <2>1, MoreFrames DEF Labels
<1>8. Labels(h)'
  BY <1>3, <1>5, <1>6, <1>7 DEF Labels
<1> QED BY <1>3, <1>8 DEF Numbering

\* So does the claim of disconnect, whose frame belongs to no call.
LEMMA DisconnectSendsLabels ==
    ASSUME Shape, Numbering, DisconnectSends
    PROVE  Numbering'
<1>1. PICK g \in [CallIds -> SequenceNumbers] : Labels(g)
  BY DEF Numbering
<1>2. PICK h : h = [g EXCEPT ![claims + 1] = next_outbound_seq]
  BY Zenon
<1>3. /\ h \in [CallIds -> SequenceNumbers]
      /\ \A k \in CallIds : k <= claims => h[k] = g[k]
      /\ \A k \in CallIds : k <= claims' => Numbered(k, h[k])'
      /\ Labelled(g) \subseteq Labelled(h)'
  BY <1>1, <1>2, ClaimedLabels, Zenon DEF DisconnectSends
<1>4. claims \in Nat /\ claims' = claims + 1
  BY Bounds DEF Shape, TypeOK, DisconnectSends, Claimed
<1>5. ASSUME NEW u \in Tasks, mine'[u].id # 0
      PROVE  mine'[u].id <= claims' /\ mine'[u].seq = h[mine'[u].id]
  <2>1. mine'[u] = mine[u] /\ mine[u].id \in CallIds
    BY <1>5 DEF Shape, TypeOK, DisconnectSends, CallIds
  <2>2. mine[u].id <= claims /\ mine[u].seq = g[mine[u].id]
    BY <1>1, <1>5, <2>1 DEF Labels
  <2> QED BY <1>3, <1>4, <2>1, <2>2 DEF CallIds
<1>6. ASSUME NEW n \in SequenceNumbers, pending'[n] # None
      PROVE  pending'[n] <= claims' /\ h[pending'[n]] = n
  <2>1. pending'[n] = pending[n] /\ pending[n] \in CallIds
    BY <1>6 DEF Shape, TypeOK, DisconnectSends
  <2>2. pending[n] <= claims /\ g[pending[n]] = n
    BY <1>1, <1>6, <2>1 DEF Labels
  <2> QED BY <1>3, <1>4, <2>1, <2>2 DEF CallIds
<1>7. out' \in Seq(Labelled(h)')
  <2> DEFINE frame == [type |-> "terminate", seq |-> next_outbound_seq, id |-> 0]
  <2>1. out \in Seq(Labelled(h)')
    BY <1>1, <1>3, MoreFrames DEF Labels
  <2>2. frame \in Labelled(h)'
    BY Bounds DEF Shape, TypeOK, Labelled, Frames
  <2>3. out' = out \/ out' = Append(out, frame)
    BY DEF DisconnectSends
  <2> HIDE DEF frame
  <2> QED BY <2>1, <2>2, <2>3
<1>8. wire' \in Seq(Labelled(h)') /\ back' \in Seq(Labelled(h)')
  <2>1. UNCHANGED <<wire, back>>
    BY DEF DisconnectSends
  <2> QED BY <1>1, <1>3, <2>1, MoreFrames DEF Labels
<1>9. Labels(h)'
  BY <1>3, <1>5, <1>6, <1>7, <1>8 DEF Labels
<1> QED BY <1>3, <1>9 DEF Numbering

\* Whatever claims no number keeps the numbering, if tasks, entries and frames
\* keep to it.
LEMMA SameLabels ==
    ASSUME NEW g, Labels(g), UNCHANGED <<claims, next_outbound_seq>>,
           \A t \in Tasks : mine'[t].id # 0 => mine'[t].id = mine[t].id /\ mine'[t].seq = mine[t].seq,
           \A n \in SequenceNumbers : pending'[n] # None =>
             pending'[n] <= claims /\ g[pending'[n]] = n,
           out' \in Seq(Labelled(g)), wire' \in Seq(Labelled(g)), back' \in Seq(Labelled(g))
    PROVE  Labels(g)'
<1>1. Labelled(g)' = Labelled(g)
  BY DEF Labelled
<1>2. \A k \in CallIds : k <= claims' => Numbered(k, g[k])'
  BY DEF Labels, Numbered
<1>3. \A t \in Tasks : mine'[t].id # 0 => mine'[t].id <= claims' /\ mine'[t].seq = g[mine'[t].id]
  BY Zenon DEF Labels
<1> QED BY <1>1, <1>2, <1>3 DEF Labels

\* Lists stay lists of a set as its elements are appended.
LEMMA Grows ==
    ASSUME NEW S, NEW q \in Seq(S), NEW x \in S
    PROVE  Append(q, x) \in Seq(S) /\ <<>> \in Seq(S)
OBVIOUS

\* A call enters and sends what it claimed.
LEMMA CallLabels ==
    ASSUME Shape, NEW g \in [CallIds -> SequenceNumbers], Labels(g), NEW t \in Tasks,
           Insert(t) \/ Send(t) \/ Return(t) \/ GiveUp(t)
    PROVE  Labels(g)'
<1>1. out \in Seq(Labelled(g)) /\ wire \in Seq(Labelled(g)) /\ back \in Seq(Labelled(g))
  BY DEF Labels
<1>2. \A n \in SequenceNumbers : pending[n] # None => pending[n] <= claims /\ g[pending[n]] = n
  BY DEF Labels
<1>3. CASE Insert(t)
  <2>1. /\ mine[t].id \in CallIds /\ mine[t].seq \in SequenceNumbers
        /\ mine[t].id <= claims /\ g[mine[t].id] = mine[t].seq
    BY <1>3, Bounds DEF Shape, TypeOK, Calling, Insert, Labels, CallIds
  <2>2. \A u \in Tasks : mine'[u].id = mine[u].id /\ mine'[u].seq = mine[u].seq
    BY <1>3 DEF Shape, TypeOK, Insert
  <2>3. \A n \in SequenceNumbers : pending'[n] # None => pending'[n] <= claims /\ g[pending'[n]] = n
    BY <1>2, <1>3, <2>1 DEF Shape, TypeOK, Insert
  <2> QED BY <1>1, <1>3, <2>2, <2>3, SameLabels, Zenon DEF Insert, netVars
<1>4. CASE Send(t) /\ writer
  <2> DEFINE frame == [type |-> "call", seq |-> mine[t].seq, id |-> mine[t].id]
  <2>1. /\ mine[t].id \in CallIds /\ mine[t].seq \in SequenceNumbers
        /\ mine[t].id <= claims /\ g[mine[t].id] = mine[t].seq
    BY <1>4, Bounds DEF Shape, TypeOK, Calling, Send, Labels, CallIds
  <2>2. frame \in Labelled(g)
    BY <2>1 DEF Labelled, Frames, CallIds
  <2>3. out' = Append(out, frame)
    BY <1>4 DEF Send
  <2> HIDE DEF frame
  <2>4. out' \in Seq(Labelled(g))
    BY <1>1, <2>2, <2>3
  <2> QED BY <1>1, <1>2, <1>4, <2>4, SameLabels, Zenon DEF Send
<1>5. CASE Over(t) /\ UNCHANGED <<claims, next_outbound_seq, pending, out, wire, back>>
  <2>1. \A u \in Tasks : mine'[u].id # 0 => mine'[u] = mine[u]
    BY <1>5 DEF Shape, TypeOK, Over, NoCall
  <2> QED BY <1>1, <1>2, <1>5, <2>1, SameLabels, Zenon
<1> QED BY <1>3, <1>4, <1>5, Zenon DEF Send, Return, GiveUp, netVars

\* The writer task and the RTI hand on the numbers they get.
LEMMA ConnectionLabels ==
    ASSUME Shape, NEW g \in [CallIds -> SequenceNumbers], Labels(g), Connection
    PROVE  Labels(g)'
<1>1. out \in Seq(Labelled(g)) /\ wire \in Seq(Labelled(g)) /\ back \in Seq(Labelled(g))
  BY DEF Labels
<1>2. SUFFICES out' \in Seq(Labelled(g)) /\ wire' \in Seq(Labelled(g)) /\ back' \in Seq(Labelled(g))
  <2>1. UNCHANGED <<claims, next_outbound_seq, mine, pending>>
    BY DEF Connection, WriterSends, ServerReads, ServerPushes, ServerCloses, callVars
  <2>2. \A n \in SequenceNumbers : pending[n] # None => pending[n] <= claims /\ g[pending[n]] = n
    BY DEF Labels
  <2> QED BY <1>2, <2>1, <2>2, SameLabels, Zenon
<1>3. CASE WriterSends
  <2>1. Head(out) \in Labelled(g) /\ Tail(out) \in Seq(Labelled(g))
    BY <1>1, <1>3 DEF WriterSends
  <2>2. out' \in {Tail(out), <<>>} /\ wire' \in {wire, Append(wire, Head(out))} /\ back' = back
    BY <1>3, Zenon DEF WriterSends
  <2>3. out' \in Seq(Labelled(g))
    BY <2>1, <2>2, Grows, Zenon
  <2>4. wire' \in Seq(Labelled(g))
    BY <1>1, <2>1, <2>2, Grows, Zenon
  <2> QED BY <1>1, <2>2, <2>3, <2>4
<1>4. CASE ServerReads
  <2> DEFINE frame == Head(wire)
             answered == [frame EXCEPT !.type = "response"]
             ended == [frame EXCEPT !.type = "terminated"]
  <2>1. frame \in Labelled(g) /\ Tail(wire) \in Seq(Labelled(g))
    BY <1>1, <1>4 DEF ServerReads
  <2>2. wire' \in {Tail(wire), <<>>} /\ out' = out
    BY <1>4, Zenon DEF ServerReads
  <2>3. \/ frame.type = "call" /\ back' = Append(back, answered)
        \/ back' = Append(back, ended)
        \/ back' = back
    BY <1>4, Zenon DEF ServerReads
  <2> HIDE DEF frame
  <2>4. /\ frame.type = "call" => answered \in Labelled(g)
        /\ ended \in Labelled(g)
    BY <2>1 DEF Labelled, Frames
  <2> HIDE DEF answered, ended
  <2>5. back' \in Seq(Labelled(g))
    BY <1>1, <2>3, <2>4, Grows, Zenon
  <2>6. wire' \in Seq(Labelled(g))
    BY <2>1, <2>2, Grows, Zenon
  <2> QED BY <1>1, <2>2, <2>5, <2>6
<1>5. ASSUME NEW type \in {"callback", "heartbeat"}, ServerPushes(type)
      PROVE  out' \in Seq(Labelled(g)) /\ wire' \in Seq(Labelled(g)) /\ back' \in Seq(Labelled(g))
  <2> DEFINE frame == [type |-> type, seq |-> 0, id |-> 0]
  <2>1. frame \in Labelled(g)
    BY Bounds DEF Labelled, Frames, SequenceNumbers
  <2>2. back' = Append(back, frame) /\ UNCHANGED <<out, wire>>
    BY <1>5 DEF ServerPushes
  <2> HIDE DEF frame
  <2> QED BY <1>1, <2>1, <2>2
<1>6. CASE ServerCloses
  BY <1>1, <1>6 DEF ServerCloses
<1> QED BY <1>3, <1>4, <1>5, <1>6 DEF Connection

\* The pump adds no entry and no call.
LEMMA PumpLabels ==
    ASSUME Shape, NEW g \in [CallIds -> SequenceNumbers], Labels(g), Pump
    PROVE  Labels(g)'
<1>1. out \in Seq(Labelled(g)) /\ wire \in Seq(Labelled(g)) /\ back \in Seq(Labelled(g))
  BY DEF Labels
<1>2. \A n \in SequenceNumbers : pending[n] # None => pending[n] <= claims /\ g[pending[n]] = n
  BY DEF Labels
<1>3. UNCHANGED <<claims, next_outbound_seq, mine>>
  BY DEF Pump, PumpReads, HandlerReturns, PumpBeats, PumpEnds, callVars
<1>4. CASE PumpReads
  <2>1. Tail(back) \in Seq(Labelled(g)) /\ Head(back) \in Labelled(g)
    BY <1>1, <1>4 DEF PumpReads
  <2>2. Head(back).seq \in SequenceNumbers
    BY <2>1 DEF Labelled, Frames
  <2>3. pending' = pending \/ pending' = [pending EXCEPT ![Head(back).seq] = None]
    BY <1>4 DEF PumpReads, PumpResponds
  <2>4. \A n \in SequenceNumbers : pending'[n] # None => pending'[n] = pending[n]
    BY <2>2, <2>3 DEF Shape, TypeOK
  <2> QED BY <1>1, <1>2, <1>3, <1>4, <2>1, <2>4, SameLabels, Zenon DEF PumpReads
<1>5. CASE HandlerReturns
  BY <1>1, <1>2, <1>3, <1>5, SameLabels, Zenon DEF HandlerReturns, callVars, netVars
<1>6. CASE PumpBeats
  <2> DEFINE frame == [type |-> "beat", seq |-> 0, id |-> 0]
  <2>1. frame \in Labelled(g)
    BY Bounds DEF Labelled, Frames, SequenceNumbers
  <2>2. out' = out \/ out' = Append(out, frame)
    BY <1>6 DEF PumpBeats
  <2> HIDE DEF frame
  <2>3. out' \in Seq(Labelled(g))
    BY <1>1, <2>1, <2>2, Grows, Zenon
  <2> QED BY <1>1, <1>2, <1>3, <1>6, <2>3, SameLabels, Zenon DEF PumpBeats, callVars
<1>7. CASE PumpEnds
  <2>1. \A n \in SequenceNumbers : pending'[n] = None
    BY <1>7 DEF PumpEnds, PumpDrains, Drained
  <2> QED BY <1>1, <1>3, <1>7, <2>1, SameLabels, Zenon DEF PumpEnds, netVars
<1> QED BY <1>4, <1>5, <1>6, <1>7 DEF Pump

\* Every step keeps a numbering.
LEMMA NumberingStep == Shape /\ Numbering /\ [Next]_vars => Numbering'
<1> SUFFICES ASSUME Shape, Numbering, [Next]_vars
             PROVE  Numbering'
  OBVIOUS
<1>1. PICK g \in [CallIds -> SequenceNumbers] : Labels(g)
  BY DEF Numbering
<1>2. SUFFICES ASSUME \A t \in Tasks : ~ Claim(t), ~ DisconnectSends
               PROVE  Labels(g)'
  BY <1>1, ClaimLabels, DisconnectSendsLabels, Zenon DEF Numbering
<1>3. ASSUME NEW t \in Tasks, Call(t)
      PROVE  Labels(g)'
  BY <1>1, <1>2, <1>3, CallLabels, Zenon DEF Call
<1>4. \A n \in SequenceNumbers : pending[n] # None => pending[n] <= claims /\ g[pending[n]] = n
  BY <1>1 DEF Labels
<1>5. out \in Seq(Labelled(g)) /\ wire \in Seq(Labelled(g)) /\ back \in Seq(Labelled(g))
  BY <1>1 DEF Labels
<1>6. CASE DisconnectDrains
  <2>1. \A n \in SequenceNumbers : pending'[n] = None
    BY <1>6 DEF DisconnectDrains, Drained
  <2> QED BY <1>1, <1>5, <1>6, <2>1, SameLabels, Zenon DEF DisconnectDrains, netVars
<1>7. CASE DisconnectAborts
  <2>1. \A t \in Tasks : mine'[t].id # 0 => mine'[t] = mine[t]
    BY <1>7 DEF Shape, TypeOK, DisconnectAborts, Over, NoCall
  <2> QED BY <1>1, <1>4, <1>5, <1>7, <2>1, SameLabels, Zenon DEF DisconnectAborts, netVars
<1>8. CASE UNCHANGED vars
  BY <1>1, <1>4, <1>5, <1>8, SameLabels, Zenon DEF vars, callVars, netVars
<1> QED BY <1>1, <1>2, <1>3, <1>6, <1>7, <1>8, ConnectionLabels, PumpLabels, Zenon
           DEF Next, Disconnect

-----------------------------------------------------------------------------
(* Responses                                                               *)

\* Once the numbers have gone round since a call, they have.
LEMMA LappedStays ==
    ASSUME Shape, claims' \in {claims, claims + 1}, NEW k \in 0 .. MaxCalls, Lapped(k)
    PROVE  Lapped(k)'
<1>1. claims \in Nat /\ MaxSeq \in Nat /\ k \in Nat
  BY Bounds DEF Shape, TypeOK
<1>2. claims - k > MaxSeq
  BY DEF Lapped
<1>3. (claims + 1) - k > MaxSeq
  BY <1>1, <1>2
<1>4. CASE claims' = claims
  BY <1>2, <1>4, Zenon DEF Lapped
<1>5. CASE claims' = claims + 1
  BY <1>3, <1>5, Zenon DEF Lapped
<1> QED BY <1>4, <1>5

\* A response finds the entry of its own call, or of one a round away.
LEMMA ResponseFinds ==
    ASSUME Shape, Numbering, PumpReads, NEW frame, frame = Head(back),
           frame.type = "response", NEW t \in Waiter(pending[frame.seq])
    PROVE  frame.id = mine[t].id \/ Lapped(frame.id) \/ Lapped(mine[t].id)
<1>1. PICK g \in [CallIds -> SequenceNumbers] : Labels(g)
  BY DEF Numbering
<1>2. frame \in Labelled(g)
  BY <1>1 DEF Labels, PumpReads
<1>3. /\ frame.id \in CallIds /\ frame.id <= claims
      /\ frame.seq = g[frame.id] /\ frame.seq \in SequenceNumbers
  BY <1>2 DEF Labelled, Frames
<1>4. mine[t].id = pending[frame.seq] /\ mine[t].id \in 0 .. MaxCalls
  BY DEF Shape, TypeOK, Waiter
<1>5. pending[frame.seq] \in CallIds
  BY <1>3, <1>4, Bounds DEF Shape, TypeOK
<1>6. mine[t].id <= claims /\ g[mine[t].id] = frame.seq
  BY <1>1, <1>3, <1>4, <1>5, Bounds DEF Labels, CallIds
<1>7. Numbered(frame.id, frame.seq) /\ Numbered(mine[t].id, frame.seq)
  BY <1>1, <1>3, <1>4, <1>5, <1>6 DEF Labels
<1> QED BY <1>3, <1>4, <1>5, <1>6, <1>7, SameNumber DEF Shape

\* Answers that are neither new nor of a task with another call still match.
LEMMA ResponsesKept ==
    ASSUME Shape, ResponsesMatch, claims' \in {claims, claims + 1},
           \A t \in Tasks : answer'[t] \in CallIds =>
             answer'[t] = answer[t] /\ mine'[t].id = mine[t].id
    PROVE  ResponsesMatch'
<1> SUFFICES ASSUME NEW t \in Tasks, answer'[t] \in CallIds
             PROVE  (answer[t] = mine[t].id \/ Lapped(answer[t]) \/ Lapped(mine[t].id))'
  BY DEF ResponsesMatch
<1>1. PICK a \in CallIds : answer[t] = a /\ answer'[t] = a
  OBVIOUS
<1>2. PICK k \in 0 .. MaxCalls : mine[t].id = k /\ mine'[t].id = k
  BY Zenon DEF Shape, TypeOK
<1>3. a \in 0 .. MaxCalls
  BY DEF CallIds
<1>4. a = k \/ Lapped(a) \/ Lapped(k)
  BY <1>1, <1>2 DEF ResponsesMatch
<1>5. a = k \/ Lapped(a)' \/ Lapped(k)'
  BY <1>3, <1>4, LappedStays
<1> QED BY <1>1, <1>2, <1>5

\* Every step keeps ResponsesMatch; only reading a response could break it.
LEMMA ResponsesStep ==
    Shape /\ Shape' /\ Numbering /\ ResponsesMatch /\ [Next]_vars => ResponsesMatch'
<1> SUFFICES ASSUME Shape, Shape', Numbering, ResponsesMatch, [Next]_vars
             PROVE  ResponsesMatch'
  OBVIOUS
<1>1. 0 \notin CallIds /\ None \notin CallIds
  BY Bounds DEF CallIds
<1>2. \A ids : \A t \in Tasks : Closing(ids)[t] \in CallIds => Closing(ids)[t] = answer[t]
  BY <1>1 DEF Closing, Empty
<1>3. ASSUME NEW t \in Tasks, Claim(t)
      PROVE  ResponsesMatch'
  <2>1. \A u \in Tasks : answer'[u] = answer[u] /\ (u # t => mine'[u] = mine[u])
    BY <1>3 DEF Shape, TypeOK, Claim
  <2>2. answer[t] = None
    BY <1>3 DEF Shape, Calling, Claim
  <2> QED BY <1>1, <1>3, <2>1, <2>2, ResponsesKept, Zenon DEF Claim, Claimed
<1>4. ASSUME NEW t \in Tasks, Insert(t)
      PROVE  ResponsesMatch'
  <2>1. \A u \in Tasks : mine'[u].id = mine[u].id
    BY <1>4 DEF Shape, TypeOK, Insert
  <2>2. \A u \in Tasks : answer'[u] \in CallIds => answer'[u] = answer[u]
    BY <1>1, <1>2, <1>4, ClosingTyped DEF Shape, Insert
  <2> QED BY <1>4, <2>1, <2>2, ResponsesKept, Zenon DEF Insert
<1>5. ASSUME NEW t \in Tasks, Over(t), answer' = [answer EXCEPT ![t] = None], UNCHANGED claims
      PROVE  ResponsesMatch'
  <2>1. \A u \in Tasks : /\ u = t => answer'[u] = None
                         /\ u # t => answer'[u] = answer[u] /\ mine'[u] = mine[u]
    BY <1>5 DEF Shape, TypeOK, Over
  <2> QED BY <1>1, <1>5, <2>1, ResponsesKept, Zenon
<1>6. ASSUME UNCHANGED <<answer, mine>>, claims' \in {claims, claims + 1}
      PROVE  ResponsesMatch'
  BY <1>6, ResponsesKept, Zenon
<1>7. ASSUME NEW t \in Tasks, Send(t)
      PROVE  ResponsesMatch'
  BY <1>5, <1>6, <1>7, Zenon DEF Send
<1>8. CASE PumpReads
  <2>1. UNCHANGED <<mine, claims>>
    BY <1>8 DEF PumpReads
  <2>2. CASE Head(back).type = "response"
    <3>1. PICK frame : frame = Head(back) /\ frame.type = "response"
      BY <2>2, Zenon
    <3>2. answer' = [t \in Tasks |-> IF t \in Waiter(pending[frame.seq]) THEN frame.id ELSE answer[t]]
      BY <1>8, <2>2, <3>1 DEF PumpReads, PumpResponds
    <3> SUFFICES ASSUME NEW t \in Tasks, answer'[t] \in CallIds
                 PROVE  (answer[t] = mine[t].id \/ Lapped(answer[t]) \/ Lapped(mine[t].id))'
      BY DEF ResponsesMatch
    <3>3. answer'[t] = mine[t].id \/ Lapped(answer[t])' \/ Lapped(mine[t].id)
      <4>1. CASE t \in Waiter(pending[frame.seq])
        BY <1>8, <2>1, <3>1, <3>2, <4>1, ResponseFinds DEF Lapped
      <4>2. CASE t \notin Waiter(pending[frame.seq])
        BY <2>1, <3>2, <4>2 DEF ResponsesMatch, Lapped
      <4> QED BY <4>1, <4>2
    <3> QED BY <2>1, <3>3 DEF Lapped
  <2>3. CASE Head(back).type # "response"
    BY <1>6, <1>8, <2>1, <2>3, Zenon DEF PumpReads
  <2> QED BY <2>2, <2>3
<1>9. ASSUME Drained, UNCHANGED <<claims, mine>>
      PROVE  ResponsesMatch'
  <2>1. \A u \in Tasks : answer'[u] \in CallIds => answer'[u] = answer[u]
    BY <1>2, <1>9 DEF Drained
  <2> QED BY <1>9, <2>1, ResponsesKept, Zenon
<1>10. ASSUME NEW t \in Tasks, Call(t)
       PROVE  ResponsesMatch'
  BY <1>3, <1>4, <1>5, <1>7, <1>10, Zenon DEF Call, Return, GiveUp
<1>11. CASE Connection
  BY <1>6, <1>11, Zenon DEF Connection, WriterSends, ServerReads, ServerPushes, ServerCloses, callVars
<1>12. CASE Pump
  BY <1>6, <1>8, <1>9, <1>12, Zenon DEF Pump, HandlerReturns, PumpBeats, PumpEnds, PumpDrains, callVars
<1>13. CASE Disconnect
  <2>1. Handler \in Tasks
    BY DEF Tasks
  <2> QED BY <1>5, <1>6, <1>9, <1>13, <2>1, Zenon
             DEF Disconnect, DisconnectSends, DisconnectDrains, DisconnectAborts, Claimed
<1>14. CASE UNCHANGED vars
  BY <1>6, <1>14, Zenon DEF vars, callVars
<1> QED BY <1>10, <1>11, <1>12, <1>13, <1>14 DEF Next

\* ResponsesMatch holds for any range of numbers: a task gets the response to
\* its own request, unless the sequence numbers went all the way round since
\* one of the two requests got its number.
THEOREM ResponsesAreOwn == Spec => []ResponsesMatch
<1>1. Init => ResponsesMatch
  BY Bounds DEF Init, ResponsesMatch, CallIds
<1> QED BY <1>1, ShapeInit, NumberingInit, ShapeStep, NumberingStep, ResponsesStep, PTL DEF Spec

-----------------------------------------------------------------------------
(* The map of pending calls                                                *)

Carries(q, type, k) == \E i \in 1 .. Len(q) : q[i].type = type /\ q[i].id = k

\* The request of call k, or its response, is under way.
InFlight(k) ==
    Carries(out, "call", k) \/ Carries(wire, "call", k) \/ Carries(back, "response", k)

\* Somebody will take the entry of call k out, or its caller has left it.
Waited(k) ==
    \/ k \in abandoned
    \/ \E t \in Tasks : pc[t] = "send" /\ mine[t].id = k
    \/ InFlight(k)

\* The writer runs as long as the RTI does, the handler calls from within the
\* pump, and while RTI and pump run no entry is forgotten.
Attended ==
    /\ server => writer
    /\ pc[Handler] # "idle" => pump = "in_call"
    /\ server /\ pump # "done" => \A n \in SequenceNumbers : pending[n] # None => Waited(pending[n])

\* A channel carries what it carried and what was appended.
LEMMA CarriesMore ==
    ASSUME NEW S, NEW q \in Seq(S), NEW x \in S, NEW type, NEW k
    PROVE  /\ Carries(q, type, k) => Carries(Append(q, x), type, k)
           /\ x.type = type /\ x.id = k => Carries(Append(q, x), type, k)
<1>1. Len(q) \in Nat /\ Len(Append(q, x)) = Len(q) + 1
  OBVIOUS
<1>2. \A i \in 1 .. Len(q) : Append(q, x)[i] = q[i]
  OBVIOUS
<1>3. Append(q, x)[Len(q) + 1] = x
  OBVIOUS
<1>4. Carries(q, type, k) => Carries(Append(q, x), type, k)
  BY <1>1, <1>2 DEF Carries
<1>5. x.type = type /\ x.id = k => Carries(Append(q, x), type, k)
  BY <1>1, <1>3 DEF Carries
<1> QED BY <1>4, <1>5

\* A channel without its first frame carries the others.
LEMMA CarriesRest ==
    ASSUME NEW S, NEW q \in Seq(S), q # <<>>, NEW type, NEW k, Carries(q, type, k)
    PROVE  Carries(Tail(q), type, k) \/ (Head(q).type = type /\ Head(q).id = k)
<1>1. PICK i \in 1 .. Len(q) : q[i].type = type /\ q[i].id = k
  BY DEF Carries
<1>2. CASE i = 1
  BY <1>1, <1>2
<1>3. CASE i # 1
  <2>1. i - 1 \in 1 .. Len(Tail(q)) /\ Tail(q)[i - 1] = q[i]
    BY <1>3
  <2> QED BY <1>1, <2>1 DEF Carries
<1> QED BY <1>2, <1>3

\* An empty channel carries nothing.
LEMMA CarriesNothing == \A type, k : ~ Carries(<<>>, type, k)
BY DEF Carries

\* Entries under different numbers are different calls.
LEMMA OneEntry ==
    ASSUME Shape, Numbering, NEW m \in SequenceNumbers, NEW n \in SequenceNumbers,
           pending[m] # None, pending[m] = pending[n]
    PROVE  m = n
BY DEF Numbering, Labels

\* An entry that stays as it was stays attended.
LEMMA WaitedKept ==
    ASSUME NEW k, Waited(k),
           k \in abandoned => k \in abandoned',
           \A t \in Tasks : pc[t] = "send" /\ mine[t].id = k => pc'[t] = "send" /\ mine'[t].id = k,
           InFlight(k) => InFlight(k)'
    PROVE  Waited(k)'
BY Zenon DEF Waited

\* A claim leaves every entry attended.
LEMMA ClaimAttended ==
    ASSUME Shape, Attended, NEW t \in Tasks, Claim(t)
    PROVE  Attended'
<1>1. pc[t] = "idle" /\ \A u \in Tasks : u # t => pc'[u] = pc[u] /\ mine'[u] = mine[u]
  BY DEF Shape, TypeOK, Claim
<1>2. UNCHANGED <<pending, abandoned, out, wire, back, writer, server>>
  BY DEF Claim, netVars
<1>3. \A k : Waited(k) => Waited(k)'
  <2> SUFFICES ASSUME NEW k, Waited(k)
               PROVE  Waited(k)'
    OBVIOUS
  <2>1. InFlight(k) => InFlight(k)'
    BY <1>2 DEF InFlight
  <2> QED BY <1>1, <1>2, <2>1, WaitedKept
<1>4. pc'[Handler] # "idle" => pump' = "in_call"
  BY <1>1 DEF Attended, Claim, Tasks
<1>5. server' /\ pump' # "done" => server /\ pump # "done"
  BY <1>2 DEF Claim
<1> QED BY <1>2, <1>3, <1>4, <1>5 DEF Attended

\* The new entry is its caller's, and the other entries are other calls.
LEMMA InsertAttended ==
    ASSUME Shape, Numbering, Attended, NEW t \in Tasks, Insert(t)
    PROVE  Attended'
<1>1. mine[t].id \in CallIds /\ mine[t].seq \in SequenceNumbers
  BY DEF Shape, TypeOK, Calling, Insert
<1>2. \A u \in Tasks : /\ mine'[u].id = mine[u].id
                       /\ u # t => pc'[u] = pc[u]
                       /\ u = t => pc'[u] = "send"
  BY DEF Shape, TypeOK, Insert
<1>3. UNCHANGED <<pump, out, wire, back, writer, server>>
  BY DEF Insert, netVars
<1>4. ASSUME server, pump # "done", NEW n \in SequenceNumbers, pending'[n] # None
      PROVE  Waited(pending[n])'
  <2>1. CASE n = mine[t].seq
    <3>1. pending'[n] = mine'[t].id
      BY <1>1, <1>2, <2>1 DEF Shape, TypeOK, Insert
    <3> QED BY <1>2, <3>1 DEF Waited
  <2>2. CASE n # mine[t].seq
    <3>1. PICK k : pending[n] = k /\ pending'[n] = k
      BY <1>1, <2>2 DEF Shape, TypeOK, Insert
    <3>2. Waited(k)
      BY <1>4, <3>1 DEF Attended
    <3>3. k # pending[mine[t].seq]
      BY <1>1, <1>4, <2>2, <3>1, OneEntry
    <3>4. k \in abandoned => k \in abandoned'
      BY <3>3 DEF Insert
    <3>5. InFlight(k) => InFlight(k)'
      BY <1>3 DEF InFlight
    <3>6. \A u \in Tasks : pc[u] = "send" /\ mine[u].id = k => pc'[u] = "send" /\ mine'[u].id = k
      BY <1>2
    <3> QED BY <3>1, <3>2, <3>4, <3>5, <3>6, WaitedKept
  <2> QED BY <2>1, <2>2
<1>5. pc'[Handler] # "idle" => pump' = "in_call"
  BY <1>2, <1>3 DEF Attended, Insert, Tasks
<1> QED BY <1>3, <1>4, <1>5 DEF Attended

\* A request that is queued is under way, and one that is not is abandoned.
LEMMA SendAttended ==
    ASSUME Shape, Attended, NEW t \in Tasks, Send(t)
    PROVE  Attended'
<1>1. UNCHANGED <<pending, wire, back, writer, server>>
  BY DEF Send
<1>2. CASE writer
  <2> DEFINE frame == [type |-> "call", seq |-> mine[t].seq, id |-> mine[t].id]
  <2>1. frame \in Frames
    BY DEF Shape, TypeOK, Frames
  <2>2. frame.type = "call" /\ frame.id = mine[t].id
    OBVIOUS
  <2>3. out' = Append(out, frame) /\ UNCHANGED <<mine, abandoned, pump>>
    BY <1>2 DEF Send
  <2> HIDE DEF frame
  <2>4. \A u \in Tasks : u # t => pc'[u] = pc[u]
    BY <1>2 DEF Shape, TypeOK, Send
  <2>5. ASSUME NEW k, Waited(k)
        PROVE  Waited(k)'
    <3>1. Carries(out, "call", k) \/ mine[t].id = k => Carries(out, "call", k)'
      BY <2>1, <2>2, <2>3, CarriesMore DEF Shape, TypeOK
    <3>2. InFlight(k) \/ mine[t].id = k => InFlight(k)'
      BY <1>1, <3>1 DEF InFlight
    <3> QED BY <2>3, <2>4, <2>5, <3>2 DEF Waited
  <2>6. pc'[Handler] # "idle" => pc[Handler] # "idle"
    BY <2>4, Zenon DEF Send, Tasks
  <2> QED BY <1>1, <2>3, <2>5, <2>6 DEF Attended
<1>3. CASE ~ writer
  <2>1. ~ server'
    BY <1>1, <1>3 DEF Attended
  <2>2. pc'[Handler] # "idle" => pump' = "in_call"
    BY <1>3 DEF Shape, TypeOK, Attended, Send, Over, Tasks
  <2> QED BY <1>1, <2>1, <2>2 DEF Attended
<1> QED BY <1>2, <1>3

\* Who returns or gives up leaves a request under way or an abandoned entry.
LEMMA OverAttended ==
    ASSUME Shape, Attended, NEW t \in Tasks, Return(t) \/ GiveUp(t)
    PROVE  Attended'
<1>1. UNCHANGED <<pending, out, wire, back, writer, server>>
  BY DEF Return, GiveUp, netVars
<1>2. \A u \in Tasks : /\ u # t => pc'[u] = pc[u] /\ mine'[u] = mine[u]
                       /\ u = t => pc'[u] = "idle"
  BY DEF Shape, TypeOK, Return, GiveUp, Over
<1>3. abandoned \subseteq abandoned' /\ (pc[t] = "send" /\ mine[t].id \in Pending => mine[t].id \in abandoned')
  BY DEF Return, GiveUp
<1>4. pump' = pump \/ (t = Handler /\ pump' = "read" /\ pc[t] # "idle")
  BY DEF Return, GiveUp
<1>5. ASSUME server, pump # "done", NEW n \in SequenceNumbers, pending[n] # None
      PROVE  Waited(pending[n])'
  <2>1. PICK k : pending[n] = k /\ pending'[n] = k /\ k \in Pending
    BY <1>1, <1>5 DEF Pending
  <2>2. InFlight(k) => InFlight(k)'
    BY <1>1 DEF InFlight
  <2>3. Waited(k)
    BY <1>5, <2>1 DEF Attended
  <2> QED BY <1>2, <1>3, <2>1, <2>2, <2>3 DEF Waited
<1>6. pc'[Handler] # "idle" => pump' = "in_call"
  BY <1>2, <1>4 DEF Attended, Tasks
<1>7. pump' # "done" => pump # "done"
  BY <1>4 DEF Attended
<1> QED BY <1>1, <1>5, <1>6, <1>7 DEF Attended

\* What leaves calls and entries alone and loses no frame.
LEMMA FramesAttended ==
    ASSUME Attended, UNCHANGED callVars, server' => server, server' => writer',
           pc[Handler] # "idle" => pump' = pump, pump' # "done" => pump # "done",
           server' => \A k : InFlight(k) => InFlight(k)'
    PROVE  Attended'
<1>1. UNCHANGED <<pc, mine, pending, abandoned>>
  BY DEF callVars
<1>2. ASSUME server', NEW k, Waited(k)
      PROVE  Waited(k)'
  BY <1>1, <1>2 DEF Waited
<1> QED BY <1>1, <1>2 DEF Attended

\* While the RTI runs no request and no response is lost on the way.
LEMMA ConnectionAttended ==
    ASSUME Shape, Attended, Connection
    PROVE  Attended'
<1>1. out \in Seq(Frames) /\ wire \in Seq(Frames) /\ back \in Seq(Frames)
  BY DEF Shape, TypeOK
<1>2. CASE WriterSends
  <2>1. ASSUME server, NEW k, InFlight(k)
        PROVE  InFlight(k)'
    <3>1. out # <<>> /\ wire' = Append(wire, Head(out)) /\ out' = Tail(out) /\ back' = back
      BY <1>2, <2>1 DEF WriterSends
    <3>2. PICK x \in Frames : x = Head(out)
      BY <1>1, <3>1
    <3>3. Carries(out, "call", k) => Carries(out', "call", k) \/ (x.type = "call" /\ x.id = k)
      BY <1>1, <3>1, <3>2, CarriesRest
    <3>4. Carries(wire, "call", k) \/ (x.type = "call" /\ x.id = k) => Carries(wire', "call", k)
      BY <1>1, <3>1, <3>2, CarriesMore
    <3> QED BY <2>1, <3>1, <3>3, <3>4 DEF InFlight
  <2>2. server' = server /\ pump' = pump /\ (server => writer') /\ UNCHANGED callVars
    BY <1>2, Zenon DEF WriterSends
  <2> QED BY <2>1, <2>2, FramesAttended
<1>3. CASE ServerReads
  <2>1. ASSUME server', NEW k, InFlight(k)
        PROVE  InFlight(k)'
    <3>1. wire # <<>> /\ wire' = Tail(wire) /\ out' = out
      BY <1>3, <2>1 DEF ServerReads
    <3>2. PICK x \in Frames : x = Head(wire)
      BY <1>1, <3>1
    <3>3. Carries(wire, "call", k) => Carries(wire', "call", k) \/ (x.type = "call" /\ x.id = k)
      BY <1>1, <3>1, <3>2, CarriesRest
    <3>4. CASE x.type = "call"
      <4> DEFINE y == [x EXCEPT !.type = "response"]
      <4>1. back' = Append(back, y)
        BY <1>3, <3>2, <3>4, Zenon DEF ServerReads
      <4>2. y \in Frames /\ y.type = "response" /\ y.id = x.id
        BY <3>2 DEF Frames
      <4> HIDE DEF y
      <4>3. Carries(back, "response", k) \/ x.id = k => Carries(back', "response", k)
        BY <1>1, <4>1, <4>2, CarriesMore, Zenon
      <4> QED BY <2>1, <3>1, <3>3, <4>3 DEF InFlight
    <3>5. CASE x.type # "call"
      <4>1. back' = back
        BY <1>3, <2>1, <3>2, <3>5 DEF ServerReads
      <4> QED BY <2>1, <3>1, <3>3, <3>5, <4>1 DEF InFlight
    <3> QED BY <3>4, <3>5
  <2>2. (server' => server) /\ writer' = writer /\ pump' = pump /\ UNCHANGED callVars
    BY <1>3 DEF ServerReads
  <2> QED BY <2>1, <2>2, FramesAttended DEF Attended
<1>4. ASSUME NEW type \in {"callback", "heartbeat"}, ServerPushes(type)
      PROVE  Attended'
  <2>1. PICK x \in Frames : back' = Append(back, x)
    <3>1. [type |-> type, seq |-> 0, id |-> 0] \in Frames
      BY Bounds DEF Frames, SequenceNumbers
    <3> QED BY <1>4, <3>1, Zenon DEF ServerPushes
  <2>2. \A k : Carries(back, "response", k) => Carries(back', "response", k)
    BY <1>1, <2>1, CarriesMore
  <2>3. UNCHANGED <<callVars, out, wire, writer, server, pump>>
    BY <1>4 DEF ServerPushes
  <2>4. \A k : InFlight(k) => InFlight(k)'
    BY <2>2, <2>3 DEF InFlight
  <2> QED BY <2>3, <2>4, FramesAttended DEF Attended
<1>5. CASE ServerCloses
  BY <1>5, FramesAttended DEF ServerCloses
<1> QED BY <1>2, <1>3, <1>4, <1>5 DEF Connection

\* A response takes the entry of its own number out; the entries that are left
\* are other calls', whose frames are still under way.
LEMMA PumpReadsAttended ==
    ASSUME Shape, Numbering, Attended, PumpReads
    PROVE  Attended'
<1>1. PICK g \in [CallIds -> SequenceNumbers] : Labels(g)
  BY DEF Numbering
<1>2. back \in Seq(Frames) /\ back # <<>> /\ back' = Tail(back) /\ back \in Seq(Labelled(g))
  BY <1>1 DEF Shape, TypeOK, PumpReads, Labels
<1>3. PICK x \in Labelled(g) : x = Head(back)
  BY <1>2
<1>4. x \in Frames
  BY DEF Labelled
<1>5. UNCHANGED <<pc, mine, out, wire, writer, server>> /\ pump = "read"
  BY DEF PumpReads
<1>6. \A k : Carries(back, "response", k) =>
               Carries(back', "response", k) \/ (x.type = "response" /\ x.id = k)
  BY <1>2, <1>3, CarriesRest
<1>7. CASE x.type = "response"
  <2>1. PumpResponds(x) /\ pump' = pump
    BY <1>3, <1>7, Zenon DEF PumpReads
  <2>2. x.seq \in SequenceNumbers /\ x.seq = g[x.id]
    BY <1>4, <1>7 DEF Labelled, Frames
  <2>3. ASSUME server, NEW n \in SequenceNumbers, pending'[n] # None
        PROVE  Waited(pending[n])'
    <3>1. n # x.seq /\ pending'[n] = pending[n]
      BY <2>1, <2>2, <2>3 DEF Shape, TypeOK, PumpResponds
    <3>2. PICK k : pending[n] = k /\ pending'[n] = k /\ k # None
      BY <2>3, <3>1
    <3>3. k # pending[x.seq]
      BY <2>2, <3>1, <3>2, OneEntry
    <3>4. k # x.id
      BY <1>1, <2>2, <3>1, <3>2 DEF Labels
    <3>5. Waited(k)
      BY <1>5, <2>3, <3>2 DEF Attended
    <3>6. k \in abandoned => k \in abandoned'
      BY <2>1, <3>3 DEF PumpResponds
    <3>7. InFlight(k) => InFlight(k)'
      BY <1>5, <1>6, <3>4 DEF InFlight
    <3> QED BY <1>5, <3>2, <3>5, <3>6, <3>7, WaitedKept
  <2> QED BY <1>5, <2>1, <2>3 DEF Attended
<1>8. CASE x.type # "response"
  <2>1. pump' # "done" /\ UNCHANGED <<pending, answer, abandoned>>
    BY <1>3, <1>8 DEF PumpReads
  <2>2. \A k : InFlight(k) => InFlight(k)'
    BY <1>5, <1>6, <1>8 DEF InFlight
  <2>3. pc[Handler] = "idle"
    BY <1>5 DEF Attended
  <2>4. UNCHANGED callVars
    BY <2>1 DEF PumpReads, callVars
  <2> QED BY <1>5, <2>1, <2>2, <2>3, <2>4, FramesAttended DEF Attended
<1> QED BY <1>7, <1>8

\* The pump leaves every entry attended.
LEMMA PumpAttended ==
    ASSUME Shape, Numbering, Attended, Pump
    PROVE  Attended'
<1>1. CASE HandlerReturns
  <2>1. UNCHANGED <<callVars, out, wire, back, writer, server>> /\ pump = "handler" /\ pump' = "read"
    BY <1>1 DEF HandlerReturns, netVars
  <2>2. \A k : InFlight(k) => InFlight(k)'
    BY <2>1 DEF InFlight
  <2> QED BY <2>1, <2>2, FramesAttended DEF Attended
<1>2. CASE PumpBeats
  <2>1. UNCHANGED <<callVars, wire, back, writer, server>> /\ pump = "beat" /\ pump' = "read"
    BY <1>2 DEF PumpBeats
  <2> DEFINE frame == [type |-> "beat", seq |-> 0, id |-> 0]
  <2>2. frame \in Frames
    BY Bounds DEF Frames, SequenceNumbers
  <2>3. out \in Seq(Frames) /\ (out' = out \/ out' = Append(out, frame))
    BY <1>2 DEF Shape, TypeOK, PumpBeats
  <2> HIDE DEF frame
  <2>4. \A k : Carries(out, "call", k) => Carries(out', "call", k)
    BY <2>2, <2>3, CarriesMore, Zenon
  <2>5. \A k : InFlight(k) => InFlight(k)'
    BY <2>1, <2>4 DEF InFlight
  <2> QED BY <2>1, <2>5, FramesAttended DEF Attended
<1>3. CASE PumpEnds
  <2>1. UNCHANGED <<pc, server>> /\ ~ server /\ pump = "read"
    BY <1>3 DEF PumpEnds, netVars
  <2> QED BY <2>1 DEF Attended
<1> QED BY <1>1, <1>2, <1>3, PumpReadsAttended DEF Pump

\* disconnect drains every entry before it aborts the pump.
LEMMA DisconnectAttended ==
    ASSUME Shape, Attended, Disconnect
    PROVE  Attended'
<1>1. CASE DisconnectSends
  <2>1. UNCHANGED <<pc, mine, pending, abandoned, wire, back, writer, server, pump>>
    BY <1>1 DEF DisconnectSends
  <2> DEFINE frame == [type |-> "terminate", seq |-> next_outbound_seq, id |-> 0]
  <2>2. frame \in Frames
    BY Bounds DEF Shape, TypeOK, Frames
  <2>3. out \in Seq(Frames) /\ (out' = out \/ out' = Append(out, frame))
    BY <1>1 DEF Shape, TypeOK, DisconnectSends
  <2> HIDE DEF frame
  <2>4. \A k : Carries(out, "call", k) => Carries(out', "call", k)
    BY <2>2, <2>3, CarriesMore, Zenon
  <2>5. \A k : InFlight(k) => InFlight(k)'
    BY <2>1, <2>4 DEF InFlight
  <2>6. \A k : Waited(k) => Waited(k)'
    BY <2>1, <2>5 DEF Waited
  <2> QED BY <2>1, <2>6 DEF Attended
<1>2. CASE DisconnectDrains
  <2>1. UNCHANGED <<pc, pump, writer, server>>
    BY <1>2 DEF DisconnectDrains, netVars
  <2>2. \A n \in SequenceNumbers : pending'[n] = None
    BY <1>2 DEF DisconnectDrains, Drained
  <2> QED BY <2>1, <2>2 DEF Attended
<1>3. CASE DisconnectAborts
  <2>1. pc'[Handler] = "idle" /\ pump' = "done" /\ UNCHANGED <<writer, server>>
    BY <1>3 DEF Shape, TypeOK, DisconnectAborts, Over, Tasks, netVars
  <2> QED BY <2>1 DEF Attended
<1> QED BY <1>1, <1>2, <1>3 DEF Disconnect

\* Every step leaves every entry attended.
LEMMA AttendedStep == Shape /\ Numbering /\ Attended /\ [Next]_vars => Attended'
<1> SUFFICES ASSUME Shape, Numbering, Attended, [Next]_vars
             PROVE  Attended'
  OBVIOUS
<1>1. ASSUME NEW t \in Tasks, Call(t)
      PROVE  Attended'
  BY <1>1, ClaimAttended, InsertAttended, SendAttended, OverAttended DEF Call
<1>2. CASE UNCHANGED vars
  <2>1. UNCHANGED <<callVars, out, wire, back, writer, server, pump>>
    BY <1>2 DEF vars, netVars
  <2>2. \A k : InFlight(k) => InFlight(k)'
    BY <2>1 DEF InFlight
  <2> QED BY <2>1, <2>2, FramesAttended DEF Attended
<1> QED BY <1>1, <1>2, ConnectionAttended, PumpAttended, DisconnectAttended DEF Next

\* PendingCleared holds for any number of tasks and calls: an entry of the map
\* of pending calls goes when its response arrives, however many tasks call,
\* give up or reuse numbers, unless its call ended before it was queued.
THEOREM EntriesAreCleared == Spec => []PendingCleared
<1>1. Init => Attended
  BY DEF Init, Attended, Tasks
<1>2. Shape /\ Attended => PendingCleared
  <2> SUFFICES ASSUME Shape, Attended, \A t \in Tasks : pc[t] = "idle",
                      out = <<>>, wire = <<>>, back = <<>>, pump = "read", server,
                      NEW k \in Pending
               PROVE  k \in abandoned
    BY DEF PendingCleared
  <2>1. PICK n \in SequenceNumbers : pending[n] = k /\ k # None
    BY DEF Pending
  <2>2. Waited(k)
    BY <2>1 DEF Attended
  <2>3. ~ InFlight(k)
    BY CarriesNothing DEF InFlight
  <2> QED BY <2>2, <2>3 DEF Waited
<1> QED BY <1>1, <1>2, ShapeInit, NumberingInit, ShapeStep, NumberingStep, AttendedStep, PTL DEF Spec
====
