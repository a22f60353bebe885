---------------------------- MODULE Ambassador ----------------------------
(***************************************************************************)
(* The calls of a federate (crates/hla-federate/src/ambassador.rs): tasks  *)
(* share one RtiAmbassador, which numbers their requests, keeps a map of   *)
(* pending calls, and has a writer task and a pump task of its own.  The   *)
(* connection's other end is the session loop of the RTI                   *)
(* (crates/hla-rti/src/lib.rs), which answers requests in the order they   *)
(* arrive and pushes callbacks and heartbeats in between.                  *)
(*                                                                         *)
(* A step ends where a task awaits or another task can take a lock.  A     *)
(* request and its response carry the number of the call they belong to,   *)
(* which stands for their bodies.                                          *)
(***************************************************************************)
EXTENDS Naturals, Sequences, FiniteSets

CONSTANTS
    Callers,       \* tasks that call
    Impatient,     \* those that may give a call up
    Handler,       \* the callback handler, when it calls
    MaxSeq,        \* MAX_SEQUENCE_NUMBER
    Capacity,      \* size of the channel to the writer task (128)
    NetCapacity,   \* frames under way in each direction
    MaxCalls,      \* bound on the calls made, each known by its claim
    MaxPushes,     \* bound on the callbacks and heartbeats pushed
    None

ASSUME BoundsAssumption ==
    /\ Handler \notin Callers
    /\ Impatient \subseteq Callers
    /\ {MaxSeq, Capacity, NetCapacity, MaxCalls, MaxPushes} \subseteq Nat
    /\ None \notin Nat

Tasks == Callers \cup {Handler}

\* The first numbers; NO_SEQUENCE_NUMBER is none of them.
SequenceNumbers == 0 .. MaxSeq

CallIds == 1 .. MaxCalls

\* The body a drained call gets; that of a response is its call's id.
Empty == 0

VARIABLES
    next_outbound_seq,  \* Inner.next_outbound_seq
    claims,             \* numbers claimed so far (history)
    pc,                 \* where the call of a task is
    mine,               \* the call a task is at: its id, its number, and
                        \* was it entered after a drain (history)
    pending,            \* PendingMap: number -> the call that waits for it
    answer,             \* what the oneshot channel of a task holds
    out,                \* frames in the channel to the writer task
    wire,               \* frames on their way to the RTI
    back,               \* frames on their way to the federate
    writer,             \* is the writer task running
    pump,               \* what the pump task does
    server,             \* does the RTI's session loop run
    pushes,             \* callbacks and heartbeats so far
    disconnect,         \* where disconnect is
    abandoned           \* entries of calls that ended unqueued (history)

callVars == <<next_outbound_seq, claims, pc, mine, pending, answer, abandoned>>
netVars == <<out, wire, back, writer, server, pushes>>
vars == <<callVars, netVars, pump, disconnect>>

NoCall == [id |-> 0, seq |-> 0, late |-> FALSE]

Init ==
    /\ next_outbound_seq = 1 % (MaxSeq + 1)
    /\ claims = 0
    /\ pc = [t \in Tasks |-> "idle"]
    /\ mine = [t \in Tasks |-> NoCall]
    /\ pending = [n \in SequenceNumbers |-> None]
    /\ answer = [t \in Tasks |-> None]
    /\ out = <<>> /\ wire = <<>> /\ back = <<>>
    /\ writer = TRUE
    /\ pump = "read"
    /\ server = TRUE
    /\ pushes = 0
    /\ disconnect = "no"
    /\ abandoned = {}

-----------------------------------------------------------------------------
\* Following as it would be if the counter stuck at the end of its range.
FollowingStuck(n) == IF n = MaxSeq THEN MaxSeq ELSE n + 1

\* claim_next_outbound_seq: the number after n, wrapping to 0.
Following(n) == IF n = MaxSeq THEN 0 ELSE n + 1

Claimed == /\ next_outbound_seq' = Following(next_outbound_seq)
           /\ claims' = claims + 1

\* A task's call is over.
Over(t) == /\ pc' = [pc EXCEPT ![t] = "idle"]
           /\ mine' = [mine EXCEPT ![t] = NoCall]

\* The task that waits for call id, if it still does.
Waiter(id) == {t \in Tasks : mine[t].id = id}

\* The oneshot channels of these calls get (or lose their sender, which the
\* receiver takes for) an empty body.
Closing(ids) == [t \in Tasks |-> IF mine[t].id \in ids THEN Empty ELSE answer[t]]

Pending == {pending[n] : n \in SequenceNumbers} \ {None}

Drained == /\ answer' = Closing(Pending)
           /\ pending' = [n \in SequenceNumbers |-> None]
           /\ abandoned' = {}

IsDrained == pump = "done" \/ disconnect \in {"abort", "done"}

-----------------------------------------------------------------------------
(* call                                                                    *)

\* A number is claimed.  The callback handler calls from within the pump.
Claim(t) ==
    /\ pc[t] = "idle"
    /\ claims < MaxCalls
    /\ t = Handler => pump = "handler"
    /\ pump' = IF t = Handler THEN "in_call" ELSE pump
    /\ mine' = [mine EXCEPT ![t] = [id |-> claims + 1, seq |-> next_outbound_seq, late |-> FALSE]]
    /\ Claimed
    /\ pc' = [pc EXCEPT ![t] = "insert"]
    /\ UNCHANGED <<pending, answer, netVars, disconnect, abandoned>>

\* The waiter is entered; one that had this number loses its channel.
Insert(t) ==
    /\ pc[t] = "insert"
    /\ pending' = [pending EXCEPT ![mine[t].seq] = mine[t].id]
    /\ answer' = [Closing({pending[mine[t].seq]}) EXCEPT ![t] = None]
    /\ mine' = [mine EXCEPT ![t].late = IsDrained]
    /\ abandoned' = abandoned \ {pending[mine[t].seq]}
    /\ pc' = [pc EXCEPT ![t] = "send"]
    /\ UNCHANGED <<next_outbound_seq, claims, netVars, pump, disconnect>>

\* The request is queued when there is room; without a writer the call ends,
\* its entry stays, and what its channel may hold by then is lost.
Send(t) ==
    /\ pc[t] = "send"
    /\ IF writer
         THEN /\ Len(out) < Capacity
              /\ out' = Append(out, [type |-> "call", seq |-> mine[t].seq, id |-> mine[t].id])
              /\ pc' = [pc EXCEPT ![t] = "wait"]
              /\ UNCHANGED <<mine, answer, abandoned, pump>>
         ELSE /\ Over(t)
              /\ answer' = [answer EXCEPT ![t] = None]
              /\ abandoned' = abandoned \cup ({mine[t].id} \cap Pending)
              /\ pump' = IF t = Handler THEN "read" ELSE pump
              /\ UNCHANGED out
    /\ UNCHANGED <<next_outbound_seq, claims, pending, wire, back, writer, server,
                   pushes, disconnect>>

\* The response or the empty body arrives.
Return(t) ==
    /\ pc[t] = "wait"
    /\ answer[t] # None
    /\ Over(t)
    /\ answer' = [answer EXCEPT ![t] = None]
    /\ pump' = IF t = Handler THEN "read" ELSE pump
    /\ UNCHANGED <<next_outbound_seq, claims, pending, abandoned, netVars, disconnect>>

\* The caller drops the future (a timeout of its own): the entry stays.
GiveUp(t) ==
    /\ t \in Impatient
    /\ pc[t] \in {"send", "wait"}
    /\ Over(t)
    /\ answer' = [answer EXCEPT ![t] = None]
    /\ abandoned' = IF pc[t] = "send" THEN abandoned \cup ({mine[t].id} \cap Pending) ELSE abandoned
    /\ UNCHANGED <<next_outbound_seq, claims, pending, netVars, pump, disconnect>>

-----------------------------------------------------------------------------
(* The writer task, the RTI and the pump                                   *)

\* A frame is written; a connection whose other end is gone swallows it or
\* fails, which ends the task and closes the channel.
WriterSends ==
    /\ writer
    /\ out # <<>>
    /\ IF server
         THEN /\ Len(wire) < NetCapacity
              /\ wire' = Append(wire, Head(out))
              /\ out' = Tail(out)
              /\ UNCHANGED writer
         ELSE \/ out' = Tail(out) /\ UNCHANGED <<wire, writer>>
              \/ out' = <<>> /\ writer' = FALSE /\ UNCHANGED wire
    /\ UNCHANGED <<callVars, back, server, pushes, pump, disconnect>>

\* The session loop takes a frame and, where it answers, waits for room.
ServerReads ==
    /\ server
    /\ wire # <<>>
    /\ LET frame == Head(wire) IN
         CASE frame.type = "call" ->
                /\ Len(back) < NetCapacity
                /\ back' = Append(back, [frame EXCEPT !.type = "response"])
                /\ wire' = Tail(wire)
                /\ UNCHANGED server
           [] frame.type = "terminate" ->
                /\ Len(back) < NetCapacity
                /\ back' = Append(back, [frame EXCEPT !.type = "terminated"])
                /\ wire' = <<>>
                /\ server' = FALSE
           [] OTHER ->
                /\ wire' = Tail(wire)
                /\ UNCHANGED <<back, server>>
    /\ UNCHANGED <<callVars, out, writer, pushes, pump, disconnect>>

\* Another session's callback or a heartbeat; the handler of a callback may
\* call the RTI.
ServerPushes(type) ==
    /\ server
    /\ pushes < MaxPushes
    /\ Len(back) < NetCapacity
    /\ pushes' = pushes + 1
    /\ back' = Append(back, [type |-> type, seq |-> 0, id |-> 0])
    /\ UNCHANGED <<callVars, out, wire, writer, server, pump, disconnect>>

\* The session ends: shutdown, missed heartbeats, or a lost connection.
ServerCloses ==
    /\ server
    /\ server' = FALSE
    /\ wire' = <<>>
    /\ UNCHANGED <<callVars, out, back, writer, pushes, pump, disconnect>>

\* PumpResponds as it would be if the entry were looked up but not removed.
PumpRespondsKeeping(frame) ==
    /\ UNCHANGED <<pending, abandoned>>
    /\ answer' = [t \in Tasks |-> IF t \in Waiter(pending[frame.seq]) THEN frame.id ELSE answer[t]]

\* The response goes to the call that is entered under its number.
PumpResponds(frame) ==
    /\ pending' = [pending EXCEPT ![frame.seq] = None]
    /\ abandoned' = abandoned \ {pending[frame.seq]}
    /\ answer' = [t \in Tasks |-> IF t \in Waiter(pending[frame.seq]) THEN frame.id ELSE answer[t]]

PumpReads ==
    /\ pump = "read"
    /\ back # <<>>
    /\ back' = Tail(back)
    /\ LET frame == Head(back) IN
         IF frame.type = "response"
           THEN PumpResponds(frame) /\ UNCHANGED pump
           ELSE /\ pump' = CASE frame.type = "callback" -> "handler"
                             [] frame.type = "heartbeat" -> "beat"
                             [] OTHER -> "read"
                /\ UNCHANGED <<pending, answer, abandoned>>
    /\ UNCHANGED <<next_outbound_seq, claims, pc, mine, out, wire, writer,
                   server, pushes, disconnect>>

\* dispatch_callback is done.
HandlerReturns ==
    /\ pump = "handler"
    /\ pump' = "read"
    /\ UNCHANGED <<callVars, netVars, disconnect>>

\* The answer to a heartbeat waits for room in the writer's channel.
PumpBeats ==
    /\ pump = "beat"
    /\ IF writer
         THEN /\ Len(out) < Capacity
              /\ out' = Append(out, [type |-> "beat", seq |-> 0, id |-> 0])
         ELSE UNCHANGED out
    /\ pump' = "read"
    /\ UNCHANGED <<callVars, wire, back, writer, server, pushes, disconnect>>

\* PumpDrains as it would be if the pump just returned.
PumpDrainsNothing == UNCHANGED <<pending, answer, abandoned>>

\* Every pending call gets an empty body.
PumpDrains == Drained

\* A read fails, at the latest when everything sent has been read.
PumpEnds ==
    /\ pump = "read"
    /\ ~ server
    /\ PumpDrains
    /\ pump' = "done"
    /\ UNCHANGED <<next_outbound_seq, claims, pc, mine, netVars, disconnect>>

-----------------------------------------------------------------------------
(* disconnect                                                              *)

\* CTRL_TERMINATE_SESSION is queued, if there is a writer.
DisconnectSends ==
    /\ disconnect = "no"
    /\ IF writer
         THEN /\ Len(out) < Capacity
              /\ out' = Append(out, [type |-> "terminate", seq |-> next_outbound_seq, id |-> 0])
         ELSE UNCHANGED out
    /\ Claimed
    /\ disconnect' = "drain"
    /\ UNCHANGED <<pc, mine, pending, answer, abandoned, wire, back, writer, server,
                   pushes, pump>>

DisconnectDrains ==
    /\ disconnect = "drain"
    /\ Drained
    /\ disconnect' = "abort"
    /\ UNCHANGED <<next_outbound_seq, claims, pc, mine, netVars, pump>>

\* The pump is aborted, and a handler's call with it.
DisconnectAborts ==
    /\ disconnect = "abort"
    /\ disconnect' = "done"
    /\ pump' = "done"
    /\ Over(Handler)
    /\ answer' = [answer EXCEPT ![Handler] = None]
    /\ UNCHANGED <<next_outbound_seq, claims, pending, abandoned, netVars>>
-----------------------------------------------------------------------------
Call(t) == Claim(t) \/ Insert(t) \/ Send(t) \/ Return(t) \/ GiveUp(t)

Connection == \/ WriterSends
              \/ ServerReads
              \/ \E type \in {"callback", "heartbeat"} : ServerPushes(type)
              \/ ServerCloses

Pump == PumpReads \/ HandlerReturns \/ PumpBeats \/ PumpEnds

Disconnect == DisconnectSends \/ DisconnectDrains \/ DisconnectAborts

Next == (\E t \in Tasks : Call(t)) \/ Connection \/ Pump \/ Disconnect

\* The runtime runs every task that can run, and the network delivers.  Nobody
\* has to call, give up or disconnect, and the RTI has to push nothing.
Fairness ==
    /\ \A t \in Tasks : WF_vars(Insert(t)) /\ WF_vars(Send(t)) /\ WF_vars(Return(t))
    /\ WF_vars(WriterSends)
    /\ WF_vars(ServerReads)
    /\ WF_vars(PumpReads) /\ WF_vars(HandlerReturns) /\ WF_vars(PumpBeats) /\ WF_vars(PumpEnds)
    /\ WF_vars(DisconnectDrains) /\ WF_vars(DisconnectAborts)

Spec == Init /\ [][Next]_vars /\ Fairness
-----------------------------------------------------------------------------
Frames == [type : {"call", "response", "terminate", "terminated", "callback", "heartbeat", "beat"},
           seq : SequenceNumbers, id : 0 .. MaxCalls]

\* The types of the state; the channels keep within their capacity.
TypeOK ==
    /\ next_outbound_seq \in SequenceNumbers
    /\ claims \in 0 .. MaxCalls + 1
    /\ pc \in [Tasks -> {"idle", "insert", "send", "wait"}]
    /\ mine \in [Tasks -> [id : 0 .. MaxCalls, seq : SequenceNumbers, late : BOOLEAN]]
    /\ pending \in [SequenceNumbers -> {None} \cup CallIds]
    /\ answer \in [Tasks -> {None, Empty} \cup CallIds]
    /\ out \in Seq(Frames) /\ Len(out) <= Capacity
    /\ wire \in Seq(Frames) /\ Len(wire) <= NetCapacity
    /\ back \in Seq(Frames) /\ Len(back) <= NetCapacity
    /\ writer \in BOOLEAN /\ server \in BOOLEAN
    /\ pump \in {"read", "handler", "in_call", "beat", "done"}
    /\ pushes \in 0 .. MaxPushes
    /\ disconnect \in {"no", "drain", "abort", "done"}
    /\ abandoned \subseteq Pending

\* The numbers have gone round since call id claimed its own.
Lapped(id) == claims - id > MaxSeq

\* A task gets the response to its own request, whatever other tasks call,
\* give up or disconnect meanwhile, unless the sequence numbers went all the
\* way round since that request, or the one answered, got its number.
ResponsesMatch ==
    \A t \in Tasks : answer[t] \in CallIds =>
      answer[t] = mine[t].id \/ Lapped(answer[t]) \/ Lapped(mine[t].id)

\* When nothing is under way and the connection is up, the only entries left
\* in the map of pending calls are those of calls that ended before their
\* request was queued: nothing answers those and nothing removes them.
PendingCleared ==
    /\ \A t \in Tasks : pc[t] = "idle"
    /\ out = <<>> /\ wire = <<>> /\ back = <<>>
    /\ pump = "read" /\ server
    => Pending \subseteq abandoned

\* The channels are full all the way round: the RTI waits for room to answer,
\* the writer for the RTI, and nobody reads what the RTI sends, because the
\* pump waits for room to answer a heartbeat or was aborted by disconnect.
Jammed ==
    /\ Len(out) = Capacity /\ Len(wire) = NetCapacity /\ Len(back) = NetCapacity
    /\ Head(wire).type # "beat"
    /\ pump \in {"beat", "done"}

\* A task whose call may wait in vain: it was entered after the pump or
\* disconnect had drained the map, and no one answers or drains it any more;
\* or the callback handler is itself in a call, and the pump, which would have
\* to read the response, waits for the handler; or the channels are jammed.
Stranded(t) == mine[t].late \/ pump = "in_call" \/ Jammed

\* Every call comes to an end, with its response or as closed, also when the
\* connection is lost or somebody disconnects, but for the three cases named.
CallsReturn ==
    \A t \in Tasks : pc[t] # "idle" ~> pc[t] = "idle" \/ Stranded(t)
=============================================================================
