---------------------------- MODULE FrameCodec ----------------------------
(***************************************************************************)
(* Receiving frames (crates/hla-wire/src: codec.rs, transport.rs,          *)
(* session.rs, ws.rs): packets written one after the other arrive as a     *)
(* byte stream, in pieces of any size, and are cut into frames again.  A   *)
(* federate on TCP or TLS reads the answer to its CTRL_NEW_SESSION with    *)
(* read_frame and then hands the stream to a FramedRead; the RTI uses a    *)
(* FramedRead from the start; a WebSocket delivers whole messages.         *)
(*                                                                         *)
(* Bytes are counted, not named: a packet is the size its header declares  *)
(* and its type, and the stream is known by positions in it.               *)
(***************************************************************************)
EXTENDS Naturals, Sequences

CONSTANTS
    PrefixSize,     \* bytes of packet_size (4)
    HEADER_SIZE,    \* (24)
    MAX_PACKET_SIZE,
    MaxPackets,     \* bound on the packets a peer sends
    Streams,        \* what they may be
    MaxDrops        \* bound on polls dropped by select!

Transports == {"client", "server", "ws"}

VARIABLES
    transport,  \* how the frames are read
    packets,    \* what the peer sends
    arrived,    \* bytes that have arrived
    closed,     \* has the peer closed the connection
    from,       \* where the packet to be read next starts
    taken,      \* bytes taken from the stream: taken - from are buffered
    phase,      \* what the reader does
    frames,     \* packets returned as frames
    drops       \* polls dropped so far

streamVars == <<transport, packets, arrived, closed>>
vars == <<streamVars, from, taken, phase, frames, drops>>

\* Frame::encode: a header and as many bytes as the header declares; a header
\* that declares less than itself comes alone.
Length(packet) == IF packet.size < HEADER_SIZE THEN HEADER_SIZE ELSE packet.size

\* Where each packet starts, and after the last one, where the stream ends.
Start ==
    LET start[i \in 1 .. Len(packets) + 1] ==
          IF i = 1 THEN 0 ELSE start[i - 1] + Length(packets[i - 1])
    IN  start

\* What from_be_bytes gives at a position; amid a packet it would be noise,
\* which 0 stands for.
SizeAt(position) ==
    LET is == {i \in DOMAIN packets : Start[i] = position}
    IN  IF is = {} THEN 0 ELSE packets[CHOOSE i \in is : TRUE].size

\* What MessageHeader::decode finds there.
TypeAt(position) ==
    LET is == {i \in DOMAIN packets : Start[i] = position}
    IN  IF is = {} THEN "unknown" ELSE packets[CHOOSE i \in is : TRUE].type

Init ==
    /\ transport \in Transports
    /\ packets \in Streams
    /\ arrived = 0 /\ closed = FALSE
    /\ from = 0 /\ taken = 0
    /\ phase = IF transport = "client" THEN "prefix" ELSE "frames"
    /\ frames = <<>>
    /\ drops = 0

-----------------------------------------------------------------------------
(* The stream                                                              *)

Arrive(n) ==
    /\ ~ closed
    /\ arrived + n <= Start[Len(packets) + 1]
    /\ arrived' = arrived + n
    /\ UNCHANGED <<transport, packets, closed, from, taken, phase, frames, drops>>

PeerCloses ==
    /\ ~ closed
    /\ closed' = TRUE
    /\ UNCHANGED <<transport, packets, arrived, from, taken, phase, frames, drops>>

-----------------------------------------------------------------------------
SizeAccepted(size) == HEADER_SIZE <= size /\ size <= MAX_PACKET_SIZE

\* MessageType::from_u32 knows the type, and the first frame is what the
\* handshake waits for: a status of success, or CTRL_NEW_SESSION.
TypeAccepted(type) ==
    /\ type # "unknown"
    /\ frames = <<>> => type = "greeting"

\* The packet at `from` is over; it is a frame if its type is accepted.
Deliver(size) ==
    /\ from' = from + size
    /\ IF TypeAccepted(TypeAt(from))
         THEN frames' = Append(frames, Len(frames) + 1) /\ phase' = "frames"
         ELSE UNCHANGED frames /\ phase' = "failed"

-----------------------------------------------------------------------------
(* read_frame, in client_open_session                                      *)

ReadPrefix ==
    /\ phase = "prefix"
    /\ arrived >= taken + PrefixSize
    /\ taken' = taken + PrefixSize
    /\ phase' = IF SizeAccepted(SizeAt(from)) THEN "body" ELSE "failed"
    /\ UNCHANGED <<streamVars, from, frames, drops>>

\* ReadBody as it would be if it took what there was.
ReadBodyGreedily ==
    /\ phase = "body"
    /\ arrived >= from + SizeAt(from)
    /\ taken' = arrived
    /\ from' = arrived
    /\ frames' = Append(frames, 1) /\ phase' = "frames"
    /\ UNCHANGED <<streamVars, drops>>

ReadBody ==
    /\ phase = "body"
    /\ arrived >= from + SizeAt(from)
    /\ taken' = from + SizeAt(from)
    /\ Deliver(SizeAt(from))
    /\ UNCHANGED <<streamVars, drops>>

\* read_exact meets the end of the stream.
ReadFails ==
    /\ closed
    /\ \/ phase = "prefix" /\ arrived < taken + PrefixSize
       \/ phase = "body" /\ arrived < from + SizeAt(from)
    /\ phase' = "failed"
    /\ UNCHANGED <<streamVars, from, taken, frames, drops>>

-----------------------------------------------------------------------------
(* AsyncReadSource: FramedRead with FedProCodec                            *)

Reading == phase = "frames" /\ transport # "ws"

Buffered == taken - from

\* decode returns Ok(None).
Incomplete(buffered) ==
    \/ buffered < PrefixSize
    \/ SizeAccepted(SizeAt(from)) /\ buffered < SizeAt(from)

\* poll_read: some of the bytes that are there go to the buffer.
PollRead(n) ==
    /\ Reading
    /\ Incomplete(Buffered)
    /\ taken + n <= arrived
    /\ taken' = taken + n
    /\ UNCHANGED <<streamVars, from, phase, frames, drops>>

\* Decode as it would be if the buffer had to hold one packet and no more.
DecodeAlone ==
    /\ Reading
    /\ ~ Incomplete(Buffered)
    /\ IF SizeAccepted(SizeAt(from))
         THEN Buffered = SizeAt(from) /\ Deliver(SizeAt(from))
         ELSE phase' = "failed" /\ UNCHANGED <<from, frames>>
    /\ UNCHANGED <<streamVars, taken, drops>>

\* decode
Decode ==
    /\ Reading
    /\ ~ Incomplete(Buffered)
    /\ IF SizeAccepted(SizeAt(from))
         THEN Deliver(SizeAt(from))
         ELSE phase' = "failed" /\ UNCHANGED <<from, frames>>
    /\ UNCHANGED <<streamVars, taken, drops>>

\* decode_eof: bytes that are left over are an error.
DecodeEof ==
    /\ Reading
    /\ Incomplete(Buffered)
    /\ closed /\ arrived = taken
    /\ phase' = IF Buffered = 0 THEN "ended" ELSE "failed"
    /\ UNCHANGED <<streamVars, from, taken, frames, drops>>

\* Another branch of select! fires and the future of recv_frame is dropped;
\* the buffer belongs to the FramedRead and stays.
PollDropped ==
    /\ Reading
    /\ drops < MaxDrops
    /\ drops' = drops + 1
    /\ UNCHANGED <<streamVars, from, taken, phase, frames>>

-----------------------------------------------------------------------------
(* WsFrameSource: the size is only compared with that of a header          *)

WsMessage ==
    /\ phase = "frames" /\ transport = "ws"
    /\ Len(frames) < Len(packets)
    /\ LET packet == packets[Len(frames) + 1] IN
         /\ arrived >= from + Length(packet)
         /\ taken' = from + Length(packet)
         /\ IF packet.size >= HEADER_SIZE
              THEN Deliver(Length(packet))
              ELSE phase' = "failed" /\ UNCHANGED <<from, frames>>
    /\ UNCHANGED <<streamVars, drops>>

WsClosed ==
    /\ phase = "frames" /\ transport = "ws"
    /\ closed
    /\ arrived < Start[Len(packets) + 1] => arrived < from + Length(packets[Len(frames) + 1])
    /\ arrived = Start[Len(packets) + 1] => from = arrived
    /\ phase' = IF arrived = from THEN "ended" ELSE "failed"
    /\ UNCHANGED <<streamVars, from, taken, frames, drops>>

-----------------------------------------------------------------------------
Pieces == 1 .. Start[Len(packets) + 1]

Receive ==
    \/ ReadPrefix \/ ReadBody \/ ReadFails
    \/ \E n \in Pieces : PollRead(n)
    \/ Decode \/ DecodeEof
    \/ WsMessage \/ WsClosed

Next ==
    \/ \E n \in Pieces : Arrive(n)
    \/ PeerCloses
    \/ Receive
    \/ PollDropped

\* The task that reads is run when bytes are there; nothing has to arrive.
Spec == Init /\ [][Next]_vars /\ WF_vars(Receive)

-----------------------------------------------------------------------------
\* The packet after those returned.
Upcoming == Len(frames) + 1

\* What the code has to refuse as the i-th packet.
Malformed(i) ==
    \/ packets[i].size < HEADER_SIZE
    \/ packets[i].size > MAX_PACKET_SIZE /\ transport # "ws"
    \/ packets[i].type = "unknown"
    \/ i = 1 /\ packets[i].type # "greeting"

Whole(i) == i <= Len(packets) /\ arrived >= Start[i + 1]

\* The reader keeps in step with the stream, in whatever pieces it arrives,
\* whichever polls are dropped, and across the change from read_frame to
\* FramedRead: while it runs, the packet it works on starts where the frames
\* it has returned end, and it has taken nothing that had not arrived.
InStep ==
    phase \in {"prefix", "body", "frames"} =>
      /\ from = Start[Upcoming]
      /\ from <= taken /\ taken <= arrived

\* The reader gives up only on a packet that is malformed or cut off, and
\* reports a clean end only when every byte that arrived was in a frame.
FailuresJustified ==
    /\ phase = "failed" =>
         /\ Upcoming <= Len(packets)
         /\ Malformed(Upcoming) \/ (closed /\ arrived < Start[Upcoming + 1])
    /\ phase = "ended" => closed /\ arrived = Start[Upcoming]

\* A packet that has arrived whole is returned, also when the peer closes
\* right after it, unless it or one before it is malformed.
FramesReturned ==
    \A i \in 1 .. MaxPackets :
      Whole(i) /\ (\A j \in 1 .. i : ~ Malformed(j)) ~> Len(frames) >= i

\* The reader cuts the stream where the writer joined it, and stops only where
\* it has to.
ReadsExactly == InStep /\ FailuresJustified
=============================================================================
