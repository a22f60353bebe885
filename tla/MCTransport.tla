---- MODULE MCTransport ----
(***************************************************************************)
(* Small instances of ConnectionLimits, which admits connections, and of   *)
(* FrameCodec, which reads from one, for TLC.  The two share no state; a   *)
(* behaviour is one of the one or of the other.                            *)
(***************************************************************************)
EXTENDS ConnectionLimits, Sequences

\* A prefix of 1 byte, headers of 2 and packets of at most 3: too small, a
\* header alone, as large as allowed, too large.
Packets == [size : {2, 3}, type : {"greeting", "message"}] \cup
           {[size |-> 2, type |-> "unknown"], [size |-> 1, type |-> "message"],
            [size |-> 4, type |-> "message"]}

\* Any two packets, or one more after two that are accepted; none, in the
\* behaviours of ConnectionLimits.
MCStreams == UNION {[1 .. n -> Packets] : n \in 0 .. 2} \cup
             {<<[size |-> 3, type |-> "greeting"], [size |-> 2, type |-> "message"], packet>> :
                packet \in Packets}

VARIABLES transport, packets, arrived, closed, from, taken, phase, frames, drops

codecVars == <<transport, packets, arrived, closed, from, taken, phase, frames, drops>>

Codec == INSTANCE FrameCodec WITH PrefixSize <- 1, HEADER_SIZE <- 2, MAX_PACKET_SIZE <- 3,
                                  MaxPackets <- 3, Streams <- MCStreams, MaxDrops <- 1

MCInit == LimitsInit /\ Codec!Init

MCNext == \/ packets = <<>> /\ LimitsNext /\ UNCHANGED codecVars
          \/ packets # <<>> /\ Codec!Next /\ UNCHANGED limitVars

MCSpec == MCInit /\ [][MCNext]_<<limitVars, codecVars>>
                 /\ WF_codecVars(packets # <<>> /\ Codec!Receive)

\* ReadsExactly of FrameCodec: the reader keeps in step with the stream and
\* gives up only on a bad packet.
ReadsExactly == Codec!ReadsExactly

\* FramesReturned of FrameCodec: a packet that arrived whole is returned.
FramesReturned == Codec!FramesReturned
====
