------------------------------- MODULE Framing -------------------------------
(***************************************************************************)
(* The task that reads from one TCP connection (client.rs, event_loop and  *)
(* auth): the greeting a client opens with, and the loop that cuts packets *)
(* out of a buffer it reads into, whatever the pieces the bytes arrive in. *)
(*                                                                         *)
(* Every step of the task that awaits something, a read from the socket or *)
(* a send to the main loop, ends an action here; the client goes on to     *)
(* send between any two of them.  Clients wait for the answer to their     *)
(* greeting before they send a packet, as the protocol has it.             *)
(*                                                                         *)
(* The channel to the main loop always has room in the end (Sessions has   *)
(* it bounded); what is written to the client is the subject of Outbox.    *)
(*                                                                         *)
(* A definition marked "Mutation" is a wrong variant of the one below it,  *)
(* used to see that the properties notice; nothing else refers to it.      *)
(***************************************************************************)
EXTENDS Integers, Sequences, SequencesExt

CONSTANTS
  BufferSize,   \* length of the read buffer, i16::MAX
  Magic,        \* HS_IN, the bytes a greeting starts with
  Version,      \* PROTOCOL_VERSION
  Greetings,    \* the greetings clients open with
  Bodies,       \* the packets clients send, without the length in front
  MaxPackets    \* bound on the packets a client sends

Byte == 0 .. 255

ASSUME GreetingAssumption ==
  /\ Magic \in Seq(Byte) /\ Magic # <<>>
  /\ Version \in Byte
  /\ \A g \in Greetings : g \in Seq(Byte)
  /\ \A g \in Greetings :
       IsPrefix(Magic \o <<0, Version>>, g) => g = Magic \o <<0, Version>>
ASSUME BodiesAssumption ==
  /\ \A b \in Bodies : b \in Seq(Byte) /\ Len(b) >= 1 /\ Len(b) <= 32765
  /\ MaxPackets \in Nat
ASSUME BufferAssumption ==
  /\ BufferSize \in Nat \ {0}
  /\ \A b \in Bodies : Len(b) + 2 <= BufferSize

VARIABLES
  greeting,   \* what this client opens with
  sent,       \* the packets it sent
  gone,       \* it closed its end, or the connection broke
  wire,       \* bytes on their way to the task
  stage,      \* where the task is
  received,   \* bytes of the greeting so far
  buff,       \* the read buffer, with what earlier reads left in it
  kept,       \* buff_offset: bytes that wait for the rest of their packet
  readable,   \* buff_readable_size
  offset,     \* where the next packet starts
  messages    \* what the task told the main loop

clientVars == <<greeting, sent, gone>>
loopVars   == <<buff, kept, readable, offset>>
vars       == <<greeting, sent, gone, wire, stage, received, buff, kept,
                readable, offset, messages>>

TypeOK ==
  /\ greeting \in Greetings
  /\ sent \in Seq(Bodies)
  /\ gone \in BOOLEAN
  /\ wire \in Seq(Byte)
  /\ stage \in {"greeting", "reading", "cutting", "ended", "panicked"}
  /\ received \in Seq(Byte)
  /\ buff \in [0 .. BufferSize - 1 -> Byte]
  /\ kept \in 0 .. BufferSize
  /\ readable \in 0 .. BufferSize
  /\ offset \in 0 .. readable
  /\ messages \in Seq([kind : {"Authenticated", "Disconnected", "Updated"},
                       packet : Seq(Byte)])

Init ==
  /\ greeting \in Greetings
  /\ sent = <<>>
  /\ gone = FALSE
  /\ wire = greeting
  /\ stage = "greeting"
  /\ received = <<>>
  /\ buff = [i \in 0 .. BufferSize - 1 |-> 0]
  /\ kept = 0
  /\ readable = 0
  /\ offset = 0
  /\ messages = <<>>

Authenticated == [kind |-> "Authenticated", packet |-> <<>>]
Disconnected  == [kind |-> "Disconnected", packet |-> <<>>]
Updated(p)    == [kind |-> "Updated", packet |-> p]

Tells(m) == messages' = Append(messages, m)

-----------------------------------------------------------------------------
(* Packets as bytes. *)

\* Packet::as_bytes: the length of the rest as a little-endian i16, the action
\* and the data.  Clients send in the same format.
AsBytes(body) == <<Len(body) % 256, Len(body) \div 256>> \o body

\* Mutation: the first byte of the data is lost.
FromSliceShort(bytes) == IF Len(bytes) < 3 THEN <<0>> ELSE SubSeq(bytes, 4, Len(bytes))

\* Packet::from_slice: the action, kept as a byte if it is unknown, and the
\* data; what is too short for a packet becomes an UNKNOWN one.
FromSlice(bytes) == IF Len(bytes) < 3 THEN <<0>> ELSE SubSeq(bytes, 3, Len(bytes))

\* u as an i16.
Signed16(u) == IF u % 65536 < 32768 THEN u % 65536 ELSE (u % 65536) - 65536

-----------------------------------------------------------------------------
(* The client. *)

Sends(body) ==
  /\ ~gone
  /\ Authenticated \in {messages[i] : i \in DOMAIN messages}
  /\ Len(sent) < MaxPackets
  /\ sent' = Append(sent, body)
  /\ wire' = wire \o AsBytes(body)
  /\ UNCHANGED <<greeting, gone, stage, received, loopVars, messages>>

HangsUp ==
  /\ ~gone
  /\ gone' = TRUE
  /\ UNCHANGED <<greeting, sent, wire, stage, received, loopVars, messages>>

-----------------------------------------------------------------------------
(* The greeting, in pieces of any size (auth). *)

GreetingLen == Len(Magic) + 2

\* Mutation: the magic bytes are compared once all of them are there, and only
\* the first of them.
IsUnfitAtFirst(got) ==
  Len(got) >= Len(Magic) /\ got[1] # Magic[1]

\* Some byte of what was received is wrong.
IsUnfit(got) ==
  LET expected == Magic \o <<0, Version>>
  IN  \E i \in 1 .. Len(got) : i <= GreetingLen /\ got[i] # expected[i]

IsComplete(got) == Len(got) >= GreetingLen

\* The pieces of the wire that one read may yield.
Pieces(limit) == {n \in 1 .. Len(wire) : n <= limit}

Receives(n) ==
  /\ stage = "greeting"
  /\ received' = received \o SubSeq(wire, 1, n)
  /\ wire' = SubSeq(wire, n + 1, Len(wire))
  /\ UNCHANGED <<clientVars, loopVars>>

GreetingGoesOn(n) ==
  /\ Receives(n)
  /\ ~IsUnfit(received')
  /\ ~IsComplete(received')
  /\ UNCHANGED <<stage, messages>>

GreetingAccepted(n) ==
  /\ Receives(n)
  /\ ~IsUnfit(received')
  /\ IsComplete(received')
  /\ stage' = "reading"
  /\ Tells(Authenticated)

\* Wrong bytes, or the answer cannot be written.
GreetingRefused(n) ==
  /\ Receives(n)
  /\ IsUnfit(received') \/ (gone /\ IsComplete(received'))
  /\ stage' = "ended"
  /\ Tells(Disconnected)

\* The connection ends before the greeting does.
GreetingBreaksOff ==
  /\ stage = "greeting"
  /\ gone
  /\ stage' = "ended"
  /\ Tells(Disconnected)
  /\ UNCHANGED <<clientVars, wire, received, loopVars>>

-----------------------------------------------------------------------------
(* The packets (event_loop). *)

\* One read into the buffer behind the bytes kept.
Reads(n) ==
  /\ stage = "reading"
  /\ buff' = [i \in DOMAIN buff |->
                IF i \in kept .. kept + n - 1 THEN wire[i - kept + 1] ELSE buff[i]]
  /\ wire' = SubSeq(wire, n + 1, Len(wire))
  /\ readable' = kept + n
  /\ offset' = 0
  /\ stage' = "cutting"
  /\ UNCHANGED <<clientVars, received, kept, messages>>

\* End of the stream, an error, or a buffer without room to read into.
ReadEnds ==
  /\ stage = "reading"
  /\ gone \/ kept = BufferSize
  /\ stage' = "ended"
  /\ Tells(Disconnected)
  /\ UNCHANGED <<clientVars, wire, received, loopVars>>

\* The size of the packet at offset, by the two bytes there: the second of
\* them may be a left-over of an earlier read.
PacketSize == Signed16(2 + buff[offset] + 256 * buff[offset + 1])

\* Mutation: a packet is cut off one byte too early.
IsCuttableEarly == PacketSize \in 0 .. readable - offset + 1

\* Mutation: a packet is cut off only once there is more behind it.
IsCuttableLate == PacketSize \in 0 .. readable - offset - 1

\* All of the packet is there.
IsCuttable == PacketSize \in 0 .. readable - offset

\* There are bytes left, and the buffer reaches as far as the next length.
HasLength == offset < readable /\ offset + 1 < BufferSize

CutsPacket ==
  /\ stage = "cutting"
  /\ HasLength
  /\ IsCuttable
  /\ Tells(Updated(FromSlice([i \in 1 .. PacketSize |-> buff[offset + i - 1]])))
  /\ offset' = offset + PacketSize
  /\ UNCHANGED <<clientVars, wire, stage, received, buff, kept, readable>>

\* The index of the second byte of the length is out of bounds.
Panics ==
  /\ stage = "cutting"
  /\ offset < readable
  /\ ~HasLength
  /\ stage' = "panicked"
  /\ UNCHANGED <<clientVars, wire, received, loopVars, messages>>

\* Mutation: the buffer is cleared before the tail is moved out of it.
TailCleared == [i \in DOMAIN buff |-> 0]

\* The tail at the front of the buffer, and zeroes behind it.
TailMoved ==
  [i \in DOMAIN buff |-> IF i < readable - offset THEN buff[offset + i] ELSE 0]

\* The bytes that wait for more.
Rest == readable - offset

\* Nothing is left, or a tail that waits for the rest of its packet, or, where
\* the length is negative, bytes that stay where they are.
StopsCutting ==
  /\ stage = "cutting"
  /\ offset = readable \/ (HasLength /\ ~IsCuttable)
  /\ buff' = IF HasLength /\ PacketSize > 0 THEN TailMoved ELSE buff
  /\ kept' = Rest
  /\ stage' = "reading"
  /\ UNCHANGED <<clientVars, wire, received, readable, offset, messages>>

-----------------------------------------------------------------------------
Reader ==
  \/ \E n \in Pieces(64) :
       GreetingGoesOn(n) \/ GreetingAccepted(n) \/ GreetingRefused(n)
  \/ GreetingBreaksOff
  \/ \E n \in Pieces(BufferSize - kept) : Reads(n)
  \/ ReadEnds
  \/ CutsPacket
  \/ Panics
  \/ StopsCutting

Next ==
  \/ \E body \in Bodies : Sends(body)
  \/ HangsUp
  \/ Reader

Spec == Init /\ [][Next]_vars

\* The runtime polls the task whenever bytes are there or a send has room.
FairSpec == Spec /\ WF_vars(Reader)

-----------------------------------------------------------------------------
(* Properties. *)

Abstract == INSTANCE PacketStream

\* The main loop is told of the connection what Sessions takes for granted, and
\* gets each packet the client sent once, whole and in order: the loop over the
\* reused buffer (client.rs:260-345) implements PacketStream.
PacketsAsPromised == Abstract!Spec

\* Whatever pieces it came in, only the exact greeting opens a connection, and
\* the exact greeting is refused to nobody who stays (client.rs, auth).
GreetingDecides ==
  /\ Abstract!IsOpen(messages) => greeting = Magic \o <<0, Version>>
  /\ stage = "ended" /\ ~gone => greeting # Magic \o <<0, Version>>

\* The bytes in the buffer and on the wire are those of the packets not handed
\* over yet, from the first byte of the next one: none is lost, read twice or
\* taken for another packet's (buff_offset and the move of the tail).
Buffered ==
  CASE stage = "reading" -> [i \in 1 .. kept |-> buff[i - 1]]
    [] stage = "cutting" -> [i \in 1 .. readable - offset |-> buff[offset + i - 1]]

NoByteLost ==
  stage \in {"reading", "cutting"} =>
    LET handed == Len(Abstract!HandedOver(messages))
        rest   == SubSeq(sent, handed + 1, Len(sent))
    IN  Buffered \o wire = FlattenSeq([i \in DOMAIN rest |-> AsBytes(rest[i])])

\* A packet that was sent reaches the main loop, unless the client hangs up or
\* the buffer is filled up to just one byte of a length: then the task panics
\* and the connection is neither read nor ended (client.rs:293).
AllHandedOver ==
  \A k \in 1 .. MaxPackets :
    Len(sent) >= k ~>
      \/ Len(Abstract!HandedOver(messages)) >= k
      \/ gone
      \/ stage = "panicked" /\ readable = BufferSize

\* Packets reach the main loop as they were sent.
PacketsAsSent ==
  IsPrefix(Abstract!HandedOver(messages), sent)
=============================================================================
