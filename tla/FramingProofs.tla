---------------------------- MODULE FramingProofs ----------------------------
(***************************************************************************)
(* Theorems about Framing, for a read buffer of any length, any greetings, *)
(* any packets and any number of them.                                     *)
(***************************************************************************)
EXTENDS Framing, FlattenTheorems

-----------------------------------------------------------------------------
(* Type correctness. *)

LEMMA ByteRange == \A x : x \in Byte <=> x \in Int /\ 0 <= x /\ x <= 255
BY DEF Byte

LEMMA SignedType == \A u \in Nat : Signed16(u) \in Int
<1> TAKE u \in Nat
<1>1. u % 65536 \in Int
  OBVIOUS
<1> QED BY <1>1 DEF Signed16

LEMMA PacketSizeType ==
  ASSUME TypeOK, HasLength
  PROVE  PacketSize \in Int
<1>1. offset \in 0 .. BufferSize - 1 /\ offset + 1 \in 0 .. BufferSize - 1
  BY BufferAssumption DEF TypeOK, HasLength
<1> DEFINE l == buff[offset]
           h == buff[offset + 1]
<1>2. l \in Byte /\ h \in Byte
  BY <1>1 DEF TypeOK
<1>3. PacketSize = Signed16(2 + l + 256 * h)
  BY DEF PacketSize
<1> HIDE DEF l, h
<1>4. l \in Nat /\ h \in Nat
  BY <1>2, ByteRange
<1>5. 2 + l + 256 * h \in Nat
  BY <1>4
<1> QED BY <1>3, <1>5, SignedType

LEMMA TellsType ==
  ASSUME TypeOK
  PROVE  \A k \in {"Authenticated", "Disconnected", "Updated"}, p \in Seq(Byte) :
           Tells([kind |-> k, packet |-> p])
             => messages' \in Seq([kind : {"Authenticated", "Disconnected", "Updated"},
                                   packet : Seq(Byte)])
<1> TAKE k \in {"Authenticated", "Disconnected", "Updated"}, p \in Seq(Byte)
<1> HAVE Tells([kind |-> k, packet |-> p])
<1> DEFINE M == [kind : {"Authenticated", "Disconnected", "Updated"}, packet : Seq(Byte)]
           m == [kind |-> k, packet |-> p]
<1>1. m \in M /\ messages \in Seq(M) /\ messages' = Append(messages, m)
  BY DEF TypeOK, Tells
<1> HIDE DEF M, m
<1>2. messages' \in Seq(M)
  BY <1>1, AppendProperties
<1> QED BY <1>2 DEF M

\* What a read of n bytes takes off the wire, and what it leaves.
Taken(n) == SubSeq(wire, 1, n)
Left(n)  == SubSeq(wire, n + 1, Len(wire))

LEMMA PiecesType ==
  ASSUME TypeOK, NEW limit, NEW n \in Pieces(limit)
  PROVE  /\ n \in 1 .. Len(wire) /\ n <= limit
         /\ Taken(n) \in Seq(Byte) /\ Len(Taken(n)) = n
         /\ \A i \in 1 .. n : Taken(n)[i] = wire[i] /\ wire[i] \in Byte
         /\ Left(n) \in Seq(Byte)
         /\ Taken(n) \o Left(n) = wire
<1>1. n \in 1 .. Len(wire) /\ n <= limit /\ wire \in Seq(Byte) /\ Len(wire) \in Nat
  BY DEF TypeOK, Pieces
<1>2. \A i \in 1 .. Len(wire) : wire[i] \in Byte
  BY <1>1
<1>3. Taken(n) \in Seq(Byte) /\ Len(Taken(n)) = n /\ \A i \in 1 .. n : Taken(n)[i] = wire[i]
  BY <1>1, <1>2, SubSeqProperties DEF Taken
<1>4. Left(n) \in Seq(Byte)
  BY <1>1, <1>2, SubSeqProperties DEF Left
<1>5. Taken(n) \o Left(n) = SubSeq(wire, 1, Len(wire))
  BY <1>1, ConcatAdjacentSubSeq DEF Taken, Left
<1>6. SubSeq(wire, 1, Len(wire)) = wire
  BY <1>1, SubSeqFull
<1>7. Taken(n) \o Left(n) = wire
  BY <1>5, <1>6
<1> QED BY <1>1, <1>2, <1>3, <1>4, <1>7

LEMMA LengthBytes ==
  ASSUME NEW n \in Nat, n <= 32765
  PROVE  /\ n % 256 \in Int /\ 0 <= n % 256 /\ n % 256 < 256
         /\ n \div 256 \in Int /\ 0 <= n \div 256 /\ n \div 256 < 128
         /\ n = (n \div 256) * 256 + (n % 256)
<1>1. n % 256 \in Int /\ 0 <= n % 256 /\ n % 256 < 256
  OBVIOUS
<1>2. n \div 256 \in Int /\ 0 <= n \div 256 /\ n \div 256 < 128
  OBVIOUS
<1>3. n = (n \div 256) * 256 + (n % 256)
  OBVIOUS
<1> QED BY <1>1, <1>2, <1>3

LEMMA AsBytesType ==
  ASSUME NEW b \in Bodies
  PROVE  /\ b \in Seq(Byte) /\ Len(b) \in Nat /\ Len(b) >= 1 /\ Len(b) <= 32765
         /\ AsBytes(b) \in Seq(Byte) /\ Len(AsBytes(b)) = Len(b) + 2
         /\ AsBytes(b)[1] = Len(b) % 256 /\ AsBytes(b)[2] = Len(b) \div 256
         /\ \A i \in 1 .. Len(b) : AsBytes(b)[i + 2] = b[i]
<1>1. b \in Seq(Byte) /\ Len(b) \in Nat /\ Len(b) >= 1 /\ Len(b) <= 32765
  BY BodiesAssumption
<1> DEFINE lo == Len(b) % 256
           hi == Len(b) \div 256
           l  == <<lo, hi>>
           c  == l \o b
<1>2. lo \in Byte /\ hi \in Byte
  BY <1>1, LengthBytes, ByteRange
<1>3. c = AsBytes(b)
  BY DEF AsBytes
<1> HIDE DEF lo, hi
<1>4. l \in Seq(Byte) /\ Len(l) = 2 /\ l[1] = lo /\ l[2] = hi
  BY <1>2
<1> HIDE DEF l
<1>5. /\ l \o b \in Seq(Byte) /\ Len(l \o b) = Len(l) + Len(b)
      /\ \A i \in 1 .. Len(l) + Len(b) :
           (l \o b)[i] = IF i <= Len(l) THEN l[i] ELSE b[i - Len(l)]
  <2>1. l \in Seq(Byte) /\ b \in Seq(Byte)
    BY <1>1, <1>4
  <2> QED BY <2>1, ConcatProperties, Zenon
<1> HIDE DEF c
<1>6. Len(c) = Len(b) + 2 /\ c[1] = lo /\ c[2] = hi
  <2>1. /\ 1 \in 1 .. Len(l) + Len(b) /\ 1 <= Len(l)
        /\ 2 \in 1 .. Len(l) + Len(b) /\ 2 <= Len(l)
    BY <1>1, <1>4
  <2> QED BY <1>1, <1>4, <1>5, <2>1 DEF c
<1>7. \A i \in 1 .. Len(b) : c[i + 2] = b[i]
  <2> TAKE i \in 1 .. Len(b)
  <2>1. i + 2 \in 1 .. 2 + Len(b) /\ ~(i + 2 <= 2) /\ (i + 2) - 2 = i
    BY <1>1
  <2> QED BY <1>4, <1>5, <2>1 DEF c
<1>8. c \in Seq(Byte)
  BY <1>5 DEF c
<1> QED BY <1>1, <1>3, <1>6, <1>7, <1>8 DEF lo, hi

LEMMA NextType == TypeOK /\ [Next]_vars => TypeOK'
<1> SUFFICES ASSUME TypeOK, [Next]_vars PROVE TypeOK'
  OBVIOUS
<1>m. <<>> \in Seq(Byte)
  BY EmptySeq
<1>1. ASSUME NEW b \in Bodies, Sends(b) PROVE TypeOK'
  <2>1. sent' \in Seq(Bodies) /\ wire' \in Seq(Byte)
    BY <1>1, AsBytesType, AppendProperties, ConcatProperties DEF Sends, TypeOK
  <2> QED BY <1>1, <2>1 DEF Sends, loopVars, TypeOK
<1>2. CASE HangsUp
  BY <1>2 DEF HangsUp, loopVars, TypeOK
<1>3. ASSUME NEW n \in Pieces(64), GreetingGoesOn(n) \/ GreetingAccepted(n) \/ GreetingRefused(n)
      PROVE  TypeOK'
  <2>1. Receives(n)
    BY <1>3 DEF GreetingGoesOn, GreetingAccepted, GreetingRefused
  <2>2. wire' \in Seq(Byte) /\ received' \in Seq(Byte)
    <3>1. received' = received \o Taken(n) /\ wire' = Left(n)
      BY <2>1 DEF Receives, Taken, Left
    <3>2. Taken(n) \in Seq(Byte) /\ Left(n) \in Seq(Byte)
      BY PiecesType
    <3> QED BY <3>1, <3>2, ConcatProperties DEF TypeOK
  <2>3. /\ stage' \in {"greeting", "reading", "ended"}
        /\ messages' = messages \/ Tells(Authenticated) \/ Tells(Disconnected)
    BY <1>3, <2>1 DEF GreetingGoesOn, GreetingAccepted, GreetingRefused, Receives
  <2>4. messages' \in Seq([kind : {"Authenticated", "Disconnected", "Updated"},
                           packet : Seq(Byte)])
    <3>1. Tells(Authenticated) => messages' \in Seq([kind : {"Authenticated", "Disconnected", "Updated"}, packet : Seq(Byte)])
      BY <1>m, TellsType DEF Authenticated
    <3>2. Tells(Disconnected) => messages' \in Seq([kind : {"Authenticated", "Disconnected", "Updated"}, packet : Seq(Byte)])
      BY <1>m, TellsType DEF Disconnected
    <3> QED BY <2>3, <3>1, <3>2 DEF TypeOK
  <2> QED BY <2>1, <2>2, <2>3, <2>4 DEF Receives, clientVars, loopVars, TypeOK
<1>4. CASE GreetingBreaksOff \/ ReadEnds
  <2>1. Tells(Disconnected) /\ stage' = "ended"
        /\ UNCHANGED <<clientVars, wire, received, loopVars>>
    BY <1>4 DEF GreetingBreaksOff, ReadEnds
  <2>2. messages' \in Seq([kind : {"Authenticated", "Disconnected", "Updated"},
                           packet : Seq(Byte)])
    BY <1>m, <2>1, TellsType DEF Disconnected
  <2> QED BY <2>1, <2>2 DEF clientVars, loopVars, TypeOK
<1>5. ASSUME NEW n \in Pieces(BufferSize - kept), Reads(n) PROVE TypeOK'
  <2>1. n \in 1 .. Len(wire) /\ n <= BufferSize - kept /\ wire' \in Seq(Byte)
    BY <1>5, PiecesType, BufferAssumption DEF Reads, TypeOK, Left
  <2>2. kept + n \in 0 .. BufferSize
    BY <2>1, BufferAssumption DEF TypeOK
  <2>3. \A i \in 0 .. BufferSize - 1 : i \in kept .. kept + n - 1 => wire[i - kept + 1] \in Byte
    <3> TAKE i \in 0 .. BufferSize - 1
    <3> HAVE i \in kept .. kept + n - 1
    <3>1. i - kept + 1 \in 1 .. Len(wire)
      BY <2>1 DEF TypeOK
    <3> QED BY <3>1 DEF TypeOK
  <2>4. buff' \in [0 .. BufferSize - 1 -> Byte]
    BY <1>5, <2>3 DEF Reads, TypeOK
  <2> QED BY <1>5, <2>1, <2>2, <2>4 DEF Reads, clientVars, TypeOK
<1>6. CASE CutsPacket
  <2>1. PacketSize \in Int /\ PacketSize \in 0 .. readable - offset
    BY <1>6, PacketSizeType DEF CutsPacket, IsCuttable
  <2> DEFINE bytes == [i \in 1 .. PacketSize |-> buff[offset + i - 1]]
  <2>2. \A i \in 1 .. PacketSize : offset + i - 1 \in 0 .. BufferSize - 1
    BY <2>1, BufferAssumption DEF TypeOK
  <2>3. bytes \in Seq(Byte) /\ Len(bytes) \in Nat /\ \A i \in 1 .. Len(bytes) : bytes[i] \in Byte
    <3>1. \A i \in 1 .. PacketSize : buff[offset + i - 1] \in Byte
      BY <2>2 DEF TypeOK
    <3>2. PacketSize \in Nat
      BY <2>1 DEF TypeOK
    <3>3. bytes \in Seq(Byte)
      BY <3>1, <3>2
    <3> HIDE DEF bytes
    <3> QED BY <3>3
  <2>4. FromSlice(bytes) \in Seq(Byte)
    <3> HIDE DEF bytes
    <3>1. SubSeq(bytes, 3, Len(bytes)) \in Seq(Byte)
      BY <2>3, SubSeqProperties
    <3>2. <<0>> \in Seq(Byte)
      BY DEF Byte
    <3> QED BY <3>1, <3>2 DEF FromSlice
  <2>5. Tells(Updated(FromSlice(bytes)))
    BY <1>6 DEF CutsPacket
  <2>6. messages' \in Seq([kind : {"Authenticated", "Disconnected", "Updated"},
                           packet : Seq(Byte)])
    <3> HIDE DEF bytes
    <3> QED BY <2>4, <2>5, TellsType DEF Updated
  <2>7. offset' \in 0 .. readable
    BY <1>6, <2>1 DEF CutsPacket, TypeOK
  <2> QED BY <1>6, <2>6, <2>7 DEF CutsPacket, clientVars, TypeOK
<1>7. CASE Panics
  BY <1>7 DEF Panics, clientVars, loopVars, TypeOK
<1>8. CASE StopsCutting
  <2>1. buff' \in [0 .. BufferSize - 1 -> Byte]
    <3>1. \A i \in 0 .. BufferSize - 1 : i < readable - offset => offset + i \in 0 .. BufferSize - 1
      BY BufferAssumption DEF TypeOK
    <3>2. TailMoved \in [0 .. BufferSize - 1 -> Byte]
      <4>1. 0 \in Byte
        BY ByteRange
      <4> QED BY <3>1, <4>1 DEF TailMoved, TypeOK
    <3> QED BY <1>8, <3>2 DEF StopsCutting, TypeOK
  <2>2. kept' \in 0 .. BufferSize
    BY <1>8, BufferAssumption DEF StopsCutting, Rest, TypeOK
  <2> QED BY <1>8, <2>1, <2>2 DEF StopsCutting, clientVars, TypeOK
<1>9. CASE UNCHANGED vars
  BY <1>9 DEF vars, TypeOK
<1> QED BY <1>1, <1>2, <1>3, <1>4, <1>5, <1>6, <1>7, <1>8, <1>9 DEF Next, Reader

LEMMA InitType == Init => TypeOK
<1> SUFFICES ASSUME Init PROVE TypeOK
  OBVIOUS
<1>1. sent \in Seq(Bodies) /\ received \in Seq(Byte)
      /\ messages \in Seq([kind : {"Authenticated", "Disconnected", "Updated"}, packet : Seq(Byte)])
  BY EmptySeq DEF Init
<1>2. wire \in Seq(Byte) /\ greeting \in Greetings
  BY GreetingAssumption DEF Init
<1>3. buff \in [0 .. BufferSize - 1 -> Byte]
  BY ByteRange DEF Init
<1> QED BY <1>1, <1>2, <1>3, BufferAssumption DEF Init, TypeOK

\* Every variable keeps its type; in particular no step reads, cuts or moves
\* bytes beyond the end of the buffer.
THEOREM TypeCorrect == Spec => []TypeOK
BY InitType, NextType, PTL DEF Spec

-----------------------------------------------------------------------------
(* Sequences that are joined. *)

\* Where two ways to cut a sequence agree, so do the parts.
LEMMA ConcatSplit ==
  ASSUME NEW S, NEW a \in Seq(S), NEW b \in Seq(S), NEW c \in Seq(S), NEW d \in Seq(S),
         a \o b = c \o d, Len(a) = Len(c)
  PROVE  a = c /\ b = d
<1>1. /\ Len(a \o b) = Len(a) + Len(b)
      /\ \A i \in 1 .. Len(a) + Len(b) :
           (a \o b)[i] = IF i <= Len(a) THEN a[i] ELSE b[i - Len(a)]
  BY ConcatProperties
<1>2. /\ Len(c \o d) = Len(c) + Len(d)
      /\ \A i \in 1 .. Len(c) + Len(d) :
           (c \o d)[i] = IF i <= Len(c) THEN c[i] ELSE d[i - Len(c)]
  BY ConcatProperties
<1>3. Len(a) \in Nat /\ Len(b) \in Nat /\ Len(b) = Len(d)
  BY <1>1, <1>2
<1>4. \A i \in 1 .. Len(a) : a[i] = c[i]
  BY <1>1, <1>2, <1>3
<1>5. a = c
  BY <1>4, SeqEqual
<1>6. \A i \in 1 .. Len(b) : b[i] = d[i]
  <2> TAKE i \in 1 .. Len(b)
  <2>1. /\ Len(a) + i \in 1 .. Len(a) + Len(b) /\ Len(a) + i \in 1 .. Len(c) + Len(d)
        /\ ~(Len(a) + i <= Len(a)) /\ (Len(a) + i) - Len(a) = i
    BY <1>3
  <2> QED BY <1>1, <1>2, <2>1
<1>7. b = d
  BY <1>3, <1>6, SeqEqual
<1> QED BY <1>5, <1>7

\* The front of a sequence does not depend on where it is cut.
LEMMA SameFront ==
  ASSUME NEW S, NEW a \in Seq(S), NEW b \in Seq(S), NEW c \in Seq(S), NEW d \in Seq(S),
         a \o b = c \o d
  PROVE  \A i \in 1 .. Len(a) : i <= Len(c) => a[i] = c[i]
<1>1. \A i \in 1 .. Len(a) + Len(b) :
        (a \o b)[i] = IF i <= Len(a) THEN a[i] ELSE b[i - Len(a)]
  BY ConcatProperties
<1>2. \A i \in 1 .. Len(c) + Len(d) :
        (c \o d)[i] = IF i <= Len(c) THEN c[i] ELSE d[i - Len(c)]
  BY ConcatProperties
<1> TAKE i \in 1 .. Len(a)
<1> HAVE i <= Len(c)
<1>3. i \in 1 .. Len(a) + Len(b) /\ i \in 1 .. Len(c) + Len(d)
  <2>1. Len(a) \in Nat /\ Len(b) \in Nat /\ Len(c) \in Nat /\ Len(d) \in Nat
    OBVIOUS
  <2> QED BY <2>1
<1> QED BY <1>1, <1>2, <1>3

\* What was sent from packet h + 1 on, each packet as its bytes.
Stream(s, h) == [i \in 1 .. Len(s) - h |-> AsBytes(s[h + i])]

LEMMA StreamType ==
  ASSUME NEW s \in Seq(Bodies), NEW h \in Nat, h <= Len(s)
  PROVE  /\ Stream(s, h) \in Seq(Seq(Byte)) /\ Len(Stream(s, h)) = Len(s) - h
         /\ FlattenSeq(Stream(s, h)) \in Seq(Byte)
<1>1. Len(s) - h \in Nat /\ \A i \in 1 .. Len(s) - h : h + i \in 1 .. Len(s)
  OBVIOUS
<1>2. \A i \in 1 .. Len(s) - h : AsBytes(s[h + i]) \in Seq(Byte)
  BY <1>1, AsBytesType
<1>3. Stream(s, h) \in Seq(Seq(Byte)) /\ Len(Stream(s, h)) = Len(s) - h
  BY <1>1, <1>2 DEF Stream
<1> QED BY <1>3, FlattenType

LEMMA StreamSent ==
  ASSUME NEW s \in Seq(Bodies), NEW h \in Nat, h <= Len(s), NEW b \in Bodies
  PROVE  FlattenSeq(Stream(Append(s, b), h)) = FlattenSeq(Stream(s, h)) \o AsBytes(b)
<1> DEFINE t == Append(s, b)
           p == Stream(s, h)
           q == Append(p, AsBytes(b))
<1>0. AsBytes(b) \in Seq(Byte)
  BY AsBytesType
<1>1. /\ t \in Seq(Bodies) /\ Len(t) = Len(s) + 1 /\ t[Len(s) + 1] = b
      /\ \A i \in 1 .. Len(s) : t[i] = s[i]
  BY AppendProperties
<1>2. p \in Seq(Seq(Byte)) /\ Len(p) = Len(s) - h /\ Len(s) \in Nat
  BY StreamType
<1>3. /\ q \in Seq(Seq(Byte)) /\ Len(q) = Len(p) + 1 /\ q[Len(p) + 1] = AsBytes(b)
      /\ \A i \in 1 .. Len(p) : q[i] = p[i]
  BY <1>0, <1>2, AppendProperties
<1>4. Stream(t, h) \in Seq(Seq(Byte)) /\ Len(Stream(t, h)) = Len(t) - h
  <2> HIDE DEF t
  <2>1. t \in Seq(Bodies) /\ h \in Nat /\ h <= Len(t)
    BY <1>1, <1>2
  <2> QED BY <2>1, StreamType
<1>5. \A i \in 1 .. Len(s) - h : p[i] = AsBytes(s[h + i])
  BY DEF Stream
<1>6. \A i \in 1 .. Len(t) - h : Stream(t, h)[i] = AsBytes(t[h + i])
  BY DEF Stream
<1> HIDE DEF t, p, q
<1>7. \A i \in 1 .. Len(q) : Stream(t, h)[i] = q[i]
  <2> TAKE i \in 1 .. Len(q)
  <2>1. CASE i = Len(p) + 1
    <3>1. i \in 1 .. Len(t) - h /\ h + i = Len(s) + 1
      BY <1>1, <1>2, <1>3, <2>1
    <3> QED BY <1>1, <1>3, <1>6, <2>1, <3>1
  <2>2. CASE i # Len(p) + 1
    <3>0. Len(p) \in Nat /\ i \in 1 .. Len(p)
      BY <1>1, <1>2, <1>3, <2>2
    <3>1. i \in 1 .. Len(t) - h /\ i \in 1 .. Len(s) - h /\ h + i \in 1 .. Len(s)
      BY <1>1, <1>2, <3>0
    <3> QED BY <1>1, <1>3, <1>5, <1>6, <3>0, <3>1
  <2> QED BY <2>1, <2>2
<1>8. Len(Stream(t, h)) = Len(q)
  BY <1>1, <1>2, <1>3, <1>4
<1>9. Stream(t, h) = q
  BY <1>3, <1>4, <1>7, <1>8, SeqEqual
<1> QED BY <1>0, <1>2, <1>9, FlattenAppend DEF t, p, q

LEMMA StreamNext ==
  ASSUME NEW s \in Seq(Bodies), NEW h \in Nat, h < Len(s)
  PROVE  FlattenSeq(Stream(s, h)) = AsBytes(s[h + 1]) \o FlattenSeq(Stream(s, h + 1))
<1> DEFINE p == Stream(s, h)
           q == Stream(s, h + 1)
<1>1. p \in Seq(Seq(Byte)) /\ Len(p) = Len(s) - h /\ Len(s) \in Nat
  BY StreamType
<1>2. q \in Seq(Seq(Byte)) /\ Len(q) = Len(s) - (h + 1)
  BY StreamType
<1>3. \A i \in 1 .. Len(s) - h : p[i] = AsBytes(s[h + i])
  BY DEF Stream
<1>4. \A i \in 1 .. Len(s) - (h + 1) : q[i] = AsBytes(s[(h + 1) + i])
  BY DEF Stream
<1> HIDE DEF p, q
<1>5. /\ p # <<>> /\ Head(p) = p[1] /\ Tail(p) \in Seq(Seq(Byte)) /\ Len(Tail(p)) = Len(p) - 1
      /\ \A i \in 1 .. Len(p) - 1 : Tail(p)[i] = p[i + 1]
  <2>1. p # <<>>
    BY <1>1
  <2> QED BY <1>1, <2>1, HeadTailProperties
<1>6. Head(p) = AsBytes(s[h + 1])
  BY <1>1, <1>3, <1>5
<1>7. \A i \in 1 .. Len(q) : Tail(p)[i] = q[i]
  <2> TAKE i \in 1 .. Len(q)
  <2>1. /\ i \in 1 .. Len(p) - 1 /\ i + 1 \in 1 .. Len(s) - h
        /\ i \in 1 .. Len(s) - (h + 1) /\ h + (i + 1) = (h + 1) + i
    BY <1>1, <1>2
  <2> QED BY <1>3, <1>4, <1>5, <2>1
<1>8. Tail(p) = q
  <2>1. Len(Tail(p)) = Len(q)
    BY <1>1, <1>2, <1>5
  <2> QED BY <1>2, <1>5, <1>7, <2>1, SeqEqual
<1> QED BY <1>1, <1>5, <1>6, <1>8, FlattenHead DEF p, q

-----------------------------------------------------------------------------
(* The invariant. *)

\* The greeting that opens a connection.
Greeted == Magic \o <<0, Version>>

\* How many packets the main loop was handed while the connection was open.
Handed == Len(messages) - 1

GreetingInvariant ==
  stage = "greeting" =>
    /\ received \o wire = greeting
    /\ Len(received) < GreetingLen
    /\ ~IsUnfit(received)
    /\ messages = <<>> /\ sent = <<>> /\ kept = 0

\* Each message is the packet that was sent as one more than those before it.
OpenInvariant ==
  stage \in {"reading", "cutting", "panicked"} =>
    /\ greeting = Greeted
    /\ messages # <<>> /\ messages[1] = Authenticated
    /\ Handed <= Len(sent)
    /\ \A i \in 2 .. Len(messages) : messages[i] = Updated(sent[i - 1])

EndInvariant ==
  stage = "ended" =>
    /\ messages # <<>> /\ messages[Len(messages)] = Disconnected
    /\ gone \/ greeting # Greeted

\* The bytes that were sent and not handed over are in the buffer and on the
\* wire, and what is kept leaves room for a read.
StreamInvariant ==
  stage \in {"reading", "cutting"} =>
    /\ Buffered \o wire = FlattenSeq(Stream(sent, Handed))
    /\ stage = "reading" => kept < BufferSize

FramingInvariant ==
  GreetingInvariant /\ OpenInvariant /\ EndInvariant /\ StreamInvariant

\* The two bytes the loop takes for a length never read as a size that could
\* not be one.  Where both of them were sent they never do; where the second
\* is a left-over of an earlier read it depends on that byte (client.rs:293).
Legible == stage = "cutting" /\ HasLength => PacketSize >= 2

-----------------------------------------------------------------------------
(* The greeting. *)

LEMMA GreetedType ==
  Greeted \in Seq(Byte) /\ Len(Greeted) = GreetingLen /\ GreetingLen \in Nat /\ GreetingLen >= 3
<1> DEFINE t == <<0, Version>>
<1>1. 0 \in Byte
  BY ByteRange
<1>2. Magic \in Seq(Byte) /\ Len(Magic) \in Nat /\ Len(Magic) >= 1 /\ Version \in Byte
  BY GreetingAssumption
<1>3. t \in Seq(Byte) /\ Len(t) = 2
  BY <1>1, <1>2
<1> HIDE DEF t
<1>4. Magic \o t \in Seq(Byte) /\ Len(Magic \o t) = Len(Magic) + Len(t)
  BY <1>2, <1>3, ConcatProperties
<1> QED BY <1>2, <1>3, <1>4 DEF Greeted, GreetingLen, t

LEMMA UnfitDiffers ==
  IsUnfit(received) <=> \E i \in 1 .. Len(received) : i <= GreetingLen /\ received[i] # Greeted[i]
BY DEF IsUnfit, Greeted

LEMMA UnfitDiffersNext ==
  IsUnfit(received') <=> \E i \in 1 .. Len(received') : i <= GreetingLen /\ received'[i] # Greeted[i]
BY DEF IsUnfit, Greeted

\* The greeting is received from its first byte on, nothing left out.
LEMMA GreetingReceived ==
  ASSUME TypeOK, GreetingInvariant, NEW n \in Pieces(64), Receives(n)
  PROVE  /\ received' \in Seq(Byte) /\ wire' \in Seq(Byte)
         /\ received' \o wire' = greeting /\ greeting \in Seq(Byte)
         /\ messages = <<>> /\ sent = <<>> /\ kept = 0 /\ greeting' = greeting
<1> DEFINE a == Taken(n)
           b == Left(n)
           c == received
<1>1. received' = c \o a /\ wire' = b
  BY DEF Receives, Taken, Left
<1>2. a \in Seq(Byte) /\ b \in Seq(Byte) /\ a \o b = wire
  BY PiecesType
<1>3. /\ received \o wire = greeting /\ received \in Seq(Byte) /\ greeting' = greeting
      /\ messages = <<>> /\ sent = <<>> /\ kept = 0 /\ greeting \in Seq(Byte)
  BY GreetingAssumption DEF GreetingInvariant, Receives, TypeOK, clientVars
<1>4. a \in Seq(Byte) /\ b \in Seq(Byte) /\ c \in Seq(Byte)
  BY <1>2, <1>3
<1> HIDE DEF a, b, c
<1>5. (c \o a) \o b = c \o (a \o b)
  BY <1>4, ConcatAssociative
<1>6. c \o a \in Seq(Byte)
  BY <1>2, <1>4, ConcatProperties
<1> QED BY <1>1, <1>2, <1>3, <1>5, <1>6 DEF c

\* A greeting that was received up to its end with no byte of it wrong is the
\* one that opens a connection, and there is nothing behind it.
LEMMA GreetingIsRight ==
  ASSUME TypeOK, GreetingInvariant, NEW n \in Pieces(64), GreetingAccepted(n)
  PROVE  greeting = Greeted /\ wire' = <<>>
<1> DEFINE r == received'
           w == wire'
<1>1. /\ r \in Seq(Byte) /\ w \in Seq(Byte) /\ r \o w = greeting /\ greeting \in Seq(Byte)
  BY GreetingReceived DEF GreetingAccepted
<1>2. Len(r) >= GreetingLen /\ \A i \in 1 .. Len(r) : i <= GreetingLen => r[i] = Greeted[i]
  BY UnfitDiffersNext DEF GreetingAccepted, IsComplete
<1> HIDE DEF r, w
<1>3. /\ Len(greeting) = Len(r) + Len(w) /\ Len(r) \in Nat /\ Len(w) \in Nat
      /\ \A i \in 1 .. Len(r) : greeting[i] = r[i]
  <2>1. /\ Len(r \o w) = Len(r) + Len(w)
        /\ \A i \in 1 .. Len(r) + Len(w) : (r \o w)[i] = IF i <= Len(r) THEN r[i] ELSE w[i - Len(r)]
    BY <1>1, ConcatProperties
  <2>2. Len(r) \in Nat /\ Len(w) \in Nat
    BY <1>1
  <2> QED BY <1>1, <2>1, <2>2
<1>4. GreetingLen <= Len(greeting) /\ \A i \in 1 .. GreetingLen : greeting[i] = Greeted[i]
  BY <1>2, <1>3, GreetedType
<1> DEFINE p == SubSeq(greeting, 1, GreetingLen)
<1>5. p \in Seq(Byte) /\ Len(p) = GreetingLen /\ \A i \in 1 .. GreetingLen : p[i] = greeting[i]
  <2>1. greeting \in Seq(Byte) /\ 1 \in 1 .. Len(greeting) + 1 /\ GreetingLen \in 0 .. Len(greeting)
    BY <1>1, <1>3, <1>4, GreetedType
  <2>2. \A i \in 1 .. Len(greeting) : greeting[i] \in Byte
    BY <1>1
  <2> QED BY <1>1, <1>4, <2>1, <2>2, GreetedType, SubSeqProperties
<1> HIDE DEF p
<1>6. p = Greeted
  BY <1>4, <1>5, GreetedType, SeqEqual
<1>7. SubSeq(Greeted, 1, Len(Greeted)) = Greeted
  BY GreetedType, SubSeqFull
<1>8. IsPrefix(Greeted, greeting)
  BY <1>4, <1>6, <1>7, GreetedType DEF IsPrefix, p
<1>9. greeting = Greeted
  BY <1>8, GreetingAssumption DEF Greeted, TypeOK
<1>10. Len(w) = 0
  BY <1>2, <1>3, <1>9, GreetedType
<1> QED BY <1>1, <1>9, <1>10, EmptySeq DEF w

-----------------------------------------------------------------------------
(* The buffer. *)

\* The n bytes of the buffer from index o on.
Window(o, n) == [i \in 1 .. n |-> buff[o + i - 1]]

LEMMA WindowType ==
  ASSUME TypeOK, NEW o \in Nat, NEW n \in Nat, o + n <= BufferSize
  PROVE  Window(o, n) \in Seq(Byte) /\ Len(Window(o, n)) = n
<1>1. \A i \in 1 .. n : o + i - 1 \in 0 .. BufferSize - 1
  BY BufferAssumption
<1>2. \A i \in 1 .. n : buff[o + i - 1] \in Byte
  BY <1>1 DEF TypeOK
<1> QED BY <1>2 DEF Window

LEMMA WindowCut ==
  ASSUME TypeOK, NEW o \in Nat, NEW k \in Nat, NEW m \in Nat, o + k + m <= BufferSize
  PROVE  Window(o, k) \o Window(o + k, m) = Window(o, k + m)
<1> DEFINE a == Window(o, k)
           b == Window(o + k, m)
           c == Window(o, k + m)
<1>1. a \in Seq(Byte) /\ Len(a) = k
  <2>1. o + k <= BufferSize
    BY BufferAssumption
  <2> QED BY <2>1, WindowType
<1>2. b \in Seq(Byte) /\ Len(b) = m
  <2>1. o + k \in Nat /\ (o + k) + m <= BufferSize
    OBVIOUS
  <2> QED BY <2>1, WindowType
<1>3. c \in Seq(Byte) /\ Len(c) = k + m
  <2>1. k + m \in Nat /\ o + (k + m) <= BufferSize
    BY BufferAssumption
  <2> QED BY <2>1, WindowType
<1>4. \A i \in 1 .. k : a[i] = buff[o + i - 1]
  BY DEF Window
<1>5. \A i \in 1 .. m : b[i] = buff[o + k + i - 1]
  BY DEF Window
<1>6. \A i \in 1 .. k + m : c[i] = buff[o + i - 1]
  BY DEF Window
<1> HIDE DEF a, b, c
<1>7. /\ a \o b \in Seq(Byte) /\ Len(a \o b) = Len(a) + Len(b)
      /\ \A i \in 1 .. Len(a) + Len(b) : (a \o b)[i] = IF i <= Len(a) THEN a[i] ELSE b[i - Len(a)]
  BY <1>1, <1>2, ConcatProperties
<1>8. \A i \in 1 .. Len(c) : (a \o b)[i] = c[i]
  <2> TAKE i \in 1 .. Len(c)
  <2>0. i \in 1 .. Len(a) + Len(b) /\ i \in 1 .. k + m
    BY <1>1, <1>2, <1>3
  <2>1. CASE i <= k
    <3>1. i \in 1 .. k
      BY <2>0, <2>1
    <3> QED BY <1>1, <1>4, <1>6, <1>7, <2>0, <2>1, <3>1
  <2>2. CASE ~(i <= k)
    <3>1. i - k \in 1 .. m /\ o + k + (i - k) - 1 = o + i - 1
      BY <2>0, <2>2
    <3>2. b[i - k] = buff[o + i - 1]
      BY <1>5, <3>1
    <3> QED BY <1>1, <1>6, <1>7, <2>0, <2>2, <3>2
  <2> QED BY <2>1, <2>2
<1>9. a \o b = c
  <2>1. Len(a \o b) = Len(c)
    BY <1>1, <1>2, <1>3, <1>7
  <2> QED BY <1>3, <1>7, <1>8, <2>1, SeqEqual
<1> QED BY <1>9 DEF a, b, c

LEMMA BufferedWindow ==
  ASSUME TypeOK
  PROVE  /\ stage = "reading" => Buffered = Window(0, kept)
         /\ stage = "cutting" => Buffered = Window(offset, readable - offset)
<1>1. ASSUME stage = "reading" PROVE Buffered = Window(0, kept)
  <2>1. Buffered = [i \in 1 .. kept |-> buff[i - 1]]
    BY <1>1 DEF Buffered
  <2>2. \A i \in 1 .. kept : 0 + i - 1 = i - 1
    BY BufferAssumption DEF TypeOK
  <2> QED BY <2>1, <2>2 DEF Window
<1>2. ASSUME stage = "cutting" PROVE Buffered = Window(offset, readable - offset)
  BY <1>2 DEF Buffered, Window
<1> QED BY <1>1, <1>2

-----------------------------------------------------------------------------
(* The packet at the front of the buffer. *)

LEMMA SignedSmall == \A u \in Nat : u < 32768 => Signed16(u) = u
<1> TAKE u \in Nat
<1> HAVE u < 32768
<1>1. u % 65536 = u
  OBVIOUS
<1> QED BY <1>1 DEF Signed16

LEMMA HandedType ==
  ASSUME TypeOK, OpenInvariant, stage \in {"reading", "cutting"}
  PROVE  /\ Handed \in Nat /\ Handed <= Len(sent) /\ sent \in Seq(Bodies)
         /\ messages # <<>> /\ Len(messages) = Handed + 1
<1>1. messages # <<>> /\ Handed <= Len(sent) /\ sent \in Seq(Bodies)
  BY DEF OpenInvariant, TypeOK
<1>2. Len(messages) \in Nat /\ Len(messages) # 0
  BY <1>1 DEF TypeOK
<1> QED BY <1>1, <1>2 DEF Handed

LEMMA CuttingWindow ==
  ASSUME TypeOK, OpenInvariant, StreamInvariant, stage = "cutting"
  PROVE  /\ readable - offset \in Nat /\ offset \in Nat /\ readable <= BufferSize
         /\ Window(offset, readable - offset) \in Seq(Byte)
         /\ Len(Window(offset, readable - offset)) = readable - offset
         /\ Window(offset, readable - offset) \o wire = FlattenSeq(Stream(sent, Handed))
<1>1. readable - offset \in Nat /\ offset \in Nat /\ offset + (readable - offset) <= BufferSize
  BY BufferAssumption DEF TypeOK
<1>2. Buffered \o wire = FlattenSeq(Stream(sent, Handed))
  BY DEF StreamInvariant
<1>3. readable <= BufferSize
  BY BufferAssumption DEF TypeOK
<1> QED BY <1>1, <1>2, <1>3, WindowType, BufferedWindow

\* While bytes are left, they start with the next packet that was sent.
LEMMA NextPacket ==
  ASSUME TypeOK, OpenInvariant, StreamInvariant, stage = "cutting", offset < readable
  PROVE  /\ Handed < Len(sent) /\ sent[Handed + 1] \in Bodies
         /\ FlattenSeq(Stream(sent, Handed + 1)) \in Seq(Byte)
         /\ Window(offset, readable - offset) \o wire
              = AsBytes(sent[Handed + 1]) \o FlattenSeq(Stream(sent, Handed + 1))
<1> DEFINE h == Handed
           w == Window(offset, readable - offset)
<1>1. h \in Nat /\ h <= Len(sent) /\ sent \in Seq(Bodies)
  BY HandedType
<1>2. /\ w \in Seq(Byte) /\ Len(w) = readable - offset /\ readable - offset \in Nat
      /\ w \o wire = FlattenSeq(Stream(sent, h))
  BY CuttingWindow
<1>3. Len(w) >= 1
  BY <1>2, BufferAssumption DEF TypeOK
<1>4. wire \in Seq(Byte)
  BY DEF TypeOK
<1> HIDE DEF h, w
<1>5. h # Len(sent)
  <2> SUFFICES ASSUME h = Len(sent) PROVE FALSE
    OBVIOUS
  <2>1. Stream(sent, h) \in Seq(Seq(Byte)) /\ Len(Stream(sent, h)) = 0
    BY <1>1, StreamType
  <2>2. Stream(sent, h) = <<>>
    BY <2>1, EmptySeq
  <2>3. w \o wire = <<>>
    BY <1>2, <2>2, FlattenEmpty
  <2>4. Len(w \o wire) = Len(w) + Len(wire) /\ Len(wire) \in Nat
    BY <1>2, <1>4, ConcatProperties
  <2> QED BY <1>3, <2>3, <2>4
<1>6. h < Len(sent) /\ h + 1 \in Nat /\ h + 1 <= Len(sent) /\ h + 1 \in 1 .. Len(sent)
  BY <1>1, <1>5
<1>7. FlattenSeq(Stream(sent, h)) = AsBytes(sent[h + 1]) \o FlattenSeq(Stream(sent, h + 1))
  BY <1>1, <1>6, StreamNext
<1>8. FlattenSeq(Stream(sent, h + 1)) \in Seq(Byte)
  BY <1>1, <1>6, StreamType
<1>9. sent[h + 1] \in Bodies
  BY <1>1, <1>6
<1> QED BY <1>2, <1>6, <1>7, <1>8, <1>9 DEF h, w

\* Where both bytes of its length are there, that is its size.
LEMMA NextSize ==
  ASSUME TypeOK, OpenInvariant, StreamInvariant, stage = "cutting",
         readable - offset >= 2
  PROVE  PacketSize = Len(sent[Handed + 1]) + 2
<1> DEFINE body == sent[Handed + 1]
           w == Window(offset, readable - offset)
           p == AsBytes(body)
           q == FlattenSeq(Stream(sent, Handed + 1))
           lo == Len(body) % 256
           hi == Len(body) \div 256
<1>0. offset < readable /\ readable - offset \in Nat
  BY CuttingWindow, BufferAssumption DEF TypeOK
<1>1. body \in Bodies /\ q \in Seq(Byte) /\ w \o wire = p \o q
  BY <1>0, NextPacket
<1>2. w \in Seq(Byte) /\ Len(w) = readable - offset
  BY CuttingWindow
<1>3. /\ p \in Seq(Byte) /\ Len(p) = Len(body) + 2 /\ p[1] = lo /\ p[2] = hi
      /\ Len(body) \in Nat /\ Len(body) >= 1 /\ Len(body) <= 32765
  <2> HIDE DEF body
  <2> QED BY <1>1, AsBytesType
<1>4. wire \in Seq(Byte)
  BY DEF TypeOK
<1>5. w[1] = buff[offset] /\ w[2] = buff[offset + 1]
  <2>1. \A i \in 1 .. readable - offset : w[i] = buff[offset + i - 1]
    BY DEF Window
  <2>2. 1 \in 1 .. readable - offset /\ 2 \in 1 .. readable - offset
        /\ offset + 1 - 1 = offset /\ offset + 2 - 1 = offset + 1
    BY <1>0, BufferAssumption DEF TypeOK
  <2> HIDE DEF w
  <2> QED BY <2>1, <2>2
<1>6. /\ lo \in Int /\ 0 <= lo /\ lo < 256 /\ hi \in Int /\ 0 <= hi /\ hi < 128
      /\ Len(body) = hi * 256 + lo
  <2> HIDE DEF body
  <2> QED BY <1>3, LengthBytes
<1> HIDE DEF w, p, q, lo, hi, body
<1>7. \A i \in 1 .. Len(w) : i <= Len(p) => w[i] = p[i]
  BY <1>1, <1>2, <1>3, <1>4, SameFront
<1>8. w[1] = lo /\ w[2] = hi
  <2>1. 1 \in 1 .. Len(w) /\ 2 \in 1 .. Len(w) /\ 1 <= Len(p) /\ 2 <= Len(p)
    BY <1>0, <1>2, <1>3
  <2> QED BY <1>3, <1>7, <2>1
<1>9. 2 + lo + 256 * hi = Len(body) + 2 /\ Len(body) + 2 \in Nat /\ Len(body) + 2 < 32768
  BY <1>3, <1>6
<1>10. PacketSize = Signed16(2 + lo + 256 * hi)
  BY <1>5, <1>8 DEF PacketSize
<1> QED BY <1>9, <1>10, SignedSmall DEF body

\* What is cut off is the next packet, whole, and what is behind it is left.
LEMMA CutsWhole ==
  ASSUME TypeOK, OpenInvariant, StreamInvariant, Legible, CutsPacket
  PROVE  /\ Handed < Len(sent)
         /\ messages' = Append(messages, Updated(sent[Handed + 1]))
         /\ offset' \in Nat /\ offset' <= readable
         /\ Window(offset', readable - offset') \o wire = FlattenSeq(Stream(sent, Handed + 1))
<1> DEFINE body == sent[Handed + 1]
           r == readable - offset
           k == PacketSize
           w == Window(offset, r)
           x == Window(offset, k)
           y == Window(offset + k, r - k)
           p == AsBytes(body)
           q == FlattenSeq(Stream(sent, Handed + 1))
<1>1. /\ stage = "cutting" /\ offset < readable /\ IsCuttable /\ HasLength
      /\ Tells(Updated(FromSlice([i \in 1 .. PacketSize |-> buff[offset + i - 1]])))
      /\ offset' = offset + k
  BY DEF CutsPacket, HasLength
<1>2. k \in Int /\ k >= 2 /\ k <= r
  BY <1>1, PacketSizeType DEF Legible, IsCuttable
<1>3. r \in Nat /\ offset \in Nat /\ offset + r <= BufferSize /\ readable \in Nat
      /\ w \in Seq(Byte) /\ Len(w) = r
  BY <1>1, CuttingWindow, BufferAssumption DEF TypeOK
<1>4. k = Len(body) + 2
  BY <1>1, <1>2, <1>3, NextSize
<1>5. /\ Handed < Len(sent) /\ body \in Bodies /\ q \in Seq(Byte) /\ w \o wire = p \o q
  BY <1>1, NextPacket
<1>6. /\ p \in Seq(Byte) /\ Len(p) = Len(body) + 2 /\ body \in Seq(Byte) /\ Len(body) \in Nat
      /\ Len(body) >= 1 /\ \A i \in 1 .. Len(body) : p[i + 2] = body[i]
  <2> HIDE DEF body
  <2> QED BY <1>5, AsBytesType
<1>7. wire \in Seq(Byte)
  BY DEF TypeOK
<1>8. x = [i \in 1 .. PacketSize |-> buff[offset + i - 1]]
  BY DEF Window
<1>9. /\ x \in Seq(Byte) /\ Len(x) = k /\ y \in Seq(Byte) /\ x \o y = w
  <2>1. /\ k \in Nat /\ r - k \in Nat /\ offset + k \in Nat /\ offset + k <= BufferSize
        /\ (offset + k) + (r - k) <= BufferSize /\ k + (r - k) = r
        /\ offset + k + (r - k) <= BufferSize
    BY <1>2, <1>3, BufferAssumption
  <2> HIDE DEF k, r
  <2>2. Window(offset, k) \in Seq(Byte) /\ Len(Window(offset, k)) = k
    BY <1>3, <2>1, WindowType
  <2>3. Window(offset + k, r - k) \in Seq(Byte)
    BY <2>1, WindowType
  <2>4. Window(offset, k) \o Window(offset + k, r - k) = Window(offset, k + (r - k))
    BY <1>3, <2>1, WindowCut
  <2> QED BY <2>1, <2>2, <2>3, <2>4
<1>10. offset' \in Nat /\ offset' <= readable /\ readable - offset' = r - k
  BY <1>1, <1>2, <1>3
<1>11. Window(offset', readable - offset') = y
  <2> HIDE DEF k, r
  <2> QED BY <1>1, <1>10
<1> HIDE DEF body, r, k, w, x, y, p, q
<1>12. x \o (y \o wire) = p \o q
  <2> DEFINE v == wire
  <2>1. x \in Seq(Byte) /\ y \in Seq(Byte) /\ v \in Seq(Byte)
    BY <1>7, <1>9
  <2> HIDE DEF v
  <2>2. (x \o y) \o v = x \o (y \o v)
    BY <2>1, ConcatAssociative
  <2> QED BY <1>5, <1>9, <2>2 DEF v
<1>13. y \o wire \in Seq(Byte)
  BY <1>7, <1>9, ConcatProperties
<1>14. x = p /\ y \o wire = q
  <2>1. Len(x) = Len(p)
    BY <1>4, <1>6, <1>9
  <2> QED BY <1>5, <1>6, <1>9, <1>12, <1>13, <2>1, ConcatSplit
<1>15. FromSlice(p) = body
  <2>1. ~(Len(p) < 3)
    BY <1>6
  <2> DEFINE z == SubSeq(p, 3, Len(p))
  <2>2. z \in Seq(Byte) /\ Len(z) = Len(body) /\ \A i \in 1 .. Len(body) : z[i] = p[i + 2]
    <3>1. \A i \in 3 .. Len(p) : p[i] \in Byte
      BY <1>6
    <3>2. Len(p) \in Int /\ 3 <= Len(p) /\ Len(p) - 3 + 1 = Len(body)
      BY <1>6
    <3>3. z \in Seq(Byte) /\ Len(z) = Len(body)
      BY <3>1, <3>2, SubSeqProperties
    <3>4. \A i \in 1 .. Len(body) : z[i] = p[3 + i - 1] /\ 3 + i - 1 = i + 2
      BY <1>6, <3>1, <3>2, SubSeqProperties
    <3> HIDE DEF z
    <3> QED BY <3>3, <3>4
  <2> HIDE DEF z
  <2>3. z = body
    BY <1>6, <2>2, SeqEqual
  <2> QED BY <2>1, <2>3 DEF FromSlice, z
<1>16. messages' = Append(messages, Updated(body))
  BY <1>1, <1>8, <1>14, <1>15 DEF Tells
<1> QED BY <1>5, <1>10, <1>11, <1>14, <1>16 DEF body, q

\* The buffer is never full of bytes that wait for more of their packet.
LEMMA RoomLeft ==
  ASSUME TypeOK, OpenInvariant, StreamInvariant, Legible, StopsCutting
  PROVE  Rest < BufferSize
<1>1. stage = "cutting" /\ (offset = readable \/ (HasLength /\ ~IsCuttable))
  BY DEF StopsCutting
<1>2. readable - offset \in Nat /\ readable <= BufferSize /\ offset \in Nat
  BY <1>1, CuttingWindow
<1>3. CASE offset = readable
  BY <1>3, BufferAssumption DEF Rest, TypeOK
<1>4. CASE HasLength /\ ~IsCuttable
  <2>1. SUFFICES ASSUME readable - offset = BufferSize PROVE FALSE
    BY <1>2, BufferAssumption DEF Rest, TypeOK
  <2> DEFINE n == Len(sent[Handed + 1])
  <2>2. offset < readable
    BY <1>4 DEF HasLength
  <2>3. n \in Nat /\ n >= 1 /\ n + 2 <= BufferSize
    BY <1>1, <2>2, NextPacket, AsBytesType, BufferAssumption
  <2>4. readable - offset >= 2
    BY <2>1, <2>3, BufferAssumption
  <2>5. PacketSize = n + 2
    BY <1>1, <2>4, NextSize
  <2> HIDE DEF n
  <2>6. PacketSize \in 0 .. readable - offset
    BY <2>1, <2>3, <2>5, BufferAssumption
  <2> QED BY <1>4, <2>6 DEF IsCuttable
<1> QED BY <1>1, <1>3, <1>4

-----------------------------------------------------------------------------
(* The bytes a step moves. *)

LEMMA ReadsBuffered ==
  ASSUME TypeOK, NEW n \in Pieces(BufferSize - kept), Reads(n)
  PROVE  Buffered' = Window(0, kept) \o Taken(n)
<1> DEFINE a == Window(0, kept)
           b == Taken(n)
           d == [i \in 1 .. kept + n |-> buff'[i - 1]]
<1>0. kept \in Nat /\ kept <= BufferSize /\ BufferSize \in Nat /\ n \in Nat
  BY PiecesType, BufferAssumption DEF TypeOK
<1>1. /\ n <= BufferSize - kept /\ b \in Seq(Byte) /\ Len(b) = n
      /\ \A i \in 1 .. n : b[i] = wire[i]
  BY PiecesType
<1>2. a \in Seq(Byte) /\ Len(a) = kept
  BY <1>0, WindowType
<1>3. \A i \in 1 .. kept : a[i] = buff[i - 1]
  <2>1. \A i \in 1 .. kept : a[i] = buff[0 + i - 1] /\ 0 + i - 1 = i - 1
    BY <1>0 DEF Window
  <2> QED BY <2>1
<1>4. \A j \in 0 .. BufferSize - 1 :
        buff'[j] = IF j \in kept .. kept + n - 1 THEN wire[j - kept + 1] ELSE buff[j]
  BY DEF Reads, TypeOK
<1>5. /\ a \o b \in Seq(Byte) /\ Len(a \o b) = Len(a) + Len(b)
      /\ \A i \in 1 .. Len(a) + Len(b) : (a \o b)[i] = IF i <= Len(a) THEN a[i] ELSE b[i - Len(a)]
  <2> HIDE DEF a, b
  <2> QED BY <1>1, <1>2, ConcatProperties
<1>6. \A i \in 1 .. kept + n : d[i] = buff'[i - 1]
  OBVIOUS
<1>7. \A i \in 1 .. kept + n : d[i] = (a \o b)[i]
  <2> HIDE DEF a, b, d
  <2> TAKE i \in 1 .. kept + n
  <2>0. i - 1 \in 0 .. BufferSize - 1 /\ i \in 1 .. Len(a) + Len(b)
    BY <1>0, <1>1, <1>2
  <2>1. CASE i <= kept
    <3>1. i \in 1 .. kept /\ ~(i - 1 \in kept .. kept + n - 1)
      BY <1>0, <2>1
    <3> QED BY <1>2, <1>3, <1>4, <1>5, <1>6, <2>0, <2>1, <3>1
  <2>2. CASE ~(i <= kept)
    <3>1. i - kept \in 1 .. n /\ i - 1 \in kept .. kept + n - 1 /\ (i - 1) - kept + 1 = i - kept
      BY <1>0, <2>2
    <3> QED BY <1>1, <1>2, <1>4, <1>5, <1>6, <2>0, <2>2, <3>1
  <2> QED BY <2>1, <2>2
<1>8. d \in Seq(Byte) /\ Len(d) = kept + n
  <2>1. \A i \in 1 .. kept + n : i - 1 \in 0 .. BufferSize - 1
    BY <1>0, <1>1
  <2>2. buff' \in [0 .. BufferSize - 1 -> Byte]
    <3>1. [Next]_vars
      BY DEF Next, Reader
    <3> QED BY <3>1, NextType DEF TypeOK
  <2>3. \A i \in 1 .. kept + n : buff'[i - 1] \in Byte
    BY <2>1, <2>2
  <2>4. kept + n \in Nat
    BY <1>0
  <2> QED BY <2>3, <2>4
<1>9. d = a \o b
  <2> HIDE DEF a, b, d
  <2>1. Len(d) = Len(a \o b)
    BY <1>1, <1>2, <1>5, <1>8
  <2> QED BY <1>5, <1>7, <1>8, <2>1, SeqEqual
<1>10. Buffered' = d
  <2>1. stage' = "cutting" /\ readable' = kept + n /\ offset' = 0
    BY DEF Reads
  <2>2. Buffered' = [i \in 1 .. readable' - offset' |-> buff'[offset' + i - 1]]
    BY <2>1 DEF Buffered
  <2>3. readable' - offset' = kept + n /\ \A i \in 1 .. kept + n : offset' + i - 1 = i - 1
    BY <1>0, <2>1
  <2> QED BY <2>2, <2>3
<1> QED BY <1>9, <1>10

LEMMA StopsBuffered ==
  ASSUME TypeOK, Legible, StopsCutting
  PROVE  Buffered' = Buffered
<1>1. stage = "cutting" /\ stage' = "reading" /\ kept' = readable - offset
  BY DEF StopsCutting, Rest
<1>2. /\ Buffered = [i \in 1 .. readable - offset |-> buff[offset + i - 1]]
      /\ Buffered' = [i \in 1 .. readable - offset |-> buff'[i - 1]]
  BY <1>1 DEF Buffered
<1>3. \A i \in 1 .. readable - offset : buff'[i - 1] = buff[offset + i - 1]
  <2> TAKE i \in 1 .. readable - offset
  <2>1. offset # readable
    BY BufferAssumption DEF TypeOK
  <2>2. HasLength /\ PacketSize >= 2 /\ PacketSize \in Int
    BY <1>1, <2>1, PacketSizeType DEF StopsCutting, Legible
  <2>3. buff' = TailMoved
    BY <2>2 DEF StopsCutting
  <2>4. /\ i - 1 \in 0 .. BufferSize - 1 /\ i - 1 < readable - offset
        /\ offset + (i - 1) = offset + i - 1
    BY BufferAssumption DEF TypeOK
  <2>5. DOMAIN buff = 0 .. BufferSize - 1
    BY DEF TypeOK
  <2> QED BY <2>3, <2>4, <2>5 DEF TailMoved
<1> QED BY <1>2, <1>3

-----------------------------------------------------------------------------
(* Every step keeps the invariant. *)

LEMMA AppendAtEnd ==
  ASSUME TypeOK, NEW k \in {"Authenticated", "Disconnected", "Updated"}, NEW p \in Seq(Byte),
         Tells([kind |-> k, packet |-> p])
  PROVE  /\ messages' # <<>> /\ Len(messages') = Len(messages) + 1 /\ Len(messages) \in Nat
         /\ messages'[Len(messages) + 1] = [kind |-> k, packet |-> p]
         /\ \A i \in 1 .. Len(messages) : messages'[i] = messages[i]
<1> DEFINE M == [kind : {"Authenticated", "Disconnected", "Updated"}, packet : Seq(Byte)]
           m == [kind |-> k, packet |-> p]
<1>1. m \in M /\ messages \in Seq(M) /\ messages' = Append(messages, m)
  BY DEF TypeOK, Tells
<1> HIDE DEF M, m
<1>2. /\ Len(messages') = Len(messages) + 1 /\ messages'[Len(messages) + 1] = m
      /\ \A i \in 1 .. Len(messages) : messages'[i] = messages[i]
      /\ Len(messages) \in Nat /\ messages' \in Seq(M)
  BY <1>1, AppendProperties
<1>3. messages' # <<>>
  BY <1>2
<1> QED BY <1>2, <1>3 DEF m

\* Nobody has been told of a connection that is not open yet.
LEMMA SendsWhenTold ==
  ASSUME FramingInvariant, NEW b \in Bodies, Sends(b)
  PROVE  stage # "greeting"
<1>1. SUFFICES ASSUME stage = "greeting" PROVE FALSE
  OBVIOUS
<1>2. messages = <<>>
  BY <1>1 DEF FramingInvariant, GreetingInvariant
<1>3. DOMAIN messages = {}
  BY <1>2
<1> QED BY <1>3 DEF Sends

LEMMA SendsStep ==
  ASSUME TypeOK, FramingInvariant, NEW b \in Bodies, Sends(b)
  PROVE  FramingInvariant'
<1>1. /\ sent' = Append(sent, b) /\ wire' = wire \o AsBytes(b)
      /\ UNCHANGED <<greeting, gone, stage, received, loopVars, messages>>
  BY DEF Sends
<1>2. /\ stage' # "greeting" /\ sent \in Seq(Bodies) /\ Len(sent') = Len(sent) + 1
      /\ \A i \in 1 .. Len(sent) : sent'[i] = sent[i]
  BY <1>1, SendsWhenTold, AppendProperties DEF TypeOK
<1>3. GreetingInvariant'
  BY <1>2 DEF GreetingInvariant
<1>4. OpenInvariant'
  <2> SUFFICES ASSUME stage \in {"reading", "cutting", "panicked"}
               PROVE  /\ greeting' = Greeted /\ messages' # <<>> /\ messages'[1] = Authenticated
                      /\ Handed' <= Len(sent')
                      /\ \A i \in 2 .. Len(messages') : messages'[i] = Updated(sent'[i - 1])
    BY <1>1 DEF OpenInvariant
  <2>1. /\ greeting = Greeted /\ messages # <<>> /\ messages[1] = Authenticated
        /\ Handed <= Len(sent)
        /\ \A i \in 2 .. Len(messages) : messages[i] = Updated(sent[i - 1])
    BY DEF FramingInvariant, OpenInvariant
  <2>2. Len(messages) \in Nat /\ Len(sent) \in Nat
    BY DEF TypeOK
  <2>3. messages' = messages /\ greeting' = greeting
    BY <1>1
  <2>4. Handed' <= Len(sent')
    BY <1>2, <2>1, <2>2, <2>3 DEF Handed
  <2>5. \A i \in 2 .. Len(messages) : sent'[i - 1] = sent[i - 1]
    <3> TAKE i \in 2 .. Len(messages)
    <3>1. i - 1 \in 1 .. Len(sent)
      BY <2>1, <2>2 DEF Handed
    <3> QED BY <1>2, <3>1
  <2> QED BY <2>1, <2>3, <2>4, <2>5
<1>5. EndInvariant'
  BY <1>1 DEF FramingInvariant, EndInvariant
<1>6. StreamInvariant'
  <2> SUFFICES ASSUME stage \in {"reading", "cutting"}
               PROVE  /\ Buffered' \o wire' = FlattenSeq(Stream(sent', Handed'))
                      /\ stage = "reading" => kept' < BufferSize
    BY <1>1 DEF StreamInvariant
  <2>1. Handed' = Handed /\ Buffered' = Buffered /\ kept' = kept
    BY <1>1 DEF Handed, Buffered, loopVars
  <2>2. /\ Buffered \o wire = FlattenSeq(Stream(sent, Handed))
        /\ stage = "reading" => kept < BufferSize
    BY DEF FramingInvariant, StreamInvariant
  <2> DEFINE u == Buffered
             v == wire
             w == AsBytes(b)
  <2>3. u \in Seq(Byte) /\ v \in Seq(Byte) /\ w \in Seq(Byte)
    <3>1. ASSUME stage = "reading" PROVE Buffered \in Seq(Byte)
      <4>1. 0 \in Nat /\ kept \in Nat /\ 0 + kept <= BufferSize
        BY BufferAssumption DEF TypeOK
      <4> QED BY <3>1, <4>1, BufferedWindow, WindowType
    <3>2. ASSUME stage = "cutting" PROVE Buffered \in Seq(Byte)
      BY <3>2, BufferedWindow, CuttingWindow DEF FramingInvariant
    <3> QED BY <3>1, <3>2, AsBytesType DEF TypeOK
  <2>4. Handed \in Nat /\ Handed <= Len(sent)
    BY HandedType DEF FramingInvariant
  <2>5. FlattenSeq(Stream(sent', Handed)) = FlattenSeq(Stream(sent, Handed)) \o w
    BY <1>1, <1>2, <2>4, StreamSent
  <2> HIDE DEF u, v, w
  <2>6. (u \o v) \o w = u \o (v \o w)
    BY <2>3, ConcatAssociative
  <2> QED BY <1>1, <2>1, <2>2, <2>5, <2>6 DEF u, v, w
<1> QED BY <1>3, <1>4, <1>5, <1>6 DEF FramingInvariant

LEMMA GreetingStep ==
  ASSUME TypeOK, FramingInvariant, NEW n \in Pieces(64),
         GreetingGoesOn(n) \/ GreetingAccepted(n) \/ GreetingRefused(n)
  PROVE  FramingInvariant'
<1>1. Receives(n) /\ stage = "greeting" /\ GreetingInvariant
  BY DEF GreetingGoesOn, GreetingAccepted, GreetingRefused, Receives, FramingInvariant
<1>2. /\ received' \in Seq(Byte) /\ wire' \in Seq(Byte)
      /\ received' \o wire' = greeting /\ greeting \in Seq(Byte)
      /\ messages = <<>> /\ sent = <<>> /\ kept = 0 /\ greeting' = greeting
      /\ sent' = sent /\ kept' = kept /\ gone' = gone
  BY <1>1, GreetingReceived DEF Receives, clientVars, loopVars
<1>m. <<>> \in Seq(Byte)
  BY EmptySeq
<1>3. CASE GreetingGoesOn(n)
  <2>1. stage' = "greeting" /\ messages' = messages /\ ~IsUnfit(received') /\ ~IsComplete(received')
    BY <1>1, <1>3 DEF GreetingGoesOn
  <2>2. Len(received') < GreetingLen
    BY <1>2, <2>1, GreetedType DEF IsComplete
  <2>3. GreetingInvariant'
    BY <1>2, <2>1, <2>2 DEF GreetingInvariant, GreetingLen
  <2> QED BY <2>1, <2>3 DEF FramingInvariant, OpenInvariant, EndInvariant, StreamInvariant
<1>4. CASE GreetingAccepted(n)
  <2>1. stage' = "reading" /\ Tells(Authenticated)
    BY <1>4 DEF GreetingAccepted
  <2>2. greeting = Greeted /\ wire' = <<>>
    BY <1>1, <1>4, GreetingIsRight
  <2>3. messages' # <<>> /\ Len(messages') = 1 /\ messages'[1] = Authenticated
    <3>1. /\ messages' # <<>> /\ Len(messages') = Len(messages) + 1
          /\ messages'[Len(messages) + 1] = Authenticated
      BY <1>m, <2>1, AppendAtEnd DEF Authenticated
    <3>2. Len(messages) = 0
      BY <1>2
    <3> QED BY <3>1, <3>2
  <2>4. OpenInvariant'
    BY <1>2, <2>1, <2>2, <2>3 DEF OpenInvariant, Handed, Greeted
  <2>5. StreamInvariant'
    <3>1. Buffered' = <<>>
      BY <1>2, <2>1 DEF Buffered
    <3>2. Handed' = 0 /\ sent' = <<>> /\ Len(sent') = 0
      BY <1>2, <2>3 DEF Handed
    <3>3. Stream(sent', 0) = <<>>
      BY <3>2 DEF Stream
    <3>4. <<>> \o <<>> = <<>>
      BY <1>m, ConcatEmptySeq
    <3>5. Buffered' \o wire' = FlattenSeq(Stream(sent', Handed'))
      BY <2>2, <3>1, <3>2, <3>3, <3>4, FlattenEmpty
    <3>6. kept' < BufferSize
      BY <1>2, BufferAssumption
    <3> QED BY <3>5, <3>6 DEF StreamInvariant
  <2> QED BY <2>1, <2>4, <2>5 DEF FramingInvariant, GreetingInvariant, EndInvariant
<1>5. CASE GreetingRefused(n)
  <2>1. /\ stage' = "ended" /\ Tells(Disconnected)
        /\ IsUnfit(received') \/ gone
    BY <1>5 DEF GreetingRefused
  <2>2. messages' # <<>> /\ messages'[Len(messages')] = Disconnected
    BY <1>m, <2>1, AppendAtEnd DEF Disconnected
  <2>3. ASSUME IsUnfit(received') PROVE greeting # Greeted
    <3> DEFINE r == received'
               w == wire'
    <3>1. PICK i \in 1 .. Len(r) : r[i] # Greeted[i]
      BY <2>3, UnfitDiffersNext
    <3>2. r \in Seq(Byte) /\ w \in Seq(Byte) /\ r \o w = greeting
      BY <1>2
    <3> HIDE DEF r, w
    <3>3. \A j \in 1 .. Len(r) + Len(w) : (r \o w)[j] = IF j <= Len(r) THEN r[j] ELSE w[j - Len(r)]
      BY <3>2, ConcatProperties
    <3>4. i \in 1 .. Len(r) + Len(w) /\ i <= Len(r)
      BY <3>2
    <3> QED BY <3>1, <3>2, <3>3, <3>4
  <2>4. EndInvariant'
    BY <1>2, <2>1, <2>2, <2>3 DEF EndInvariant, Greeted
  <2> QED BY <2>1, <2>4 DEF FramingInvariant, GreetingInvariant, OpenInvariant, StreamInvariant
<1> QED BY <1>3, <1>4, <1>5

LEMMA EndsStep ==
  ASSUME TypeOK, FramingInvariant, GreetingBreaksOff \/ ReadEnds
  PROVE  FramingInvariant' /\ gone
<1>1. /\ stage' = "ended" /\ Tells(Disconnected) /\ UNCHANGED <<clientVars, wire, received, loopVars>>
  BY DEF GreetingBreaksOff, ReadEnds
<1>2. gone
  <2>1. CASE ReadEnds
    <3>1. stage = "reading" /\ (gone \/ kept = BufferSize)
      BY <2>1 DEF ReadEnds
    <3>2. kept < BufferSize
      BY <3>1 DEF FramingInvariant, StreamInvariant
    <3> QED BY <3>1, <3>2, BufferAssumption
  <2> QED BY <2>1 DEF GreetingBreaksOff
<1>3. messages' # <<>> /\ messages'[Len(messages')] = Disconnected
  <2>1. <<>> \in Seq(Byte)
    BY EmptySeq
  <2> QED BY <1>1, <2>1, AppendAtEnd DEF Disconnected
<1>4. EndInvariant'
  BY <1>1, <1>2, <1>3 DEF EndInvariant, clientVars
<1> QED BY <1>1, <1>2, <1>4 DEF FramingInvariant, GreetingInvariant, OpenInvariant, StreamInvariant

LEMMA ReadsStep ==
  ASSUME TypeOK, FramingInvariant, NEW n \in Pieces(BufferSize - kept), Reads(n)
  PROVE  FramingInvariant'
<1>1. /\ stage = "reading" /\ stage' = "cutting" /\ wire' = Left(n)
      /\ UNCHANGED <<clientVars, received, kept, messages>>
  BY DEF Reads, Left
<1>2. OpenInvariant'
  BY <1>1 DEF FramingInvariant, OpenInvariant, Handed, clientVars
<1>3. StreamInvariant'
  <2> DEFINE a == Window(0, kept)
             b == Taken(n)
             c == Left(n)
  <2>1. a \in Seq(Byte) /\ b \in Seq(Byte) /\ c \in Seq(Byte) /\ b \o c = wire
    <3>1. 0 \in Nat /\ kept \in Nat /\ 0 + kept <= BufferSize
      BY BufferAssumption DEF TypeOK
    <3>2. a \in Seq(Byte)
      BY <3>1, WindowType
    <3>3. b \in Seq(Byte) /\ c \in Seq(Byte) /\ b \o c = wire
      BY PiecesType
    <3> QED BY <3>2, <3>3
  <2>2. a \o wire = FlattenSeq(Stream(sent, Handed))
    BY <1>1, BufferedWindow DEF FramingInvariant, StreamInvariant
  <2>3. Buffered' = a \o b /\ wire' = c
    BY <1>1, ReadsBuffered
  <2>4. sent' = sent /\ Handed' = Handed
    BY <1>1 DEF clientVars, Handed
  <2> HIDE DEF a, b, c
  <2>5. (a \o b) \o c = a \o (b \o c)
    <3>1. a \in Seq(Byte) /\ b \in Seq(Byte) /\ c \in Seq(Byte)
      BY <2>1
    <3> QED BY <3>1, ConcatAssociative
  <2>6. Buffered' \o wire' = FlattenSeq(Stream(sent', Handed'))
    BY <2>1, <2>2, <2>3, <2>4, <2>5
  <2> QED BY <1>1, <2>6 DEF StreamInvariant
<1> QED BY <1>1, <1>2, <1>3 DEF FramingInvariant, GreetingInvariant, EndInvariant

LEMMA CutsStep ==
  ASSUME TypeOK, FramingInvariant, Legible, CutsPacket
  PROVE  /\ FramingInvariant'
         /\ Handed < Len(sent) /\ messages' = Append(messages, Updated(sent[Handed + 1]))
<1>1. /\ stage = "cutting" /\ stage' = "cutting" /\ UNCHANGED <<clientVars, wire, buff, readable>>
      /\ OpenInvariant /\ StreamInvariant
      /\ Tells(Updated(FromSlice([i \in 1 .. PacketSize |-> buff[offset + i - 1]])))
  BY DEF CutsPacket, FramingInvariant
<1>2. /\ Handed < Len(sent)
      /\ messages' = Append(messages, Updated(sent[Handed + 1]))
      /\ offset' \in Nat /\ offset' <= readable
      /\ Window(offset', readable - offset') \o wire = FlattenSeq(Stream(sent, Handed + 1))
  BY <1>1, CutsWhole
<1>3. /\ Handed \in Nat /\ messages # <<>> /\ Len(messages) = Handed + 1 /\ sent \in Seq(Bodies)
  BY <1>1, HandedType
<1> DEFINE body == sent[Handed + 1]
<1>4. body \in Seq(Byte)
  <2>1. body \in Bodies
    BY <1>2, <1>3
  <2> QED BY <2>1, BodiesAssumption
<1>5. /\ messages' # <<>> /\ Len(messages') = Len(messages) + 1
      /\ messages'[Len(messages) + 1] = Updated(body)
      /\ \A i \in 1 .. Len(messages) : messages'[i] = messages[i]
  <2> HIDE DEF body
  <2>1. Tells([kind |-> "Updated", packet |-> body])
    BY <1>2 DEF Tells, Updated, body
  <2> QED BY <1>4, <2>1, AppendAtEnd DEF Updated
<1>6. Handed' = Handed + 1
  BY <1>3, <1>5 DEF Handed
<1>7. OpenInvariant'
  <2>1. sent' = sent /\ greeting' = greeting
    BY <1>1 DEF clientVars
  <2>2. /\ greeting = Greeted /\ messages[1] = Authenticated
        /\ \A i \in 2 .. Len(messages) : messages[i] = Updated(sent[i - 1])
    BY <1>1 DEF OpenInvariant
  <2>3. messages'[1] = Authenticated
    BY <1>3, <1>5, <2>2
  <2>4. \A i \in 2 .. Len(messages') : messages'[i] = Updated(sent[i - 1])
    <3> TAKE i \in 2 .. Len(messages')
    <3>1. CASE i = Len(messages) + 1
      <4>1. i - 1 = Handed + 1
        BY <1>3, <3>1
      <4> QED BY <1>5, <3>1, <4>1
    <3>2. CASE i # Len(messages) + 1
      <4>1. i \in 2 .. Len(messages) /\ i \in 1 .. Len(messages)
        BY <1>3, <1>5, <3>2
      <4> QED BY <1>5, <2>2, <4>1
    <3> QED BY <3>1, <3>2
  <2>5. Handed' <= Len(sent')
    BY <1>2, <1>3, <1>6, <2>1
  <2> QED BY <1>5, <2>1, <2>2, <2>3, <2>4, <2>5 DEF OpenInvariant
<1>8. StreamInvariant'
  <2>1. Buffered' = Window(offset', readable - offset')
    BY <1>1 DEF Buffered, Window
  <2>2. wire' = wire /\ sent' = sent
    BY <1>1 DEF clientVars
  <2> QED BY <1>1, <1>2, <1>6, <2>1, <2>2 DEF StreamInvariant
<1> QED BY <1>1, <1>2, <1>7, <1>8 DEF FramingInvariant, GreetingInvariant, EndInvariant

LEMMA StopsStep ==
  ASSUME TypeOK, FramingInvariant, Legible, StopsCutting
  PROVE  FramingInvariant'
<1>1. /\ stage = "cutting" /\ stage' = "reading" /\ kept' = Rest
      /\ UNCHANGED <<clientVars, wire, received, messages>>
      /\ OpenInvariant /\ StreamInvariant
  BY DEF StopsCutting, FramingInvariant
<1>2. OpenInvariant'
  BY <1>1 DEF OpenInvariant, Handed, clientVars
<1>3. StreamInvariant'
  <2>1. kept' < BufferSize
    BY <1>1, RoomLeft
  <2>2. Buffered' = Buffered
    BY StopsBuffered
  <2>3. wire' = wire /\ sent' = sent /\ Handed' = Handed
    BY <1>1 DEF clientVars, Handed
  <2>4. Buffered \o wire = FlattenSeq(Stream(sent, Handed))
    BY <1>1 DEF StreamInvariant
  <2> QED BY <2>1, <2>2, <2>3, <2>4 DEF StreamInvariant
<1> QED BY <1>1, <1>2, <1>3 DEF FramingInvariant, GreetingInvariant, EndInvariant

LEMMA FramingStep ==
  ASSUME TypeOK, FramingInvariant, Legible, [Next]_vars
  PROVE  FramingInvariant'
<1>1. ASSUME NEW b \in Bodies, Sends(b) PROVE FramingInvariant'
  BY <1>1, SendsStep
<1>2. CASE HangsUp
  BY <1>2 DEF HangsUp, loopVars, FramingInvariant, GreetingInvariant, OpenInvariant,
              EndInvariant, StreamInvariant, Handed, Buffered
<1>3. ASSUME NEW n \in Pieces(64), GreetingGoesOn(n) \/ GreetingAccepted(n) \/ GreetingRefused(n)
      PROVE  FramingInvariant'
  BY <1>3, GreetingStep
<1>4. CASE GreetingBreaksOff \/ ReadEnds
  BY <1>4, EndsStep
<1>5. ASSUME NEW n \in Pieces(BufferSize - kept), Reads(n) PROVE FramingInvariant'
  BY <1>5, ReadsStep
<1>6. CASE CutsPacket
  BY <1>6, CutsStep
<1>7. CASE Panics
  <2>1. /\ stage = "cutting" /\ stage' = "panicked"
        /\ UNCHANGED <<clientVars, wire, received, loopVars, messages>>
    BY <1>7 DEF Panics
  <2> QED BY <2>1 DEF clientVars, FramingInvariant, GreetingInvariant, OpenInvariant,
                      EndInvariant, StreamInvariant, Handed
<1>8. CASE StopsCutting
  BY <1>8, StopsStep
<1>9. CASE UNCHANGED vars
  BY <1>9 DEF vars, FramingInvariant, GreetingInvariant, OpenInvariant, EndInvariant,
              StreamInvariant, Handed, Buffered
<1> QED BY <1>1, <1>2, <1>3, <1>4, <1>5, <1>6, <1>7, <1>8, <1>9 DEF Next, Reader

LEMMA FramingInit == Init => FramingInvariant
<1> SUFFICES ASSUME Init PROVE FramingInvariant
  OBVIOUS
<1>1. stage = "greeting" /\ received = <<>> /\ wire = greeting /\ greeting \in Seq(Byte)
      /\ messages = <<>> /\ sent = <<>> /\ kept = 0
  BY GreetingAssumption DEF Init
<1>2. received \o wire = greeting
  BY <1>1, ConcatEmptySeq
<1>3. Len(received) = 0
  BY <1>1
<1>4. Len(received) < GreetingLen /\ ~IsUnfit(received)
  BY <1>3, GreetedType, UnfitDiffers
<1> QED BY <1>1, <1>2, <1>4 DEF FramingInvariant, GreetingInvariant, OpenInvariant, EndInvariant,
                               StreamInvariant

-----------------------------------------------------------------------------
(* What follows from it. *)

LEMMA InvariantAlways == Spec /\ []Legible => []FramingInvariant
<1>1. TypeOK /\ FramingInvariant /\ Legible /\ [Next]_vars => FramingInvariant'
  BY FramingStep
<1> QED BY <1>1, FramingInit, TypeCorrect, PTL DEF Spec

LEMMA OpenMessages ==
  /\ messages = <<>> => ~Abstract!IsOpen(messages)
  /\ messages # <<>> => (Abstract!IsOpen(messages) <=> messages[Len(messages)] # Disconnected)
BY DEF Abstract!IsOpen, Abstract!Disconnected, Disconnected, Abstract!Last

\* While the task is not over, the packets it handed over are as many as the
\* messages but the first.
LEMMA OpenHandedOver ==
  ASSUME TypeOK, OpenInvariant, stage \in {"reading", "cutting", "panicked"}
  PROVE  /\ Abstract!IsOpen(messages) /\ messages # <<>>
         /\ Len(Abstract!HandedOver(messages)) = Handed /\ Handed \in Nat
<1>1. /\ messages # <<>> /\ messages[1] = Authenticated
      /\ \A i \in 2 .. Len(messages) : messages[i] = Updated(sent[i - 1])
  BY DEF OpenInvariant
<1>2. Len(messages) \in Nat /\ Len(messages) >= 1
  BY <1>1 DEF TypeOK
<1>3. messages[Len(messages)] # Disconnected
  <2>1. CASE Len(messages) = 1
    BY <1>1, <2>1 DEF Authenticated, Disconnected
  <2>2. CASE Len(messages) # 1
    <3>1. messages[Len(messages)] = Updated(sent[Len(messages) - 1])
      <4>1. Len(messages) \in 2 .. Len(messages)
        <5> DEFINE n == Len(messages)
        <5>1. n \in Nat /\ n >= 1 /\ n # 1
          BY <1>2, <2>2
        <5> HIDE DEF n
        <5>2. n \in 2 .. n
          BY <5>1
        <5> QED BY <5>2 DEF n
      <4> QED BY <1>1, <4>1
    <3> QED BY <3>1 DEF Updated, Disconnected
  <2> QED BY <2>1, <2>2
<1>4. Abstract!IsOpen(messages)
  BY <1>1, <1>3, OpenMessages
<1>5. Abstract!HandedOver(messages) = [i \in 1 .. Len(messages) - 1 |-> messages[i + 1].packet]
  BY <1>4 DEF Abstract!HandedOver
<1>6. Len(messages) - 1 \in Nat
  BY <1>2
<1>7. Len(Abstract!HandedOver(messages)) = Len(messages) - 1
  BY <1>5, <1>6
<1> QED BY <1>1, <1>4, <1>6, <1>7 DEF Handed

LEMMA DecidedFromInvariant == TypeOK /\ FramingInvariant => GreetingDecides
<1> SUFFICES ASSUME TypeOK, FramingInvariant PROVE GreetingDecides
  OBVIOUS
<1>1. ASSUME Abstract!IsOpen(messages) PROVE greeting = Greeted
  <2>1. stage # "greeting"
    BY <1>1, OpenMessages DEF FramingInvariant, GreetingInvariant
  <2>2. stage # "ended"
    BY <1>1, OpenMessages DEF FramingInvariant, EndInvariant
  <2> QED BY <2>1, <2>2 DEF FramingInvariant, OpenInvariant, TypeOK
<1>2. ASSUME stage = "ended", ~gone PROVE greeting # Greeted
  BY <1>2 DEF FramingInvariant, EndInvariant
<1> QED BY <1>1, <1>2 DEF GreetingDecides, Greeted

LEMMA KeptFromInvariant == TypeOK /\ FramingInvariant => NoByteLost
<1> SUFFICES ASSUME TypeOK, FramingInvariant, stage \in {"reading", "cutting"}
             PROVE  LET handed == Len(Abstract!HandedOver(messages))
                        rest   == SubSeq(sent, handed + 1, Len(sent))
                    IN  Buffered \o wire = FlattenSeq([i \in DOMAIN rest |-> AsBytes(rest[i])])
  BY DEF NoByteLost
<1> DEFINE rest == SubSeq(sent, Handed + 1, Len(sent))
<1>1. Len(Abstract!HandedOver(messages)) = Handed
  BY OpenHandedOver DEF FramingInvariant
<1>2. Handed \in Nat /\ Handed <= Len(sent) /\ sent \in Seq(Bodies)
  BY HandedType DEF FramingInvariant
<1>3. /\ rest \in Seq(Bodies) /\ Len(rest) = Len(sent) - Handed
      /\ \A i \in 1 .. Len(sent) - Handed : rest[i] = sent[Handed + i]
  <2> DEFINE h == Handed
  <2>1. h + 1 \in Int /\ Len(sent) \in Int /\ h \in Nat /\ h <= Len(sent)
        /\ \A i \in h + 1 .. Len(sent) : sent[i] \in Bodies
    BY <1>2
  <2> HIDE DEF h
  <2>2. /\ SubSeq(sent, h + 1, Len(sent)) \in Seq(Bodies)
        /\ Len(SubSeq(sent, h + 1, Len(sent)))
             = IF h + 1 <= Len(sent) THEN Len(sent) - (h + 1) + 1 ELSE 0
        /\ \A i \in 1 .. Len(sent) - (h + 1) + 1 :
             SubSeq(sent, h + 1, Len(sent))[i] = sent[(h + 1) + i - 1]
    BY <2>1, SubSeqProperties
  <2>3. Len(sent) - (h + 1) + 1 = Len(sent) - h /\ (~(h + 1 <= Len(sent)) => Len(sent) - h = 0)
    BY <2>1
  <2>4. \A i \in 1 .. Len(sent) - h : (h + 1) + i - 1 = h + i
    BY <2>1
  <2> QED BY <2>2, <2>3, <2>4 DEF h
<1> HIDE DEF rest
<1>4. [i \in DOMAIN rest |-> AsBytes(rest[i])] = Stream(sent, Handed)
  <2>1. DOMAIN rest = 1 .. Len(sent) - Handed
    BY <1>3
  <2> QED BY <1>3, <2>1 DEF Stream
<1>5. Buffered \o wire = FlattenSeq(Stream(sent, Handed))
  BY DEF FramingInvariant, StreamInvariant
<1> QED BY <1>1, <1>4, <1>5 DEF rest

\* Only the exact greeting opens a connection, whatever pieces it comes in, and
\* a client that stays and sent it is not turned away, neither by the greeting
\* nor later by a full buffer (client.rs, auth and event_loop).
THEOREM GreetingDecided == Spec /\ []Legible => []GreetingDecides
BY InvariantAlways, DecidedFromInvariant, TypeCorrect, PTL

\* As long as no left-over byte is taken for half of a length, the bytes that
\* were sent and not handed over yet are those in the buffer and on the wire:
\* none is lost, repeated or taken for another packet's, for any pieces the
\* stream is cut into and a buffer of any length (client.rs:260-345).
THEOREM NothingLost == Spec /\ []Legible => []NoByteLost
BY InvariantAlways, KeptFromInvariant, TypeCorrect, PTL

-----------------------------------------------------------------------------
(* The loop implements PacketStream. *)

LEMMA AbstractInit == Init => Abstract!Init
BY DEF Init, Abstract!Init

LEMMA AbstractEnds ==
  ASSUME TypeOK, FramingInvariant, stage \in {"greeting", "reading"},
         Tells(Disconnected), sent' = sent
  PROVE  Abstract!Close
<1>1. messages = <<>> \/ Abstract!IsOpen(messages)
  BY OpenHandedOver DEF FramingInvariant, GreetingInvariant
<1> QED BY <1>1 DEF Abstract!Close, Abstract!Disconnected, Disconnected, Tells

LEMMA AbstractStep ==
  ASSUME TypeOK, FramingInvariant, Legible, [Next]_vars
  PROVE  [Abstract!Next]_<<sent, messages>>
<1>1. ASSUME NEW b \in Bodies, Sends(b) PROVE Abstract!Next
  BY <1>1 DEF Sends, Abstract!Next, Abstract!Send
<1>2. CASE HangsUp
  BY <1>2 DEF HangsUp
<1>3. ASSUME NEW n \in Pieces(64), GreetingGoesOn(n) PROVE UNCHANGED <<sent, messages>>
  BY <1>3 DEF GreetingGoesOn, Receives, clientVars
<1>4. ASSUME NEW n \in Pieces(64), GreetingAccepted(n) PROVE Abstract!Next
  <2>1. messages = <<>> /\ sent' = sent /\ messages' = Append(messages, Authenticated)
    BY <1>4 DEF GreetingAccepted, Receives, clientVars, Tells, FramingInvariant, GreetingInvariant
  <2>2. Append(<<>>, Authenticated) = <<Authenticated>>
    OBVIOUS
  <2> QED BY <2>1, <2>2 DEF Abstract!Next, Abstract!Open, Abstract!Authenticated, Authenticated
<1>5. ASSUME NEW n \in Pieces(64), GreetingRefused(n) PROVE Abstract!Next
  <2>1. stage = "greeting" /\ Tells(Disconnected) /\ sent' = sent
    BY <1>5 DEF GreetingRefused, Receives, clientVars
  <2> QED BY <2>1, AbstractEnds DEF Abstract!Next
<1>6. CASE GreetingBreaksOff \/ ReadEnds
  <2>1. stage \in {"greeting", "reading"} /\ Tells(Disconnected) /\ sent' = sent
    BY <1>6 DEF GreetingBreaksOff, ReadEnds, clientVars
  <2> QED BY <2>1, AbstractEnds DEF Abstract!Next
<1>7. ASSUME NEW n \in Pieces(BufferSize - kept), Reads(n) PROVE UNCHANGED <<sent, messages>>
  BY <1>7 DEF Reads, clientVars
<1>8. CASE CutsPacket
  <2>1. Handed < Len(sent) /\ messages' = Append(messages, Updated(sent[Handed + 1]))
    BY <1>8, CutsStep
  <2>2. stage = "cutting" /\ sent' = sent
    BY <1>8 DEF CutsPacket, clientVars
  <2>3. /\ Abstract!IsOpen(messages) /\ Len(Abstract!HandedOver(messages)) = Handed
        /\ Handed \in Nat
    BY <2>2, OpenHandedOver DEF FramingInvariant
  <2>4. Handed + 1 <= Len(sent)
    BY <2>1, <2>3 DEF TypeOK
  <2>5. Abstract!HandOver
    BY <2>1, <2>2, <2>3, <2>4 DEF Abstract!HandOver, Abstract!Updated, Updated
  <2> QED BY <2>5 DEF Abstract!Next
<1>9. CASE Panics
  BY <1>9 DEF Panics, clientVars
<1>10. CASE StopsCutting
  BY <1>10 DEF StopsCutting, clientVars
<1>11. CASE UNCHANGED vars
  BY <1>11 DEF vars
<1> QED BY <1>1, <1>2, <1>3, <1>4, <1>5, <1>6, <1>7, <1>8, <1>9, <1>10, <1>11 DEF Next, Reader

\* As long as no left-over byte is taken for half of a length, what the main
\* loop is told of a connection is what PacketStream promises: one
\* Authenticated, the packets of the client in the order they were sent, each
\* once and whole, and one Disconnected after everything else (client.rs, the
\* messages event_loop sends).
THEOREM StreamImplemented == Spec /\ []Legible => PacketsAsPromised
<1>1. TypeOK /\ FramingInvariant /\ Legible /\ [Next]_vars => [Abstract!Next]_<<sent, messages>>
  BY AbstractStep
<1> QED BY <1>1, AbstractInit, InvariantAlways, TypeCorrect, PTL DEF Spec, PacketsAsPromised, Abstract!Spec

-----------------------------------------------------------------------------
(* When a length is not legible.                                           *)

\* Only the first byte of a length has arrived, and the byte behind it, which an
\* earlier read left in the buffer, is taken for the second.
HalfLength == stage = "cutting" /\ HasLength /\ readable - offset = 1

\* Such a byte does not make the length negative.
LowLeftOvers == HalfLength => buff[offset + 1] < 127

\* No read ends between the two bytes of a length.
WholeLengths == ~HalfLength

LEMMA LowIsLegible ==
  ASSUME TypeOK, FramingInvariant, LowLeftOvers
  PROVE  Legible
<1> SUFFICES ASSUME stage = "cutting", HasLength PROVE PacketSize >= 2
  BY DEF Legible
<1>1. readable - offset \in Nat /\ readable - offset # 0
  BY BufferAssumption DEF TypeOK, HasLength
<1>2. CASE readable - offset = 1
  <2> DEFINE l == buff[offset]
             h == buff[offset + 1]
  <2>1. offset \in 0 .. BufferSize - 1 /\ offset + 1 \in 0 .. BufferSize - 1
    BY BufferAssumption DEF TypeOK, HasLength
  <2>2. l \in Byte /\ h \in Byte /\ h < 127
    BY <1>2, <2>1 DEF TypeOK, LowLeftOvers, HalfLength
  <2>3. PacketSize = Signed16(2 + l + 256 * h)
    BY DEF PacketSize
  <2> HIDE DEF l, h
  <2>4. l \in Nat /\ h \in Nat /\ l <= 255
    BY <2>2, ByteRange
  <2>5. 2 + l + 256 * h \in Nat /\ 2 + l + 256 * h < 32768 /\ 2 + l + 256 * h >= 2
    BY <2>2, <2>4
  <2> QED BY <2>3, <2>5, SignedSmall
<1>3. CASE readable - offset # 1
  <2>1. readable - offset >= 2
    BY <1>1, <1>3
  <2>2. PacketSize = Len(sent[Handed + 1]) + 2
    BY <2>1, NextSize DEF FramingInvariant
  <2>3. sent[Handed + 1] \in Bodies
    BY <1>1, NextPacket, BufferAssumption DEF FramingInvariant, TypeOK, HasLength
  <2>4. Len(sent[Handed + 1]) \in Nat
    BY <2>3, BodiesAssumption
  <2> QED BY <2>2, <2>4
<1> QED BY <1>2, <1>3

\* Whatever the bytes and lengths of the packets and the pieces they come in, the
\* greeting decides, nothing of the stream is lost and the loop implements the
\* abstract stream, unless a byte left over by an earlier read is taken for the
\* second half of a length and is 127 or more (client.rs:293).
THEOREM LeftOversDecide ==
  Spec /\ []LowLeftOvers => []GreetingDecides /\ []NoByteLost /\ PacketsAsPromised
<1>1. TypeOK /\ FramingInvariant /\ LowLeftOvers => Legible
  BY LowIsLegible
<1>2. TypeOK /\ FramingInvariant /\ LowLeftOvers /\ [Next]_vars => FramingInvariant'
  BY <1>1, FramingStep
<1>3. Spec /\ []LowLeftOvers => []Legible
  BY <1>1, <1>2, FramingInit, TypeCorrect, PTL DEF Spec
<1> QED BY <1>3, GreetingDecided, NothingLost, StreamImplemented, PTL

\* So it is for every client whose lengths arrive whole, each in one read.
THEOREM WholeLengthsAsPromised ==
  Spec /\ []WholeLengths => []GreetingDecides /\ []NoByteLost /\ PacketsAsPromised
<1>1. WholeLengths => LowLeftOvers
  BY DEF WholeLengths, LowLeftOvers
<1> QED BY <1>1, LeftOversDecide, PTL
=============================================================================
