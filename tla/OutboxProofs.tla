---------------------------- MODULE OutboxProofs ----------------------------
(***************************************************************************)
(* Theorems about Outbox, for any number of objects and of tasks, a        *)
(* channel of any capacity and any bound on the stamps.                    *)
(***************************************************************************)
EXTENDS Outbox, FiniteSetTheorems, SequenceTheorems, TLAPS

USE ObjectsAssumption, CapAssumption, OutboxBoundsAssumption

-----------------------------------------------------------------------------
(* What is left of a line. *)

\* The k-th member kept is the only one with its number among them.
LEMMA Numbering ==
  ASSUME NEW n \in Nat, NEW K \in SUBSET (1 .. n)
  PROVE  LET place(k) == Cardinality({j \in K : j <= k})
         IN  /\ Cardinality(K) \in Nat
             /\ \A k \in K : place(k) \in 1 .. Cardinality(K)
             /\ \A i \in 1 .. Cardinality(K) : \E k \in K : place(k) = i
             /\ \A k, l \in K : place(k) = place(l) => k = l
<1> DEFINE place(k) == Cardinality({j \in K : j <= k})
           number == [k \in K |-> place(k)]
<1>1. IsFiniteSet(K) /\ Cardinality(K) \in Nat
  <2>1. IsFiniteSet(1 .. n)
    BY FS_Interval
  <2> QED BY <2>1, FS_Subset, FS_CardinalityType
<1>2. ASSUME NEW k \in K PROVE place(k) \in 1 .. Cardinality(K)
  <2> DEFINE P == {j \in K : j <= k}
  <2>1. P \in SUBSET K /\ k \in P
    OBVIOUS
  <2>2. IsFiniteSet(P) /\ Cardinality(P) <= Cardinality(K) /\ Cardinality(P) \in Nat
    BY <1>1, <2>1, FS_Subset, FS_CardinalityType
  <2>3. Cardinality(P) # 0
    BY <2>1, <2>2, FS_EmptySet
  <2> QED BY <1>1, <2>2, <2>3
<1>3. ASSUME NEW k \in K, NEW l \in K, place(k) = place(l) PROVE k = l
  <2>1. ASSUME NEW a \in K, NEW b \in K, a < b PROVE place(a) # place(b)
    <3> DEFINE P == {j \in K : j <= a}
               Q == {j \in K : j <= b}
    <3>0. /\ \A j \in K : j <= a => j <= b
          /\ b <= b /\ ~(b <= a)
      BY <2>1
    <3>1. P \in SUBSET Q /\ b \in Q /\ b \notin P /\ Q \in SUBSET K
      BY <3>0
    <3>2. IsFiniteSet(Q)
      BY <1>1, <3>1, FS_Subset
    <3>3. Cardinality(P) # Cardinality(Q)
      BY <3>1, <3>2, FS_Subset
    <3> QED BY <3>3
  <2> HIDE DEF place
  <2>2. k \in Int /\ l \in Int
    OBVIOUS
  <2> QED BY <1>3, <2>1, <2>2
<1> HIDE DEF place
<1>4. number \in Injection(K, 1 .. Cardinality(K))
  BY <1>2, <1>3 DEF Injection, IsInjective
<1>5. IsFiniteSet(1 .. Cardinality(K)) /\ Cardinality(1 .. Cardinality(K)) = Cardinality(K)
  BY <1>1, FS_Interval
<1>6. number \in Surjection(K, 1 .. Cardinality(K))
  BY <1>4, <1>5, FS_Injection
<1>7. ASSUME NEW i \in 1 .. Cardinality(K) PROVE \E k \in K : place(k) = i
  BY <1>6 DEF Surjection
<1> QED BY <1>1, <1>2, <1>3, <1>7 DEF place

Holds(line, x) == \E k \in 1 .. Len(line) : line[k] = x
Once(line)     == \A j, k \in 1 .. Len(line) : line[j] = line[k] => j = k

\* Without takes one member out of a line and leaves it a line otherwise.
LEMMA WithoutKeeps ==
  ASSUME NEW S, NEW line \in Seq(S), NEW x
  PROVE  /\ Without(line, x) \in Seq(S)
         /\ \A y : Holds(Without(line, x), y) <=> y # x /\ Holds(line, y)
         /\ Once(line) => Once(Without(line, x))
<1> DEFINE K == {k \in 1 .. Len(line) : line[k] # x}
           place(k) == Cardinality({j \in K : j <= k})
           index(i) == CHOOSE k \in K : place(k) = i
           left == Without(line, x)
<1>0. K \in SUBSET (1 .. Len(line)) /\ Len(line) \in Nat
  OBVIOUS
<1>1. /\ Cardinality(K) \in Nat
      /\ \A k \in K : place(k) \in 1 .. Cardinality(K)
      /\ \A i \in 1 .. Cardinality(K) : \E k \in K : place(k) = i
      /\ \A k, l \in K : place(k) = place(l) => k = l
  <2> HIDE DEF K
  <2> QED BY <1>0, Numbering
<1>2. left = [i \in 1 .. Cardinality(K) |-> line[index(i)]]
  BY DEF Without
<1>3. \A k \in K : k \in 1 .. Len(line) /\ line[k] \in S /\ line[k] # x
  OBVIOUS
<1>4. \A k \in 1 .. Len(line) : line[k] # x => k \in K
  OBVIOUS
<1> HIDE DEF K, place, left
<1>5. ASSUME NEW i \in 1 .. Cardinality(K) PROVE index(i) \in K /\ place(index(i)) = i
  BY <1>1
<1>6. ASSUME NEW k \in K PROVE index(place(k)) = k
  <2>1. place(k) \in 1 .. Cardinality(K)
    BY <1>1
  <2> QED BY <1>1, <1>5, <2>1
<1> HIDE DEF index
<1>7. left \in Seq(S) /\ Len(left) = Cardinality(K)
  BY <1>1, <1>2, <1>3, <1>5
<1>8. \A i \in 1 .. Cardinality(K) : left[i] = line[index(i)]
  BY <1>2
<1>9. ASSUME NEW y PROVE Holds(left, y) <=> y # x /\ Holds(line, y)
  <2>1. ASSUME NEW i \in 1 .. Cardinality(K), left[i] = y
        PROVE  y # x /\ Holds(line, y)
    BY <1>3, <1>5, <1>8, <2>1 DEF Holds
  <2>2. ASSUME NEW k \in 1 .. Len(line), line[k] = y, y # x PROVE Holds(left, y)
    <3>1. k \in K /\ place(k) \in 1 .. Cardinality(K)
      BY <1>1, <1>4, <2>2
    <3> QED BY <1>6, <1>7, <1>8, <2>2, <3>1 DEF Holds
  <2> QED BY <1>7, <2>1, <2>2 DEF Holds
<1>10. ASSUME Once(line) PROVE Once(left)
  <2>1. ASSUME NEW i \in 1 .. Cardinality(K), NEW j \in 1 .. Cardinality(K),
               left[i] = left[j]
        PROVE  i = j
    <3>1. index(i) = index(j)
      BY <1>3, <1>5, <1>8, <1>10, <2>1 DEF Once
    <3> QED BY <1>5, <3>1
  <2> QED BY <1>7, <2>1 DEF Once
<1> QED BY <1>7, <1>9, <1>10 DEF left

LEMMA AppendKeeps ==
  ASSUME NEW S, NEW line \in Seq(S), NEW x \in S
  PROVE  /\ Append(line, x) \in Seq(S)
         /\ \A y : Holds(Append(line, x), y) <=> y = x \/ Holds(line, y)
         /\ Once(line) /\ ~Holds(line, x) => Once(Append(line, x))
<1>1. /\ Append(line, x) \in Seq(S) /\ Len(Append(line, x)) = Len(line) + 1
      /\ Append(line, x)[Len(line) + 1] = x
      /\ \A k \in 1 .. Len(line) : Append(line, x)[k] = line[k]
      /\ Len(line) \in Nat
  OBVIOUS
<1>2. 1 .. Len(line) + 1 = (1 .. Len(line)) \cup {Len(line) + 1}
  BY <1>1
<1> QED BY <1>1, <1>2 DEF Holds, Once

LEMMA TailKeeps ==
  ASSUME NEW S, NEW line \in Seq(S), line # <<>>, Once(line)
  PROVE  /\ Tail(line) \in Seq(S) /\ Head(line) \in S /\ Holds(line, Head(line))
         /\ \A y : Holds(Tail(line), y) <=> y # Head(line) /\ Holds(line, y)
         /\ Once(Tail(line))
<1>1. /\ Len(line) \in Nat /\ Len(line) >= 1 /\ Head(line) = line[1] /\ Head(line) \in S
      /\ Tail(line) \in Seq(S) /\ Len(Tail(line)) = Len(line) - 1
      /\ \A k \in 1 .. Len(line) - 1 : Tail(line)[k] = line[k + 1]
  BY HeadTailProperties
<1>2. /\ \A k \in 1 .. Len(line) - 1 : k + 1 \in 1 .. Len(line) /\ k + 1 # 1
      /\ \A k \in 1 .. Len(line) : k # 1 => k - 1 \in 1 .. Len(line) - 1 /\ (k - 1) + 1 = k
      /\ \A j, k \in 1 .. Len(line) - 1 : j + 1 = k + 1 => j = k
      /\ 1 \in 1 .. Len(line)
  BY <1>1
<1>3. ASSUME NEW y PROVE Holds(Tail(line), y) <=> y # Head(line) /\ Holds(line, y)
  <2>1. ASSUME NEW k \in 1 .. Len(line) - 1, Tail(line)[k] = y
        PROVE  y # Head(line) /\ Holds(line, y)
    BY <1>1, <1>2, <2>1 DEF Holds, Once
  <2>2. ASSUME NEW k \in 1 .. Len(line), line[k] = y, y # Head(line)
        PROVE  Holds(Tail(line), y)
    <3>1. k # 1
      BY <1>1, <2>2
    <3>2. k - 1 \in 1 .. Len(line) - 1 /\ Tail(line)[k - 1] = y
      BY <1>1, <1>2, <2>2, <3>1
    <3> QED BY <1>1, <3>2 DEF Holds
  <2> QED BY <1>1, <2>1, <2>2 DEF Holds
<1>4. Once(Tail(line))
  BY <1>1, <1>2 DEF Once
<1> QED BY <1>1, <1>2, <1>3, <1>4 DEF Holds

-----------------------------------------------------------------------------
(* The channel. *)

ReliablePackets ==
  [kind : {"PLAIN"}, object : {None}, stamp : Stamps, age : Stamps]
    \cup [kind : {"OBJECT", "GONE"}, object : Objects, stamp : Stamps, age : Stamps]

\* A free task has no packet, any other a reliable one; the writer has the
\* packet it writes.
ChannelTypes ==
  /\ queue \in Seq(ReliablePackets)
  /\ tasks \in [Slots -> [stage : {"free"}, packet : {NoPacket}]
                    \cup [stage : {"spawned", "waiting", "granted"}, packet : ReliablePackets]]
  /\ waiters \in Seq(Slots)

\* In line are the tasks that wait, each once.
InLine ==
  /\ Once(waiters)
  /\ \A i \in Slots : Holds(waiters, i) <=> tasks[i].stage = "waiting"

\* Packets and permits never exceed the places, and nobody waits while there is
\* a place left.
Places ==
  /\ Len(queue) + Cardinality(InStage("granted")) <= Cap
  /\ at # "done" /\ waiters # <<>> => Room = 0

ChannelInvariant == ChannelTypes /\ InLine /\ Places

\* What a step does to the channel.
ChannelStep ==
  \/ UNCHANGED chanVars /\ (at = "done" => at' = "done")
  \/ \E p \in ReliablePackets : TrySend(p) /\ at' = at
  \/ Recv /\ at \in {"fifo", "select"} /\ at' = "write"
  \/ \E i \in Slots : TaskRuns(i)
  \/ queue' = <<>> /\ at' = "done" /\ UNCHANGED <<tasks, waiters>>

LEMMA GrantedFinite ==
  \A stage : IsFiniteSet(InStage(stage)) /\ Cardinality(InStage(stage)) \in Nat
<1>1. IsFiniteSet(Slots)
  BY FS_Interval DEF Slots
<1>2. \A stage : InStage(stage) \in SUBSET Slots
  BY DEF InStage
<1> QED BY <1>1, <1>2, FS_Subset, FS_CardinalityType

LEMMA InitChannel == Init => ChannelInvariant
<1> SUFFICES ASSUME Init PROVE ChannelInvariant
  OBVIOUS
<1>1. InStage("granted") = {}
  BY DEF Init, InStage, FreeSlot
<1>2. Cardinality(InStage("granted")) = 0
  BY <1>1, FS_EmptySet
<1>3. ChannelTypes
  BY DEF Init, ChannelTypes, FreeSlot
<1> QED BY <1>2, <1>3 DEF Init, ChannelInvariant, InLine, Places, Once, Holds, FreeSlot

LEMMA TrySendChannel ==
  ASSUME ChannelInvariant, NEW p \in ReliablePackets, TrySend(p), at' = at
  PROVE  ChannelInvariant'
<1>0. ChannelTypes /\ InLine /\ Places /\ Cardinality(InStage("granted")) \in Nat
  BY GrantedFinite DEF ChannelInvariant
<1>1. CASE UNCHANGED chanVars
  <2>1. InStage("granted")' = InStage("granted")
    BY <1>1 DEF chanVars, InStage
  <2> QED BY <1>0, <1>1, <2>1
      DEF chanVars, ChannelInvariant, ChannelTypes, InLine, Places, Room
<1>2. CASE /\ at # "done" /\ Room > 0 /\ queue' = Append(queue, p)
           /\ UNCHANGED <<tasks, waiters>>
  <2>1. InStage("granted")' = InStage("granted")
    BY <1>2 DEF InStage
  <2>2. queue' \in Seq(ReliablePackets) /\ Len(queue') = Len(queue) + 1 /\ Len(queue) \in Nat
    BY <1>0, <1>2 DEF ChannelTypes
  <2>3. waiters = <<>>
    BY <1>0, <1>2 DEF Places
  <2>4. Len(queue) + Cardinality(InStage("granted")) < Cap
    BY <1>0, <1>2, <2>2 DEF Room
  <2>5. Places'
    BY <1>0, <1>2, <2>1, <2>2, <2>3, <2>4 DEF Places
  <2> QED BY <1>0, <1>2, <2>2, <2>5 DEF ChannelInvariant, ChannelTypes, InLine
<1>3. CASE /\ at # "done" /\ Room = 0 /\ UNCHANGED <<queue, waiters>>
           /\ \E i \in InStage("free") :
                tasks' = [tasks EXCEPT ![i] = [stage |-> "spawned", packet |-> p]]
  <2>1. PICK i \in Slots : /\ tasks[i].stage = "free"
                           /\ tasks' = [tasks EXCEPT ![i] = [stage |-> "spawned", packet |-> p]]
    BY <1>3 DEF InStage
  <2>2. ChannelTypes'
    BY <1>0, <1>3, <2>1 DEF ChannelTypes
  <2>3. /\ tasks'[i].stage = "spawned"
        /\ \A j \in Slots \ {i} : tasks'[j] = tasks[j]
    BY <1>0, <2>1 DEF ChannelTypes
  <2>4. InStage("granted")' = InStage("granted")
    BY <2>1, <2>3 DEF InStage
  <2>5. InLine'
    BY <1>0, <1>3, <2>1, <2>3 DEF InLine
  <2> QED BY <1>0, <1>3, <2>2, <2>4, <2>5 DEF ChannelInvariant, Places, Room
<1> QED BY <1>1, <1>2, <1>3 DEF TrySend

LEMMA RecvChannel ==
  ASSUME ChannelInvariant, Recv, at # "done"
  PROVE  ChannelInvariant' /\ Head(queue) \in ReliablePackets
<1>0. ChannelTypes /\ InLine /\ Places /\ Cardinality(InStage("granted")) \in Nat
  BY GrantedFinite DEF ChannelInvariant
<1>1. /\ queue' \in Seq(ReliablePackets) /\ Len(queue') = Len(queue) - 1
      /\ Len(queue) \in Nat /\ Head(queue) \in ReliablePackets
  BY <1>0 DEF Recv, ChannelTypes
<1>2. CASE waiters = <<>>
  <2>1. UNCHANGED <<tasks, waiters>>
    BY <1>2 DEF Recv
  <2>2. InStage("granted")' = InStage("granted")
    BY <2>1 DEF InStage
  <2> QED BY <1>0, <1>1, <1>2, <2>1, <2>2
      DEF ChannelInvariant, ChannelTypes, InLine, Places
<1>3. CASE waiters # <<>>
  <2> DEFINE h == Head(waiters)
  <2>1. tasks' = [tasks EXCEPT ![h].stage = "granted"] /\ waiters' = Tail(waiters)
    BY <1>3 DEF Recv
  <2>2. /\ waiters' \in Seq(Slots) /\ h \in Slots /\ Holds(waiters, h)
        /\ \A y : Holds(waiters', y) <=> y # h /\ Holds(waiters, y)
        /\ Once(waiters')
    BY <1>0, <1>3, <2>1, TailKeeps DEF ChannelTypes, InLine
  <2> HIDE DEF h
  <2>3. tasks[h].stage = "waiting"
    BY <1>0, <2>2 DEF InLine
  <2>4. tasks[h].packet \in ReliablePackets
    BY <1>0, <2>2, <2>3 DEF ChannelTypes
  <2>5. /\ tasks'[h] = [stage |-> "granted", packet |-> tasks[h].packet]
        /\ \A j \in Slots \ {h} : tasks'[j] = tasks[j]
        /\ tasks' \in [Slots -> [stage : {"free"}, packet : {NoPacket}]
              \cup [stage : {"spawned", "waiting", "granted"}, packet : ReliablePackets]]
    BY <1>0, <2>1, <2>2, <2>3, <2>4 DEF ChannelTypes
  <2>6. InStage("granted")' = InStage("granted") \cup {h} /\ h \notin InStage("granted")
    BY <2>2, <2>3, <2>5 DEF InStage
  <2>7. Cardinality(InStage("granted")') = Cardinality(InStage("granted")) + 1
    BY <2>6, GrantedFinite, FS_AddElement
  <2>8. InLine'
    BY <1>0, <2>2, <2>5 DEF InLine
  <2>9. Len(queue) + Cardinality(InStage("granted")) = Cap
    BY <1>0, <1>1, <1>3 DEF Places, Room
  <2>10. Places'
    BY <1>0, <1>1, <2>7, <2>9 DEF Places, Room
  <2> QED BY <1>1, <2>2, <2>5, <2>8, <2>10 DEF ChannelInvariant, ChannelTypes
<1> QED BY <1>1, <1>2, <1>3

LEMMA TaskChannel ==
  ASSUME ChannelInvariant, NEW i \in Slots, TaskRuns(i)
  PROVE  ChannelInvariant'
<1>0. ChannelTypes /\ InLine /\ Places /\ Cardinality(InStage("granted")) \in Nat
  BY GrantedFinite DEF ChannelInvariant
<1>a. at' = at
  BY DEF TaskRuns, writerVars
<1>1. CASE /\ at = "done" /\ tasks' = [tasks EXCEPT ![i] = FreeSlot]
           /\ waiters' = Without(waiters, i) /\ UNCHANGED queue
  <2>1. /\ tasks'[i] = [stage |-> "free", packet |-> NoPacket]
        /\ \A j \in Slots \ {i} : tasks'[j] = tasks[j]
        /\ tasks' \in [Slots -> [stage : {"free"}, packet : {NoPacket}]
              \cup [stage : {"spawned", "waiting", "granted"}, packet : ReliablePackets]]
    BY <1>0, <1>1 DEF ChannelTypes, FreeSlot
  <2>2. /\ waiters' \in Seq(Slots) /\ Once(waiters')
        /\ \A y : Holds(waiters', y) <=> y # i /\ Holds(waiters, y)
    BY <1>0, <1>1, WithoutKeeps DEF ChannelTypes, InLine
  <2>3. InStage("granted")' \in SUBSET InStage("granted")
    BY <2>1 DEF InStage
  <2>4. Cardinality(InStage("granted")') <= Cardinality(InStage("granted"))
        /\ Cardinality(InStage("granted")') \in Nat
    BY <2>3, GrantedFinite, FS_Subset, FS_CardinalityType
  <2>5. InLine'
    BY <1>0, <2>1, <2>2 DEF InLine
  <2>6. Len(queue) \in Nat
    BY <1>0 DEF ChannelTypes
  <2>7. Places'
    BY <1>0, <1>1, <1>a, <2>4, <2>6 DEF Places
  <2> QED BY <1>0, <1>1, <2>1, <2>2, <2>5, <2>7 DEF ChannelInvariant, ChannelTypes
<1>2. CASE /\ at # "done"
           /\ tasks[i].stage = "granted" \/ (tasks[i].stage = "spawned" /\ Room > 0)
           /\ queue' = Append(queue, tasks[i].packet)
           /\ tasks' = [tasks EXCEPT ![i] = FreeSlot] /\ UNCHANGED waiters
  <2>1. tasks[i].packet \in ReliablePackets
    BY <1>0, <1>2 DEF ChannelTypes
  <2>2. queue' \in Seq(ReliablePackets) /\ Len(queue') = Len(queue) + 1 /\ Len(queue) \in Nat
    BY <1>0, <1>2, <2>1 DEF ChannelTypes
  <2>3. /\ tasks'[i] = [stage |-> "free", packet |-> NoPacket]
        /\ \A j \in Slots \ {i} : tasks'[j] = tasks[j]
        /\ tasks' \in [Slots -> [stage : {"free"}, packet : {NoPacket}]
              \cup [stage : {"spawned", "waiting", "granted"}, packet : ReliablePackets]]
    BY <1>0, <1>2 DEF ChannelTypes, FreeSlot
  <2>4. InLine'
    BY <1>0, <1>2, <2>3 DEF InLine
  <2>5. CASE tasks[i].stage = "granted"
    <3>1. InStage("granted")' = InStage("granted") \ {i} /\ i \in InStage("granted")
      BY <2>3, <2>5 DEF InStage
    <3>2. Cardinality(InStage("granted")') = Cardinality(InStage("granted")) - 1
      BY <3>1, GrantedFinite, FS_RemoveElement
    <3>3. Places'
      BY <1>0, <1>2, <1>a, <2>2, <3>2 DEF Places, Room
    <3> QED BY <1>2, <2>2, <2>3, <2>4, <3>3, <1>0 DEF ChannelInvariant, ChannelTypes
  <2>6. CASE tasks[i].stage = "spawned" /\ Room > 0
    <3>1. InStage("granted")' = InStage("granted")
      BY <2>3, <2>6 DEF InStage
    <3>2. waiters = <<>>
      BY <1>0, <1>2, <2>6 DEF Places
    <3>3. Places'
      BY <1>0, <1>2, <1>a, <2>2, <2>6, <3>1, <3>2 DEF Places, Room
    <3> QED BY <1>2, <2>2, <2>3, <2>4, <3>3, <1>0 DEF ChannelInvariant, ChannelTypes
  <2> QED BY <1>2, <2>5, <2>6
<1>3. CASE /\ at # "done" /\ tasks[i].stage = "spawned" /\ Room = 0
           /\ tasks' = [tasks EXCEPT ![i].stage = "waiting"]
           /\ waiters' = Append(waiters, i) /\ UNCHANGED queue
  <2>1. tasks[i].packet \in ReliablePackets
    BY <1>0, <1>3 DEF ChannelTypes
  <2>2. /\ tasks'[i] = [stage |-> "waiting", packet |-> tasks[i].packet]
        /\ \A j \in Slots \ {i} : tasks'[j] = tasks[j]
        /\ tasks' \in [Slots -> [stage : {"free"}, packet : {NoPacket}]
              \cup [stage : {"spawned", "waiting", "granted"}, packet : ReliablePackets]]
    BY <1>0, <1>3, <2>1 DEF ChannelTypes
  <2>3. InStage("granted")' = InStage("granted")
    BY <1>3, <2>2 DEF InStage
  <2>4. /\ waiters' \in Seq(Slots) /\ Once(waiters')
        /\ \A y : Holds(waiters', y) <=> y = i \/ Holds(waiters, y)
    <3>1. ~Holds(waiters, i)
      BY <1>0, <1>3 DEF InLine
    <3> QED BY <1>0, <1>3, <3>1, AppendKeeps DEF ChannelTypes, InLine
  <2>5. InLine'
    BY <1>0, <2>2, <2>4 DEF InLine
  <2>6. Places'
    BY <1>0, <1>3, <2>3 DEF Places, Room
  <2> QED BY <1>0, <1>3, <2>2, <2>4, <2>5, <2>6 DEF ChannelInvariant, ChannelTypes
<1> QED BY <1>1, <1>2, <1>3 DEF TaskRuns

LEMMA NextChannel ==
  ASSUME ChannelInvariant, ChannelStep
  PROVE  ChannelInvariant'
<1>1. CASE UNCHANGED chanVars /\ (at = "done" => at' = "done")
  <2>1. InStage("granted")' = InStage("granted")
    BY <1>1 DEF chanVars, InStage
  <2> QED BY <1>1, <2>1
      DEF chanVars, ChannelInvariant, ChannelTypes, InLine, Places, Room
<1>2. CASE \E p \in ReliablePackets : TrySend(p) /\ at' = at
  BY <1>2, TrySendChannel
<1>3. CASE Recv /\ at \in {"fifo", "select"} /\ at' = "write"
  BY <1>3, RecvChannel
<1>4. CASE \E i \in Slots : TaskRuns(i)
  BY <1>4, TaskChannel
<1>5. CASE queue' = <<>> /\ at' = "done" /\ UNCHANGED <<tasks, waiters>>
  <2>1. InStage("granted")' = InStage("granted")
    BY <1>5 DEF InStage
  <2>2. Len(queue) \in Nat /\ Len(queue') = 0 /\ queue' \in Seq(ReliablePackets)
    BY <1>5 DEF ChannelInvariant, ChannelTypes
  <2>3. Cardinality(InStage("granted")) \in Nat
    BY GrantedFinite
  <2> QED BY <1>5, <2>1, <2>2, <2>3 DEF ChannelInvariant, ChannelTypes, InLine, Places
<1> QED BY <1>1, <1>2, <1>3, <1>4, <1>5 DEF ChannelStep

-----------------------------------------------------------------------------
(* Type correctness. *)

TimePackets == [kind : {"TIME"}, object : {None}, stamp : Stamps, age : Stamps]

UpdatePackets == [kind : {"UPDATE"}, object : Objects, stamp : Stamps, age : Stamps]

SlotTypes ==
  /\ time \in TimePackets \cup {NoPacket}
  /\ timePermit \in BOOLEAN /\ updPermit \in BOOLEAN
  /\ order \in Seq(Objects)
  /\ pending \in [Objects -> UpdatePackets \cup {NoPacket}]
  /\ \A o \in Objects : pending[o] # NoPacket => pending[o].object = o

WriterTypes ==
  /\ at \in {"time", "fifo", "updates", "select", "write", "done"}
  /\ IF at = "write" THEN writing \in TimePackets \cup ReliablePackets \cup UpdatePackets
                     ELSE writing = NoPacket
  /\ rxClosed \in BOOLEAN /\ failed \in BOOLEAN

SendPackets == ReliablePackets \cup UpdatePackets \cup TimePackets

\* A Client is not dropped in the middle of a send.
SenderTypes ==
  /\ dropped \in BOOLEAN /\ away \in BOOLEAN
  /\ clock \in Stamps
  /\ state \in [Objects -> Stamps]
  /\ sending \in SendPackets \cup {NoPacket}
  /\ sending # NoPacket => ~dropped

HistoryTypes ==
  /\ owed \in SUBSET Stamps
  /\ heard \in [Objects -> [{"OBJECT", "GONE"} -> Stamps]]

TypeInvariant ==
  ChannelInvariant /\ SlotTypes /\ WriterTypes /\ SenderTypes /\ HistoryTypes

\* The next stamp is one.
LEMMA NextStamp == clock \in Stamps /\ clock < MaxStamp => clock + 1 \in Stamps
BY DEF Stamps

LEMMA ZeroStamp == 0 \in Stamps
BY DEF Stamps

LEMMA InitType == Init => TypeInvariant
<1> SUFFICES ASSUME Init PROVE TypeInvariant
  OBVIOUS
<1>1. SlotTypes
  <2>1. \A o \in Objects : pending[o] = NoPacket
    BY DEF Init
  <2>2. pending \in [Objects -> UpdatePackets \cup {NoPacket}]
    BY DEF Init
  <2>3. time = NoPacket /\ timePermit \in BOOLEAN /\ updPermit \in BOOLEAN
    BY DEF Init
  <2>4. order \in Seq(Objects)
    BY EmptySeq DEF Init
  <2> QED BY <2>1, <2>2, <2>3, <2>4 DEF SlotTypes
<1>2. WriterTypes /\ SenderTypes
  BY ZeroStamp DEF Init, WriterTypes, SenderTypes
<1>3. HistoryTypes
  BY ZeroStamp DEF Init, HistoryTypes
<1> QED BY <1>1, <1>2, <1>3, InitChannel DEF TypeInvariant

\* The kind of a packet tells the three sorts apart.
LEMMA Kinds ==
  /\ \A p \in ReliablePackets : /\ p.kind \in ReliableKinds /\ p.kind \notin {"UPDATE", "TIME"}
                                /\ p.kind = "GONE" => p.object \in Objects
  /\ \A p \in UpdatePackets : p.kind = "UPDATE"
  /\ \A p \in TimePackets : p.kind = "TIME"
  /\ \A p \in SendPackets : p # NoPacket
  /\ "UPDATE" \notin ReliableKinds /\ "TIME" \notin ReliableKinds /\ "NONE" \notin ReliableKinds
BY DEF ReliablePackets, UpdatePackets, TimePackets, SendPackets, NoPacket, ReliableKinds

\* The main loop begins to send p: p has no stamp, or a new one, what says that
\* an object is gone says it of now, and the age of an update is its stamp.
Starts(p) ==
  /\ StartsSending(p)
  /\ clock' \in Stamps /\ state' \in [Objects -> Stamps] /\ away' \in BOOLEAN
  /\ \/ clock' = clock + 1 /\ p.stamp = clock'
     \/ clock' = clock /\ p.stamp = 0
  /\ p.kind = "GONE" => p.age = clock'
  /\ p.kind = "UPDATE" => p.age = p.stamp

Senders ==
  \/ SendPlain
  \/ SwitchesWorld
  \/ SendTime
  \/ \E o \in Objects : SendObject(o) \/ SendGone(o) \/ SendUpdate(o)

LEMMA SendersStart ==
  ASSUME TypeInvariant, Senders
  PROVE  \E p \in SendPackets : Starts(p)
<1>0. clock \in Stamps /\ state \in [Objects -> Stamps] /\ away \in BOOLEAN
  BY DEF TypeInvariant, SenderTypes
<1>1. clock' = clock + 1 /\ clock < MaxStamp => clock' \in Stamps
  BY <1>0, NextStamp
<1>2. \A n, a \in Stamps :
        /\ [kind |-> "PLAIN", object |-> None, stamp |-> n, age |-> a] \in SendPackets
        /\ [kind |-> "TIME", object |-> None, stamp |-> n, age |-> a] \in SendPackets
        /\ \A o \in Objects :
             /\ [kind |-> "OBJECT", object |-> o, stamp |-> n, age |-> a] \in SendPackets
             /\ [kind |-> "GONE", object |-> o, stamp |-> n, age |-> a] \in SendPackets
             /\ [kind |-> "UPDATE", object |-> o, stamp |-> n, age |-> a] \in SendPackets
  BY DEF SendPackets, ReliablePackets, UpdatePackets, TimePackets
<1>3. CASE SendPlain
  <2>1. CASE /\ clock < MaxStamp /\ clock' = clock + 1
             /\ StartsSending([kind |-> "PLAIN", object |-> None, stamp |-> clock', age |-> 0])
             /\ UNCHANGED <<away, state>>
    <3> DEFINE p == [kind |-> "PLAIN", object |-> None, stamp |-> clock', age |-> 0]
    <3>a. /\ p \in SendPackets /\ p.kind = "PLAIN" /\ p.stamp = clock' /\ p.age = 0
         /\ StartsSending(p)
      BY <1>1, <1>2, <2>1, ZeroStamp
    <3> HIDE DEF p
    <3> QED BY <1>0, <1>1, <2>1, <3>a DEF Starts
  <2>2. CASE /\ StartsSending([kind |-> "PLAIN", object |-> None, stamp |-> 0, age |-> 0])
             /\ UNCHANGED <<away, clock, state>>
    BY <1>0, <1>2, <2>2, ZeroStamp DEF Starts
  <2> QED BY <1>3, <2>1, <2>2 DEF SendPlain
<1>4. CASE SwitchesWorld
  <2> DEFINE p == [kind |-> "PLAIN", object |-> None, stamp |-> clock', age |-> 0]
  <2>a. /\ p \in SendPackets /\ p.kind = "PLAIN" /\ p.stamp = clock' /\ p.age = 0
       /\ StartsSending(p)
    BY <1>1, <1>2, <1>4, ZeroStamp DEF SwitchesWorld
  <2> HIDE DEF p
  <2> QED BY <1>0, <1>1, <1>4, <2>a DEF SwitchesWorld, Starts
<1>5. CASE SendTime
  <2>1. CASE /\ clock < MaxStamp /\ clock' = clock + 1
             /\ StartsSending([kind |-> "TIME", object |-> None, stamp |-> clock', age |-> clock'])
             /\ UNCHANGED <<away, state>>
    <3> DEFINE p == [kind |-> "TIME", object |-> None, stamp |-> clock', age |-> clock']
    <3>a. /\ p \in SendPackets /\ p.kind = "TIME" /\ p.stamp = clock' /\ p.age = clock'
         /\ StartsSending(p)
      BY <1>1, <1>2, <2>1
    <3> HIDE DEF p
    <3> QED BY <1>0, <1>1, <2>1, <3>a DEF Starts
  <2>2. CASE /\ StartsSending([kind |-> "TIME", object |-> None, stamp |-> 0, age |-> 0])
             /\ UNCHANGED <<away, clock, state>>
    BY <1>0, <1>2, <2>2, ZeroStamp DEF Starts
  <2> QED BY <1>5, <2>1, <2>2 DEF SendTime
<1>6. CASE \E o \in Objects : SendObject(o)
  <2>1. PICK o \in Objects : SendObject(o)
    BY <1>6
  <2>2. /\ clock' \in Stamps /\ state[o] \in Stamps
        /\ clock' = clock + 1 /\ UNCHANGED <<away, state>>
    BY <1>0, <1>1, <2>1 DEF SendObject
  <2> DEFINE p == [kind |-> "OBJECT", object |-> o, stamp |-> clock', age |-> state[o]]
  <2>a. /\ p \in SendPackets /\ p.kind = "OBJECT" /\ p.stamp = clock' /\ p.age = state[o]
       /\ StartsSending(p)
    BY <1>2, <2>1, <2>2 DEF SendObject
  <2> HIDE DEF p
  <2> QED BY <1>0, <2>2, <2>a DEF Starts
<1>7. CASE \E o \in Objects : SendGone(o)
  <2>1. PICK o \in Objects : SendGone(o)
    BY <1>7
  <2>2. /\ clock' \in Stamps /\ state' \in [Objects -> Stamps]
        /\ clock' = clock + 1 /\ away' = away
    BY <1>0, <1>1, <2>1 DEF SendGone
  <2> DEFINE p == [kind |-> "GONE", object |-> o, stamp |-> clock', age |-> clock']
  <2>a. /\ p \in SendPackets /\ p.kind = "GONE" /\ p.stamp = clock' /\ p.age = clock'
       /\ StartsSending(p)
    BY <1>2, <2>1, <2>2 DEF SendGone
  <2> HIDE DEF p
  <2> QED BY <1>0, <2>2, <2>a DEF Starts
<1>8. CASE \E o \in Objects : SendUpdate(o)
  <2>1. PICK o \in Objects : SendUpdate(o)
    BY <1>8
  <2>2. CASE /\ clock < MaxStamp /\ clock' = clock + 1
             /\ state' = [state EXCEPT ![o] = clock']
             /\ StartsSending([kind |-> "UPDATE", object |-> o, stamp |-> clock', age |-> clock'])
    <3>1. clock' \in Stamps /\ state' \in [Objects -> Stamps] /\ away' = away
      BY <1>0, <1>1, <2>1, <2>2 DEF SendUpdate
    <3> DEFINE p == [kind |-> "UPDATE", object |-> o, stamp |-> clock', age |-> clock']
    <3>a. /\ p \in SendPackets /\ p.kind = "UPDATE" /\ p.stamp = clock' /\ p.age = clock'
         /\ StartsSending(p)
      BY <1>2, <2>2, <3>1
    <3> HIDE DEF p
    <3> QED BY <1>0, <2>2, <3>1, <3>a DEF Starts
  <2>3. CASE /\ StartsSending([kind |-> "UPDATE", object |-> o, stamp |-> 0, age |-> 0])
             /\ UNCHANGED <<clock, state>>
    <3>1. away' = away
      BY <2>1 DEF SendUpdate
    <3> DEFINE p == [kind |-> "UPDATE", object |-> o, stamp |-> 0, age |-> 0]
    <3>a. /\ p \in SendPackets /\ p.kind = "UPDATE" /\ p.stamp = 0 /\ p.age = 0
         /\ StartsSending(p)
      BY <1>2, <2>3, ZeroStamp
    <3> HIDE DEF p
    <3> QED BY <1>0, <2>3, <3>1, ZeroStamp, <3>a DEF Starts
  <2> QED BY <2>1, <2>2, <2>3 DEF SendUpdate
<1> QED BY <1>3, <1>4, <1>5, <1>6, <1>7, <1>8 DEF Senders

\* The first access of a send.
LEMMA StartsDoes ==
  ASSUME NEW p \in SendPackets, Starts(p)
  PROVE  /\ UNCHANGED <<chanVars, writerVars, histVars, dropped, timePermit, updPermit>>
         /\ ~dropped /\ sending = NoPacket /\ sending' = p
         /\ \/ /\ p \in ReliablePackets
               /\ IF p.kind = "GONE" THEN RemovePending(p.object) ELSE UNCHANGED <<order, pending>>
               /\ time' = time
            \/ p \in UpdatePackets /\ ReplacePending(p) /\ time' = time
            \/ p \in TimePackets /\ time' = p /\ UNCHANGED <<order, pending>>
<1>1. Access(1, p) /\ MaySend /\ sending' = p /\ UNCHANGED <<writerVars, dropped, heard>>
  BY DEF Starts, StartsSending
<1>2. CASE p \in ReliablePackets
  BY <1>1, <1>2, Kinds DEF Access, SendReliable, DropsPending, MaySend, histVars
<1>3. CASE p \in UpdatePackets
  BY <1>1, <1>3, Kinds DEF Access, SendRealtimeUpdate, MaySend, histVars
<1>4. CASE p \in TimePackets
  BY <1>1, <1>4, Kinds DEF Access, SendLatestServerTime, MaySend, histVars
<1> QED BY <1>2, <1>3, <1>4 DEF SendPackets

\* The second one.
LEMMA EndsDoes ==
  ASSUME TypeInvariant, EndsSending
  PROVE  /\ UNCHANGED <<writerVars, dropped, away, clock, state, heard, order, pending, time>>
         /\ ~dropped /\ sending' = NoPacket
         /\ \/ /\ sending \in ReliablePackets
               /\ TrySend(sending)
               /\ owed' = IF sending.stamp # 0 /\ at # "done" THEN owed \cup {sending.stamp}
                                                             ELSE owed
               /\ UNCHANGED <<timePermit, updPermit>>
            \/ sending \in UpdatePackets /\ updPermit' /\ UNCHANGED <<timePermit, chanVars, owed>>
            \/ sending \in TimePackets /\ timePermit' /\ UNCHANGED <<updPermit, chanVars, owed>>
<1>1. /\ Access(2, sending) /\ sending' = NoPacket /\ sending \in SendPackets /\ ~dropped
      /\ UNCHANGED <<writerVars, dropped, away, clock, state, heard>>
  BY DEF EndsSending, TypeInvariant, SenderTypes
<1>2. CASE sending \in ReliablePackets
  BY <1>1, <1>2, Kinds DEF Access, SendReliable, EntersChannel
<1>3. CASE sending \in UpdatePackets
  BY <1>1, <1>3, Kinds DEF Access, SendRealtimeUpdate, NotifyOne
<1>4. CASE sending \in TimePackets
  BY <1>1, <1>4, Kinds DEF Access, SendLatestServerTime, NotifyOne
<1> QED BY <1>1, <1>2, <1>3, <1>4 DEF SendPackets

LEMMA StartsType ==
  ASSUME TypeInvariant, NEW p \in SendPackets, Starts(p)
  PROVE  TypeInvariant'
<1>0. SlotTypes /\ WriterTypes /\ HistoryTypes /\ ChannelInvariant /\ SenderTypes
  BY DEF TypeInvariant
<1>1. ChannelInvariant'
  BY <1>0, StartsDoes, NextChannel DEF ChannelStep, writerVars
<1>2. WriterTypes' /\ HistoryTypes'
  BY <1>0, StartsDoes DEF writerVars, histVars, WriterTypes, HistoryTypes
<1>3. SenderTypes'
  BY <1>0, StartsDoes DEF Starts, SenderTypes
<1>4. SlotTypes'
  <2>1. CASE p \in ReliablePackets /\ p.kind = "GONE" /\ RemovePending(p.object) /\ time' = time
    <3>1. p.object \in Objects
      BY <2>1, Kinds
    <3>2. order' \in Seq(Objects)
      BY <1>0, <2>1, WithoutKeeps DEF RemovePending, SlotTypes
    <3> QED BY <1>0, <2>1, <3>1, <3>2, StartsDoes DEF RemovePending, SlotTypes
  <2>2. CASE UNCHANGED <<order, pending>> /\ time' \in {time, p} /\ (time' = p => p \in TimePackets)
    BY <1>0, <2>2, StartsDoes DEF SlotTypes
  <2>3. CASE p \in UpdatePackets /\ ReplacePending(p) /\ time' = time
    <3>1. p.object \in Objects
      BY <2>3 DEF UpdatePackets
    <3> QED BY <1>0, <2>3, <3>1, StartsDoes DEF ReplacePending, SlotTypes
  <2>4. p \in ReliablePackets => p \notin TimePackets
    BY Kinds
  <2> QED BY <1>0, <2>1, <2>2, <2>3, StartsDoes DEF SlotTypes
<1> QED BY <1>1, <1>2, <1>3, <1>4 DEF TypeInvariant

LEMMA EndsType ==
  ASSUME TypeInvariant, EndsSending
  PROVE  TypeInvariant'
<1>0. SlotTypes /\ WriterTypes /\ HistoryTypes /\ ChannelInvariant /\ SenderTypes
  BY DEF TypeInvariant
<1>1. ChannelInvariant'
  BY <1>0, EndsDoes, NextChannel DEF ChannelStep, writerVars
<1>2. WriterTypes' /\ SenderTypes'
  BY <1>0, EndsDoes DEF writerVars, WriterTypes, SenderTypes
<1>3. owed' \in SUBSET Stamps
  <2>1. sending \in ReliablePackets => sending.stamp \in Stamps
    BY DEF ReliablePackets
  <2> QED BY <1>0, <2>1, EndsDoes DEF HistoryTypes
<1>4. HistoryTypes'
  BY <1>0, <1>3, EndsDoes DEF HistoryTypes
<1>5. timePermit' \in BOOLEAN /\ updPermit' \in BOOLEAN
  BY <1>0, EndsDoes DEF SlotTypes
<1>6. SlotTypes'
  BY <1>0, <1>5, EndsDoes DEF SlotTypes
<1> QED BY <1>1, <1>2, <1>4, <1>6 DEF TypeInvariant

LEMMA WriterType ==
  ASSUME TypeInvariant, Writer
  PROVE  TypeInvariant'
<1>0. SlotTypes /\ WriterTypes /\ HistoryTypes /\ SenderTypes /\ ChannelInvariant
  BY DEF TypeInvariant
<1>1. CASE WriterTakesTime
  <2>1. ChannelInvariant'
    BY <1>0, <1>1, NextChannel DEF WriterTakesTime, ChannelStep
  <2>2. SenderTypes' /\ HistoryTypes'
    BY <1>0, <1>1 DEF WriterTakesTime, sendVars, histVars, SenderTypes, HistoryTypes
  <2>3. SlotTypes' /\ WriterTypes'
    BY <1>0, <1>1 DEF WriterTakesTime, Write, SlotTypes, WriterTypes
  <2> QED BY <2>1, <2>2, <2>3 DEF TypeInvariant
<1>2. CASE WriterTriesFifo
  <2>1. ChannelInvariant' /\ (Recv => Head(queue) \in ReliablePackets)
    BY <1>0, <1>2, NextChannel, RecvChannel DEF WriterTriesFifo, Write, ChannelStep
  <2>2. SenderTypes' /\ HistoryTypes' /\ SlotTypes'
    BY <1>0, <1>2
    DEF WriterTriesFifo, sendVars, histVars, slotVars, SenderTypes, HistoryTypes, SlotTypes
  <2>3. CASE /\ Recv /\ Write(Head(queue)) /\ UNCHANGED <<rxClosed, failed>>
    <3>1. WriterTypes'
      BY <1>0, <2>1, <2>3 DEF Write, WriterTypes
    <3> QED BY <2>1, <2>2, <3>1 DEF TypeInvariant
  <2>4. CASE /\ rxClosed' = (rxClosed \/ Disconnected) /\ at' = "updates"
             /\ UNCHANGED <<writing, failed>>
    <3>1. rxClosed' \in BOOLEAN
      BY <2>4, Zenon
    <3>2. WriterTypes'
      BY <1>0, <1>2, <2>4, <3>1 DEF WriterTypes, WriterTriesFifo
    <3> QED BY <2>1, <2>2, <3>2 DEF TypeInvariant
  <2> QED BY <1>2, <2>3, <2>4 DEF WriterTriesFifo
<1>3. CASE WriterTakesUpdate
  <2>1. PICK k \in Live(order) :
          /\ order' = SubSeq(order, k + 1, Len(order))
          /\ pending' = [pending EXCEPT ![order[k]] = NoPacket]
          /\ Write(pending[order[k]])
    BY <1>3 DEF WriterTakesUpdate
  <2>2. k \in 1 .. Len(order) /\ order[k] \in Objects /\ pending[order[k]] # NoPacket
    BY <1>0 DEF Live, SlotTypes
  <2>3. order' \in Seq(Objects)
    BY <1>0, <2>1, <2>2 DEF SlotTypes
  <2>4. ChannelInvariant'
    BY <1>0, <1>3, NextChannel DEF WriterTakesUpdate, ChannelStep
  <2>5. SenderTypes' /\ HistoryTypes'
    BY <1>0, <1>3 DEF WriterTakesUpdate, sendVars, histVars, SenderTypes, HistoryTypes
  <2>6. WriterTypes'
    BY <1>0, <1>3, <2>1, <2>2 DEF WriterTakesUpdate, Write, SlotTypes, WriterTypes
  <2>7. SlotTypes'
    BY <1>0, <1>3, <2>1, <2>2, <2>3 DEF WriterTakesUpdate, SlotTypes
  <2> QED BY <2>4, <2>5, <2>6, <2>7 DEF TypeInvariant
<1>4. CASE WriterRests
  <2>1. ChannelInvariant'
    BY <1>0, <1>4, NextChannel DEF WriterRests, ChannelStep
  <2>2. SenderTypes' /\ HistoryTypes'
    BY <1>0, <1>4 DEF WriterRests, sendVars, histVars, SenderTypes, HistoryTypes
  <2>3. SlotTypes' /\ WriterTypes'
    BY <1>0, <1>4 DEF WriterRests, SlotTypes, WriterTypes
  <2> QED BY <2>1, <2>2, <2>3 DEF TypeInvariant
<1>5. CASE WriterSelects
  <2>1. ChannelInvariant' /\ (Recv => Head(queue) \in ReliablePackets)
    BY <1>0, <1>5, NextChannel, RecvChannel DEF WriterSelects, Write, ChannelStep
  <2>2. SenderTypes' /\ HistoryTypes'
    BY <1>0, <1>5 DEF WriterSelects, sendVars, histVars, SenderTypes, HistoryTypes
  <2>3. SlotTypes' /\ WriterTypes'
    BY <1>0, <1>5, <2>1 DEF WriterSelects, Write, SlotTypes, WriterTypes
  <2> QED BY <2>1, <2>2, <2>3 DEF TypeInvariant
<1>6. CASE WriteSucceeds
  <2>1. ChannelInvariant'
    BY <1>0, <1>6, NextChannel DEF WriteSucceeds, ChannelStep
  <2>2. SenderTypes' /\ SlotTypes' /\ WriterTypes'
    BY <1>0, <1>6
    DEF WriteSucceeds, sendVars, slotVars, SenderTypes, SlotTypes, WriterTypes
  <2>3. owed' \in SUBSET Stamps
    BY <1>0, <1>6 DEF WriteSucceeds, HistoryTypes
  <2>4. CASE writing.kind \in {"OBJECT", "GONE"}
    <3>1. writing.object \in Objects /\ writing.age \in Stamps
      BY <1>0, <1>6, <2>4
      DEF WriteSucceeds, WriterTypes, TimePackets, ReliablePackets, UpdatePackets
    <3>2. heard[writing.object][writing.kind] \in Stamps
      BY <1>0, <2>4, <3>1 DEF HistoryTypes
    <3>3. Newer(heard[writing.object][writing.kind], writing.age) \in Stamps
      BY <3>1, <3>2 DEF Newer
    <3>4. heard' = [heard EXCEPT ![writing.object][writing.kind] = Newer(@, writing.age)]
      BY <1>6, <2>4 DEF WriteSucceeds
    <3> DEFINE v == Newer(heard[writing.object][writing.kind], writing.age)
               h == [heard[writing.object] EXCEPT ![writing.kind] = v]
    <3>5. h \in [{"OBJECT", "GONE"} -> Stamps]
      BY <1>0, <2>4, <3>1, <3>3 DEF HistoryTypes
    <3>6. heard' = [heard EXCEPT ![writing.object] = h]
      BY <3>4
    <3> HIDE DEF h
    <3>7. heard' \in [Objects -> [{"OBJECT", "GONE"} -> Stamps]]
      BY <1>0, <3>1, <3>5, <3>6 DEF HistoryTypes
    <3> QED BY <2>1, <2>2, <2>3, <3>7 DEF TypeInvariant, HistoryTypes
  <2>5. CASE writing.kind \notin {"OBJECT", "GONE"}
    <3>1. heard' = heard
      BY <1>6, <2>5 DEF WriteSucceeds
    <3> QED BY <1>0, <2>1, <2>2, <2>3, <3>1 DEF TypeInvariant, HistoryTypes
  <2> QED BY <2>4, <2>5
<1>7. CASE WriteFails
  <2>1. ChannelInvariant'
    BY <1>0, <1>7, NextChannel DEF WriteFails, ChannelStep
  <2>2. SenderTypes' /\ HistoryTypes' /\ SlotTypes' /\ WriterTypes'
    BY <1>0, <1>7
    DEF WriteFails, sendVars, histVars, slotVars, SenderTypes, HistoryTypes, SlotTypes, WriterTypes
  <2> QED BY <2>1, <2>2 DEF TypeInvariant
<1> QED BY <1>1, <1>2, <1>3, <1>4, <1>5, <1>6, <1>7 DEF Writer

LEMMA NextType == TypeInvariant /\ [Next]_vars => TypeInvariant'
<1> SUFFICES ASSUME TypeInvariant, [Next]_vars PROVE TypeInvariant'
  OBVIOUS
<1>0. SlotTypes /\ WriterTypes /\ HistoryTypes /\ SenderTypes /\ ChannelInvariant
  BY DEF TypeInvariant
<1>1. CASE Senders
  BY <1>1, SendersStart, StartsType
<1>2. CASE EndsSending
  BY <1>2, EndsType
<1>3. CASE DropClient
  <2>1. ChannelInvariant'
    BY <1>0, <1>3, NextChannel DEF DropClient, ChannelStep, writerVars
  <2> QED BY <1>0, <1>3, <2>1
      DEF DropClient, MaySend, slotVars, writerVars, histVars, TypeInvariant, SlotTypes,
          WriterTypes, SenderTypes, HistoryTypes
<1>4. CASE \E o \in Objects : ChangesUnseen(o)
  <2>1. ChannelInvariant'
    BY <1>0, <1>4, NextChannel DEF ChangesUnseen, ChannelStep, writerVars
  <2>2. clock' \in Stamps
    BY <1>0, <1>4, NextStamp DEF ChangesUnseen, SenderTypes
  <2>3. SenderTypes'
    BY <1>0, <1>4, <2>2 DEF ChangesUnseen, SenderTypes
  <2> QED BY <1>0, <1>4, <2>1, <2>3
      DEF ChangesUnseen, slotVars, writerVars, histVars, TypeInvariant, SlotTypes,
          WriterTypes, HistoryTypes
<1>6. CASE \E i \in Slots : TaskRuns(i)
  <2>1. ChannelInvariant'
    BY <1>0, <1>6, NextChannel DEF ChannelStep
  <2> QED BY <1>0, <1>6, <2>1
      DEF TaskRuns, slotVars, writerVars, sendVars, histVars, TypeInvariant, SlotTypes,
          WriterTypes, SenderTypes, HistoryTypes
<1>7. CASE Writer
  BY <1>7, WriterType
<1>8. CASE UNCHANGED vars
  <2>1. ChannelInvariant'
    BY <1>0, <1>8, NextChannel DEF vars, ChannelStep, writerVars
  <2> QED BY <1>0, <1>8, <2>1
      DEF vars, slotVars, writerVars, sendVars, histVars, TypeInvariant, SlotTypes,
          WriterTypes, SenderTypes, HistoryTypes
<1> QED BY <1>1, <1>2, <1>3, <1>4, <1>6, <1>7, <1>8 DEF Next, Senders

LEMMA TypesHold == Spec => []TypeInvariant
BY InitType, NextType, PTL DEF Spec

\* Every variable keeps its type; in particular the channel never holds more
\* than its capacity, permits given to waiting tasks included.
THEOREM TypeCorrect == Spec => []TypeOK
<1>1. TypeInvariant => TypeOK
  <2> SUFFICES ASSUME TypeInvariant PROVE TypeOK
    OBVIOUS
  <2>0. SlotTypes /\ WriterTypes /\ HistoryTypes /\ SenderTypes /\ ChannelTypes /\ Places
    BY DEF TypeInvariant, ChannelInvariant
  <2>1. /\ ReliablePackets \subseteq Maybe /\ TimePackets \subseteq Maybe
        /\ UpdatePackets \subseteq Maybe /\ NoPacket \in Maybe
        /\ ReliablePackets \subseteq Packet
    BY DEF ReliablePackets, TimePackets, UpdatePackets, Maybe, Packet
  <2>2. queue \in Seq(Packet)
    BY <2>0, <2>1 DEF ChannelTypes
  <2>3. Len(queue) <= Cap
    <3>1. Cardinality(InStage("granted")) \in Nat /\ Len(queue) \in Nat
      BY <2>2, GrantedFinite
    <3> QED BY <2>0, <3>1 DEF Places
  <2>4. tasks \in [Slots ->
                  [stage : {"free", "spawned", "waiting", "granted"}, packet : Maybe]]
    BY <2>0, <2>1 DEF ChannelTypes
  <2>5. time \in Maybe /\ pending \in [Objects -> Maybe] /\ {writing, sending} \subseteq Maybe
    BY <2>0, <2>1 DEF SlotTypes, WriterTypes, SenderTypes, SendPackets
  <2>6. {timePermit, updPermit, dropped, away, rxClosed, failed} \subseteq BOOLEAN
    BY <2>0 DEF SlotTypes, SenderTypes, WriterTypes
  <2> QED BY <2>0, <2>2, <2>3, <2>4, <2>5, <2>6
      DEF TypeOK, ChannelTypes, SlotTypes, WriterTypes, SenderTypes, HistoryTypes
<1> QED BY <1>1, TypesHold, PTL

-----------------------------------------------------------------------------
(* The line of pending updates. *)

Line ==
  /\ \A o \in Objects : pending[o] # NoPacket <=> Holds(order, o)
  /\ Once(order)

LineInvariant == TypeInvariant /\ Line

LEMMA RemoveLine ==
  ASSUME LineInvariant, NEW o \in Objects, RemovePending(o)
  PROVE  Line'
<1>0. SlotTypes /\ Line
  BY DEF LineInvariant, TypeInvariant
<1>1. pending'[o] = NoPacket /\ \A a \in Objects \ {o} : pending'[a] = pending[a]
  BY <1>0 DEF RemovePending, SlotTypes
<1>2. CASE pending[o] = NoPacket
  BY <1>0, <1>1, <1>2 DEF RemovePending, Line
<1>3. CASE pending[o] # NoPacket
  <2>1. /\ \A y : Holds(order', y) <=> y # o /\ Holds(order, y)
        /\ Once(order')
    BY <1>0, <1>3, WithoutKeeps DEF RemovePending, SlotTypes, Line
  <2> QED BY <1>0, <1>1, <2>1 DEF Line
<1> QED BY <1>2, <1>3

LEMMA ReplaceLine ==
  ASSUME LineInvariant, NEW p \in UpdatePackets, ReplacePending(p)
  PROVE  Line'
<1>0. SlotTypes /\ Line /\ p.object \in Objects /\ p # NoPacket
  BY DEF LineInvariant, TypeInvariant, UpdatePackets, NoPacket
<1>1. pending'[p.object] = p /\ \A a \in Objects \ {p.object} : pending'[a] = pending[a]
  BY <1>0 DEF ReplacePending, SlotTypes
<1>2. CASE pending[p.object] # NoPacket
  BY <1>0, <1>1, <1>2 DEF ReplacePending, Line
<1>3. CASE pending[p.object] = NoPacket
  <2>1. /\ \A y : Holds(order', y) <=> y = p.object \/ Holds(order, y)
        /\ Once(order')
    BY <1>0, <1>3, AppendKeeps DEF ReplacePending, SlotTypes, Line
  <2> QED BY <1>0, <1>1, <2>1 DEF Line
<1> QED BY <1>2, <1>3

\* Every object in line is pending, so that the first one is taken.
LEMMA TakeLine ==
  ASSUME LineInvariant, WriterTakesUpdate
  PROVE  Line'
<1>0. SlotTypes /\ Line /\ Len(order) \in Nat
  BY DEF LineInvariant, TypeInvariant, SlotTypes
<1>1. PICK k \in Live(order) :
        /\ \A j \in Live(order) : k <= j
        /\ order' = SubSeq(order, k + 1, Len(order))
        /\ pending' = [pending EXCEPT ![order[k]] = NoPacket]
  BY DEF WriterTakesUpdate
<1>2. \A j \in 1 .. Len(order) : order[j] \in Objects
  BY <1>0 DEF SlotTypes
<1>3. Live(order) = 1 .. Len(order)
  BY <1>0, <1>2 DEF Live, Line, Holds
<1>4. k = 1 /\ order # <<>>
  BY <1>0, <1>1, <1>3
<1>5. order' = Tail(order) /\ order[k] = Head(order)
  BY <1>0, <1>1, <1>4, TailIsSubSeq DEF SlotTypes
<1>6. /\ Head(order) \in Objects
      /\ \A y : Holds(order', y) <=> y # Head(order) /\ Holds(order, y)
      /\ Once(order')
  BY <1>0, <1>4, <1>5, TailKeeps DEF SlotTypes, Line
<1>7. /\ pending'[Head(order)] = NoPacket
      /\ \A a \in Objects \ {Head(order)} : pending'[a] = pending[a]
  BY <1>0, <1>1, <1>5, <1>6 DEF SlotTypes
<1> QED BY <1>0, <1>6, <1>7 DEF Line

LEMMA RestLine ==
  ASSUME LineInvariant, Live(order) = {}
  PROVE  order = <<>> /\ \A o \in Objects : pending[o] = NoPacket
<1>0. SlotTypes /\ Line /\ Len(order) \in Nat
  BY DEF LineInvariant, TypeInvariant, SlotTypes
<1>1. \A j \in 1 .. Len(order) : order[j] \in Objects
  BY <1>0 DEF SlotTypes
<1>2. Live(order) = 1 .. Len(order)
  BY <1>0, <1>1 DEF Live, Line, Holds
<1>3. Len(order) = 0
  BY <1>0, <1>2
<1> QED BY <1>0, <1>3 DEF SlotTypes, Line, Holds

\* What a step does to the pending updates.
LEMMA SlotSteps ==
  ASSUME TypeInvariant, [Next]_vars
  PROVE  \/ UNCHANGED <<order, pending>>
         \/ \E o \in Objects : RemovePending(o)
         \/ \E p \in UpdatePackets : ReplacePending(p)
         \/ WriterTakesUpdate
         \/ Live(order) = {} /\ order' = <<>> /\ pending' = pending
<1>1. CASE Senders
  <2>1. PICK p \in SendPackets : Starts(p)
    BY <1>1, SendersStart
  <2>2. p \in ReliablePackets /\ p.kind = "GONE" => p.object \in Objects
    BY Kinds
  <2> QED BY <2>1, <2>2, StartsDoes
<1>2. CASE EndsSending
  BY <1>2, EndsDoes
<1>3. CASE DropClient \/ (\E o \in Objects : ChangesUnseen(o)) \/ \E i \in Slots : TaskRuns(i)
  BY <1>3 DEF DropClient, ChangesUnseen, TaskRuns, slotVars
<1>4. CASE Writer
  <2>1. WriterRests => Live(order) = {} /\ order' = <<>> /\ pending' = pending
    BY DEF WriterRests
  <2> QED BY <1>4, <2>1
      DEF Writer, WriterTakesTime, WriterTriesFifo, WriterSelects, WriteSucceeds,
          WriteFails, slotVars
<1>5. CASE UNCHANGED vars
  BY <1>5 DEF vars, slotVars
<1> QED BY <1>1, <1>2, <1>3, <1>4, <1>5 DEF Next, Senders

LEMMA NextLine == LineInvariant /\ [Next]_vars => LineInvariant'
<1> SUFFICES ASSUME LineInvariant, [Next]_vars PROVE LineInvariant'
  OBVIOUS
<1>0. TypeInvariant /\ TypeInvariant' /\ Line
  BY NextType DEF LineInvariant
<1>1. CASE UNCHANGED <<order, pending>>
  BY <1>0, <1>1 DEF LineInvariant, Line
<1>2. CASE \E o \in Objects : RemovePending(o)
  BY <1>0, <1>2, RemoveLine DEF LineInvariant
<1>3. CASE \E p \in UpdatePackets : ReplacePending(p)
  BY <1>0, <1>3, ReplaceLine DEF LineInvariant
<1>4. CASE WriterTakesUpdate
  BY <1>0, <1>4, TakeLine DEF LineInvariant
<1>5. CASE Live(order) = {} /\ order' = <<>> /\ pending' = pending
  <2>1. order' = order
    BY <1>5, RestLine
  <2> QED BY <1>0, <1>5, <2>1 DEF LineInvariant, Line
<1> QED BY <1>0, <1>1, <1>2, <1>3, <1>4, <1>5, SlotSteps

LEMMA LineHolds == Spec => []LineInvariant
<1>1. Init => LineInvariant
  BY InitType DEF Init, LineInvariant, Line, Holds, Once
<1> QED BY <1>1, NextLine, PTL DEF Spec

\* The line of objects is exactly the pending ones, each once, however often an
\* object is updated, removed and updated again.
THEOREM LineExact == Spec => []LineIsPending
<1>1. LineInvariant => LineIsPending
  BY DEF LineInvariant, Line, LineIsPending, Holds, Once
<1> QED BY <1>1, LineHolds, PTL

-----------------------------------------------------------------------------
(* The writer does not sleep on anything. *)

\* Unless the writer is about to look, what is in a slot has left a permit, or
\* the main loop is about to leave one.
Permits ==
  /\ time # NoPacket => timePermit \/ at = "time" \/ sending = time
  /\ \A o \in Objects :
       pending[o] # NoPacket => updPermit \/ at # "select" \/ sending = pending[o]

WakeInvariant == LineInvariant /\ Permits

LEMMA NextWake == WakeInvariant /\ [Next]_vars => WakeInvariant'
<1> SUFFICES ASSUME WakeInvariant, [Next]_vars PROVE Permits'
  BY NextLine DEF WakeInvariant
<1>0. Permits /\ SlotTypes /\ TypeInvariant /\ LineInvariant
  BY DEF WakeInvariant, LineInvariant, TypeInvariant
<1>1. CASE Senders
  <2>1. PICK p \in SendPackets : Starts(p)
    BY <1>0, <1>1, SendersStart
  <2>2. /\ UNCHANGED <<at, timePermit, updPermit>> /\ sending = NoPacket /\ sending' = p
    BY <2>1, StartsDoes DEF writerVars
  <2>3. time' \in {time, p}
    BY <2>1, StartsDoes
  <2>4. \A o \in Objects : pending'[o] \in {pending[o], p, NoPacket}
    BY <1>0, <2>1, StartsDoes DEF RemovePending, ReplacePending, SlotTypes
  <2> QED BY <1>0, <2>2, <2>3, <2>4 DEF Permits
<1>2. CASE EndsSending
  <2>1. /\ UNCHANGED <<at, time, pending>>
        /\ \/ UNCHANGED <<timePermit, updPermit>> /\ sending \in ReliablePackets
           \/ sending \in UpdatePackets /\ updPermit' /\ UNCHANGED timePermit
           \/ sending \in TimePackets /\ timePermit' /\ UNCHANGED updPermit
    BY <1>0, <1>2, EndsDoes DEF writerVars
  <2>2. sending \in ReliablePackets => sending # time /\ \A o \in Objects : sending # pending[o]
    BY <1>0, Kinds DEF SlotTypes, NoPacket
  <2>3. sending \in UpdatePackets => sending # time
    BY <1>0, Kinds DEF SlotTypes, NoPacket
  <2>4. sending \in TimePackets => \A o \in Objects : sending # pending[o]
    BY <1>0, Kinds DEF SlotTypes, NoPacket
  <2> QED BY <1>0, <2>1, <2>2, <2>3, <2>4 DEF Permits
<1>4. CASE DropClient \/ (\E o \in Objects : ChangesUnseen(o)) \/ \E i \in Slots : TaskRuns(i)
  BY <1>0, <1>4 DEF DropClient, ChangesUnseen, TaskRuns, sendVars, slotVars, writerVars, Permits
<1>5. CASE WriterTakesTime \/ WriterTriesFifo
  BY <1>0, <1>5 DEF WriterTakesTime, WriterTriesFifo, Write, sendVars, slotVars, Permits
<1>6. CASE WriterTakesUpdate
  BY <1>0, <1>6 DEF WriterTakesUpdate, Write, sendVars, Permits
<1>7. CASE WriterRests
  <2>1. \A o \in Objects : pending[o] = NoPacket
    BY <1>0, <1>7, RestLine DEF WriterRests
  <2> QED BY <1>0, <1>7, <2>1 DEF WriterRests, sendVars, Permits
<1>8. CASE WriterSelects
  BY <1>0, <1>8 DEF WriterSelects, Write, sendVars, Permits
<1>9. CASE WriteSucceeds \/ WriteFails
  BY <1>0, <1>9 DEF WriteSucceeds, WriteFails, sendVars, slotVars, Permits, WriterTypes
<1>10. CASE UNCHANGED vars
  BY <1>0, <1>10 DEF vars, slotVars, writerVars, sendVars, Permits
<1> QED BY <1>1, <1>2, <1>4, <1>5, <1>6, <1>7, <1>8, <1>9, <1>10 DEF Next, Senders, Writer

LEMMA WakeHolds == Spec => []WakeInvariant
<1>1. Init => WakeInvariant
  <2> SUFFICES ASSUME Init PROVE WakeInvariant
    OBVIOUS
  <2>1. Permits
    BY DEF Init, Permits
  <2>2. Line
    BY DEF Init, Line, Holds, Once
  <2> QED BY <2>1, <2>2, InitType DEF WakeInvariant, LineInvariant
<1> QED BY <1>1, NextWake, PTL DEF Spec

\* The writer never sleeps on something to send but while the main loop is about
\* to wake it, and tasks in line have one before them that is about to fill the
\* channel.
THEOREM WakesUp == Spec => []NoLostWakeup
<1>1. WakeInvariant => NoLostWakeup
  <2> SUFFICES ASSUME WakeInvariant, Asleep PROVE
        /\ time \in {NoPacket, sending}
        /\ \A o \in Objects : pending[o] \in {NoPacket, sending}
        /\ waiters # <<>> => InStage("granted") # {}
    BY DEF NoLostWakeup
  <2>1. time \in {NoPacket, sending} /\ \A o \in Objects : pending[o] \in {NoPacket, sending}
    BY DEF WakeInvariant, Permits, Asleep
  <2>2. ASSUME waiters # <<>>, InStage("granted") = {} PROVE FALSE
    <3>1. Room = 0
      BY <2>2 DEF WakeInvariant, LineInvariant, TypeInvariant, ChannelInvariant, Places, Asleep
    <3>2. Len(queue) = 0 /\ Cardinality(InStage("granted")) = 0
      BY <2>2, FS_EmptySet DEF Asleep
    <3> QED BY <3>1, <3>2 DEF Room
  <2> QED BY <2>1, <2>2
<1> QED BY <1>1, WakeHolds, PTL

-----------------------------------------------------------------------------
(* Which packets are on their way. *)

Queued == {queue[k] : k \in 1 .. Len(queue)}
Tasked == {tasks[i].packet : i \in Slots}

OnTheWay == Queued \cup Tasked \cup {writing, sending}

LEMMA TrySendWay ==
  ASSUME ChannelTypes, NEW p \in ReliablePackets, TrySend(p)
  PROVE  Queued' \cup Tasked' \subseteq Queued \cup Tasked \cup {p}
<1>1. CASE UNCHANGED chanVars
  BY <1>1 DEF chanVars, Queued, Tasked
<1>2. CASE queue' = Append(queue, p) /\ UNCHANGED <<tasks, waiters>>
  <2>1. /\ Len(queue) \in Nat /\ Len(queue') = Len(queue) + 1 /\ queue'[Len(queue) + 1] = p
        /\ \A k \in 1 .. Len(queue) : queue'[k] = queue[k]
    BY <1>2 DEF ChannelTypes
  <2>2. 1 .. Len(queue) + 1 = (1 .. Len(queue)) \cup {Len(queue) + 1}
    BY <2>1
  <2>3. Queued' \subseteq Queued \cup {p}
    BY <2>1, <2>2 DEF Queued
  <2> QED BY <1>2, <2>3 DEF Tasked
<1>3. CASE /\ UNCHANGED <<queue, waiters>>
           /\ \E i \in InStage("free") :
                tasks' = [tasks EXCEPT ![i] = [stage |-> "spawned", packet |-> p]]
  <2>1. PICK i \in Slots : tasks' = [tasks EXCEPT ![i] = [stage |-> "spawned", packet |-> p]]
    BY <1>3 DEF InStage
  <2>2. tasks'[i].packet = p /\ \A j \in Slots \ {i} : tasks'[j] = tasks[j]
    BY <2>1 DEF ChannelTypes
  <2>3. Tasked' \subseteq Tasked \cup {p}
    BY <2>2 DEF Tasked
  <2> QED BY <1>3, <2>3 DEF Queued
<1> QED BY <1>1, <1>2, <1>3 DEF TrySend

LEMMA RecvWay ==
  ASSUME ChannelInvariant, Recv
  PROVE  Queued' \subseteq Queued /\ Head(queue) \in Queued /\ Tasked' = Tasked
<1>0. ChannelTypes /\ InLine
  BY DEF ChannelInvariant
<1>1. /\ Len(queue) \in Nat /\ Len(queue) >= 1 /\ Head(queue) = queue[1]
      /\ Len(queue') = Len(queue) - 1
      /\ \A k \in 1 .. Len(queue) - 1 : queue'[k] = queue[k + 1]
  BY <1>0, HeadTailProperties DEF Recv, ChannelTypes
<1>2. 1 \in 1 .. Len(queue) /\ \A k \in 1 .. Len(queue) - 1 : k + 1 \in 1 .. Len(queue)
  BY <1>1
<1>3. Queued' \subseteq Queued /\ Head(queue) \in Queued
  BY <1>1, <1>2 DEF Queued
<1>4. CASE waiters = <<>>
  BY <1>3, <1>4 DEF Recv, Tasked
<1>5. CASE waiters # <<>>
  <2>1. Head(waiters) \in Slots /\ tasks' = [tasks EXCEPT ![Head(waiters)].stage = "granted"]
    BY <1>0, <1>5, HeadTailProperties DEF Recv, ChannelTypes
  <2>2. \A i \in Slots : tasks'[i].packet = tasks[i].packet
    BY <1>0, <2>1 DEF ChannelTypes
  <2> QED BY <1>3, <2>2 DEF Tasked
<1> QED BY <1>4, <1>5

LEMMA TaskWay ==
  ASSUME ChannelTypes, NEW i \in Slots, TaskRuns(i)
  PROVE  Queued' \cup Tasked' \subseteq Queued \cup Tasked \cup {NoPacket}
<1>1. CASE tasks' = [tasks EXCEPT ![i] = FreeSlot] /\ UNCHANGED queue
  <2>1. tasks'[i].packet = NoPacket /\ \A j \in Slots \ {i} : tasks'[j] = tasks[j]
    BY <1>1 DEF ChannelTypes, FreeSlot
  <2> QED BY <1>1, <2>1 DEF Queued, Tasked
<1>2. CASE tasks' = [tasks EXCEPT ![i] = FreeSlot] /\ queue' = Append(queue, tasks[i].packet)
           /\ tasks[i].stage # "free"
  <2>1. tasks'[i].packet = NoPacket /\ \A j \in Slots \ {i} : tasks'[j] = tasks[j]
    BY <1>2 DEF ChannelTypes, FreeSlot
  <2>2. tasks[i].packet \in ReliablePackets
    BY <1>2 DEF ChannelTypes
  <2>3. /\ Len(queue) \in Nat /\ Len(queue') = Len(queue) + 1
        /\ queue'[Len(queue) + 1] = tasks[i].packet
        /\ \A k \in 1 .. Len(queue) : queue'[k] = queue[k]
    BY <1>2, <2>2 DEF ChannelTypes
  <2>4. 1 .. Len(queue) + 1 = (1 .. Len(queue)) \cup {Len(queue) + 1}
    BY <2>3
  <2>5. Queued' \subseteq Queued \cup Tasked
    BY <2>3, <2>4 DEF Queued, Tasked
  <2>6. Tasked' \subseteq Tasked \cup {NoPacket}
    BY <2>1 DEF Tasked
  <2> QED BY <2>5, <2>6
<1>3. CASE tasks' = [tasks EXCEPT ![i].stage = "waiting"] /\ UNCHANGED queue
  <2>1. \A j \in Slots : tasks'[j].packet = tasks[j].packet
    BY <1>3 DEF ChannelTypes
  <2> QED BY <1>3, <2>1 DEF Queued, Tasked
<1> QED BY <1>1, <1>2, <1>3 DEF TaskRuns

-----------------------------------------------------------------------------
(* No update after the news that its object is gone. *)

\* The news that an object is gone, on its way or heard, is never from later
\* than now, and whatever update is pending or being written is later.
GonePast ==
  /\ \A q \in OnTheWay : q.kind = "GONE" => q.age <= clock
  /\ \A o \in Objects : heard[o]["GONE"] <= clock

PendingIsLater ==
  \A o \in Objects : pending[o].age # 0 =>
    /\ heard[o]["GONE"] < pending[o].age
    /\ \A q \in OnTheWay : q.kind = "GONE" /\ q.object = o => q.age < pending[o].age

GoneInvariant == TypeInvariant /\ GonePast /\ PendingIsLater /\ NoUpdateAfterGone

LEMMA NewsAges ==
  ASSUME TypeInvariant
  PROVE  \A q \in OnTheWay : q.kind = "GONE" => q.age \in Nat
<1>1. \A q \in ReliablePackets : q.age \in Nat
  BY DEF ReliablePackets, Stamps
<1>2. \A q \in UpdatePackets \cup TimePackets \cup {NoPacket} : q.kind # "GONE"
  BY DEF UpdatePackets, TimePackets, NoPacket
<1>3. \A q \in Queued : q \in ReliablePackets
  BY DEF TypeInvariant, Queued, ChannelInvariant, ChannelTypes
<1>4. \A q \in Tasked : q \in ReliablePackets \cup {NoPacket}
  BY DEF TypeInvariant, Tasked, ChannelInvariant, ChannelTypes
<1>5. {writing, sending} \subseteq ReliablePackets \cup UpdatePackets \cup TimePackets \cup {NoPacket}
  BY DEF TypeInvariant, WriterTypes, SenderTypes, SendPackets
<1> QED BY <1>1, <1>2, <1>3, <1>4, <1>5 DEF OnTheWay

\* A step that brings no news of an object that is gone but what was on its way.
NoNews == \A q \in OnTheWay' : q.kind = "GONE" => q \in OnTheWay

LEMMA NoNewsKeeps ==
  ASSUME GoneInvariant, TypeInvariant', NoNews, heard' = heard, clock' \in {clock, clock + 1}
  PROVE  /\ GonePast'
         /\ \A o \in Objects : pending'[o] \in {pending[o], NoPacket} =>
              (pending'[o].age # 0 =>
                 /\ heard'[o]["GONE"] < pending'[o].age
                 /\ \A q \in OnTheWay' :
                      q.kind = "GONE" /\ q.object = o => q.age < pending'[o].age)
<1>0. GonePast /\ PendingIsLater /\ clock \in Nat /\ clock <= clock'
  BY DEF GoneInvariant, TypeInvariant, SenderTypes, Stamps
<1>1. \A q \in OnTheWay' : q.kind = "GONE" => q.age \in Nat
  BY NewsAges DEF GoneInvariant, NoNews
<1>2. \A o \in Objects : heard'[o]["GONE"] \in Nat
  BY DEF TypeInvariant, HistoryTypes, Stamps
<1>3. GonePast'
  BY <1>0, <1>1, <1>2 DEF GonePast, NoNews
<1>4. NoPacket.age = 0
  BY DEF NoPacket
<1> QED BY <1>0, <1>3, <1>4 DEF PendingIsLater, NoNews

LEMMA StartsGone ==
  ASSUME GoneInvariant, TypeInvariant', NEW p \in SendPackets, Starts(p)
  PROVE  GoneInvariant'
<1>0. GonePast /\ PendingIsLater /\ NoUpdateAfterGone /\ SlotTypes /\ SenderTypes
  BY DEF GoneInvariant, TypeInvariant
<1>1. UNCHANGED <<queue, tasks, writing, at, heard>>
  BY StartsDoes DEF chanVars, writerVars, histVars
<1>2. OnTheWay' \subseteq OnTheWay \cup {p}
  BY <1>1, StartsDoes DEF OnTheWay, Queued, Tasked
<1>3. /\ clock' \in {clock, clock + 1} /\ clock \in Nat /\ clock' \in Nat /\ clock <= clock'
  BY <1>0 DEF Starts, SenderTypes, Stamps
<1>4. NoUpdateAfterGone'
  BY <1>0, <1>1 DEF NoUpdateAfterGone
<1>5. \A q \in OnTheWay : q.kind = "GONE" => q.age \in Nat
  BY NewsAges DEF GoneInvariant
<1>6. \A o \in Objects : heard[o]["GONE"] \in Nat
  BY DEF GoneInvariant, TypeInvariant, HistoryTypes, Stamps
<1>7. CASE p.kind \notin {"GONE", "UPDATE"}
  <2>1. NoNews
    BY <1>2, <1>7 DEF NoNews
  <2>2. pending' = pending
    BY <1>7, StartsDoes, Kinds
  <2> QED BY <1>1, <1>3, <1>4, <2>1, <2>2, NoNewsKeeps DEF GoneInvariant, PendingIsLater
<1>8. CASE p.kind = "GONE"
  <2>1. /\ p.object \in Objects /\ p.age = clock'
        /\ pending' = [pending EXCEPT ![p.object] = NoPacket]
    BY <1>8, StartsDoes, Kinds DEF Starts, RemovePending
  <2>2. /\ pending'[p.object].age = 0
        /\ \A o \in Objects \ {p.object} : pending'[o] = pending[o]
    BY <1>0, <2>1 DEF SlotTypes, NoPacket
  <2>3. GonePast'
    BY <1>0, <1>1, <1>2, <1>3, <1>5, <1>6, <2>1 DEF GonePast
  <2>4. PendingIsLater'
    BY <1>0, <1>1, <1>2, <2>1, <2>2 DEF PendingIsLater
  <2> QED BY <1>4, <2>3, <2>4 DEF GoneInvariant
<1>9. CASE p.kind = "UPDATE"
  <2>1. /\ p \in UpdatePackets /\ p.object \in Objects
        /\ pending' = [pending EXCEPT ![p.object] = p]
        /\ p.age # 0 => p.age = clock + 1
    BY <1>9, StartsDoes, Kinds DEF Starts, ReplacePending, UpdatePackets
  <2>2. pending'[p.object] = p /\ \A o \in Objects \ {p.object} : pending'[o] = pending[o]
    BY <1>0, <2>1 DEF SlotTypes
  <2>3. NoNews
    BY <1>2, <1>9 DEF NoNews
  <2>4. GonePast'
    BY <1>1, <1>3, <2>3, NoNewsKeeps
  <2>5. /\ heard[p.object]["GONE"] < clock + 1
        /\ \A q \in OnTheWay : q.kind = "GONE" => q.age < clock + 1
    BY <1>0, <1>3, <1>5, <1>6, <2>1 DEF GonePast
  <2>6. PendingIsLater'
    BY <1>0, <1>1, <2>1, <2>2, <2>3, <2>5 DEF PendingIsLater, NoNews
  <2> QED BY <1>4, <2>4, <2>6 DEF GoneInvariant
<1> QED BY <1>7, <1>8, <1>9

LEMMA EndsGone ==
  ASSUME GoneInvariant, TypeInvariant', EndsSending
  PROVE  GoneInvariant'
<1>0. ChannelTypes /\ TypeInvariant
  BY DEF GoneInvariant, TypeInvariant, ChannelInvariant
<1>1. UNCHANGED <<writing, at, heard, pending, clock>> /\ sending' = NoPacket
  BY <1>0, EndsDoes DEF writerVars
<1>2. Queued' \cup Tasked' \subseteq Queued \cup Tasked \cup {sending}
  <2>1. CASE sending \in ReliablePackets /\ TrySend(sending)
    BY <1>0, <2>1, TrySendWay
  <2>2. CASE UNCHANGED chanVars
    BY <2>2 DEF chanVars, Queued, Tasked
  <2> QED BY <1>0, <2>1, <2>2, EndsDoes
<1>3. NoNews
  BY <1>1, <1>2 DEF NoNews, OnTheWay, NoPacket
<1> QED BY <1>1, <1>3, NoNewsKeeps DEF GoneInvariant, PendingIsLater, NoUpdateAfterGone

LEMMA WriterGone ==
  ASSUME GoneInvariant, TypeInvariant', Writer
  PROVE  GoneInvariant'
<1>0. /\ GonePast /\ PendingIsLater /\ NoUpdateAfterGone
      /\ ChannelInvariant /\ SlotTypes /\ WriterTypes /\ SenderTypes
  BY DEF GoneInvariant, TypeInvariant
<1>1. CASE WriterTakesTime
  <2>1. /\ UNCHANGED <<queue, tasks, pending, heard, clock, sending>>
        /\ writing' \in TimePackets \cup {NoPacket}
    BY <1>0, <1>1
    DEF WriterTakesTime, Write, chanVars, histVars, sendVars, SlotTypes, WriterTypes
  <2>2. writing'.kind # "GONE" /\ writing'.kind # "UPDATE"
    BY <2>1 DEF TimePackets, NoPacket
  <2>3. NoNews
    BY <2>1, <2>2 DEF NoNews, OnTheWay, Queued, Tasked
  <2> QED BY <2>1, <2>2, <2>3, NoNewsKeeps
      DEF GoneInvariant, PendingIsLater, NoUpdateAfterGone
<1>2. CASE WriterTriesFifo \/ WriterSelects
  <2>1. UNCHANGED <<pending, heard, clock, sending>>
    BY <1>2 DEF WriterTriesFifo, WriterSelects, slotVars, histVars, sendVars
  <2>2. CASE Recv /\ Write(Head(queue))
    <3>1. /\ Queued' \subseteq Queued /\ writing' \in Queued /\ Tasked' = Tasked
          /\ writing' \in ReliablePackets
      BY <1>0, <1>2, <2>2, RecvWay, RecvChannel DEF Write, WriterTriesFifo, WriterSelects
    <3>2. NoNews
      BY <2>1, <3>1 DEF NoNews, OnTheWay
    <3>3. writing'.kind # "UPDATE"
      BY <3>1 DEF ReliablePackets
    <3> QED BY <2>1, <3>2, <3>3, NoNewsKeeps
        DEF GoneInvariant, PendingIsLater, NoUpdateAfterGone
  <2>3. CASE UNCHANGED <<chanVars, writing>> /\ at' \in {"updates", "time"}
    <3>1. NoNews
      BY <2>1, <2>3 DEF NoNews, OnTheWay, Queued, Tasked, chanVars
    <3> QED BY <2>1, <2>3, <3>1, NoNewsKeeps
        DEF GoneInvariant, PendingIsLater, NoUpdateAfterGone
  <2> QED BY <1>2, <2>2, <2>3 DEF WriterTriesFifo, WriterSelects
<1>3. CASE WriterTakesUpdate
  <2>1. PICK k \in Live(order) :
          /\ pending' = [pending EXCEPT ![order[k]] = NoPacket]
          /\ writing' = pending[order[k]]
    BY <1>3 DEF WriterTakesUpdate, Write
  <2>2. /\ order[k] \in Objects /\ writing' \in UpdatePackets /\ writing'.object = order[k]
    BY <1>0, <2>1 DEF Live, SlotTypes
  <2>3. UNCHANGED <<queue, tasks, heard, clock, sending>>
    BY <1>3 DEF WriterTakesUpdate, chanVars, histVars, sendVars
  <2>4. NoNews
    BY <2>2, <2>3 DEF NoNews, OnTheWay, Queued, Tasked, UpdatePackets
  <2>5. \A o \in Objects : pending'[o] \in {pending[o], NoPacket}
    BY <1>0, <2>1 DEF SlotTypes
  <2>6. NoUpdateAfterGone'
    BY <1>0, <2>1, <2>2, <2>3 DEF PendingIsLater, NoUpdateAfterGone
  <2> QED BY <2>3, <2>4, <2>5, <2>6, NoNewsKeeps DEF GoneInvariant, PendingIsLater
<1>4. CASE WriterRests
  <2>1. UNCHANGED <<queue, tasks, writing, pending, heard, clock, sending>> /\ at' \in {"done", "select"}
    BY <1>4 DEF WriterRests, chanVars, histVars, sendVars
  <2>2. NoNews
    BY <2>1 DEF NoNews, OnTheWay, Queued, Tasked
  <2> QED BY <2>1, <2>2, NoNewsKeeps DEF GoneInvariant, PendingIsLater, NoUpdateAfterGone
<1>5. CASE WriteSucceeds
  <2>1. UNCHANGED <<queue, tasks, pending, clock, sending>> /\ at' = "time" /\ writing' = NoPacket
    BY <1>5 DEF WriteSucceeds, slotVars, chanVars, sendVars
  <2>2. OnTheWay' \subseteq OnTheWay \cup {NoPacket} /\ NoPacket.kind # "GONE"
    BY <2>1 DEF OnTheWay, Queued, Tasked, NoPacket
  <2>3. \A o \in Objects : \/ heard'[o]["GONE"] = heard[o]["GONE"]
                           \/ /\ writing.kind = "GONE" /\ writing.object = o
                              /\ heard'[o]["GONE"] = writing.age
    BY <1>5 DEF WriteSucceeds, Newer, GoneInvariant, TypeInvariant, HistoryTypes
  <2>4. writing \in OnTheWay
    BY DEF OnTheWay
  <2>5. GonePast'
    BY <1>0, <2>1, <2>2, <2>3, <2>4 DEF GonePast
  <2>6. PendingIsLater'
    BY <1>0, <2>1, <2>2, <2>3, <2>4 DEF PendingIsLater
  <2> QED BY <2>1, <2>5, <2>6 DEF GoneInvariant, NoUpdateAfterGone
<1>6. CASE WriteFails
  <2>1. /\ UNCHANGED <<tasks, pending, heard, clock, sending>> /\ at' = "done"
        /\ writing' = NoPacket /\ queue' = <<>>
    BY <1>6 DEF WriteFails, slotVars, histVars, sendVars
  <2>2. NoNews
    BY <2>1 DEF NoNews, OnTheWay, Queued, Tasked, NoPacket
  <2> QED BY <2>1, <2>2, NoNewsKeeps DEF GoneInvariant, PendingIsLater, NoUpdateAfterGone
<1> QED BY <1>1, <1>2, <1>3, <1>4, <1>5, <1>6 DEF Writer

LEMMA NextGone == GoneInvariant /\ [Next]_vars => GoneInvariant'
<1> SUFFICES ASSUME GoneInvariant, [Next]_vars PROVE GoneInvariant'
  OBVIOUS
<1>0. TypeInvariant /\ TypeInvariant' /\ ChannelTypes /\ NoUpdateAfterGone
  BY NextType DEF GoneInvariant, TypeInvariant, ChannelInvariant
<1>1. CASE Senders
  BY <1>0, <1>1, SendersStart, StartsGone
<1>2. CASE EndsSending
  BY <1>0, <1>2, EndsGone
<1>3. CASE DropClient \/ (\E o \in Objects : ChangesUnseen(o)) \/ UNCHANGED vars
  <2>1. UNCHANGED <<queue, tasks, pending, heard, at, writing, sending>> /\ clock' \in {clock, clock + 1}
    BY <1>3 DEF DropClient, ChangesUnseen, vars, slotVars, chanVars,
                writerVars, histVars, sendVars
  <2>2. NoNews
    BY <2>1 DEF NoNews, OnTheWay, Queued, Tasked
  <2> QED BY <1>0, <2>1, <2>2, NoNewsKeeps DEF GoneInvariant, PendingIsLater, NoUpdateAfterGone
<1>4. CASE \E i \in Slots : TaskRuns(i)
  <2>1. UNCHANGED <<pending, heard, at, writing, clock, sending>>
    BY <1>4 DEF TaskRuns, slotVars, writerVars, histVars, sendVars
  <2>2. Queued' \cup Tasked' \subseteq Queued \cup Tasked \cup {NoPacket}
    BY <1>0, <1>4, TaskWay
  <2>3. NoNews
    BY <2>1, <2>2 DEF NoNews, OnTheWay, NoPacket
  <2> QED BY <1>0, <2>1, <2>3, NoNewsKeeps DEF GoneInvariant, PendingIsLater, NoUpdateAfterGone
<1>5. CASE Writer
  BY <1>0, <1>5, WriterGone
<1> QED BY <1>1, <1>2, <1>3, <1>4, <1>5 DEF Next, Senders

\* The client never gets an update of an object that is older than the news
\* that the object is gone, whatever becomes of the order of reliable packets.
THEOREM GoneForGood == Spec => []NoUpdateAfterGone
<1>1. Init => GoneInvariant
  <2> SUFFICES ASSUME Init PROVE GoneInvariant
    OBVIOUS
  <2>1. GonePast
    BY DEF Init, GonePast, OnTheWay, Queued, Tasked, FreeSlot, NoPacket
  <2>2. PendingIsLater /\ NoUpdateAfterGone
    BY DEF Init, PendingIsLater, NoUpdateAfterGone, NoPacket
  <2> QED BY <2>1, <2>2, InitType DEF GoneInvariant
<1>2. GoneInvariant => NoUpdateAfterGone
  BY DEF GoneInvariant
<1> QED BY <1>1, <1>2, NextGone, PTL DEF Spec

-----------------------------------------------------------------------------
(* No reliable packet is lost. *)

InQueue(s) == \E k \in 1 .. Len(queue) : queue[k].stamp = s
InTasks(s) == \E i \in Slots : tasks[i].packet.stamp = s
InHand(s)  == writing.kind \in ReliableKinds /\ writing.stamp = s

Carried(s) == InQueue(s) \/ InTasks(s)

\* A stamp is in one place of the channel at a time, and never both there and
\* in the writer's hand; none is from later than now.
Apart ==
  /\ \A j, k \in 1 .. Len(queue) :
       queue[j].stamp = queue[k].stamp /\ queue[j].stamp # 0 => j = k
  /\ \A i, j \in Slots :
       tasks[i].packet.stamp = tasks[j].packet.stamp /\ tasks[i].packet.stamp # 0 => i = j
  /\ \A s \in Stamps \ {0} : ~(InQueue(s) /\ InTasks(s))

Stamped ==
  \A s \in Stamps \ {0} : /\ ~(Carried(s) /\ InHand(s))
                          /\ Carried(s) \/ InHand(s) => s <= clock

\* What is owed is on its way.
Owing ==
  ~failed => \A s \in Stamps : s \in owed <=> s # 0 /\ (Carried(s) \/ InHand(s))

\* The writer knows that the channel is closed only if it is, and leaves, unless
\* a write fails, when nothing is pending either.
Closing ==
  /\ rxClosed => queue = <<>> /\ Disconnected
  /\ at = "done" /\ ~failed => rxClosed /\ \A o \in Objects : pending[o] = NoPacket

\* What the main loop is sending is not on its way yet.
Unsent ==
  sending.kind \in ReliableKinds /\ sending.stamp # 0 =>
    /\ ~Carried(sending.stamp) /\ ~InHand(sending.stamp)
    /\ sending.stamp <= clock

DeliveryInvariant == LineInvariant /\ Apart /\ Stamped /\ Owing /\ Closing /\ Unsent

LEMMA UnsentKept ==
  ASSUME DeliveryInvariant, UNCHANGED <<sending, clock>>,
         \A s \in Stamps \ {0} : Carried(s)' \/ InHand(s)' => Carried(s) \/ InHand(s)
  PROVE  Unsent'
<1>1. sending.kind \in ReliableKinds => sending.stamp \in Stamps
  BY Kinds DEF DeliveryInvariant, LineInvariant, TypeInvariant, SenderTypes, SendPackets,
               ReliablePackets, NoPacket
<1> QED BY <1>1 DEF DeliveryInvariant, Unsent

LEMMA TrySendStamps ==
  ASSUME ChannelInvariant, Apart, NEW p \in ReliablePackets, TrySend(p),
         p.stamp # 0 => ~Carried(p.stamp)
  PROVE  /\ Apart'
         /\ \A s \in Stamps \ {0} :
              Carried(s)' <=> Carried(s) \/ (s = p.stamp /\ at # "done")
<1>0. ChannelTypes
  BY DEF ChannelInvariant
<1>1. CASE at = "done" /\ UNCHANGED chanVars
  BY <1>1 DEF chanVars, Apart, Carried, InQueue, InTasks
<1>2. CASE at # "done" /\ queue' = Append(queue, p) /\ UNCHANGED <<tasks, waiters>>
  <2>1. /\ Len(queue) \in Nat /\ Len(queue') = Len(queue) + 1 /\ queue'[Len(queue) + 1] = p
        /\ \A k \in 1 .. Len(queue) : queue'[k] = queue[k]
    BY <1>0, <1>2 DEF ChannelTypes
  <2>2. 1 .. Len(queue') = (1 .. Len(queue)) \cup {Len(queue) + 1}
    BY <2>1
  <2>3. \A s : InQueue(s)' <=> InQueue(s) \/ s = p.stamp
    BY <2>1, <2>2 DEF InQueue
  <2>4. \A s : InTasks(s)' <=> InTasks(s)
    BY <1>2 DEF InTasks
  <2>5. \A j, k \in 1 .. Len(queue') :
          queue'[j].stamp = queue'[k].stamp /\ queue'[j].stamp # 0 => j = k
    BY <2>1, <2>2 DEF Apart, Carried, InQueue
  <2>6. Apart'
    BY <1>2, <2>3, <2>4, <2>5 DEF Apart, Carried
  <2> QED BY <1>2, <2>3, <2>4, <2>6 DEF Carried
<1>3. CASE /\ at # "done" /\ UNCHANGED <<queue, waiters>>
           /\ \E i \in InStage("free") :
                tasks' = [tasks EXCEPT ![i] = [stage |-> "spawned", packet |-> p]]
  <2>1. PICK i \in Slots : /\ tasks[i].stage = "free"
                           /\ tasks' = [tasks EXCEPT ![i] = [stage |-> "spawned", packet |-> p]]
    BY <1>3 DEF InStage
  <2>2. /\ tasks'[i].packet = p /\ \A j \in Slots \ {i} : tasks'[j] = tasks[j]
        /\ tasks[i].packet.stamp = 0
    BY <1>0, <2>1 DEF ChannelTypes, NoPacket
  <2>3. \A s \in Stamps \ {0} : InTasks(s)' <=> InTasks(s) \/ s = p.stamp
    BY <2>2 DEF InTasks
  <2>4. \A s : InQueue(s)' <=> InQueue(s)
    BY <1>3 DEF InQueue
  <2>5. \A a, b \in Slots :
          tasks'[a].packet.stamp = tasks'[b].packet.stamp /\ tasks'[a].packet.stamp # 0 => a = b
    BY <2>2 DEF Apart, Carried, InTasks
  <2>6. Apart'
    BY <1>3, <2>3, <2>4, <2>5 DEF Apart, Carried
  <2> QED BY <1>3, <2>3, <2>4, <2>6 DEF Carried
<1> QED BY <1>1, <1>2, <1>3 DEF TrySend

LEMMA RecvStamps ==
  ASSUME ChannelInvariant, Apart, Recv
  PROVE  /\ Apart' /\ Carried(Head(queue).stamp)
         /\ \A s \in Stamps \ {0} : Carried(s)' <=> Carried(s) /\ s # Head(queue).stamp
<1>0. ChannelTypes
  BY DEF ChannelInvariant
<1>1. /\ Len(queue) \in Nat /\ Len(queue) >= 1 /\ Head(queue) = queue[1]
      /\ Len(queue') = Len(queue) - 1
      /\ \A k \in 1 .. Len(queue) - 1 : queue'[k] = queue[k + 1]
  BY <1>0, HeadTailProperties DEF Recv, ChannelTypes
<1>2. /\ \A k \in 1 .. Len(queue') : k + 1 \in 1 .. Len(queue) /\ k + 1 # 1
      /\ \A k \in 1 .. Len(queue) : k # 1 => k - 1 \in 1 .. Len(queue') /\ (k - 1) + 1 = k
      /\ \A j, k \in 1 .. Len(queue') : j + 1 = k + 1 => j = k
      /\ 1 \in 1 .. Len(queue)
  BY <1>1
<1>3. \A i \in Slots : tasks'[i].packet = tasks[i].packet
  <2>1. CASE waiters = <<>>
    BY <2>1 DEF Recv
  <2>2. CASE waiters # <<>>
    <3>1. Head(waiters) \in Slots /\ tasks' = [tasks EXCEPT ![Head(waiters)].stage = "granted"]
      BY <1>0, <2>2, HeadTailProperties DEF Recv, ChannelTypes
    <3> QED BY <1>0, <3>1 DEF ChannelTypes
  <2> QED BY <2>1, <2>2
<1>4. \A s : InTasks(s)' <=> InTasks(s)
  BY <1>3 DEF InTasks
<1>5. \A k \in 1 .. Len(queue') : queue'[k] = queue[k + 1]
  BY <1>1
<1>6. InQueue(Head(queue).stamp)
  BY <1>1, <1>2 DEF InQueue
<1>7. ASSUME NEW s \in Stamps \ {0}
      PROVE  InQueue(s)' <=> InQueue(s) /\ s # Head(queue).stamp
  <2>1. ASSUME NEW k \in 1 .. Len(queue'), queue'[k].stamp = s
        PROVE  InQueue(s) /\ s # Head(queue).stamp
    <3>1. k + 1 \in 1 .. Len(queue) /\ k + 1 # 1 /\ queue[k + 1].stamp = s
      BY <1>2, <1>5, <2>1
    <3>2. queue[k + 1].stamp # queue[1].stamp
      BY <1>2, <3>1 DEF Apart
    <3> QED BY <1>1, <3>1, <3>2 DEF InQueue
  <2>2. ASSUME NEW k \in 1 .. Len(queue), queue[k].stamp = s, s # Head(queue).stamp
        PROVE  InQueue(s)'
    <3>1. k - 1 \in 1 .. Len(queue') /\ queue'[k - 1].stamp = s
      BY <1>1, <1>2, <1>5, <2>2
    <3> QED BY <3>1 DEF InQueue
  <2> QED BY <2>1, <2>2 DEF InQueue
<1>8. \A j, k \in 1 .. Len(queue') :
        queue'[j].stamp = queue'[k].stamp /\ queue'[j].stamp # 0 => j = k
  <2> TAKE j, k \in 1 .. Len(queue')
  <2> HAVE queue'[j].stamp = queue'[k].stamp /\ queue'[j].stamp # 0
  <2>1. /\ j + 1 \in 1 .. Len(queue) /\ k + 1 \in 1 .. Len(queue)
        /\ queue[j + 1].stamp = queue[k + 1].stamp /\ queue[j + 1].stamp # 0
    BY <1>2, <1>5
  <2>2. j + 1 = k + 1
    BY <2>1 DEF Apart
  <2> QED BY <1>2, <2>2
<1>9. Apart'
  BY <1>3, <1>4, <1>7, <1>8 DEF Apart
<1>10. \A s \in Stamps \ {0} : s = Head(queue).stamp => ~InTasks(s)
  BY <1>6 DEF Apart
<1> QED BY <1>4, <1>6, <1>7, <1>9, <1>10 DEF Carried

LEMMA TaskStamps ==
  ASSUME ChannelInvariant, Apart, NEW i \in Slots, TaskRuns(i)
  PROVE  /\ Apart'
         /\ \A s \in Stamps \ {0} : Carried(s)' => Carried(s)
         /\ at # "done" => \A s \in Stamps \ {0} : Carried(s)' <=> Carried(s)
<1>0. ChannelTypes
  BY DEF ChannelInvariant
<1>1. CASE at = "done" /\ tasks' = [tasks EXCEPT ![i] = FreeSlot] /\ UNCHANGED queue
  <2>1. tasks'[i].packet.stamp = 0 /\ \A j \in Slots \ {i} : tasks'[j] = tasks[j]
    BY <1>0, <1>1 DEF ChannelTypes, FreeSlot, NoPacket
  <2>2. \A s \in Stamps \ {0} : (InTasks(s)' => InTasks(s)) /\ (InQueue(s)' <=> InQueue(s))
    BY <1>1, <2>1 DEF InTasks, InQueue
  <2>3. Apart'
    BY <1>1, <2>1, <2>2 DEF Apart
  <2> QED BY <1>1, <2>2, <2>3 DEF Carried
<1>2. CASE /\ tasks[i].stage # "free" /\ queue' = Append(queue, tasks[i].packet)
           /\ tasks' = [tasks EXCEPT ![i] = FreeSlot]
  <2> DEFINE p == tasks[i].packet
  <2>1. tasks'[i].packet.stamp = 0 /\ \A j \in Slots \ {i} : tasks'[j] = tasks[j]
    BY <1>0, <1>2 DEF ChannelTypes, FreeSlot, NoPacket
  <2>2. p \in ReliablePackets /\ p.stamp \in Stamps
    BY <1>0, <1>2 DEF ChannelTypes, ReliablePackets
  <2>3. /\ Len(queue) \in Nat /\ Len(queue') = Len(queue) + 1 /\ queue'[Len(queue) + 1] = p
        /\ \A k \in 1 .. Len(queue) : queue'[k] = queue[k]
    BY <1>0, <1>2, <2>2 DEF ChannelTypes
  <2>4. 1 .. Len(queue') = (1 .. Len(queue)) \cup {Len(queue) + 1}
    BY <2>3
  <2>5. InTasks(p.stamp)
    BY DEF InTasks
  <2>6. p.stamp # 0 => ~InQueue(p.stamp)
    BY <2>2, <2>5 DEF Apart
  <2>7. \A s : InQueue(s)' <=> InQueue(s) \/ s = p.stamp
    BY <2>3, <2>4 DEF InQueue
  <2>8. \A s \in Stamps \ {0} : InTasks(s)' <=> InTasks(s) /\ s # p.stamp
    BY <2>1 DEF InTasks, Apart
  <2>9. \A j, k \in 1 .. Len(queue') :
          queue'[j].stamp = queue'[k].stamp /\ queue'[j].stamp # 0 => j = k
    BY <2>3, <2>4, <2>6 DEF Apart, InQueue
  <2>10. \A a, b \in Slots :
           tasks'[a].packet.stamp = tasks'[b].packet.stamp /\ tasks'[a].packet.stamp # 0 => a = b
    BY <2>1 DEF Apart
  <2> HIDE DEF p
  <2>11. Apart'
    BY <2>7, <2>8, <2>9, <2>10 DEF Apart
  <2> QED BY <2>5, <2>7, <2>8, <2>11 DEF Carried
<1>3. CASE tasks' = [tasks EXCEPT ![i].stage = "waiting"] /\ UNCHANGED queue
  <2>1. \A j \in Slots : tasks'[j].packet = tasks[j].packet
    BY <1>0, <1>3 DEF ChannelTypes
  <2>2. \A s : (InTasks(s)' <=> InTasks(s)) /\ (InQueue(s)' <=> InQueue(s))
    BY <1>3, <2>1 DEF InTasks, InQueue
  <2>3. Apart'
    BY <1>3, <2>1, <2>2 DEF Apart
  <2> QED BY <2>2, <2>3 DEF Carried
<1> QED BY <1>1, <1>2, <1>3 DEF TaskRuns

\* A step that leaves the channel and the writer's hand as they are.
LEMMA StillCarried ==
  ASSUME DeliveryInvariant, LineInvariant', UNCHANGED <<queue, tasks>>,
         \A s : InHand(s)' <=> InHand(s), UNCHANGED <<owed, failed>>,
         clock' \in {clock, clock + 1}
  PROVE  Apart' /\ Stamped' /\ Owing' /\ (UNCHANGED <<sending, clock>> => Unsent')
<1>0. /\ Apart /\ Stamped /\ Owing
      /\ clock \in Nat /\ clock' \in Nat /\ clock <= clock'
  BY DEF DeliveryInvariant, LineInvariant, TypeInvariant, SenderTypes, Stamps
<1>1. \A s : (InQueue(s)' <=> InQueue(s)) /\ (InTasks(s)' <=> InTasks(s))
  BY DEF InQueue, InTasks
<1>2. \A s \in Stamps : s \in Nat
  BY DEF Stamps
<1>3. UNCHANGED <<sending, clock>> => Unsent'
  BY <1>1, UnsentKept DEF Carried
<1>4. Apart' /\ Stamped' /\ Owing'
  BY <1>0, <1>1, <1>2 DEF Apart, Stamped, Owing, Carried
<1> QED BY <1>3, <1>4

LEMMA StartsDelivery ==
  ASSUME DeliveryInvariant, LineInvariant', NEW p \in SendPackets, Starts(p)
  PROVE  DeliveryInvariant'
<1>0. Closing /\ Stamped /\ clock \in Nat
  BY DEF DeliveryInvariant, LineInvariant, TypeInvariant, SenderTypes, Stamps
<1>1. /\ UNCHANGED <<queue, tasks, writing, owed, at, rxClosed, failed, dropped>>
      /\ clock' \in {clock, clock + 1} /\ ~dropped /\ sending' = p
  BY StartsDoes DEF Starts, chanVars, writerVars, histVars
<1>2. \A s : InHand(s)' <=> InHand(s)
  BY <1>1 DEF InHand
<1>3. ~rxClosed /\ (at = "done" => failed)
  BY <1>0, <1>1 DEF Closing, Disconnected
<1>4. Closing'
  BY <1>1, <1>3 DEF Closing
<1>5. \A s : Carried(s)' <=> Carried(s)
  BY <1>1 DEF Carried, InQueue, InTasks
<1>6. Unsent'
  <2>1. ASSUME p.stamp # 0 PROVE p.stamp \in Stamps /\ p.stamp = clock' /\ clock' > clock
    BY <1>0, <2>1 DEF Starts
  <2> QED BY <1>0, <1>1, <1>2, <1>5, <2>1 DEF Unsent, Stamped, Stamps
<1> QED BY <1>1, <1>2, <1>4, <1>6, StillCarried DEF DeliveryInvariant

LEMMA EndsDelivery ==
  ASSUME DeliveryInvariant, LineInvariant', EndsSending
  PROVE  DeliveryInvariant'
<1>0. /\ Apart /\ Stamped /\ Owing /\ Closing /\ Unsent /\ ChannelInvariant /\ TypeInvariant
      /\ clock \in Nat
  BY DEF DeliveryInvariant, LineInvariant, TypeInvariant, SenderTypes, Stamps
<1>1. /\ UNCHANGED <<at, writing, rxClosed, failed, dropped, clock>> /\ ~dropped
      /\ sending' = NoPacket
  BY <1>0, EndsDoes DEF writerVars
<1>2. ~rxClosed /\ (at = "done" => failed)
  BY <1>0, <1>1 DEF Closing, Disconnected
<1>3. Closing'
  BY <1>1, <1>2 DEF Closing
<1>4. Unsent'
  BY <1>1 DEF Unsent, NoPacket, ReliableKinds
<1>5. \A s : InHand(s)' <=> InHand(s)
  BY <1>1 DEF InHand
<1>6. CASE sending \notin ReliablePackets
  <2>1. UNCHANGED <<queue, tasks, owed>>
    BY <1>0, <1>6, EndsDoes DEF chanVars
  <2> QED BY <1>1, <1>3, <1>4, <1>5, <2>1, StillCarried DEF DeliveryInvariant
<1>7. CASE sending \in ReliablePackets
  <2>1. /\ TrySend(sending)
        /\ owed' = IF sending.stamp # 0 /\ at # "done" THEN owed \cup {sending.stamp} ELSE owed
    BY <1>0, <1>7, EndsDoes, Kinds
  <2>2. sending.kind \in ReliableKinds /\ sending.stamp \in Stamps
    BY <1>7, Kinds DEF ReliablePackets
  <2>3. sending.stamp # 0 => /\ ~Carried(sending.stamp) /\ ~InHand(sending.stamp)
                             /\ sending.stamp <= clock
    BY <1>0, <2>2 DEF Unsent
  <2>4. /\ Apart'
        /\ \A s \in Stamps \ {0} :
             Carried(s)' <=> Carried(s) \/ (s = sending.stamp /\ at # "done")
    BY <1>0, <1>7, <2>1, <2>3, TrySendStamps
  <2>5. Stamped'
    BY <1>0, <1>1, <1>5, <2>3, <2>4 DEF Stamped
  <2>6. Owing'
    BY <1>0, <1>1, <1>2, <1>5, <2>1, <2>2, <2>4 DEF Owing
  <2> QED BY <1>3, <1>4, <2>4, <2>5, <2>6 DEF DeliveryInvariant
<1> QED BY <1>6, <1>7

LEMMA OtherSendersDelivery ==
  ASSUME DeliveryInvariant, LineInvariant', DropClient \/ \E o \in Objects : ChangesUnseen(o)
  PROVE  DeliveryInvariant'
<1>0. Closing
  BY DEF DeliveryInvariant
<1>1. /\ UNCHANGED <<queue, tasks, writing, owed, at, rxClosed, failed, sending>>
      /\ clock' \in {clock, clock + 1} /\ ~dropped /\ sending = NoPacket
  BY DEF DropClient, ChangesUnseen, MaySend, slotVars, chanVars, writerVars, histVars
<1>2. \A s : InHand(s)' <=> InHand(s)
  BY <1>1 DEF InHand
<1>3. ~rxClosed /\ (at = "done" => failed)
  BY <1>0, <1>1 DEF Closing, Disconnected
<1>4. Closing'
  BY <1>1, <1>3 DEF Closing
<1>5. Unsent'
  BY <1>1 DEF Unsent, NoPacket, ReliableKinds
<1> QED BY <1>1, <1>2, <1>4, <1>5, StillCarried DEF DeliveryInvariant

LEMMA TaskDelivery ==
  ASSUME DeliveryInvariant, LineInvariant', NEW i \in Slots, TaskRuns(i)
  PROVE  DeliveryInvariant'
<1>0. /\ Apart /\ Stamped /\ Owing /\ Closing /\ ChannelInvariant
  BY DEF DeliveryInvariant, LineInvariant, TypeInvariant
<1>1. UNCHANGED <<at, writing, rxClosed, failed, clock, owed, sending>> /\ tasks[i].stage # "free"
  BY DEF TaskRuns, writerVars, sendVars, histVars
<1>2. ~rxClosed /\ (at = "done" => failed)
  BY <1>0, <1>1 DEF Closing, Disconnected, InStage
<1>3. /\ Apart'
      /\ \A s \in Stamps \ {0} : Carried(s)' => Carried(s)
      /\ at # "done" => \A s \in Stamps \ {0} : Carried(s)' <=> Carried(s)
  BY <1>0, TaskStamps
<1>4. \A s : InHand(s)' <=> InHand(s)
  BY <1>1 DEF InHand
<1>5. Stamped'
  BY <1>0, <1>1, <1>3, <1>4 DEF Stamped
<1>6. Owing'
  BY <1>0, <1>1, <1>2, <1>3, <1>4 DEF Owing
<1>7. Closing'
  BY <1>1, <1>2 DEF Closing
<1>8. Unsent'
  BY <1>1, <1>3, <1>4, UnsentKept
<1> QED BY <1>3, <1>5, <1>6, <1>7, <1>8 DEF DeliveryInvariant

\* The writer takes a packet from the channel into its hand.
LEMMA RecvDelivery ==
  ASSUME DeliveryInvariant, LineInvariant', Recv, writing = NoPacket,
         writing' = Head(queue), ~rxClosed, at \notin {"done", "write"}, at' = "write",
         UNCHANGED <<rxClosed, failed, clock, owed, sending>>
  PROVE  DeliveryInvariant'
<1>0. /\ Apart /\ Stamped /\ Owing /\ Closing /\ ChannelInvariant
  BY DEF DeliveryInvariant, LineInvariant, TypeInvariant
<1>1. /\ Apart' /\ Carried(Head(queue).stamp)
      /\ \A s \in Stamps \ {0} : Carried(s)' <=> Carried(s) /\ s # Head(queue).stamp
  BY <1>0, RecvStamps
<1>2. Head(queue) \in ReliablePackets
  BY <1>0, RecvChannel
<1>3. \A s : (InHand(s)' <=> s = Head(queue).stamp) /\ ~InHand(s)
  BY <1>2 DEF InHand, NoPacket, ReliablePackets, ReliableKinds
<1>4. Stamped'
  BY <1>0, <1>1, <1>3 DEF Stamped
<1>5. Owing'
  BY <1>0, <1>1, <1>3 DEF Owing
<1>6. Closing'
  BY DEF Closing
<1>7. Unsent'
  BY <1>1, <1>3, UnsentKept
<1> QED BY <1>1, <1>4, <1>5, <1>6, <1>7 DEF DeliveryInvariant

LEMMA WriterDelivery ==
  ASSUME DeliveryInvariant, LineInvariant', Writer
  PROVE  DeliveryInvariant'
<1>0. /\ Apart /\ Stamped /\ Owing /\ Closing
      /\ LineInvariant /\ ChannelInvariant /\ SlotTypes /\ WriterTypes
  BY DEF DeliveryInvariant, LineInvariant, TypeInvariant
<1>1. CASE WriterTakesTime
  <2>1. /\ UNCHANGED <<queue, tasks, rxClosed, failed, clock, owed, dropped, sending>>
        /\ writing = NoPacket /\ writing' \in TimePackets \cup {NoPacket}
        /\ at' \in {"write", "fifo"}
    BY <1>0, <1>1
    DEF WriterTakesTime, Write, chanVars, histVars, sendVars, SlotTypes, WriterTypes
  <2>2. \A s : InHand(s)' <=> InHand(s)
    BY <2>1 DEF InHand, TimePackets, NoPacket, ReliableKinds
  <2>3. Closing'
    BY <1>0, <2>1 DEF Closing, Disconnected, InStage
  <2> QED BY <2>1, <2>2, <2>3, StillCarried DEF DeliveryInvariant
<1>2. CASE WriterTriesFifo
  <2>1. writing = NoPacket /\ UNCHANGED <<failed, clock, owed, dropped, sending>> /\ at = "fifo"
    BY <1>0, <1>2 DEF WriterTriesFifo, histVars, sendVars, WriterTypes
  <2>2. CASE ~rxClosed /\ Recv /\ Write(Head(queue)) /\ UNCHANGED rxClosed
    BY <2>1, <2>2, RecvDelivery DEF Write
  <2>3. CASE /\ rxClosed \/ queue = <<>>
             /\ rxClosed' = (rxClosed \/ Disconnected)
             /\ at' = "updates"
             /\ UNCHANGED <<chanVars, writing>>
    <3>1. \A s : InHand(s)' <=> InHand(s)
      BY <2>3 DEF InHand
    <3>2. queue' = queue /\ Disconnected' = Disconnected
      BY <2>1, <2>3 DEF chanVars, Disconnected, InStage
    <3>3. rxClosed' => queue' = <<>> /\ Disconnected'
      BY <1>0, <2>3, <3>2 DEF Closing
    <3>4. Closing'
      BY <2>3, <3>3 DEF Closing
    <3> QED BY <2>1, <2>3, <3>1, <3>4, StillCarried DEF DeliveryInvariant, chanVars
  <2> QED BY <1>2, <2>2, <2>3 DEF WriterTriesFifo
<1>3. CASE WriterTakesUpdate
  <2>1. /\ UNCHANGED <<queue, tasks, rxClosed, failed, clock, owed, dropped, sending>>
        /\ writing = NoPacket /\ at' = "write"
    BY <1>0, <1>3 DEF WriterTakesUpdate, Write, chanVars, histVars, sendVars, WriterTypes
  <2>2. writing' \in UpdatePackets
    <3>1. PICK k \in Live(order) : writing' = pending[order[k]]
      BY <1>3 DEF WriterTakesUpdate, Write
    <3>2. order[k] \in Objects /\ pending[order[k]] # NoPacket
      BY <1>0 DEF Live, SlotTypes
    <3> QED BY <1>0, <3>1, <3>2 DEF SlotTypes
  <2>3. \A s : InHand(s)' <=> InHand(s)
    BY <2>1, <2>2 DEF InHand, UpdatePackets, NoPacket, ReliableKinds
  <2>4. Closing'
    BY <1>0, <2>1 DEF Closing, Disconnected, InStage
  <2> QED BY <2>1, <2>3, <2>4, StillCarried DEF DeliveryInvariant
<1>4. CASE WriterRests
  <2>1. /\ UNCHANGED <<queue, tasks, writing, pending, rxClosed, failed, clock, owed, dropped,
                        sending>>
        /\ at' = IF rxClosed THEN "done" ELSE "select"
    BY <1>4 DEF WriterRests, chanVars, histVars, sendVars
  <2>2. \A s : InHand(s)' <=> InHand(s)
    BY <2>1 DEF InHand
  <2>3. \A o \in Objects : pending[o] = NoPacket
    BY <1>0, <1>4, RestLine DEF WriterRests
  <2>4. Closing'
    BY <1>0, <2>1, <2>3 DEF Closing, Disconnected, InStage
  <2> QED BY <2>1, <2>2, <2>4, StillCarried DEF DeliveryInvariant
<1>5. CASE WriterSelects
  <2>1. /\ writing = NoPacket /\ at = "select"
        /\ UNCHANGED <<failed, clock, owed, dropped, sending>>
    BY <1>0, <1>5 DEF WriterSelects, histVars, sendVars, WriterTypes
  <2>2. CASE Recv /\ Write(Head(queue)) /\ UNCHANGED rxClosed
    <3>1. ~rxClosed
      BY <1>0, <2>2 DEF Closing, Recv
    <3> QED BY <2>1, <2>2, <3>1, RecvDelivery DEF Write
  <2>3. CASE /\ at' = "time" /\ UNCHANGED <<chanVars, writing>>
             /\ rxClosed' = rxClosed \/ (rxClosed' = TRUE /\ queue = <<>> /\ Disconnected)
    <3>1. \A s : InHand(s)' <=> InHand(s)
      BY <2>3 DEF InHand
    <3>2. queue' = queue /\ Disconnected' = Disconnected
      BY <2>1, <2>3 DEF chanVars, Disconnected, InStage
    <3>3. rxClosed' => queue' = <<>> /\ Disconnected'
      BY <1>0, <2>3, <3>2 DEF Closing
    <3>4. Closing'
      BY <2>3, <3>3 DEF Closing
    <3> QED BY <2>1, <2>3, <3>1, <3>4, StillCarried DEF DeliveryInvariant, chanVars
  <2> QED BY <1>5, <2>2, <2>3 DEF WriterSelects
<1>6. CASE WriteSucceeds
  <2>1. /\ UNCHANGED <<queue, tasks, rxClosed, failed, clock, dropped, sending>>
        /\ at' = "time" /\ writing' = NoPacket
        /\ owed' = owed \ (IF writing.kind \in ReliableKinds THEN {writing.stamp} ELSE {})
    BY <1>6 DEF WriteSucceeds, chanVars, sendVars
  <2>2. \A s : (InQueue(s)' <=> InQueue(s)) /\ (InTasks(s)' <=> InTasks(s)) /\ ~InHand(s)'
    BY <2>1 DEF InQueue, InTasks, InHand, NoPacket, ReliableKinds
  <2>3. \A s : s \in owed' <=> s \in owed /\ ~InHand(s)
    BY <2>1 DEF InHand
  <2>4. Apart'
    BY <1>0, <2>1, <2>2 DEF Apart
  <2>5. Stamped'
    BY <1>0, <2>1, <2>2 DEF Stamped, Carried
  <2>6. Owing'
    BY <1>0, <2>1, <2>2, <2>3 DEF Stamped, Owing, Carried
  <2>7. Closing'
    BY <1>0, <2>1 DEF Closing, Disconnected, InStage
  <2>8. Unsent'
    BY <2>1, <2>2, UnsentKept DEF Carried
  <2> QED BY <2>4, <2>5, <2>6, <2>7, <2>8 DEF DeliveryInvariant
<1>7. CASE WriteFails
  <2>1. /\ UNCHANGED <<tasks, rxClosed, clock, dropped, sending>>
        /\ at' = "done" /\ writing' = NoPacket /\ queue' = <<>> /\ failed' = TRUE
    BY <1>7 DEF WriteFails, sendVars
  <2>2. \A s : ~InQueue(s)' /\ (InTasks(s)' <=> InTasks(s)) /\ ~InHand(s)'
    BY <2>1 DEF InQueue, InTasks, InHand, NoPacket, ReliableKinds
  <2>3. Apart'
    BY <1>0, <2>1, <2>2 DEF Apart
  <2>4. Stamped'
    BY <1>0, <2>1, <2>2 DEF Stamped, Carried
  <2>5. Owing'
    BY <2>1 DEF Owing
  <2>6. Closing'
    BY <1>0, <2>1 DEF Closing, Disconnected, InStage
  <2>7. Unsent'
    BY <2>1, <2>2, UnsentKept DEF Carried
  <2> QED BY <2>3, <2>4, <2>5, <2>6, <2>7 DEF DeliveryInvariant
<1> QED BY <1>1, <1>2, <1>3, <1>4, <1>5, <1>6, <1>7 DEF Writer

LEMMA NextDelivery == DeliveryInvariant /\ [Next]_vars => DeliveryInvariant'
<1> SUFFICES ASSUME DeliveryInvariant, [Next]_vars PROVE DeliveryInvariant'
  OBVIOUS
<1>0. LineInvariant /\ LineInvariant' /\ TypeInvariant
  BY NextLine DEF DeliveryInvariant, LineInvariant
<1>1. CASE Senders
  BY <1>0, <1>1, SendersStart, StartsDelivery
<1>2. CASE EndsSending
  BY <1>0, <1>2, EndsDelivery
<1>6. CASE DropClient \/ \E o \in Objects : ChangesUnseen(o)
  BY <1>0, <1>6, OtherSendersDelivery
<1>3. CASE \E i \in Slots : TaskRuns(i)
  BY <1>0, <1>3, TaskDelivery
<1>4. CASE Writer
  BY <1>0, <1>4, WriterDelivery
<1>5. CASE UNCHANGED vars
  <2>1. UNCHANGED <<queue, tasks, pending, writing, at, rxClosed, failed, owed, clock, dropped,
                    sending>>
    BY <1>5 DEF vars, slotVars, chanVars, writerVars, histVars, sendVars
  <2>2. \A s : InHand(s)' <=> InHand(s)
    BY <2>1 DEF InHand
  <2>3. Closing'
    BY <2>1 DEF DeliveryInvariant, Closing, Disconnected, InStage
  <2> QED BY <1>0, <2>1, <2>2, <2>3, StillCarried DEF DeliveryInvariant
<1> QED BY <1>1, <1>2, <1>3, <1>4, <1>5, <1>6 DEF Next, Senders

LEMMA DeliveryHolds == Spec => []DeliveryInvariant
<1>1. Init => DeliveryInvariant
  <2> SUFFICES ASSUME Init PROVE DeliveryInvariant
    OBVIOUS
  <2>1. LineInvariant
    BY InitType DEF Init, LineInvariant, Line, Holds, Once
  <2>2. \A s \in Stamps \ {0} : ~InQueue(s) /\ ~InTasks(s) /\ ~InHand(s)
    BY DEF Init, InQueue, InTasks, InHand, FreeSlot, NoPacket, ReliableKinds
  <2>3. Apart
    BY <2>2 DEF Init, Apart, FreeSlot, NoPacket
  <2>4. Stamped /\ Owing
    BY <2>2 DEF Init, Stamped, Owing, Carried
  <2>5. Closing /\ Unsent
    BY DEF Init, Closing, Unsent, NoPacket, ReliableKinds
  <2> QED BY <2>1, <2>3, <2>4, <2>5 DEF DeliveryInvariant
<1> QED BY <1>1, NextDelivery, PTL DEF Spec

LEMMA UnderwayIsCarried ==
  ASSUME TypeInvariant
  PROVE  \A s : s \in Underway <=> Carried(s) \/ InHand(s)
BY DEF Underway, Carried, InQueue, InTasks, InHand

\* No reliable packet is lost on the way while writes succeed, not even when
\* the channel is full or the Client is dropped.
THEOREM ReliableKept == Spec => []NothingReliableLost
<1>1. DeliveryInvariant => NothingReliableLost
  <2> SUFFICES ASSUME DeliveryInvariant, ~failed PROVE owed = Underway \ {0}
    BY DEF NothingReliableLost
  <2>0. TypeInvariant /\ Owing
    BY DEF DeliveryInvariant, LineInvariant
  <2>1. \A s : s \in owed => s \in Stamps
    BY <2>0 DEF TypeInvariant, HistoryTypes
  <2>2. \A s : Carried(s) \/ InHand(s) => s \in Stamps
    <3>1. \A s : InQueue(s) => s \in Stamps
      BY <2>0 DEF TypeInvariant, ChannelInvariant, ChannelTypes, InQueue, ReliablePackets
    <3>2. \A s : InTasks(s) => s \in Stamps
      BY <2>0, ZeroStamp
      DEF TypeInvariant, ChannelInvariant, ChannelTypes, InTasks, ReliablePackets, NoPacket
    <3>3. \A s : InHand(s) => s \in Stamps
      BY <2>0 DEF TypeInvariant, WriterTypes, InHand, ReliablePackets, TimePackets,
                  UpdatePackets, NoPacket, ReliableKinds
    <3> QED BY <3>1, <3>2, <3>3 DEF Carried
  <2> QED BY <2>0, <2>1, <2>2, UnderwayIsCarried DEF Owing
<1> QED BY <1>1, DeliveryHolds, PTL

\* A writer that leaves without an error leaves neither reliable packets nor
\* updates behind.
THEOREM AllDelivered == Spec => []NothingLeftBehind
<1>1. DeliveryInvariant => NothingLeftBehind
  <2> SUFFICES ASSUME DeliveryInvariant, at = "done", ~failed
               PROVE  /\ queue = <<>> /\ owed = {}
                      /\ \A o \in Objects : pending[o] = NoPacket
    BY DEF NothingLeftBehind
  <2>0. TypeInvariant /\ Owing /\ Closing
    BY DEF DeliveryInvariant, LineInvariant
  <2>1. /\ queue = <<>> /\ InStage("free") = Slots
        /\ \A o \in Objects : pending[o] = NoPacket
    BY <2>0 DEF Closing, Disconnected
  <2>2. \A i \in Slots : tasks[i].packet.stamp = 0
    BY <2>0, <2>1
    DEF InStage, TypeInvariant, ChannelInvariant, ChannelTypes, NoPacket
  <2>3. \A s \in Stamps \ {0} : ~InQueue(s) /\ ~InTasks(s) /\ ~InHand(s)
    BY <2>0, <2>1, <2>2
    DEF InQueue, InTasks, InHand, TypeInvariant, WriterTypes, NoPacket, ReliableKinds
  <2>4. owed \subseteq Stamps
    BY <2>0 DEF TypeInvariant, HistoryTypes
  <2> QED BY <2>0, <2>1, <2>3, <2>4 DEF Owing, Carried
<1> QED BY <1>1, DeliveryHolds, PTL
=============================================================================
