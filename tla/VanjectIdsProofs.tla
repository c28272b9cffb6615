-------------------------- MODULE VanjectIdsProofs --------------------------
(***************************************************************************)
(* The 32 bits of an object id give back every value of every field.       *)
(***************************************************************************)
EXTENDS MCGameObjects, GameObjectsProofs

LEMMA Powers ==
  /\ 2 ^ 2 = 4 /\ 2 ^ 3 = 8 /\ 2 ^ 4 = 16 /\ 2 ^ 5 = 32 /\ 2 ^ 6 = 64
  /\ 2 ^ 16 = 65536 /\ 2 ^ 19 = 524288 /\ 2 ^ 22 = 4194304 /\ 2 ^ 26 = 67108864
BY SMT

\* Cutting off the lowest digit of a number, for the sizes of digits in use.
LEMMA Digits ==
  ASSUME NEW a \in Int, NEW b \in Nat
  PROVE  /\ b < 65536 => (65536 * a + b) \div 65536 = a /\ (65536 * a + b) % 65536 = b
         /\ b < 524288 => (524288 * a + b) \div 524288 = a
         /\ b < 4194304 => (4194304 * a + b) \div 4194304 = a
         /\ b < 67108864 => (67108864 * a + b) \div 67108864 = a
         /\ b < 64 => (64 * a + b) % 64 = b
         /\ b < 32 => (32 * a + b) % 32 = b
         /\ b < 16 => (16 * a + b) % 16 = b
         /\ b < 8 => (8 * a + b) % 8 = b
BY SMT

\* The fields of an id at their full width.
Below(n) == {i \in Nat : i < n}

Fields ==
  [station : Below(32), world : Below(16), type : Below(64), counter : Below(65536),
   static : BOOLEAN]

LEMMA FieldBounds ==
  ASSUME NEW f \in Fields
  PROVE  /\ f.station \in Nat /\ f.station < 32
         /\ f.world \in Nat /\ f.world < 16
         /\ f.type \in Nat /\ f.type < 64
         /\ f.counter \in Nat /\ f.counter < 65536
         /\ f.static \in BOOLEAN
<1>1. /\ f.station \in Below(32) /\ f.world \in Below(16) /\ f.type \in Below(64)
      /\ f.counter \in Below(65536) /\ f.static \in BOOLEAN
  BY DEF Fields
<1> QED BY <1>1 DEF Below

\* The sign is a sixth bit of the station.
LEMMA Layout ==
  ASSUME NEW f \in Fields
  PROVE  \E sign \in {-1, 0} :
           /\ sign = 0 <=> ~f.static
           /\ Encoded(f) = 67108864 * (32 * sign + f.station) + 4194304 * f.world
                             + 65536 * f.type + f.counter
<1>1. CASE f.static
  BY <1>1, FieldBounds, Powers, SMT DEF Encoded, MinInt32
<1>2. CASE ~f.static
  BY <1>2, FieldBounds, Powers, SMT DEF Encoded, MinInt32
<1> QED BY <1>1, <1>2

LEMMA Octal ==
  ASSUME NEW t \in Nat, t < 64
  PROVE  \E h \in Nat, l \in Nat : t = 8 * h + l /\ l < 8 /\ h < 8
<1>1. PICK h \in Nat : h = t \div 8
  BY SMT
<1>2. 8 * h <= t /\ t < 8 * h + 8
  BY <1>1, SMT
<1>3. PICK l \in Nat : l = t - 8 * h
  BY <1>2, SMT
<1>4. t = 8 * h + l /\ l < 8 /\ h < 8
  BY <1>2, <1>3, SMT
<1> QED BY <1>4

LEMMA InInt32 ==
  ASSUME NEW i \in Int, MinInt32 <= i, i <= MaxInt32
  PROVE  i \in Int32
<1>1. MinInt32 \in Int /\ MaxInt32 \in Int
  BY SMT DEF MinInt32, MaxInt32
<1> QED BY <1>1, SMT DEF Int32

LEMMA BitsReadBack ==
  ASSUME NEW f \in Fields
  PROVE  LET i == Encoded(f)
         IN  /\ i \in Int32
             /\ GetStation(i) = f.station /\ GetWorld(i) = f.world
             /\ TypeId(i) = f.type /\ Counter(i) = f.counter
             /\ IsNonStatic(i) <=> ~f.static
             /\ IsPlayersVanject(i) <=> f.type < 8
<1> DEFINE i == Encoded(f)
<1>1. PICK sign \in {-1, 0} :
        /\ sign = 0 <=> ~f.static
        /\ i = 67108864 * (32 * sign + f.station) + 4194304 * f.world
                 + 65536 * f.type + f.counter
  BY Layout
<1> DEFINE s == f.station
           w == f.world
           t == f.type
           c == f.counter
<1>2. /\ s \in Nat /\ s < 32 /\ w \in Nat /\ w < 16 /\ t \in Nat /\ t < 64
      /\ c \in Nat /\ c < 65536 /\ sign \in Int /\ i \in Int
  BY <1>1, FieldBounds
<1>3. i = 67108864 * (32 * sign + s) + 4194304 * w + 65536 * t + c
  BY <1>1
<1> HIDE DEF s, w, t, c, i
<1>4. i \in Int32 /\ (i >= 0 <=> ~f.static)
  <2>1. MinInt32 <= i /\ i <= MaxInt32 /\ (i >= 0 <=> ~f.static)
    BY <1>1, <1>2, <1>3, SMT DEF MinInt32, MaxInt32
  <2>2. i \in Int32
    BY <1>2, <2>1, InInt32
  <2> QED BY <2>1, <2>2
<1>5. GetStation(i) = s
  <2>1. i \div 67108864 = 32 * sign + s
    BY <1>2, <1>3, Digits
  <2>2. (32 * sign + s) % 32 = s
    BY <1>2, Digits
  <2> QED BY <2>1, <2>2, Powers DEF GetStation, Lowest, Shifted
<1>6. GetWorld(i) = w
  <2>1. i \div 4194304 = 16 * (32 * sign + s) + w
    BY <1>2, <1>3, Digits
  <2>2. (16 * (32 * sign + s) + w) % 16 = w
    BY <1>2, Digits
  <2> QED BY <2>1, <2>2, Powers DEF GetWorld, Lowest, Shifted
<1>7. TypeId(i) = t
  <2>1. i \div 65536 = 64 * (16 * (32 * sign + s) + w) + t
    BY <1>2, <1>3, Digits
  <2>2. (64 * (16 * (32 * sign + s) + w) + t) % 64 = t
    BY <1>2, Digits
  <2> QED BY <2>1, <2>2, Powers DEF TypeId, Lowest, Shifted
<1>8. Counter(i) = c
  <2>1. i % 65536 = c
    BY <1>2, <1>3, Digits
  <2> QED BY <2>1, Powers DEF Counter, Lowest
<1>9. IsPlayersVanject(i) <=> t < 8
  <2>1. PICK h \in Nat, l \in Nat : t = 8 * h + l /\ l < 8 /\ h < 8
    BY <1>2, Octal
  <2>2. i \div 524288 = 8 * (16 * (32 * sign + s) + w) + h
    BY <1>2, <1>3, <2>1, Digits
  <2>3. (8 * (16 * (32 * sign + s) + w) + h) % 8 = h
    BY <1>2, <2>1, Digits
  <2>4. h = 0 <=> t < 8
    BY <1>2, <2>1
  <2>5. 16 + 3 = 19
    OBVIOUS
  <2> QED BY <2>2, <2>3, <2>4, <2>5, Powers DEF IsPlayersVanject, Lowest, Shifted
<1> QED BY <1>4, <1>5, <1>6, <1>7, <1>8, <1>9 DEF s, w, t, c, i, IsNonStatic

\* The shifts and masks of vanject.rs give back every field of every id that
\* 32 bits hold, and its predicates class it as the handlers' guards mean.
THEOREM EveryIdReadsBack == \A f \in Fields : ReadsAsPacked(f)
<1> SUFFICES ASSUME NEW f \in Fields PROVE ReadsAsPacked(f)
  OBVIOUS
<1> DEFINE i == Encoded(f)
<1>1. /\ i \in Int32
      /\ GetStation(i) = f.station /\ GetWorld(i) = f.world
      /\ TypeId(i) = f.type /\ Counter(i) = f.counter
      /\ IsNonStatic(i) <=> ~f.static
      /\ IsPlayersVanject(i) <=> f.type < 8
  BY BitsReadBack
<1> HIDE DEF i
<1>2. Decoded(i) = f
  <2>1. f = [station |-> f.station, world |-> f.world, type |-> f.type,
             counter |-> f.counter, static |-> f.static]
    BY DEF Fields
  <2>2. (~IsNonStatic(i)) = f.static
    BY <1>1, FieldBounds DEF IsNonStatic
  <2> QED BY <1>1, <2>1, <2>2 DEF Decoded
<1>3. /\ IsPrivateVanject(i) <=> IsPrivate(f)
      /\ IsNonGlobalVanject(i) <=> IsNonGlobal(f)
  BY <1>1 DEF IsPrivateVanject, IsPrivate, IsNonGlobalVanject, IsNonGlobal, GLOBAL
<1> QED BY <1>1, <1>2, <1>3 DEF ReadsAsPacked, IsPlayers, i

\* In particular those of all seats a game of the code can have, and of the
\* last station there is (MAX_PLAYER_ID is 30, a station has five bits).
THEOREM IdsUnpacked == ASSUME MaxPlayerId <= 31 PROVE Spec => []IdsReadAsPacked
<1>1. ASSUME NEW s \in BindId \cup {31}, NEW f \in Packings({s})
      PROVE  ReadsAsPacked(f)
  <2>1. /\ f.station = s /\ f.world \in {1, 15}
        /\ f.type \in {GLOBAL, DEVICE, 7, 8, VANGER, 10, STUFF, 63}
        /\ f.counter \in {65535} /\ f.static \in BOOLEAN
    BY DEF Packings
  <2>2. f.station \in Below(32)
    <3>1. \A b \in BindId : b \in Nat /\ b < 32
      BY SeatsAssumption, SMT DEF BindId
    <3> QED BY <2>1, <3>1, SMT DEF Below
  <2>3. f.world \in Below(16) /\ f.counter \in Below(65536)
    BY <2>1, SMT DEF Below
  <2>4. f.type \in Below(64)
    BY <2>1, SMT DEF Below, GLOBAL, DEVICE, VANGER, STUFF
  <2>5. f \in Fields
    BY <2>1, <2>2, <2>3, <2>4 DEF Packings, Fields
  <2> QED BY <2>5, EveryIdReadsBack
<1>2. TypeOK => IdsReadAsPacked
  <2> SUFFICES ASSUME TypeOK, NEW s \in present \cup {31} PROVE StationsRead[s]
    BY DEF IdsReadAsPacked
  <2>1. s \in BindId \cup {31}
    BY DEF TypeOK
  <2>2. StationsRead[s] = \A f \in Packings({s}) : ReadsAsPacked(f)
    BY <2>1 DEF StationsRead
  <2> QED BY <1>1, <2>1, <2>2
<1> QED BY <1>2, TypeCorrect, PTL
=============================================================================
