----------------------------- MODULE VanjectIds -----------------------------
(***************************************************************************)
(* The 32 bits of an object id (vanject.rs).  From the highest bit down:   *)
(* static, station (5 bits), world (4), type (6), counter (16).  The code  *)
(* keeps an id as an i32, so that the ids of static objects are negative,  *)
(* and takes it apart with shifts and masks.                               *)
(***************************************************************************)
EXTENDS Integers

MinInt32 == -2147483647 - 1
MaxInt32 == 2147483647
Int32    == MinInt32 .. MaxInt32

\* i >> n of a signed number, which rounds towards minus infinity, and the
\* mask of the n lowest bits.
Shifted(i, n) == i \div 2 ^ n
Lowest(i, n)  == i % 2 ^ n

GetStation(i) == Lowest(Shifted(i, 26), 5)
GetWorld(i)   == Lowest(Shifted(i, 22), 4)
TypeId(i)     == Lowest(Shifted(i, 16), 6)
Counter(i)    == Lowest(i, 16)
IsNonStatic(i) == i >= 0

IsNonGlobalVanject(i) == TypeId(i) # 0
IsPrivateVanject(i)   == TypeId(i) \in 8 .. 10

\* Mutation: the mask 7 << 16 + 3 read as (7 << 16) + 3.
IsPlayersMaskAdded(i) == Lowest(Shifted(i, 16), 3) = 0 /\ Lowest(i, 2) = 0

\* is_players_vanject: + binds tighter than <<, the mask is 7 << 19, the
\* upper half of the type.
IsPlayersVanject(i) == Lowest(Shifted(i, 16 + 3), 3) = 0

\* DecodedVanjectId::new, the fields.
Decoded(i) ==
  [station |-> GetStation(i), world |-> GetWorld(i), type |-> TypeId(i),
   counter |-> Counter(i), static |-> ~IsNonStatic(i)]

\* How the clients put an id together.
Encoded(f) ==
  (IF f.static THEN MinInt32 ELSE 0)
    + f.station * 2 ^ 26 + f.world * 2 ^ 22 + f.type * 2 ^ 16 + f.counter
=============================================================================
