--------------------------- MODULE MCGameObjects ---------------------------
(***************************************************************************)
(* GameObjects on small instances, and the ids the code takes apart.       *)
(***************************************************************************)
EXTENDS GameObjects, VanjectIds, TLC

Resizings == Permutations(Sizes)

Id(station, world_, type) ==
  [station |-> station, world |-> world_, type |-> type, counter |-> 1, static |-> FALSE]

Item(station, world_) == {Id(station, world_, DEVICE), Id(station, world_, STUFF)}

\* A sensor, which any player in its world may update.
Sensor(world_) == [Id(0, world_, 12) EXCEPT !.static = TRUE]

\* An item in one world and a vanger in the other, created as the game's clients
\* do, and what any client may create: a global object and a sensor.
MCDisciplined == Item(1, 1) \cup {Id(1, 2, VANGER)}
MCIds == MCDisciplined \cup {Id(1, 1, GLOBAL), Sensor(1)}

\* Ids of a station: types of all classes, and the limits of the classes and of
\* the fields.
Packings(stations) ==
  [station : stations, world : {1, 15},
   type : {GLOBAL, DEVICE, 7, 8, VANGER, 10, STUFF, 63},
   counter : {65535}, static : BOOLEAN]

(***************************************************************************)
(* The shifts and masks of vanject.rs read from every id what was packed   *)
(* into it, also when the sign bit is set, and its predicates are those    *)
(* the handlers mean: whether an object belongs to a player, to a station  *)
(* or to the whole game depends on its type alone.                         *)
(***************************************************************************)
ReadsAsPacked(f) ==
  LET i == Encoded(f)
  IN  /\ i \in Int32
      /\ Decoded(i) = f
      /\ IsPlayersVanject(i) <=> IsPlayers(f)
      /\ IsPrivateVanject(i) <=> IsPrivate(f)
      /\ IsNonGlobalVanject(i) <=> IsNonGlobal(f)

StationsRead ==
  [s \in BindId \cup {31} |-> \A f \in Packings({s}) : ReadsAsPacked(f)]

IdsReadAsPacked == \A s \in present \cup {31} : StationsRead[s]
=============================================================================
