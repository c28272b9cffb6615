---------------------------- MODULE GameObjects ----------------------------
(***************************************************************************)
(* The objects ("vanjects") of one game and the worlds its players are in. *)
(*                                                                         *)
(* The main loop runs one handler at a time to its end, for packets of the *)
(* game's clients in any order, so every handler is one action, taken on   *)
(* behalf of the seat (bind id) of its sender.  A packet that a handler    *)
(* answers with an error changes nothing and is left out, except where it  *)
(* fails half way.                                                         *)
(*                                                                         *)
(* A seat's Client may not be on the server's list yet, or not any more:   *)
(* the server sends to listed Clients only, keeps the seat and the world   *)
(* of a player whose connection is lost, and sends nothing again to one    *)
(* that restores it.                                                       *)
(*                                                                         *)
(* told is a history of what the packets the handlers emit say: for each   *)
(* seat, the owners of the global objects, by what was sent to it since it *)
(* joined the game and by its own requests, and the owners of the objects  *)
(* of the world it is in, since it entered it.  Where the client has not   *)
(* learnt of the last change, because its Client was not listed or nothing *)
(* was sent, it is Missed.  What is sent to a listed Client is the subject *)
(* of Outbox.                                                              *)
(*                                                                         *)
(* Of an object's data only its owner and the id its body links to are     *)
(* kept; status, position and body of a player play no part here, except   *)
(* that a VANGER whose body cannot be parsed is announced to nobody.       *)
(***************************************************************************)
EXTENDS Naturals, FiniteSets

CONSTANTS
  MaxPlayerId,   \* seats of the game
  WorldId,       \* worlds the clients name
  Sizes,         \* sizes of a world the clients name
  ObjectIds,     \* the object ids the clients use
  None,          \* no world, no link
  Disciplined,   \* the ids under which clients create their own objects,
                 \* where they are, and items linked to their other form
  Bodies,        \* whether the body of a created VANGER parses
  Unsteady,      \* the seats whose Clients may be off the list
  Missed         \* what a client has not learnt

BindId == 1 .. MaxPlayerId

(***************************************************************************)
(* The fields packed into an id (vanject.rs).  Types: 0 GLOBAL, 1 DEVICE,  *)
(* 2 SLOT, 3 SHELL, 9 VANGER, 11 STUFF, 12, 14 and 15 static objects.      *)
(***************************************************************************)
IdFields ==
  [station : 0 .. 31, world : WorldId, type : 0 .. 63, counter : Nat,
   static : BOOLEAN]

GLOBAL == 0
DEVICE == 1
SLOT   == 2
SHELL  == 3
VANGER == 9
STUFF  == 11

IsNonGlobal(id) == id.type # GLOBAL
IsPlayers(id)   == id.type < 8
IsPrivate(id)   == id.type \in 8 .. 10
IsItem(id)      == id.type \in {STUFF, DEVICE}

\* The other form of an item: what lies in a world and what is in a trunk.
ArePaired(i, j) ==
  /\ IsItem(i) /\ IsItem(j) /\ i.type # j.type
  /\ i.station = j.station /\ i.world = j.world /\ i.counter = j.counter

\* The id of an item in the form of a type.
Form(i, type) == [i EXCEPT !.type = type]

\* The types whose ids have the static bit (mod NID): sensors, TNT, terrain.
StaticTypes == {12, 14, 15}

ASSUME SeatsAssumption == MaxPlayerId \in Nat \ {0}
ASSUME WorldsAssumption == None \notin WorldId /\ 0 \notin Sizes

\* Of an item both forms are among the ids.
ASSUME IdsAssumption ==
  /\ ObjectIds \subseteq IdFields
  /\ None \notin ObjectIds
  /\ \A id \in ObjectIds : IsItem(id) =>
       Form(id, DEVICE) \in ObjectIds /\ Form(id, STUFF) \in ObjectIds

\* The discipline is about both forms of an item, and includes that only the
\* static types have the static bit.
ASSUME ClientsAssumption ==
  /\ Disciplined \subseteq ObjectIds
  /\ \A id \in Disciplined :
       /\ id.static => id.type \in StaticTypes
       /\ \A j \in ObjectIds : ArePaired(id, j) => j \in Disciplined
  /\ Bodies \subseteq BOOLEAN
  /\ Unsteady \subseteq BindId

ASSUME MissedAssumption == Missed \notin Nat

Links == ObjectIds \cup {None}

Object == [owner : 0 .. MaxPlayerId, link : Links]

\* There is no object under this id.
Absent == [owner |-> 0, link |-> None]

VARIABLES
  present,   \* Game.players
  conn,      \* of each seat's Client: "adding" before it is listed, then
             \* "listed", and "lost" from the Disconnected on
  world,     \* Player.world
  size,      \* Game.worlds: the size of a world, 0 while there is none
  objects,   \* Game.vanjects
  told       \* history: the owners each seat was told of, 0 for none

vars == <<present, conn, world, size, objects, told>>

TypeOK ==
  /\ present \in SUBSET BindId
  /\ conn \in [BindId -> {"adding", "listed", "lost"}]
  /\ world \in [BindId -> WorldId \cup {None}]
  /\ size \in [WorldId -> Sizes \cup {0}]
  /\ objects \in [ObjectIds -> Object]
  /\ told \in [BindId -> [ObjectIds -> 0 .. MaxPlayerId \cup {Missed}]]

NobodyTold == [id \in ObjectIds |-> 0]

Init ==
  /\ present = {}
  /\ conn = [b \in BindId |-> "lost"]
  /\ world = [b \in BindId |-> None]
  /\ size = [w \in WorldId |-> 0]
  /\ objects = [id \in ObjectIds |-> Absent]
  /\ told = [b \in BindId |-> NobodyTold]

Exists(id) == objects[id].owner # 0
OwnedBy(b, id) == objects[id].owner = b

-----------------------------------------------------------------------------
(* Who learns of a change: those notify_game and notify_world address it   *)
(* to, as far as their Clients are listed, and the sender, which is left   *)
(* out of these but made the change itself.                                *)

\* A packet from b can come.
Talks(b) == b \in present /\ conn[b] # "lost"

Listed == {c \in present : conn[c] = "listed"}

InWorld(w) == {c \in present : world[c] = w}

Audience(id) == IF IsNonGlobal(id) THEN InWorld(id.world) ELSE present

\* What is told once the seats in `meant`, those of them that are reached, learn
\* the owner of the ids in `ids`.
ToldAfter(meant, reached, ids, owner) ==
  [c \in BindId |->
     IF c \in meant
     THEN [id \in ObjectIds |->
             IF id \notin ids THEN told[c][id]
             ELSE IF c \in reached THEN owner ELSE Missed]
     ELSE told[c]]

\* b changes the owner of an object; the others in question are told.
Announce(b, id, owner) ==
  told' = ToldAfter(Audience(id), Listed \cup {b}, {id}, owner)

\* The same, and nothing is sent.
AnnounceToNobody(b, id, owner) ==
  told' = ToldAfter(Audience(id), {b}, {id}, owner)

\* notify_player and the Response of a handler to b.
Sent(b, owner) == IF b \in Listed THEN owner ELSE Missed

OnlyGlobals(known) == [id \in ObjectIds |-> IF IsNonGlobal(id) THEN 0 ELSE known[id]]

-----------------------------------------------------------------------------
(* Joining the game and its worlds, and leaving them. *)

\* A Client is listed with Event::Add, before or after its first packets.
Listing(b) == IF b \in Unsteady THEN {"adding", "listed"} ELSE {"listed"}

\* attach_to_game: the lowest free seat, and a replay of the global objects.
Join(b) ==
  /\ b \notin present
  /\ \A a \in BindId : a < b => a \in present
  /\ present' = present \cup {b}
  /\ \E s \in Listing(b) :
       /\ conn' = [conn EXCEPT ![b] = s]
       /\ told' = [told EXCEPT ![b] =
                     [id \in ObjectIds |->
                        IF IsNonGlobal(id) \/ ~Exists(id) THEN 0
                        ELSE IF s = "listed" THEN objects[id].owner ELSE Missed]]
  /\ UNCHANGED <<world, size, objects>>

\* Event::Add of b's Client is taken.
Added(b) ==
  /\ b \in present
  /\ conn[b] = "adding"
  /\ conn' = [conn EXCEPT ![b] = "listed"]
  /\ UNCHANGED <<present, world, size, objects, told>>

\* The Disconnected of b's Client is taken: the player keeps its seat.
Lost(b) ==
  /\ b \in Unsteady
  /\ Talks(b)
  /\ conn' = [conn EXCEPT ![b] = "lost"]
  /\ UNCHANGED <<present, world, size, objects, told>>

\* restore_connection: the client is back on its seat, with another connection;
\* of what it missed nothing is sent.
Restore(b) ==
  /\ b \in present \cap Unsteady
  /\ \E s \in Listing(b) : conn' = [conn EXCEPT ![b] = s]
  /\ UNCHANGED <<present, world, size, objects, told>>

\* Mutation: whatever carries the leaver's station goes, picked up or not.
DeletedByStation(b) ==
  {id \in ObjectIds : Exists(id) /\ IsNonGlobal(id) /\ ~id.static /\ id.station = b}

\* Mutation: b's private objects stay.
DeletedFromTrunk(b) ==
  {id \in ObjectIds : IsNonGlobal(id) /\ IsPlayers(id) /\ OwnedBy(b, id)}

\* should_delete_on_leave_world: what b carries, and b's private objects.
DeletedOnLeave(b) ==
  {id \in ObjectIds :
     /\ Exists(id)
     /\ \/ IsNonGlobal(id) /\ IsPlayers(id) /\ OwnedBy(b, id)
        \/ id.station = b /\ IsPrivate(id)}

\* leave_world of b, which is in one: the objects that remain, and what the
\* rest of the game is told.
ObjectsLeft(b) ==
  [id \in ObjectIds |-> IF id \in DeletedOnLeave(b) THEN Absent ELSE objects[id]]

ToldLeft(b) ==
  [ToldAfter(present \ {b}, Listed, DeletedOnLeave(b), 0) EXCEPT ![b] = OnlyGlobals(@)]

\* Mutation: "no world" as the world 0 that PLAYERS_WORLD reports for it.
OutsideIsZero == 0

\* Player.world of a player that is in none.
Outside == None

LeaveWorld(b) ==
  /\ Talks(b)
  /\ world[b] # None
  /\ objects' = ObjectsLeft(b)
  /\ told' = ToldLeft(b)
  /\ world' = [world EXCEPT ![b] = Outside]
  /\ UNCHANGED <<present, conn, size>>

\* close_socket, asked for or after the time-to-live: a player that is in no
\* world leaves no world.  The game goes with its last player.
CloseSocket(b) ==
  /\ b \in present
  /\ present' = present \ {b}
  /\ conn' = [conn EXCEPT ![b] = "lost"]
  /\ world' = [world EXCEPT ![b] = Outside]
  /\ \/ /\ present = {b}
        /\ size' = [w \in WorldId |-> 0]
        /\ objects' = [id \in ObjectIds |-> Absent]
        /\ told' = [c \in BindId |-> NobodyTold]
     \/ /\ present # {b}
        /\ world[b] = None
        /\ told' = [told EXCEPT ![b] = NobodyTold]
        /\ UNCHANGED <<size, objects>>
     \/ /\ present # {b}
        /\ world[b] # None
        /\ objects' = ObjectsLeft(b)
        /\ told' = [ToldLeft(b) EXCEPT ![b] = NobodyTold]
        /\ UNCHANGED size

\* Mutation: the newcomer is sent only what lies about, as an older replay did.
SnapshotOfStuff(b, w, objs) ==
  {id \in ObjectIds : objs[id].owner # 0 /\ id.world = w /\ id.type = STUFF}

\* should_include_in_world_snapshot
Snapshot(b, w, objs) ==
  {id \in ObjectIds :
     /\ objs[id].owner # 0
     /\ id.world = w
     /\ \/ id.type = STUFF
        \/ id.type \in {VANGER, SLOT, DEVICE, SHELL} /\ objs[id].owner # b}

\* What b is told when it enters w: a snapshot, and the globals it knew.
ToldOnEntry(b, w, objs) ==
  [id \in ObjectIds |->
     IF id \in Snapshot(b, w, objs) THEN Sent(b, objs[id].owner)
     ELSE IF IsNonGlobal(id) THEN 0 ELSE told[b][id]]

\* set_world: out of the world b is in, if it is another one, and only then
\* does a wrong size turn out to be an error.
SetWorld(b, w, s) ==
  LET leaves   == world[b] \notin {None, w}
      objsNow  == IF leaves THEN ObjectsLeft(b) ELSE objects
      toldNow  == IF leaves THEN ToldLeft(b) ELSE told
  IN  /\ Talks(b)
      /\ objects' = objsNow
      /\ UNCHANGED <<present, conn>>
      /\ \/ /\ size[w] \in {0, s}
            /\ size' = [size EXCEPT ![w] = s]
            /\ world' = [world EXCEPT ![b] = w]
            /\ told' = [toldNow EXCEPT ![b] = ToldOnEntry(b, w, objsNow)]
         \/ /\ size[w] \notin {0, s}
            /\ world' = [world EXCEPT ![b] = IF leaves THEN Outside ELSE @]
            /\ told' = toldNow
            /\ UNCHANGED size

-----------------------------------------------------------------------------
(* Objects. *)

\* What a client may put in the body of an object as the id it is linked to.
LinkChoices(id) ==
  IF ~IsItem(id) THEN {None}
  ELSE IF id \in Disciplined THEN {j \in ObjectIds : ArePaired(id, j)}
  ELSE Links

\* An object of its own has the station of the client in its id.
MayCreate(b, id) ==
  id \in Disciplined => /\ id.station = b
                        /\ IsNonGlobal(id) => id.world = world[b]

\* Mutation: nobody looks for the other form of the item.
HasPairedNever(id, link) == FALSE

\* item_has_paired_vanject, for an item whose body links to `link`.
HasPaired(id, link) ==
  IsItem(id) /\ link # None /\ IsItem(link) /\ Exists(link)

\* create_object of an id that exists: the object is sent to b once more.
CreateExisting(b, id) ==
  /\ Talks(b)
  /\ MayCreate(b, id)
  /\ Exists(id)
  /\ b \in Audience(id)
  /\ told' = [told EXCEPT ![b][id] = Sent(b, objects[id].owner)]
  /\ UNCHANGED <<present, conn, world, size, objects>>

\* create_object: the creator owns it, in whatever world the id names.
CreateNew(b, id, link, parses) ==
  /\ Talks(b)
  /\ MayCreate(b, id)
  /\ ~Exists(id)
  /\ ~HasPaired(id, link)
  /\ objects' = [objects EXCEPT ![id] = [owner |-> b, link |-> link]]
  /\ IF id.type = VANGER /\ ~parses
     THEN AnnounceToNobody(b, id, b)
     ELSE Announce(b, id, b)
  /\ UNCHANGED <<present, conn, world, size>>

\* Mutation: anyone in the world may update an object and owns it then.
MayUpdateInWorld(b, id) ==
  Exists(id) /\ (IsNonGlobal(id) => world[b] = id.world)

\* update_object accepts a non-global object from a player in its world, who
\* owns it unless it is static.
MayUpdate(b, id) ==
  /\ Exists(id)
  /\ IsNonGlobal(id) => world[b] = id.world
  /\ IsNonGlobal(id) /\ ~id.static => OwnedBy(b, id)

\* Vanject::update_from_slice: of what the sender gives as the object's new
\* state the link is left here.
Updated(object, link) == [object EXCEPT !.link = link]

UpdateObject(b, id, link) ==
  /\ Talks(b)
  /\ MayUpdate(b, id)
  /\ objects' = [objects EXCEPT ![id] = [Updated(@, link) EXCEPT !.owner = b]]
  /\ Announce(b, id, b)
  /\ UNCHANGED <<present, conn, world, size>>

\* delete_object: the owner's, where an item has not the mark of a transfer.  An
\* object that is missing is announced deleted as well.
DeleteObject(b, id) ==
  /\ Talks(b)
  /\ Exists(id) => OwnedBy(b, id)
  /\ objects' = [objects EXCEPT ![id] = Absent]
  /\ Announce(b, id, 0)
  /\ UNCHANGED <<present, conn, world, size>>

MayDrop(b, old) == old.type = DEVICE => OwnedBy(b, old)

\* item_transfer: a pickup (STUFF to DEVICE) or a drop (DEVICE to STUFF).  The
\* new form's body must link to the old one; both are in b's world.
ItemTransfer(b, old, new) ==
  /\ Talks(b)
  /\ ArePaired(old, new)
  /\ world[b] = old.world
  /\ ~Exists(new)
  /\ Exists(old)
  /\ MayDrop(b, old)
  /\ objects' = [objects EXCEPT ![old] = Absent, ![new] = [owner |-> b, link |-> old]]
  /\ told' = [c \in BindId |->
                CASE c \notin InWorld(new.world) -> told[c]
                  [] c \in InWorld(new.world) \cap (Listed \cup {b}) ->
                       [told[c] EXCEPT ![old] = 0, ![new] = b]
                  [] OTHER -> [told[c] EXCEPT ![old] = Missed, ![new] = Missed]]
  /\ UNCHANGED <<present, conn, world, size>>

Next ==
  \E b \in BindId :
    \/ Join(b)
    \/ Added(b)
    \/ Lost(b)
    \/ Restore(b)
    \/ LeaveWorld(b)
    \/ CloseSocket(b)
    \/ \E w \in WorldId, s \in Sizes : SetWorld(b, w, s)
    \/ \E id \in ObjectIds :
         \/ CreateExisting(b, id)
         \/ \E link \in LinkChoices(id), parses \in Bodies : CreateNew(b, id, link, parses)
         \/ \E link \in LinkChoices(id) : UpdateObject(b, id, link)
         \/ DeleteObject(b, id)
         \/ \E new \in ObjectIds : ItemTransfer(b, id, new)

Spec == Init /\ [][Next]_vars

-----------------------------------------------------------------------------
(* Properties. *)

\* What players carry, and their private objects, belong to a player who is in
\* the world they are in: whoever takes over the seat of a departed player, or
\* comes back to a world, inherits nothing (leave_world.rs, close_socket.rs and
\* set_world.rs on all their ways out of a world).  That holds of what clients
\* create as their own: leave_world finds private objects by their station.
BelongingsWithOwner ==
  \A id \in Disciplined :
    Exists(id) /\ IsNonGlobal(id) /\ (IsPlayers(id) \/ IsPrivate(id)) =>
      /\ objects[id].owner \in present
      /\ world[objects[id].owner] = id.world

\* A player who leaves a world takes along no item of another player, not even
\* one it made itself (the comment in should_delete_on_leave_world).
LeaversTakeTheirOwn ==
  [][\A b \in present, id \in ObjectIds :
       /\ world[b] # None /\ world'[b] # world[b] /\ present' # {}
       /\ Exists(id) /\ IsItem(id) /\ ~OwnedBy(b, id)
       => objects'[id] = objects[id]]_vars

\* An object that is neither global nor static never changes hands under its
\* id: not by updates, nor by being deleted and created again in one step.
OwnersKeep ==
  [][\A id \in ObjectIds :
       IsNonGlobal(id) /\ ~id.static /\ Exists(id) /\ objects'[id].owner # 0 =>
         objects'[id].owner = objects[id].owner]_vars

(***************************************************************************)
(* What a player was told is right, whether its Client is listed or not:   *)
(* in a world it knows the vangers, equipment, shells and stuff, and who   *)
(* owns them, and knows of nothing that is gone; and every player of the   *)
(* game knows the global objects.  Left out is only what it has Missed     *)
(* since: a change sent while its Client was off the list, or the creation *)
(* of a vanger without a proper body (snapshot and replay followed by the  *)
(* notifications of all handlers, over any order of losses and returns).   *)
(***************************************************************************)
KnowsGlobals(b) ==
  \A id \in ObjectIds :
    ~IsNonGlobal(id) => told[b][id] \in {Missed, objects[id].owner}

KnowsWorld(b) ==
  \A id \in ObjectIds : IsNonGlobal(id) /\ id.world = world[b] =>
    /\ told[b][id] \notin {Missed, 0} => Exists(id)
    /\ Exists(id) /\ ~OwnedBy(b, id) /\ id.type \in {VANGER, SLOT, DEVICE, SHELL, STUFF}
       => told[b][id] \in {Missed, objects[id].owner}

Excused(b, id) == b \in Unsteady \/ (FALSE \in Bodies /\ id.type = VANGER)

MissesLittle(b) == \A id \in ObjectIds : told[b][id] = Missed => Excused(b, id)

ViewsAgree == \A b \in present : KnowsGlobals(b) /\ KnowsWorld(b) /\ MissesLittle(b)

\* Where each item is: the abstract custody it has here.
Custody ==
  [i \in {id \in Disciplined : id.type = DEVICE} |->
     CASE Exists(i) /\ Exists(Form(i, STUFF)) -> <<"twice", 0>>
       [] Exists(i) /\ ~Exists(Form(i, STUFF)) -> <<"carried", objects[i].owner>>
       [] ~Exists(i) /\ Exists(Form(i, STUFF)) ->
            <<"lying", objects[Form(i, STUFF)].owner>>
       [] OTHER -> <<"nowhere", 0>>]

Abstract == INSTANCE ItemCustody
  WITH Items <- {id \in Disciplined : id.type = DEVICE}, Holder <- BindId, custody <- Custody

\* An item is in one place at a time, and leaves an inventory only as its
\* holder's, whoever races for it (create_object.rs and item_transfer.rs), if
\* those who create its forms link them to each other.
ItemsInCustody == Abstract!Spec
=============================================================================
