-------------------------- MODULE GameObjectsProofs --------------------------
(***************************************************************************)
(* Theorems about GameObjects, for any number of seats, any worlds and any *)
(* set of object ids.                                                      *)
(***************************************************************************)
EXTENDS GameObjects, TLAPS

USE SeatsAssumption, WorldsAssumption, MissedAssumption

-----------------------------------------------------------------------------
(* What the operators on histories and objects return. *)

\* What a client was told of one object's owner.
Known == 0 .. MaxPlayerId \cup {Missed}

Histories == [BindId -> [ObjectIds -> Known]]

LEMMA ToldAfterType ==
  ASSUME TypeOK, NEW meant, NEW reached, NEW ids, NEW owner \in 0 .. MaxPlayerId
  PROVE  ToldAfter(meant, reached, ids, owner) \in Histories
BY DEF ToldAfter, TypeOK, Histories, Known

LEMMA OnlyGlobalsType ==
  ASSUME NEW known \in [ObjectIds -> Known]
  PROVE  OnlyGlobals(known) \in [ObjectIds -> Known]
BY DEF OnlyGlobals, Known

LEMMA ToldLeftType ==
  ASSUME TypeOK, NEW b \in BindId
  PROVE  ToldLeft(b) \in Histories
<1>1. ToldAfter(present \ {b}, Listed, DeletedOnLeave(b), 0) \in Histories
  BY ToldAfterType
<1> QED BY <1>1, OnlyGlobalsType DEF ToldLeft, Histories

LEMMA ObjectsLeftType ==
  ASSUME TypeOK, NEW b \in BindId
  PROVE  ObjectsLeft(b) \in [ObjectIds -> Object]
BY DEF ObjectsLeft, TypeOK, Absent, Object, Links

LEMMA ToldOnEntryType ==
  ASSUME TypeOK, NEW b \in BindId, NEW w, NEW objs \in [ObjectIds -> Object]
  PROVE  ToldOnEntry(b, w, objs) \in [ObjectIds -> Known]
BY DEF ToldOnEntry, Sent, TypeOK, Object, Known

LEMMA LinkChoicesType ==
  ASSUME NEW id \in ObjectIds
  PROVE  LinkChoices(id) \subseteq Links
BY DEF LinkChoices, Links

\* The two forms of an item are different ids.
LEMMA PairDiffers ==
  ASSUME NEW i \in ObjectIds, NEW j \in ObjectIds, ArePaired(i, j)
  PROVE  /\ i # j
         /\ \/ i.type = STUFF /\ j.type = DEVICE
            \/ i.type = DEVICE /\ j.type = STUFF
BY DEF ArePaired, IsItem, STUFF, DEVICE

-----------------------------------------------------------------------------
(* Type correctness. *)

LEMMA InitType == Init => TypeOK
BY DEF Init, TypeOK, NobodyTold, Absent, Object, Links

LEMMA SetWorldType ==
  ASSUME TypeOK, NEW b \in BindId, NEW w \in WorldId, NEW s \in Sizes, SetWorld(b, w, s)
  PROVE  TypeOK'
<1> DEFINE leaves  == world[b] \notin {None, w}
           objsNow == IF leaves THEN ObjectsLeft(b) ELSE objects
           toldNow == IF leaves THEN ToldLeft(b) ELSE told
<1>1. objsNow \in [ObjectIds -> Object]
  BY ObjectsLeftType DEF TypeOK
<1>2. toldNow \in Histories
  BY ToldLeftType DEF TypeOK, Histories, Known
<1>3. ToldOnEntry(b, w, objsNow) \in [ObjectIds -> Known]
  BY <1>1, ToldOnEntryType
<1>4. objects' = objsNow /\ UNCHANGED <<present, conn>>
  BY DEF SetWorld
<1>5. CASE /\ size' = [size EXCEPT ![w] = s]
           /\ world' = [world EXCEPT ![b] = w]
           /\ told' = [toldNow EXCEPT ![b] = ToldOnEntry(b, w, objsNow)]
  <2> HIDE DEF objsNow, toldNow
  <2> QED BY <1>1, <1>2, <1>3, <1>4, <1>5 DEF TypeOK, Histories, Known
<1>6. CASE /\ world' = [world EXCEPT ![b] = IF leaves THEN Outside ELSE @]
           /\ told' = toldNow
           /\ UNCHANGED size
  <2> HIDE DEF objsNow, toldNow
  <2> QED BY <1>1, <1>2, <1>4, <1>6 DEF TypeOK, Histories, Known, Outside
<1> QED BY <1>5, <1>6 DEF SetWorld

LEMMA ItemTransferType ==
  ASSUME TypeOK, NEW b \in BindId, NEW old \in ObjectIds, NEW new \in ObjectIds,
         ItemTransfer(b, old, new)
  PROVE  TypeOK'
<1>1. [owner |-> b, link |-> old] \in Object /\ Absent \in Object
  BY DEF Object, Links, Absent, BindId
<1>2. objects' \in [ObjectIds -> Object]
  BY <1>1 DEF ItemTransfer, TypeOK
<1>3. told' \in Histories
  <2>0. 0 \in Known /\ b \in Known /\ Missed \in Known
    BY DEF Known, BindId
  <2>1. ASSUME NEW c \in BindId
        PROVE  /\ told[c] \in [ObjectIds -> Known]
               /\ [told[c] EXCEPT ![old] = 0, ![new] = b] \in [ObjectIds -> Known]
               /\ [told[c] EXCEPT ![old] = Missed, ![new] = Missed] \in [ObjectIds -> Known]
    <3>1. told[c] \in [ObjectIds -> Known]
      BY DEF TypeOK, Known
    <3> QED BY <2>0, <3>1
  <2> QED BY <2>1 DEF ItemTransfer, Histories
<1> QED BY <1>2, <1>3 DEF ItemTransfer, TypeOK, Histories, Known

\* One handler keeps every variable in its type.
LEMMA NextType == TypeOK /\ [Next]_vars => TypeOK'
<1> SUFFICES ASSUME TypeOK, [Next]_vars PROVE TypeOK'
  OBVIOUS
<1>0. BindId \subseteq 0 .. MaxPlayerId /\ 0 \in 0 .. MaxPlayerId
  BY DEF BindId
<1>a. told \in Histories
  BY DEF TypeOK, Histories, Known
<1>b. Absent \in Object /\ NobodyTold \in [ObjectIds -> Known]
  BY DEF Absent, Object, Links, NobodyTold, Known
<1>c. \A b : Listing(b) \subseteq {"adding", "listed", "lost"}
  BY DEF Listing
<1>1. ASSUME NEW b \in BindId, Join(b) PROVE TypeOK'
  <2>1. PICK s \in Listing(b) :
          /\ conn' = [conn EXCEPT ![b] = s]
          /\ told' = [told EXCEPT ![b] =
                        [id \in ObjectIds |->
                           IF IsNonGlobal(id) \/ ~Exists(id) THEN 0
                           ELSE IF s = "listed" THEN objects[id].owner ELSE Missed]]
    BY <1>1 DEF Join
  <2>2. [id \in ObjectIds |->
           IF IsNonGlobal(id) \/ ~Exists(id) THEN 0
           ELSE IF s = "listed" THEN objects[id].owner ELSE Missed] \in [ObjectIds -> Known]
    BY DEF TypeOK, Object, Known
  <2>3. told' \in Histories
    BY <1>a, <2>1, <2>2 DEF Histories
  <2>4. conn' \in [BindId -> {"adding", "listed", "lost"}]
    BY <1>c, <2>1 DEF TypeOK
  <2> QED BY <1>1, <2>3, <2>4 DEF Join, TypeOK, Histories, Known
<1>2. ASSUME NEW b \in BindId, LeaveWorld(b) PROVE TypeOK'
  BY <1>2, ObjectsLeftType, ToldLeftType DEF LeaveWorld, TypeOK, Outside, Histories, Known
<1>3. ASSUME NEW b \in BindId, CloseSocket(b) PROVE TypeOK'
  <2>1. /\ present' \in SUBSET BindId /\ world' \in [BindId -> WorldId \cup {None}]
        /\ conn' \in [BindId -> {"adding", "listed", "lost"}]
    BY <1>3 DEF CloseSocket, TypeOK, Outside
  <2>2. size' \in [WorldId -> Sizes \cup {0}]
    BY <1>3 DEF CloseSocket, TypeOK
  <2>3. objects' \in [ObjectIds -> Object]
    BY <1>3, <1>b, ObjectsLeftType DEF CloseSocket, TypeOK
  <2>4. told' \in Histories
    BY <1>3, <1>a, <1>b, ToldLeftType DEF CloseSocket, Histories
  <2> QED BY <2>1, <2>2, <2>3, <2>4 DEF TypeOK, Histories, Known
<1>4. ASSUME NEW b \in BindId, NEW w \in WorldId, NEW s \in Sizes, SetWorld(b, w, s)
      PROVE  TypeOK'
  BY <1>4, SetWorldType
<1>5. ASSUME NEW b \in BindId, NEW id \in ObjectIds, CreateExisting(b, id)
      PROVE  TypeOK'
  <2>1. objects[id].owner \in 0 .. MaxPlayerId
    BY DEF TypeOK, Object
  <2>2. Sent(b, objects[id].owner) \in Known
    BY <2>1 DEF Sent, Known
  <2>3. told' \in Histories
    BY <1>a, <1>5, <2>2 DEF CreateExisting, Histories
  <2> QED BY <1>5, <2>3 DEF CreateExisting, TypeOK, Histories, Known
<1>6. ASSUME NEW b \in BindId, NEW id \in ObjectIds, NEW link \in LinkChoices(id),
             NEW parses, CreateNew(b, id, link, parses)
      PROVE  TypeOK'
  <2>1. [owner |-> b, link |-> link] \in Object
    BY <1>0, LinkChoicesType DEF Object
  <2>2. told' \in Histories
    <3>1. PICK reached : told' = ToldAfter(Audience(id), reached, {id}, b)
      BY <1>6 DEF CreateNew, Announce, AnnounceToNobody
    <3> QED BY <1>0, <3>1, ToldAfterType
  <2> QED BY <1>6, <2>1, <2>2 DEF CreateNew, TypeOK, Histories, Known
<1>7. ASSUME NEW b \in BindId, NEW id \in ObjectIds, NEW link \in LinkChoices(id),
             UpdateObject(b, id, link)
      PROVE  TypeOK'
  <2>1. [Updated(objects[id], link) EXCEPT !.owner = b] \in Object
    <3>1. objects[id] \in Object /\ link \in Links /\ b \in 0 .. MaxPlayerId
      BY <1>0, LinkChoicesType DEF TypeOK
    <3> QED BY <3>1 DEF Updated, Object
  <2>2. told' \in Histories
    BY <1>7, <1>0, ToldAfterType DEF UpdateObject, Announce
  <2> QED BY <1>7, <2>1, <2>2 DEF UpdateObject, TypeOK, Histories, Known
<1>8. ASSUME NEW b \in BindId, NEW id \in ObjectIds, DeleteObject(b, id)
      PROVE  TypeOK'
  <2>1. told' \in Histories
    BY <1>8, <1>0, ToldAfterType DEF DeleteObject, Announce
  <2> QED BY <1>8, <1>b, <2>1 DEF DeleteObject, TypeOK, Histories, Known
<1>9. ASSUME NEW b \in BindId, NEW id \in ObjectIds, NEW new \in ObjectIds,
             ItemTransfer(b, id, new)
      PROVE  TypeOK'
  BY <1>9, ItemTransferType
<1>10. ASSUME NEW b \in BindId, Added(b) \/ Lost(b) \/ Restore(b) PROVE TypeOK'
  BY <1>10, <1>c DEF Added, Lost, Restore, TypeOK
<1>11. CASE UNCHANGED vars
  BY <1>11 DEF vars, TypeOK
<1> QED BY <1>1, <1>2, <1>3, <1>4, <1>5, <1>6, <1>7, <1>8, <1>9, <1>10, <1>11 DEF Next

\* Every variable of a game keeps its type.
THEOREM TypeCorrect == Spec => []TypeOK
BY InitType, NextType, PTL DEF Spec

-----------------------------------------------------------------------------
(* Who owns what. *)

LEMMA ObjectsLeftEach ==
  ASSUME NEW b, NEW id \in ObjectIds
  PROVE  ObjectsLeft(b)[id] = IF id \in DeletedOnLeave(b) THEN Absent ELSE objects[id]
BY DEF ObjectsLeft

\* What a departure or a change of world makes of the objects.
LEMMA DepartureObjects ==
  ASSUME NEW b \in BindId,
         \/ LeaveWorld(b)
         \/ CloseSocket(b)
         \/ \E w \in WorldId, s \in Sizes : SetWorld(b, w, s)
  PROVE  \/ objects' = objects
         \/ objects' = [id \in ObjectIds |-> Absent] /\ present' = {}
         \/ objects' = ObjectsLeft(b)
BY DEF LeaveWorld, CloseSocket, SetWorld

\* Only joining, leaving a world, entering one and closing the socket change
\* where a player is, and only where the player itself is.
LEMMA WhereaboutsChange ==
  ASSUME Next
  PROVE  \/ UNCHANGED <<present, world>>
         \/ \E b \in BindId : Join(b) \/ LeaveWorld(b) \/ CloseSocket(b)
         \/ \E b \in BindId, w \in WorldId, s \in Sizes : SetWorld(b, w, s)
BY DEF Next, Added, Lost, Restore, CreateExisting, CreateNew, UpdateObject, DeleteObject,
       ItemTransfer

\* An object that is neither global nor static never changes hands.
THEOREM UpdatesKeepOwners == Spec => OwnersKeep
<1>1. ASSUME TypeOK, [Next]_vars, NEW id \in ObjectIds,
             IsNonGlobal(id), ~id.static, Exists(id), objects'[id].owner # 0
      PROVE  objects'[id].owner = objects[id].owner
  <2>0. objects \in [ObjectIds -> Object] /\ Absent.owner = 0
    BY <1>1 DEF TypeOK, Absent
  <2>1. ASSUME NEW b \in BindId,
               \/ LeaveWorld(b) \/ CloseSocket(b)
               \/ \E w \in WorldId, s \in Sizes : SetWorld(b, w, s)
        PROVE  objects'[id].owner = objects[id].owner
    BY <1>1, <2>0, <2>1, DepartureObjects, ObjectsLeftEach
  <2>2. ASSUME NEW b \in BindId, NEW i \in ObjectIds, NEW link, NEW parses,
               CreateNew(b, i, link, parses)
        PROVE  objects'[id].owner = objects[id].owner
    BY <1>1, <2>0, <2>2 DEF CreateNew, Exists
  <2>3. ASSUME NEW b \in BindId, NEW i \in ObjectIds, NEW link, UpdateObject(b, i, link)
        PROVE  objects'[id].owner = objects[id].owner
    <3>1. CASE i = id
      <4>1. OwnedBy(b, id)
        BY <1>1, <2>3, <3>1 DEF UpdateObject, MayUpdate
      <4>2. objects'[id].owner = b
        BY <2>0, <2>3, <3>1 DEF UpdateObject, Updated, Object
      <4> QED BY <4>1, <4>2 DEF OwnedBy
    <3>2. CASE i # id
      BY <2>0, <2>3, <3>2 DEF UpdateObject
    <3> QED BY <3>1, <3>2
  <2>4. ASSUME NEW b \in BindId, NEW i \in ObjectIds, DeleteObject(b, i)
        PROVE  objects'[id].owner = objects[id].owner
    BY <1>1, <2>0, <2>4 DEF DeleteObject
  <2>5. ASSUME NEW b \in BindId, NEW old \in ObjectIds, NEW new \in ObjectIds,
               ItemTransfer(b, old, new)
        PROVE  objects'[id].owner = objects[id].owner
    <3>1. id # new
      BY <1>1, <2>5 DEF ItemTransfer
    <3>2. id # old
      BY <1>1, <2>0, <2>5, <3>1 DEF ItemTransfer
    <3> QED BY <2>0, <2>5, <3>1, <3>2 DEF ItemTransfer
  <2>6. ASSUME NEW b \in BindId,
               \/ Join(b) \/ Added(b) \/ Lost(b) \/ Restore(b)
               \/ \E i \in ObjectIds : CreateExisting(b, i)
        PROVE  objects' = objects
    BY <2>6 DEF Join, Added, Lost, Restore, CreateExisting
  <2> QED BY <1>1, <2>1, <2>2, <2>3, <2>4, <2>5, <2>6 DEF Next, vars
<1>2. TypeOK /\ [Next]_vars =>
        [\A id \in ObjectIds :
           IsNonGlobal(id) /\ ~id.static /\ Exists(id) /\ objects'[id].owner # 0 =>
             objects'[id].owner = objects[id].owner]_vars
  BY <1>1
<1> QED BY <1>2, TypeCorrect, PTL DEF Spec, OwnersKeep

\* Leaving a world takes along no item of another player.
THEOREM LeaversTakeNothingElse == Spec => LeaversTakeTheirOwn
<1>1. ASSUME TypeOK, [Next]_vars, NEW b \in present, NEW id \in ObjectIds,
             world[b] # None, world'[b] # world[b], present' # {},
             Exists(id), IsItem(id), ~OwnedBy(b, id)
      PROVE  objects'[id] = objects[id]
  <2>1. id \notin DeletedOnLeave(b)
    BY <1>1 DEF DeletedOnLeave, IsItem, IsPrivate, OwnedBy, STUFF, DEVICE
  <2>2. PICK a \in BindId :
          \/ LeaveWorld(a) \/ CloseSocket(a)
          \/ \E w \in WorldId, s \in Sizes : SetWorld(a, w, s)
    BY <1>1, WhereaboutsChange DEF vars, Join
  <2>3. a = b
    BY <1>1, <2>2 DEF LeaveWorld, CloseSocket, SetWorld, TypeOK
  <2> QED BY <1>1, <2>1, <2>2, <2>3, DepartureObjects, ObjectsLeftEach
<1>2. TypeOK /\ [Next]_vars =>
        [\A b \in present, id \in ObjectIds :
           /\ world[b] # None /\ world'[b] # world[b] /\ present' # {}
           /\ Exists(id) /\ IsItem(id) /\ ~OwnedBy(b, id)
           => objects'[id] = objects[id]]_vars
  BY <1>1
<1> QED BY <1>2, TypeCorrect, PTL DEF Spec, LeaversTakeTheirOwn

-----------------------------------------------------------------------------
(* What clients with discipline own is where they are. *)

\* leave_world deletes a private object by the station in its id, and all
\* others by their owner: the two have to be the same.
PrivateAtStation ==
  \A id \in Disciplined : Exists(id) /\ IsPrivate(id) => objects[id].owner = id.station

Belongs(id) == IsNonGlobal(id) /\ (IsPlayers(id) \/ IsPrivate(id))

BelongingsInvariant == TypeOK /\ BelongingsWithOwner /\ PrivateAtStation

\* A departure leaves nobody with the belongings of the one who left.
LEMMA DepartureTakesBelongings ==
  ASSUME TypeOK, PrivateAtStation, NEW b \in BindId, NEW id \in Disciplined,
         ObjectsLeft(b)[id].owner # 0
  PROVE  /\ ObjectsLeft(b)[id] = objects[id]
         /\ Exists(id)
         /\ Belongs(id) => objects[id].owner # b
<1>1. id \notin DeletedOnLeave(b) /\ ObjectsLeft(b)[id] = objects[id] /\ Exists(id)
  BY ObjectsLeftEach, ClientsAssumption DEF Absent, Exists
<1> QED BY <1>1, ClientsAssumption DEF DeletedOnLeave, OwnedBy, PrivateAtStation, Belongs, Exists

LEMMA BelongingsStay ==
  ASSUME BelongingsInvariant, NEW id \in Disciplined, Exists(id), Belongs(id)
  PROVE  /\ objects[id].owner \in present
         /\ world[objects[id].owner] = id.world
         /\ world[objects[id].owner] # None
BY IdsAssumption, ClientsAssumption
DEF BelongingsInvariant, BelongingsWithOwner, Belongs, IdFields, IsPlayers, IsPrivate

LEMMA BelongingsDepart ==
  ASSUME BelongingsInvariant, NEW b \in BindId,
         \/ LeaveWorld(b)
         \/ CloseSocket(b)
         \/ \E w \in WorldId, s \in Sizes : SetWorld(b, w, s)
  PROVE  BelongingsWithOwner' /\ PrivateAtStation'
<1>0. TypeOK /\ BelongingsWithOwner /\ PrivateAtStation
  BY DEF BelongingsInvariant
<1>1. CASE objects' = [id \in ObjectIds |-> Absent]
  BY <1>1, ClientsAssumption DEF BelongingsWithOwner, PrivateAtStation, Exists, Absent
<1>2. /\ present \ {b} \subseteq present' \/ objects' = [id \in ObjectIds |-> Absent]
      /\ \A c \in BindId \ {b} : world'[c] = world[c]
  BY <1>0 DEF LeaveWorld, CloseSocket, SetWorld, TypeOK
<1>3. CASE objects' = ObjectsLeft(b)
  <2>1. ASSUME NEW id \in Disciplined, Exists(id)'
        PROVE  /\ objects'[id] = objects[id] /\ Exists(id)
               /\ Belongs(id) => objects[id].owner # b
    BY <1>0, <1>3, <2>1, DepartureTakesBelongings DEF Exists
  <2>2. PrivateAtStation'
    BY <1>0, <2>1 DEF PrivateAtStation
  <2>3. ASSUME NEW id \in Disciplined, Exists(id)', Belongs(id)
        PROVE  objects'[id].owner \in present' /\ world'[objects'[id].owner] = id.world
    <3>1. id \in ObjectIds /\ Exists(id) /\ objects'[id] = objects[id] /\ objects[id].owner # b
      BY <2>1, <2>3, ClientsAssumption
    <3>2. objects[id].owner \in present \ {b} /\ world[objects[id].owner] = id.world
      BY <2>3, <3>1, BelongingsStay
    <3>3. objects'[id].owner # 0
      BY <2>3 DEF Exists
    <3>4. objects' # [i \in ObjectIds |-> Absent]
      BY <3>1, <3>3 DEF Absent
    <3> QED BY <1>0, <1>2, <3>1, <3>2, <3>4 DEF TypeOK
  <2>4. BelongingsWithOwner'
    BY <2>3 DEF BelongingsWithOwner, Belongs
  <2> QED BY <2>2, <2>4
<1>4. CASE objects' = objects
  <2>1. PrivateAtStation'
    BY <1>0, <1>4 DEF PrivateAtStation, Exists
  <2>2. CASE UNCHANGED <<present, world>>
    BY <1>0, <1>4, <2>1, <2>2 DEF BelongingsWithOwner, Exists
  <2>3. CASE world[b] = None
    <3>1. ASSUME NEW id \in Disciplined, Exists(id), Belongs(id)
          PROVE  objects'[id].owner \in present' /\ world'[objects'[id].owner] = id.world
      <4>1. id \in ObjectIds /\ objects[id].owner # 0
        BY <3>1, ClientsAssumption DEF Exists
      <4>2. /\ objects[id].owner \in present \ {b}
            /\ world[objects[id].owner] = id.world
        BY <2>3, <3>1, BelongingsStay
      <4>3. objects' # [i \in ObjectIds |-> Absent]
        BY <1>4, <4>1 DEF Absent
      <4> QED BY <1>0, <1>2, <1>4, <4>2, <4>3 DEF TypeOK
    <3> QED BY <1>4, <2>1, <3>1 DEF BelongingsWithOwner, Belongs, Exists
  <2>4. CASE \E w \in WorldId, s \in Sizes : SetWorld(b, w, s) /\ world[b] = w
    BY <1>0, <2>2, <2>4 DEF SetWorld, TypeOK
  <2> QED BY <1>1, <1>3, <1>4, <2>2, <2>3, <2>4 DEF LeaveWorld, CloseSocket, SetWorld
<1> QED BY <1>1, <1>3, <1>4, DepartureObjects

LEMMA BelongingsStep ==
  ASSUME BelongingsInvariant, [Next]_vars
  PROVE  BelongingsInvariant'
<1>0. TypeOK /\ BelongingsWithOwner /\ PrivateAtStation
  BY DEF BelongingsInvariant
<1>a. TypeOK'
  BY <1>0, NextType
<1>b. /\ objects \in [ObjectIds -> Object] /\ Absent.owner = 0
      /\ Disciplined \subseteq ObjectIds
  BY <1>0, ClientsAssumption DEF TypeOK, Absent
<1> DEFINE Kept(id) == id \in Disciplined /\ Belongs(id) /\ Exists(id)' =>
                         /\ objects'[id].owner \in present
                         /\ world[objects'[id].owner] = id.world
                         /\ IsPrivate(id) => objects'[id].owner = id.station
<1>c. ASSUME \A id \in Disciplined : Kept(id), UNCHANGED <<present, world>>
      PROVE  BelongingsWithOwner' /\ PrivateAtStation'
  BY <1>c DEF BelongingsWithOwner, PrivateAtStation, Belongs, IsPrivate, IsNonGlobal, GLOBAL
<1>d. ASSUME NEW id \in ObjectIds, objects'[id].owner = objects[id].owner
      PROVE  Kept(id)
  BY <1>0, <1>d DEF BelongingsWithOwner, PrivateAtStation, Belongs, Exists
<1>1. ASSUME NEW b \in BindId, Join(b) PROVE BelongingsWithOwner' /\ PrivateAtStation'
  BY <1>0, <1>1 DEF Join, BelongingsWithOwner, PrivateAtStation, Exists
<1>2. ASSUME NEW b \in BindId,
             \/ LeaveWorld(b) \/ CloseSocket(b)
             \/ \E w \in WorldId, s \in Sizes : SetWorld(b, w, s)
      PROVE  BelongingsWithOwner' /\ PrivateAtStation'
  BY <1>2, BelongingsDepart
<1>3. ASSUME NEW b \in BindId, NEW i \in ObjectIds, NEW link, NEW parses,
             CreateNew(b, i, link, parses)
      PROVE  BelongingsWithOwner' /\ PrivateAtStation'
  <2>1. Kept(i)
    BY <1>b, <1>3 DEF CreateNew, MayCreate, Belongs, Talks
  <2>2. ASSUME NEW id \in ObjectIds \ {i} PROVE Kept(id)
    <3>1. objects'[id].owner = objects[id].owner
      BY <1>b, <1>3 DEF CreateNew
    <3> HIDE DEF Kept
    <3> QED BY <3>1, <1>d
  <2> HIDE DEF Kept
  <2> QED BY <1>3, <1>b, <1>c, <2>1, <2>2 DEF CreateNew
<1>4. ASSUME NEW b \in BindId, NEW i \in ObjectIds, NEW link, UpdateObject(b, i, link)
      PROVE  BelongingsWithOwner' /\ PrivateAtStation'
  <2>1. objects'[i].owner = b
    BY <1>b, <1>4 DEF UpdateObject, Updated, Object
  <2>2. i \in Disciplined /\ IsPrivate(i) => ~i.static
    BY ClientsAssumption DEF IsPrivate, StaticTypes
  <2>3. i \in Disciplined /\ IsPrivate(i) => objects[i].owner = b /\ Exists(i)
    BY <1>4, <2>2 DEF UpdateObject, MayUpdate, OwnedBy, IsPrivate, IsNonGlobal, GLOBAL
  <2>4. Kept(i)
    BY <1>0, <1>4, <2>1, <2>3 DEF UpdateObject, MayUpdate, Belongs, PrivateAtStation, Talks
  <2>5. ASSUME NEW id \in ObjectIds \ {i} PROVE Kept(id)
    <3>1. objects'[id].owner = objects[id].owner
      BY <1>b, <1>4 DEF UpdateObject
    <3> HIDE DEF Kept
    <3> QED BY <3>1, <1>d
  <2> HIDE DEF Kept
  <2> QED BY <1>4, <1>b, <1>c, <2>4, <2>5 DEF UpdateObject
<1>5. ASSUME NEW b \in BindId, NEW i \in ObjectIds, DeleteObject(b, i)
      PROVE  BelongingsWithOwner' /\ PrivateAtStation'
  <2>1. Kept(i)
    BY <1>b, <1>5 DEF DeleteObject, Exists
  <2>2. ASSUME NEW id \in ObjectIds \ {i} PROVE Kept(id)
    <3>1. objects'[id].owner = objects[id].owner
      BY <1>b, <1>5 DEF DeleteObject
    <3> HIDE DEF Kept
    <3> QED BY <3>1, <1>d
  <2> HIDE DEF Kept
  <2> QED BY <1>5, <1>b, <1>c, <2>1, <2>2 DEF DeleteObject
<1>6. ASSUME NEW b \in BindId, NEW old \in ObjectIds, NEW new \in ObjectIds,
             ItemTransfer(b, old, new)
      PROVE  BelongingsWithOwner' /\ PrivateAtStation'
  <2>0. old # new /\ new.world = old.world /\ ~IsPrivate(new)
    BY <1>6, PairDiffers DEF ItemTransfer, ArePaired, IsPrivate, STUFF, DEVICE
  <2>1. Kept(new)
    BY <1>b, <1>6, <2>0 DEF ItemTransfer, Talks
  <2>2. Kept(old)
    BY <1>b, <1>6, <2>0 DEF ItemTransfer, Exists
  <2>3. ASSUME NEW id \in ObjectIds \ {old, new} PROVE Kept(id)
    <3>1. objects'[id].owner = objects[id].owner
      BY <1>b, <1>6 DEF ItemTransfer
    <3> HIDE DEF Kept
    <3> QED BY <3>1, <1>d
  <2> HIDE DEF Kept
  <2> QED BY <1>6, <1>b, <1>c, <2>1, <2>2, <2>3 DEF ItemTransfer
<1>7. ASSUME UNCHANGED <<present, world, objects>>
      PROVE  BelongingsWithOwner' /\ PrivateAtStation'
  <2>1. \A id \in Disciplined : Kept(id)
    BY <1>0, <1>7 DEF BelongingsWithOwner, PrivateAtStation, Belongs, Exists
  <2> QED BY <1>7, <1>c, <2>1
<1>8. ASSUME NEW b \in BindId, NEW i \in ObjectIds, CreateExisting(b, i)
      PROVE  BelongingsWithOwner' /\ PrivateAtStation'
  BY <1>7, <1>8 DEF CreateExisting
<1>9. ASSUME NEW b \in BindId, Added(b) \/ Lost(b) \/ Restore(b)
      PROVE  BelongingsWithOwner' /\ PrivateAtStation'
  BY <1>7, <1>9 DEF Added, Lost, Restore
<1>10. BelongingsWithOwner' /\ PrivateAtStation'
  BY <1>1, <1>2, <1>3, <1>4, <1>5, <1>6, <1>7, <1>8, <1>9 DEF Next, vars
<1> QED BY <1>a, <1>10 DEF BelongingsInvariant

\* What a player carries and its private objects are in the world their owner is
\* in, if they were created as that owner's and where it was, whatever the rest of
\* the objects and of the clients do.
THEOREM BelongingsFollowOwners == Spec => []BelongingsWithOwner
<1>1. Init => BelongingsInvariant
  BY InitType, ClientsAssumption
  DEF Init, BelongingsInvariant, BelongingsWithOwner, PrivateAtStation, Exists, Absent
<1>2. BelongingsInvariant /\ [Next]_vars => BelongingsInvariant'
  BY BelongingsStep
<1>3. BelongingsInvariant => BelongingsWithOwner
  BY DEF BelongingsInvariant
<1> QED BY <1>1, <1>2, <1>3, PTL DEF Spec

-----------------------------------------------------------------------------
(* What players were told of objects is how they are. *)

\* ViewsAgree, of one seat and one object.
AgreesOn(c, id) ==
  /\ told[c][id] = Missed => Excused(c, id)
  /\ ~IsNonGlobal(id) => told[c][id] \in {Missed, objects[id].owner}
  /\ IsNonGlobal(id) /\ id.world = world[c] =>
       /\ told[c][id] \notin {Missed, 0} => Exists(id)
       /\ Exists(id) /\ ~OwnedBy(c, id) /\ id.type \in {VANGER, SLOT, DEVICE, SHELL, STUFF}
          => told[c][id] \in {Missed, objects[id].owner}

LEMMA ViewsAgreeEach ==
  ViewsAgree <=> \A c \in present, id \in ObjectIds : AgreesOn(c, id)
BY DEF ViewsAgree, KnowsGlobals, KnowsWorld, MissesLittle, AgreesOn

\* Whoever joins starts outside of all worlds.
NobodyElsewhere == \A b \in BindId \ present : world[b] = None

\* Only the Clients of unsteady seats are off the list.
SteadyListed == \A b \in present \ Unsteady : b \in Listed

ViewsInvariant == TypeOK /\ ViewsAgree /\ NobodyElsewhere /\ SteadyListed

\* A step does not mislead c about id: it leaves the object's owner as it was
\* and says nothing, or says who the owner is, or is missed for a reason, or c is
\* in another world.
Informed(c, id) ==
  \/ objects'[id].owner = objects[id].owner /\ told'[c][id] = told[c][id]
  \/ told'[c][id] = objects'[id].owner
  \/ told'[c][id] = Missed /\ Excused(c, id)
  \/ IsNonGlobal(id) /\ world[c] # id.world /\ told'[c][id] = told[c][id]

LEMMA InformedAgrees ==
  ASSUME ViewsInvariant, TypeOK', NEW c \in present, NEW id \in ObjectIds,
         world'[c] = world[c], Informed(c, id)
  PROVE  AgreesOn(c, id)'
<1>1. AgreesOn(c, id)
  BY ViewsAgreeEach DEF ViewsInvariant
<1>2. objects'[id].owner # Missed
  BY DEF TypeOK, Object
<1> QED BY <1>1, <1>2 DEF AgreesOn, Informed, Exists, OwnedBy, Excused

\* A handler that moves nobody.
LEMMA InformedStep ==
  ASSUME ViewsInvariant, TypeOK', SteadyListed', UNCHANGED <<present, world>>,
         \A c \in present, id \in ObjectIds : Informed(c, id)
  PROVE  ViewsInvariant'
<1>1. (\A c \in present, id \in ObjectIds : AgreesOn(c, id))'
  BY InformedAgrees
<1>2. ViewsAgree'
  BY <1>1, ViewsAgreeEach, PTL
<1> QED BY <1>2 DEF ViewsInvariant, NobodyElsewhere

LEMMA SteadyStep ==
  ASSUME ViewsInvariant, UNCHANGED <<present, conn>>
  PROVE  SteadyListed'
BY DEF ViewsInvariant, SteadyListed, Listed

\* One object gets another owner, or none, and its audience is told, but for
\* those who are excused.
LEMMA AnnouncedStep ==
  ASSUME ViewsInvariant, TypeOK', UNCHANGED <<present, conn, world>>,
         NEW id \in ObjectIds, NEW reached,
         \A j \in ObjectIds \ {id} : objects'[j] = objects[j],
         told' = ToldAfter(Audience(id), reached, {id}, objects'[id].owner),
         \A c \in Audience(id) \ reached : Excused(c, id)
  PROVE  ViewsInvariant'
<1>1. ASSUME NEW c \in present, NEW j \in ObjectIds PROVE Informed(c, j)
  <2>1. c \in BindId
    BY DEF ViewsInvariant, TypeOK
  <2>2. told'[c][j] = IF c \in Audience(id) /\ j = id
                      THEN IF c \in reached THEN objects'[id].owner ELSE Missed
                      ELSE told[c][j]
    BY <2>1 DEF ToldAfter, ViewsInvariant, TypeOK
  <2>3. CASE j # id
    BY <2>2, <2>3 DEF Informed
  <2>4. CASE j = id /\ c \in Audience(id)
    BY <2>2, <2>4 DEF Informed
  <2>5. CASE j = id /\ c \notin Audience(id)
    BY <2>2, <2>5 DEF Informed, Audience, InWorld
  <2> QED BY <2>3, <2>4, <2>5
<1> QED BY <1>1, SteadyStep, InformedStep

\* The sender and everyone on the list is reached.
LEMMA OthersExcused ==
  ASSUME ViewsInvariant, NEW b, NEW c \in present, c \notin Listed \cup {b}, NEW id
  PROVE  Excused(c, id)
BY DEF ViewsInvariant, SteadyListed, Excused

LEMMA AnnouncedByStep ==
  ASSUME ViewsInvariant, TypeOK', UNCHANGED <<present, conn, world>>,
         NEW id \in ObjectIds, NEW b, NEW owner, objects'[id].owner = owner,
         \A j \in ObjectIds \ {id} : objects'[j] = objects[j], Announce(b, id, owner)
  PROVE  ViewsInvariant'
<1>1. \A c \in Audience(id) \ (Listed \cup {b}) : Excused(c, id)
  BY OthersExcused DEF Audience, InWorld
<1>2. told' = ToldAfter(Audience(id), Listed \cup {b}, {id}, objects'[id].owner)
  BY DEF Announce
<1> QED BY <1>1, <1>2, AnnouncedStep

\* What a seat is told when b departs, and b itself.
LEMMA ToldLeftEach ==
  ASSUME TypeOK, NEW b \in BindId, NEW c \in BindId, NEW id \in ObjectIds
  PROVE  ToldLeft(b)[c][id] =
           IF c = b THEN IF IsNonGlobal(id) THEN 0 ELSE told[b][id]
           ELSE IF c \in present /\ id \in DeletedOnLeave(b)
                THEN IF c \in Listed THEN 0 ELSE Missed
                ELSE told[c][id]
BY DEF ToldLeft, ToldAfter, OnlyGlobals, TypeOK

LEMMA GlobalsOutliveDepartures ==
  ASSUME NEW b, NEW id \in DeletedOnLeave(b)
  PROVE  IsNonGlobal(id)
BY DEF DeletedOnLeave, IsPrivate, IsNonGlobal, GLOBAL

\* The others, when b departs.
LEMMA DepartureInforms ==
  ASSUME ViewsInvariant, NEW b \in BindId, NEW c \in present, c # b, NEW id \in ObjectIds,
         objects' = ObjectsLeft(b), told'[c] = ToldLeft(b)[c]
  PROVE  Informed(c, id)
<1>1. c \in BindId /\ TypeOK
  BY DEF ViewsInvariant, TypeOK
<1>2. c \in Listed \/ Excused(c, id)
  BY DEF ViewsInvariant, SteadyListed, Excused
<1> QED BY <1>1, <1>2, ToldLeftEach, ObjectsLeftEach DEF Informed, Absent

\* b is out of all worlds, and knows the global objects as before.
LEMMA LeaverAgrees ==
  ASSUME ViewsInvariant, NEW b \in present, NEW id \in ObjectIds,
         objects' = ObjectsLeft(b), told'[b] = ToldLeft(b)[b], world'[b] = None
  PROVE  AgreesOn(b, id)'
<1>1. b \in BindId /\ TypeOK /\ id.world # None
  BY IdsAssumption DEF ViewsInvariant, TypeOK, IdFields
<1>2. AgreesOn(b, id)
  BY ViewsAgreeEach DEF ViewsInvariant
<1>3. CASE IsNonGlobal(id)
  <2>1. told'[b][id] = 0
    BY <1>1, <1>3, ToldLeftEach
  <2> QED BY <1>1, <1>3, <2>1 DEF AgreesOn
<1>4. CASE ~IsNonGlobal(id)
  <2>1. objects'[id] = objects[id] /\ told'[b][id] = told[b][id]
    BY <1>1, <1>4, ToldLeftEach, ObjectsLeftEach, GlobalsOutliveDepartures
  <2> QED BY <1>2, <1>4, <2>1 DEF AgreesOn, Excused
<1> QED BY <1>3, <1>4

LEMMA ViewsAfter ==
  ASSUME TypeOK', NobodyElsewhere', SteadyListed',
         (\A c \in present, id \in ObjectIds : AgreesOn(c, id))'
  PROVE  ViewsInvariant'
BY ViewsAgreeEach, PTL DEF ViewsInvariant

LEMMA JoinViews ==
  ASSUME ViewsInvariant, TypeOK', NEW b \in BindId, Join(b)
  PROVE  ViewsInvariant'
<1>1. TypeOK /\ world[b] = None
  BY DEF ViewsInvariant, NobodyElsewhere, Join
<1>2. ASSUME NEW c \in present, NEW id \in ObjectIds PROVE AgreesOn(c, id)'
  <2>1. Informed(c, id) /\ world' = world
    BY <1>1 DEF Join, Informed, TypeOK
  <2> QED BY <2>1, InformedAgrees
<1>3. PICK s \in Listing(b) :
        /\ conn' = [conn EXCEPT ![b] = s]
        /\ told' = [told EXCEPT ![b] =
                      [id \in ObjectIds |->
                         IF IsNonGlobal(id) \/ ~Exists(id) THEN 0
                         ELSE IF s = "listed" THEN objects[id].owner ELSE Missed]]
  BY DEF Join
<1>4. s = "listed" \/ b \in Unsteady
  BY DEF Listing
<1>5. ASSUME NEW id \in ObjectIds PROVE AgreesOn(b, id)'
  <2>1. id.world # None /\ world'[b] = None /\ objects' = objects
    BY <1>1, IdsAssumption DEF IdFields, Join
  <2>2. told'[b][id] = IF IsNonGlobal(id) \/ ~Exists(id) THEN 0
                       ELSE IF s = "listed" THEN objects[id].owner ELSE Missed
    BY <1>1, <1>3 DEF TypeOK
  <2>3. objects[id].owner # Missed
    BY <1>1 DEF TypeOK, Object
  <2>4. CASE IsNonGlobal(id) \/ ~Exists(id)
    BY <2>1, <2>2, <2>4 DEF AgreesOn, Exists
  <2>5. CASE ~IsNonGlobal(id) /\ Exists(id)
    BY <1>4, <2>1, <2>2, <2>3, <2>5 DEF AgreesOn, Excused
  <2> QED BY <2>4, <2>5
<1>6. NobodyElsewhere'
  BY DEF ViewsInvariant, NobodyElsewhere, Join
<1>7. SteadyListed'
  BY <1>1, <1>3, <1>4 DEF ViewsInvariant, SteadyListed, Listed, Join, TypeOK
<1>8. (\A c \in present, id \in ObjectIds : AgreesOn(c, id))'
  BY <1>2, <1>5 DEF Join
<1> QED BY <1>6, <1>7, <1>8, ViewsAfter

LEMMA LeaveWorldViews ==
  ASSUME ViewsInvariant, TypeOK', NEW b \in BindId, LeaveWorld(b)
  PROVE  ViewsInvariant'
<1>1. TypeOK /\ world'[b] = None /\ \A c \in BindId \ {b} : world'[c] = world[c]
  BY DEF ViewsInvariant, LeaveWorld, Outside, TypeOK
<1>2. ASSUME NEW c \in present, NEW id \in ObjectIds PROVE AgreesOn(c, id)'
  <2>1. CASE c = b
    BY <1>1, <2>1, LeaverAgrees DEF LeaveWorld
  <2>2. CASE c # b
    <3>1. Informed(c, id) /\ world'[c] = world[c]
      BY <1>1, <2>2, DepartureInforms DEF LeaveWorld, TypeOK
    <3> QED BY <3>1, InformedAgrees
  <2> QED BY <2>1, <2>2
<1>3. NobodyElsewhere'
  BY <1>1 DEF ViewsInvariant, NobodyElsewhere, LeaveWorld
<1>4. (\A c \in present, id \in ObjectIds : AgreesOn(c, id))'
  BY <1>2 DEF LeaveWorld
<1>5. SteadyListed'
  BY SteadyStep DEF LeaveWorld
<1> QED BY <1>3, <1>4, <1>5, ViewsAfter

LEMMA CloseSocketViews ==
  ASSUME ViewsInvariant, TypeOK', NEW b \in BindId, CloseSocket(b)
  PROVE  ViewsInvariant'
<1>1. /\ TypeOK /\ present' = present \ {b}
      /\ world'[b] = None /\ \A c \in BindId \ {b} : world'[c] = world[c]
  BY DEF ViewsInvariant, CloseSocket, Outside, TypeOK
<1>2. ASSUME NEW c \in present', NEW id \in ObjectIds PROVE AgreesOn(c, id)'
  <2>1. c \in present /\ c # b /\ c \in BindId /\ present # {b}
    BY <1>1 DEF TypeOK
  <2>2. CASE objects' = objects /\ told' = [told EXCEPT ![b] = NobodyTold]
    BY <1>1, <2>1, <2>2, InformedAgrees DEF Informed, TypeOK
  <2>3. CASE /\ objects' = ObjectsLeft(b)
             /\ told' = [ToldLeft(b) EXCEPT ![b] = NobodyTold]
    <3>1. told'[c] = ToldLeft(b)[c]
      BY <1>1, <2>1, <2>3, ToldLeftType DEF Histories
    <3> QED BY <1>1, <2>1, <2>3, <3>1, DepartureInforms, InformedAgrees
  <2> QED BY <2>1, <2>2, <2>3 DEF CloseSocket
<1>3. NobodyElsewhere'
  BY <1>1 DEF ViewsInvariant, NobodyElsewhere
<1>4. (\A c \in present, id \in ObjectIds : AgreesOn(c, id))'
  BY <1>2
<1>5. SteadyListed'
  BY <1>1 DEF ViewsInvariant, SteadyListed, Listed, CloseSocket, TypeOK
<1> QED BY <1>3, <1>4, <1>5, ViewsAfter

\* The snapshot says who owns what a newcomer has to know of.
LEMMA EntrantAgrees ==
  ASSUME ViewsInvariant, NEW b \in present, NEW id \in ObjectIds, NEW w \in WorldId,
         TypeOK', objects' = ObjectsLeft(b) \/ objects' = objects,
         told'[b] = ToldOnEntry(b, w, objects'), world'[b] = w
  PROVE  AgreesOn(b, id)'
<1>1. b \in BindId /\ TypeOK
  BY DEF ViewsInvariant, TypeOK
<1>a. objects'[id].owner # Missed /\ 0 # Missed
  BY DEF TypeOK, Object
<1>b. \/ Sent(b, objects'[id].owner) = objects'[id].owner
      \/ Sent(b, objects'[id].owner) = Missed /\ Excused(b, id)
  BY DEF Sent, Excused, ViewsInvariant, SteadyListed
<1>2. CASE IsNonGlobal(id)
  <2>1. told'[b][id] = IF id \in Snapshot(b, w, objects') THEN Sent(b, objects'[id].owner)
                       ELSE 0
    BY <1>2 DEF ToldOnEntry
  <2> QED BY <1>a, <1>b, <1>2, <2>1 DEF AgreesOn, Snapshot, Exists, OwnedBy, Excused
<1>3. CASE ~IsNonGlobal(id)
  <2>1. objects'[id] = objects[id]
    BY <1>3, ObjectsLeftEach, GlobalsOutliveDepartures
  <2>2. AgreesOn(b, id)
    BY ViewsAgreeEach DEF ViewsInvariant
  <2>3. \/ told'[b][id] = told[b][id]
        \/ told'[b][id] = Sent(b, objects'[id].owner)
    BY <1>3, <2>1 DEF ToldOnEntry
  <2> QED BY <1>a, <1>b, <1>3, <2>1, <2>2, <2>3 DEF AgreesOn, Excused
<1> QED BY <1>2, <1>3

LEMMA SetWorldViews ==
  ASSUME ViewsInvariant, TypeOK', NEW b \in BindId, NEW w \in WorldId, NEW s \in Sizes,
         SetWorld(b, w, s)
  PROVE  ViewsInvariant'
<1> DEFINE leaves  == world[b] \notin {None, w}
           objsNow == IF leaves THEN ObjectsLeft(b) ELSE objects
           toldNow == IF leaves THEN ToldLeft(b) ELSE told
<1>0. TypeOK /\ toldNow \in Histories
  BY ToldLeftType DEF ViewsInvariant, TypeOK, Histories, Known
<1>a. /\ present' = present /\ b \in present /\ objects' = objsNow
      /\ \/ /\ world' = [world EXCEPT ![b] = w]
            /\ told' = [toldNow EXCEPT ![b] = ToldOnEntry(b, w, objsNow)]
         \/ /\ world' = [world EXCEPT ![b] = IF leaves THEN Outside ELSE @]
            /\ told' = toldNow
  BY DEF SetWorld, Talks
<1>1. /\ present' = present /\ b \in present /\ objects' = objsNow
      /\ \A c \in BindId \ {b} : world'[c] = world[c] /\ told'[c] = toldNow[c]
  <2> HIDE DEF objsNow, toldNow
  <2> QED BY <1>0, <1>a DEF TypeOK, Histories
<1>2. ASSUME NEW c \in present, c # b, NEW id \in ObjectIds PROVE AgreesOn(c, id)'
  <2>1. c \in BindId
    BY <1>0 DEF TypeOK
  <2>2. Informed(c, id)
    BY <1>1, <1>2, <2>1, DepartureInforms DEF Informed
  <2> QED BY <1>1, <1>2, <2>1, <2>2, InformedAgrees
<1>3. ASSUME NEW id \in ObjectIds PROVE AgreesOn(b, id)'
  <2>1. CASE /\ world' = [world EXCEPT ![b] = w]
             /\ told' = [toldNow EXCEPT ![b] = ToldOnEntry(b, w, objsNow)]
    <3>1. world'[b] = w /\ told'[b] = ToldOnEntry(b, w, objects')
      BY <1>0, <1>1, <2>1 DEF TypeOK, Histories
    <3> QED BY <1>1, <3>1, EntrantAgrees
  <2>2. CASE /\ world' = [world EXCEPT ![b] = IF leaves THEN Outside ELSE @]
             /\ told' = toldNow
    <3>1. CASE leaves
      BY <1>0, <1>1, <2>2, <3>1, LeaverAgrees DEF TypeOK, Outside
    <3>2. CASE ~leaves
      BY <1>0, <1>1, <2>2, <3>2, InformedAgrees DEF TypeOK, Informed
    <3> QED BY <3>1, <3>2
  <2> QED BY <1>a, <2>1, <2>2
<1>4. NobodyElsewhere'
  BY <1>1 DEF ViewsInvariant, NobodyElsewhere
<1>5. (\A c \in present, id \in ObjectIds : AgreesOn(c, id))'
  BY <1>1, <1>2, <1>3
<1>6. SteadyListed'
  BY SteadyStep DEF SetWorld
<1> QED BY <1>4, <1>5, <1>6, ViewsAfter

\* Clients come and go from the list.
LEMMA ListChangesViews ==
  ASSUME ViewsInvariant, TypeOK', NEW b \in BindId, Added(b) \/ Lost(b) \/ Restore(b)
  PROVE  ViewsInvariant'
<1>1. /\ UNCHANGED <<present, world, objects, told>>
      /\ \A c \in BindId \ {b} : conn'[c] = conn[c]
      /\ conn'[b] = "listed" \/ b \in Unsteady
  BY DEF Added, Lost, Restore, ViewsInvariant, TypeOK
<1>2. SteadyListed'
  BY <1>1 DEF ViewsInvariant, SteadyListed, Listed, TypeOK
<1> QED BY <1>1, <1>2, InformedStep DEF Informed

LEMMA ViewsStep ==
  ASSUME ViewsInvariant, [Next]_vars
  PROVE  ViewsInvariant'
<1>0. TypeOK /\ TypeOK'
  BY NextType DEF ViewsInvariant
<1>a. objects \in [ObjectIds -> Object] /\ Absent.owner = 0
  BY <1>0 DEF TypeOK, Absent
<1>1. ASSUME NEW b \in BindId, Join(b) PROVE ViewsInvariant'
  BY <1>0, <1>1, JoinViews
<1>2. ASSUME NEW b \in BindId, LeaveWorld(b) PROVE ViewsInvariant'
  BY <1>0, <1>2, LeaveWorldViews
<1>3. ASSUME NEW b \in BindId, CloseSocket(b) PROVE ViewsInvariant'
  BY <1>0, <1>3, CloseSocketViews
<1>4. ASSUME NEW b \in BindId, NEW w \in WorldId, NEW s \in Sizes, SetWorld(b, w, s)
      PROVE  ViewsInvariant'
  BY <1>0, <1>4, SetWorldViews
<1>5. ASSUME NEW b \in BindId, NEW i \in ObjectIds, CreateExisting(b, i)
      PROVE  ViewsInvariant'
  <2>1. ASSUME NEW c \in present, NEW id \in ObjectIds PROVE Informed(c, id)
    <3>1. c \in BindId
      BY <1>0 DEF TypeOK
    <3>2. \/ Sent(b, objects[i].owner) = objects[i].owner
          \/ Sent(b, objects[i].owner) = Missed /\ Excused(b, i)
      BY <1>5 DEF Sent, Excused, ViewsInvariant, SteadyListed, CreateExisting, Talks
    <3> QED BY <1>0, <1>5, <3>1, <3>2 DEF CreateExisting, Informed, TypeOK
  <2> QED BY <1>0, <1>5, <2>1, SteadyStep, InformedStep DEF CreateExisting
<1>6. ASSUME NEW b \in BindId, NEW i \in ObjectIds, NEW link, NEW parses \in Bodies,
             CreateNew(b, i, link, parses)
      PROVE  ViewsInvariant'
  <2>1. /\ objects'[i].owner = b
        /\ \A j \in ObjectIds \ {i} : objects'[j] = objects[j]
        /\ UNCHANGED <<present, conn, world>>
    BY <1>a, <1>6 DEF CreateNew
  <2>2. CASE Announce(b, i, b)
    BY <1>0, <2>1, <2>2, AnnouncedByStep
  <2>3. CASE i.type = VANGER /\ ~parses /\ AnnounceToNobody(b, i, b)
    <3>1. \A c : Excused(c, i)
      BY <2>3, ClientsAssumption DEF Excused
    <3> QED BY <1>0, <2>1, <2>3, <3>1, AnnouncedStep DEF AnnounceToNobody
  <2> QED BY <1>6, <2>2, <2>3 DEF CreateNew
<1>7. ASSUME NEW b \in BindId, NEW i \in ObjectIds, NEW link, UpdateObject(b, i, link)
      PROVE  ViewsInvariant'
  <2>1. /\ objects'[i].owner = b
        /\ \A j \in ObjectIds \ {i} : objects'[j] = objects[j]
        /\ UNCHANGED <<present, conn, world>> /\ Announce(b, i, b)
    BY <1>a, <1>7 DEF UpdateObject, Updated, Object
  <2> QED BY <1>0, <2>1, AnnouncedByStep
<1>8. ASSUME NEW b \in BindId, NEW i \in ObjectIds, DeleteObject(b, i)
      PROVE  ViewsInvariant'
  <2>1. /\ objects'[i].owner = 0
        /\ \A j \in ObjectIds \ {i} : objects'[j] = objects[j]
        /\ UNCHANGED <<present, conn, world>> /\ Announce(b, i, 0)
    BY <1>a, <1>8 DEF DeleteObject
  <2> QED BY <1>0, <2>1, AnnouncedByStep
<1>9. ASSUME NEW b \in BindId, NEW old \in ObjectIds, NEW new \in ObjectIds,
             ItemTransfer(b, old, new)
      PROVE  ViewsInvariant'
  <2>0. /\ old # new /\ old.world = new.world
        /\ IsNonGlobal(old) /\ IsNonGlobal(new)
    BY <1>9, PairDiffers DEF ItemTransfer, ArePaired, IsNonGlobal, GLOBAL, STUFF, DEVICE
  <2>1. /\ objects'[old].owner = 0 /\ objects'[new].owner = b
        /\ \A id \in ObjectIds \ {old, new} : objects'[id] = objects[id]
    BY <1>a, <1>9, <2>0 DEF ItemTransfer
  <2>2. ASSUME NEW c \in present, NEW id \in ObjectIds PROVE Informed(c, id)
    <3>1. c \in BindId /\ told[c] \in [ObjectIds -> Known]
      BY <1>0 DEF TypeOK, Known
    <3>2. CASE c \in InWorld(new.world) \cap (Listed \cup {b})
      <4>1. told'[c] = [told[c] EXCEPT ![old] = 0, ![new] = b]
        BY <1>9, <3>1, <3>2 DEF ItemTransfer
      <4> QED BY <2>0, <2>1, <3>1, <4>1 DEF Informed
    <3>3. CASE c \notin InWorld(new.world)
      <4>1. told'[c] = told[c] /\ world[c] # new.world
        BY <1>9, <3>1, <3>3 DEF ItemTransfer, InWorld
      <4> QED BY <2>0, <2>1, <3>1, <4>1 DEF Informed
    <3>4. CASE c \in InWorld(new.world) \ (Listed \cup {b})
      <4>1. told'[c] = [told[c] EXCEPT ![old] = Missed, ![new] = Missed]
        BY <1>9, <3>1, <3>4 DEF ItemTransfer
      <4>2. Excused(c, id)
        BY <3>4, OthersExcused
      <4> QED BY <2>0, <2>1, <3>1, <4>1, <4>2 DEF Informed
    <3> QED BY <3>2, <3>3, <3>4
  <2> QED BY <1>0, <1>9, <2>2, SteadyStep, InformedStep DEF ItemTransfer
<1>10. ASSUME NEW b \in BindId, Added(b) \/ Lost(b) \/ Restore(b) PROVE ViewsInvariant'
  BY <1>0, <1>10, ListChangesViews
<1>11. CASE UNCHANGED vars
  BY <1>0, <1>11, SteadyStep, InformedStep DEF vars, Informed
<1> QED BY <1>1, <1>2, <1>3, <1>4, <1>5, <1>6, <1>7, <1>8, <1>9, <1>10, <1>11 DEF Next

\* Whatever ids clients use, however their handlers interleave, and whichever
\* Clients are off the list meanwhile: what each player was sent of the global
\* objects, and of those of the world it is in, agrees with the server's, but for
\* what was sent while its own Client was off the list and for vangers without a
\* proper body.
THEOREM PlayersKnowTheirWorld == Spec => []ViewsAgree
<1>1. Init => ViewsInvariant
  BY InitType DEF Init, ViewsInvariant, ViewsAgree, NobodyElsewhere, SteadyListed
<1>2. ViewsInvariant /\ [Next]_vars => ViewsInvariant'
  BY ViewsStep
<1>3. ViewsInvariant => ViewsAgree
  BY DEF ViewsInvariant
<1> QED BY <1>1, <1>2, <1>3, PTL DEF Spec

-----------------------------------------------------------------------------
(* The handlers implement ItemCustody, for items that are made with discipline. *)

ItemIds == {id \in Disciplined : id.type = DEVICE}

Lying(i) == Form(i, STUFF)

\* The inductive invariant: no item is there in both forms.
OncePerItem == \A i \in ItemIds : ~(Exists(i) /\ Exists(Lying(i)))

CustodyInvariant == TypeOK /\ OncePerItem

LEMMA PairedIsSymmetric ==
  ASSUME NEW i, NEW j, ArePaired(j, i) PROVE ArePaired(i, j)
BY DEF ArePaired

LEMMA LyingType ==
  ASSUME NEW i \in ItemIds
  PROVE  /\ i \in ObjectIds /\ Lying(i) \in ObjectIds /\ i # Lying(i)
         /\ i \in Disciplined /\ Lying(i) \in Disciplined
         /\ Lying(i).type = STUFF /\ IsItem(i) /\ IsItem(Lying(i))
         /\ IsNonGlobal(i) /\ IsNonGlobal(Lying(i))
         /\ ~i.static /\ ~Lying(i).static
<1>1. i \in ObjectIds /\ i \in IdFields /\ i.type = DEVICE /\ i \in Disciplined
  BY IdsAssumption, ClientsAssumption DEF ItemIds
<1>2. IsItem(i) /\ Lying(i) \in ObjectIds
  BY <1>1, IdsAssumption DEF IsItem, Lying
<1>3. /\ Lying(i).type = STUFF
      /\ Lying(i).station = i.station /\ Lying(i).world = i.world
      /\ Lying(i).counter = i.counter
  BY <1>1 DEF Lying, Form, IdFields
<1>4. ArePaired(i, Lying(i))
  BY <1>1, <1>3 DEF ArePaired, IsItem, STUFF, DEVICE
<1>5. Lying(i) \in Disciplined
  BY <1>1, <1>2, <1>4, ClientsAssumption
<1>6. ~i.static /\ ~Lying(i).static
  BY <1>1, <1>3, <1>5, ClientsAssumption DEF StaticTypes, STUFF, DEVICE
<1> QED BY <1>1, <1>2, <1>3, <1>5, <1>6 DEF IsItem, IsNonGlobal, STUFF, DEVICE, GLOBAL

\* Disciplined ids have one partner each.
LEMMA PairedForms ==
  ASSUME NEW i \in ItemIds, NEW j \in ObjectIds, ArePaired(i, j) \/ ArePaired(j, i)
  PROVE  j = Lying(i)
<1>0. ArePaired(i, j)
  BY PairedIsSymmetric
<1>1. /\ i \in IdFields /\ j \in IdFields /\ i \in ObjectIds
      /\ i.type = DEVICE /\ j.type = STUFF
  BY <1>0, IdsAssumption, ClientsAssumption DEF ItemIds, ArePaired, IsItem, DEVICE, STUFF
<1>2. j \in Disciplined /\ ~i.static
  BY <1>0, LyingType, ClientsAssumption
<1>3. i.static = j.static
  BY <1>1, <1>2, ClientsAssumption DEF StaticTypes, STUFF, IdFields
<1>4. i.station = j.station /\ i.world = j.world /\ i.counter = j.counter
  BY <1>0 DEF ArePaired
<1> QED BY <1>1, <1>3, <1>4 DEF IdFields, Lying, Form

LEMMA PairedWithLying ==
  ASSUME NEW i \in ItemIds, NEW j \in ObjectIds,
         ArePaired(Lying(i), j) \/ ArePaired(j, Lying(i))
  PROVE  j = i
<1>0. ArePaired(Lying(i), j)
  BY PairedIsSymmetric
<1>1. /\ i \in IdFields /\ j \in IdFields /\ i \in ObjectIds
      /\ Lying(i) \in Disciplined /\ Lying(i).type = STUFF /\ i.type = DEVICE /\ ~i.static
  BY IdsAssumption, LyingType DEF ItemIds
<1>2. j.type = DEVICE /\ j \in Disciplined
  BY <1>0, <1>1, ClientsAssumption DEF ArePaired, IsItem, DEVICE, STUFF
<1>3. j.station = i.station /\ j.world = i.world /\ j.counter = i.counter
  BY <1>0, <1>1 DEF ArePaired, Lying, Form, IdFields
<1>4. i.static = j.static
  BY <1>1, <1>2, ClientsAssumption DEF StaticTypes, DEVICE, IdFields
<1> QED BY <1>1, <1>2, <1>3, <1>4 DEF IdFields

\* What a step may do to an item, by the owners of its two forms before it (o
\* of the carried, p of the lying one) and after it.
CustodyMove(o, p, o1, p1) ==
  \/ o1 = o /\ p1 = p
  \/ o = 0 /\ p = 0 /\ (o1 = 0 \/ p1 = 0)
  \/ o1 = 0 /\ p1 = 0
  \/ o = 0 /\ p # 0 /\ o1 # 0 /\ p1 = 0
  \/ o # 0 /\ p = 0 /\ o1 = 0 /\ p1 = o

Moves(i) ==
  CustodyMove(objects[i].owner, objects[Lying(i)].owner,
              objects'[i].owner, objects'[Lying(i)].owner)

LEMMA DepartureMoves ==
  ASSUME CustodyInvariant, NEW b \in BindId, NEW i \in ItemIds,
         \/ LeaveWorld(b)
         \/ CloseSocket(b)
         \/ \E w \in WorldId, s \in Sizes : SetWorld(b, w, s)
  PROVE  Moves(i)
<1>1. i \in ObjectIds /\ Lying(i) \in ObjectIds /\ Lying(i).type = STUFF /\ Absent.owner = 0
  BY LyingType DEF Absent
<1>2. Lying(i) \notin DeletedOnLeave(b)
  BY <1>1 DEF DeletedOnLeave, IsPlayers, IsPrivate, STUFF
<1>3. objects[i].owner = 0 \/ objects[Lying(i)].owner = 0
  BY DEF CustodyInvariant, OncePerItem, Exists
<1> QED BY <1>1, <1>2, <1>3, DepartureObjects, ObjectsLeftEach DEF Moves, CustodyMove

LEMMA CreateMoves ==
  ASSUME CustodyInvariant, NEW b \in BindId, NEW j \in ObjectIds,
         NEW link \in LinkChoices(j), NEW parses, CreateNew(b, j, link, parses), NEW i \in ItemIds
  PROVE  Moves(i)
<1>0. objects \in [ObjectIds -> Object]
  BY DEF CustodyInvariant, TypeOK
<1>1. i \in ObjectIds /\ Lying(i) \in ObjectIds /\ i # Lying(i)
  BY LyingType
<1>2. CASE j \notin {i, Lying(i)}
  BY <1>0, <1>1, <1>2 DEF CreateNew, Moves, CustodyMove
<1>3. CASE j = i
  <2>1. IsItem(i) /\ IsItem(Lying(i)) /\ Lying(i) # None
    BY LyingType, IdsAssumption
  <2>2. link = Lying(i)
    BY <1>1, <1>3, <2>1, LyingType, PairedForms DEF LinkChoices
  <2>3. ~Exists(i) /\ ~Exists(Lying(i))
    BY <1>3, <2>1, <2>2 DEF CreateNew, HasPaired
  <2> QED BY <1>0, <1>1, <1>3, <2>3 DEF CreateNew, Exists, Moves, CustodyMove
<1>4. CASE j = Lying(i)
  <2>1. IsItem(i) /\ IsItem(Lying(i)) /\ i # None
    BY <1>1, LyingType, IdsAssumption
  <2>2. link = i
    BY <1>1, <1>4, <2>1, LyingType, PairedWithLying DEF LinkChoices
  <2>3. ~Exists(i) /\ ~Exists(Lying(i))
    BY <1>4, <2>1, <2>2 DEF CreateNew, HasPaired
  <2> QED BY <1>0, <1>1, <1>4, <2>3 DEF CreateNew, Exists, Moves, CustodyMove
<1> QED BY <1>2, <1>3, <1>4

LEMMA UpdateMoves ==
  ASSUME CustodyInvariant, NEW b \in BindId, NEW j \in ObjectIds, NEW link,
         UpdateObject(b, j, link), NEW i \in ItemIds
  PROVE  Moves(i)
<1>0. objects \in [ObjectIds -> Object]
  BY DEF CustodyInvariant, TypeOK
<1>1. /\ i \in ObjectIds /\ Lying(i) \in ObjectIds
      /\ IsNonGlobal(i) /\ IsNonGlobal(Lying(i))
  BY LyingType
<1>2. ~i.static /\ ~Lying(i).static
  BY LyingType
<1>3. /\ objects'[j].owner = b
      /\ \A k \in ObjectIds \ {j} : objects'[k] = objects[k]
  BY <1>0 DEF UpdateObject, Updated, Object
<1>4. j \in {i, Lying(i)} => objects[j].owner = b
  BY <1>1, <1>2 DEF UpdateObject, MayUpdate, OwnedBy
<1> QED BY <1>1, <1>3, <1>4 DEF Moves, CustodyMove

LEMMA DeleteMoves ==
  ASSUME CustodyInvariant, NEW b \in BindId, NEW j \in ObjectIds,
         DeleteObject(b, j), NEW i \in ItemIds
  PROVE  Moves(i)
<1>1. i \in ObjectIds /\ Lying(i) \in ObjectIds
  BY LyingType
<1>2. /\ objects'[j].owner = 0
      /\ \A k \in ObjectIds \ {j} : objects'[k] = objects[k]
  BY DEF DeleteObject, CustodyInvariant, TypeOK, Absent
<1>3. objects[i].owner = 0 \/ objects[Lying(i)].owner = 0
  BY DEF CustodyInvariant, OncePerItem, Exists
<1> QED BY <1>1, <1>2, <1>3 DEF Moves, CustodyMove

LEMMA TransferMoves ==
  ASSUME CustodyInvariant, NEW b \in BindId, NEW old \in ObjectIds,
         NEW new \in ObjectIds, ItemTransfer(b, old, new), NEW i \in ItemIds
  PROVE  Moves(i)
<1>0. i \in ObjectIds /\ Lying(i) \in ObjectIds /\ old # new /\ b # 0 /\ i.type = DEVICE
  BY LyingType, PairDiffers DEF ItemTransfer, BindId, ItemIds
<1>1. /\ objects'[old].owner = 0 /\ objects'[new].owner = b
      /\ \A k \in ObjectIds \ {old, new} : objects'[k] = objects[k]
  BY <1>0 DEF ItemTransfer, CustodyInvariant, TypeOK, Absent
<1>2. objects[new].owner = 0 /\ objects[old].owner # 0
  BY DEF ItemTransfer, Exists
<1>3. CASE old = i
  <2>1. new = Lying(i) /\ objects[i].owner = b
    BY <1>0, <1>3, PairedForms DEF ItemTransfer, MayDrop, OwnedBy
  <2> QED BY <1>1, <1>2, <1>3, <2>1 DEF Moves, CustodyMove
<1>4. CASE old = Lying(i)
  <2>1. new = i
    BY <1>4, PairedWithLying DEF ItemTransfer
  <2> QED BY <1>0, <1>1, <1>2, <1>4, <2>1 DEF Moves, CustodyMove
<1>5. CASE old \notin {i, Lying(i)}
  <2>1. new \notin {i, Lying(i)}
    BY <1>5, PairedForms, PairedWithLying DEF ItemTransfer
  <2> QED BY <1>0, <1>1, <1>5, <2>1 DEF Moves, CustodyMove
<1> QED BY <1>3, <1>4, <1>5

LEMMA StepMoves ==
  ASSUME CustodyInvariant, [Next]_vars, NEW i \in ItemIds
  PROVE  Moves(i)
<1>1. CASE objects' = objects
  BY <1>1 DEF Moves, CustodyMove
<1> QED BY <1>1, DepartureMoves, CreateMoves, UpdateMoves, DeleteMoves, TransferMoves
    DEF Next, vars, Join, Added, Lost, Restore, CreateExisting

\* An item's place, by the owners of its forms.
Place(o, p) ==
  IF o # 0 THEN <<"carried", o>> ELSE IF p # 0 THEN <<"lying", p>> ELSE <<"nowhere", 0>>

LEMMA CustodyEach ==
  ASSUME OncePerItem, NEW i \in ItemIds
  PROVE  Custody[i] = Place(objects[i].owner, objects[Lying(i)].owner)
<1>1. ~(Exists(i) /\ Exists(Lying(i)))
  BY DEF OncePerItem
<1>2. Custody[i] =
        CASE Exists(i) /\ Exists(Lying(i)) -> <<"twice", 0>>
          [] Exists(i) /\ ~Exists(Lying(i)) -> <<"carried", objects[i].owner>>
          [] ~Exists(i) /\ Exists(Lying(i)) -> <<"lying", objects[Lying(i)].owner>>
          [] OTHER -> <<"nowhere", 0>>
  BY DEF Custody, ItemIds, Lying
<1>3. CASE Exists(i)
  BY <1>1, <1>2, <1>3 DEF Place, Exists
<1>4. CASE ~Exists(i) /\ Exists(Lying(i))
  BY <1>2, <1>4 DEF Place, Exists
<1>5. CASE ~Exists(i) /\ ~Exists(Lying(i))
  BY <1>2, <1>5 DEF Place, Exists
<1> QED BY <1>3, <1>4, <1>5

LEMMA CustodyType ==
  ASSUME CustodyInvariant
  PROVE  Custody \in [ItemIds -> Abstract!Places]
<1>1. ASSUME NEW i \in ItemIds PROVE Custody[i] \in Abstract!Places
  <2>1. /\ objects[i].owner \in 0 .. MaxPlayerId
        /\ objects[Lying(i)].owner \in 0 .. MaxPlayerId
    BY LyingType DEF CustodyInvariant, TypeOK, Object
  <2>2. Place(objects[i].owner, objects[Lying(i)].owner) \in Abstract!Places
    BY <2>1 DEF Place, Abstract!Places, BindId
  <2> QED BY <2>2, CustodyEach DEF CustodyInvariant
<1>2. Custody = [i \in ItemIds |-> Custody[i]]
  BY DEF Custody, ItemIds
<1> QED BY <1>1, <1>2

LEMMA CustodyInvariantStep ==
  ASSUME CustodyInvariant, [Next]_vars
  PROVE  CustodyInvariant'
<1>1. TypeOK'
  BY NextType DEF CustodyInvariant
<1>2. ASSUME NEW i \in ItemIds PROVE ~(Exists(i) /\ Exists(Lying(i)))'
  <2>1. objects[i].owner = 0 \/ objects[Lying(i)].owner = 0
    BY DEF CustodyInvariant, OncePerItem, Exists
  <2> QED BY <2>1, StepMoves DEF Moves, CustodyMove, Exists
<1>3. OncePerItem'
  BY <1>2 DEF OncePerItem
<1> QED BY <1>1, <1>3 DEF CustodyInvariant

\* Every step of the handlers is a step of the abstract specification.
LEMMA CustodyStep ==
  ASSUME CustodyInvariant, CustodyInvariant', [Next]_vars
  PROVE  Abstract!Next
<1>1. Custody' \in [ItemIds -> Abstract!Places]
  <2>1. CustodyInvariant' => (Custody \in [ItemIds -> Abstract!Places])'
    BY CustodyType, PTL
  <2> QED BY <2>1
<1>2. ASSUME NEW i \in ItemIds
      PROVE  \/ Custody'[i] = Custody[i]
             \/ Abstract!Appears(i)
             \/ Abstract!Vanishes(i)
             \/ Abstract!PickedUp(i)
             \/ Abstract!Dropped(i)
  <2> DEFINE o  == objects[i].owner
             p  == objects[Lying(i)].owner
             o1 == objects'[i].owner
             p1 == objects'[Lying(i)].owner
  <2>1. Custody[i] = Place(o, p)
    BY CustodyEach DEF CustodyInvariant
  <2>2. Custody'[i] = Place(o1, p1)
    <3>1. OncePerItem' => (Custody[i] = Place(o, p))'
      BY CustodyEach, PTL
    <3> QED BY <3>1 DEF CustodyInvariant
  <2>3. CustodyMove(o, p, o1, p1)
    BY StepMoves DEF Moves
  <2> HIDE DEF o, p, o1, p1
  <2>4. CASE o1 = o /\ p1 = p
    BY <2>1, <2>2, <2>4
  <2>5. CASE o = 0 /\ p = 0
    BY <2>1, <2>5 DEF Place, Abstract!Appears
  <2>6. CASE o1 = 0 /\ p1 = 0
    BY <2>2, <2>6 DEF Place, Abstract!Vanishes
  <2>7. CASE o = 0 /\ p # 0 /\ o1 # 0 /\ p1 = 0
    BY <2>1, <2>2, <2>7 DEF Place, Abstract!PickedUp
  <2>8. CASE o # 0 /\ p = 0 /\ o1 = 0 /\ p1 = o
    BY <2>1, <2>2, <2>8 DEF Place, Abstract!Dropped
  <2> QED BY <2>3, <2>4, <2>5, <2>6, <2>7, <2>8 DEF CustodyMove
<1> QED BY <1>1, <1>2 DEF Abstract!Next, ItemIds

\* Each item whose makers link its forms is in one place at a time, and leaves an
\* inventory only as its holder's, or by vanishing: for these create_object,
\* item_transfer and the ways out of a world implement ItemCustody, whatever
\* clients do to the rest.
THEOREM HandlersKeepCustody == Spec => ItemsInCustody
<1>1. Init => CustodyInvariant
  BY InitType, LyingType DEF Init, CustodyInvariant, OncePerItem, Exists, Absent
<1>2. CustodyInvariant /\ [Next]_vars => CustodyInvariant'
  BY CustodyInvariantStep
<1>3. Init => Abstract!Init
  <2> SUFFICES ASSUME Init PROVE Custody = [i \in ItemIds |-> <<"nowhere", 0>>]
    BY DEF Abstract!Init, ItemIds
  <2>1. ASSUME NEW i \in ItemIds PROVE Custody[i] = <<"nowhere", 0>>
    <3>1. OncePerItem
      BY <1>1 DEF CustodyInvariant
    <3>2. objects[i].owner = 0 /\ objects[Lying(i)].owner = 0
      BY LyingType DEF Init, Absent
    <3> QED BY <3>1, <3>2, CustodyEach DEF Place
  <2>2. Custody = [i \in ItemIds |-> Custody[i]]
    BY DEF Custody, ItemIds
  <2> QED BY <2>1, <2>2
<1>4. CustodyInvariant /\ CustodyInvariant' /\ [Next]_vars => [Abstract!Next]_Custody
  BY CustodyStep
<1> QED BY <1>1, <1>2, <1>3, <1>4, PTL DEF Spec, ItemsInCustody, Abstract!Spec
=============================================================================
