----------------------------- MODULE LobbyProofs -----------------------------
(***************************************************************************)
(* Theorems about Lobby, for any number of seats and observers, any worlds *)
(* and whatever names, bodies and configurations the clients send.         *)
(***************************************************************************)
EXTENDS Lobby, FiniteSetTheorems, FlattenTheorems

USE SeatsAssumption, WorldAssumption, OptionAssumption

-----------------------------------------------------------------------------
(* What the operators return. *)

KnownPlayers == [BindId -> Known]
Audiences    == [Observer -> KnownPlayers]

LEMMA BlankType == Blank \in KnownPlayers
BY DEF Blank, Nothing, Known, KnownPlayers

LEMMA NewPlayerType == NewPlayer \in Player
BY DEF NewPlayer, Player, Status

LEMMA PlayerIsKnown == Player \subseteq Known
BY DEF Player, Known

LEMMA StoredType ==
  ASSUME NEW login \in Logins, login.len > 0
  PROVE  Stored(login) \in Names
<1>1. login \in [len : Nat, control : BOOLEAN]
  BY PacketsAssumption
<1>2. \A n \in 1 .. 16 : [login EXCEPT !.len = n, !.control = FALSE] \in Names
  BY <1>1 DEF Names
<1>3. (IF login.len > 16 THEN 15 ELSE login.len) \in 1 .. 16
  BY <1>1
<1> QED BY <1>2, <1>3 DEF Stored

LEMMA BodyType ==
  ASSUME NEW bytes \in Bodies
  PROVE  Body(bytes) \in Ratings \cup {None}
BY DEF Body, Ratings

\* The fields a notice can be about, and their values.
Notices ==
  [field : {"name"}, value : Names] \cup [field : {"body"}, value : Ratings \cup {None}]
    \cup [field : {"status"}, value : Status] \cup [field : {"world"}, value : WorldId \cup {0}]

\* What c knows of d once a field of b has changed.
LEMMA ChangedEach ==
  ASSUME NEW t \in Audiences, NEW b \in BindId, NEW field, NEW value, NEW reached,
         NEW c \in Observer, NEW d \in BindId
  PROVE  Changed(t, b, field, value, reached)[c][d] =
           IF c # b /\ c \in Present /\ d = b
           THEN [t[c][d] EXCEPT ![field] = IF c \in reached THEN value ELSE Unknown]
           ELSE t[c][d]
BY DEF Changed, Audiences, KnownPlayers

LEMMA ChangedType ==
  ASSUME NEW t \in Audiences, NEW b \in BindId, NEW n \in Notices, NEW reached
  PROVE  Changed(t, b, n.field, n.value, reached) \in Audiences
<1>1. ASSUME NEW k \in Known, NEW v \in {n.value, Unknown}
      PROVE  [k EXCEPT ![n.field] = v] \in Known
  BY DEF Notices, Known
<1>2. ASSUME NEW c \in Observer, NEW v \in {n.value, Unknown}
      PROVE  [t[c] EXCEPT ![b] = [@ EXCEPT ![n.field] = v]] \in KnownPlayers
  <2>1. t[c] \in KnownPlayers
    BY DEF Audiences
  <2> QED BY <1>1, <2>1 DEF KnownPlayers
<1>3. ASSUME NEW c \in Observer
      PROVE  [t[c] EXCEPT ![b] =
                [@ EXCEPT ![n.field] = IF c \in reached THEN n.value ELSE Unknown]]
             \in KnownPlayers
  <2> DEFINE v == IF c \in reached THEN n.value ELSE Unknown
  <2>1. v \in {n.value, Unknown}
    OBVIOUS
  <2> HIDE DEF v
  <2>2. [t[c] EXCEPT ![b] = [@ EXCEPT ![n.field] = v]] \in KnownPlayers
    BY <1>2, <2>1
  <2> QED BY <2>2 DEF v
<1> QED BY <1>3 DEF Changed, Audiences

\* The notices that handlers send.
LEMMA NoticeTypes ==
  /\ \A v \in Names : [field |-> "name", value |-> v] \in Notices
  /\ \A v \in Ratings \cup {None} : [field |-> "body", value |-> v] \in Notices
  /\ \A v \in Status : [field |-> "status", value |-> v] \in Notices
  /\ \A v \in WorldId \cup {0} : [field |-> "world", value |-> v] \in Notices
BY DEF Notices

LEMMA NotifyTypes ==
  ASSUME NEW t \in Audiences, NEW b \in BindId
  PROVE  /\ \A v \in Names : Notify(t, b, "name", v) \in Audiences
         /\ \A v \in Ratings \cup {None} : Notify(t, b, "body", v) \in Audiences
         /\ \A v \in Status : Notify(t, b, "status", v) \in Audiences
         /\ \A v \in WorldId \cup {0} : Notify(t, b, "world", v) \in Audiences
         /\ \A v \in Ratings \cup {None} : Changed(t, b, "body", v, {}) \in Audiences
<1>1. \A f, v, reached : [field |-> f, value |-> v] \in Notices =>
        Changed(t, b, f, v, reached) \in Audiences
  <2> SUFFICES ASSUME NEW f, NEW v, NEW reached, [field |-> f, value |-> v] \in Notices
               PROVE  Changed(t, b, f, v, reached) \in Audiences
    OBVIOUS
  <2> DEFINE n == [field |-> f, value |-> v]
  <2>1. Changed(t, b, n.field, n.value, reached) \in Audiences
    BY ChangedType
  <2> QED BY <2>1
<1> QED BY <1>1, NoticeTypes DEF Notify

LEMMA LeaveToldType ==
  ASSUME NEW t \in Audiences, NEW b \in BindId
  PROVE  LeaveTold(t, b) \in Audiences
BY NotifyTypes DEF LeaveTold

LEMMA TotalListEach ==
  ASSUME NEW t, NEW ps, NEW c, NEW b \in BindId
  PROVE  TotalList(t, ps, c)[b] =
           IF b # c /\ b \in Present /\ ps[b].body # None THEN ps[b]
           ELSE IF b # c /\ b \notin Present /\ removed[b] # None THEN removed[b]
           ELSE t[c][b]
BY DEF TotalList

LEMMA SendTotalListType ==
  ASSUME TypeOK, NEW t \in Audiences, NEW ps \in [BindId -> Player], NEW c
  PROVE  SendTotalList(t, ps, c) \in Audiences
<1>1. ASSUME NEW o \in Observer, o = c PROVE TotalList(t, ps, o) \in KnownPlayers
  <2>1. ASSUME NEW b \in BindId PROVE TotalList(t, ps, o)[b] \in Known
    <3>1. t[o][b] \in Known /\ ps[b] \in Known
      BY PlayerIsKnown DEF Audiences, KnownPlayers
    <3>2. removed[b] # None => removed[b] \in Known
      BY PlayerIsKnown DEF TypeOK
    <3> QED BY <3>1, <3>2, TotalListEach
  <2>2. TotalList(t, ps, o) = [b \in BindId |-> TotalList(t, ps, o)[b]]
    BY DEF TotalList
  <2> QED BY <2>1, <2>2 DEF KnownPlayers
<1> QED BY <1>1 DEF SendTotalList, Audiences

LEMMA PlacedType ==
  ASSUME NEW ps \in [BindId -> Player], NEW b \in BindId, NEW w \in WorldId
  PROVE  Placed(ps, b, w) \in [BindId -> Player]
BY DEF Placed, Player, Status

LEMMA LeftType ==
  ASSUME NEW ps \in [BindId -> Player], NEW b \in BindId
  PROVE  Left(ps, b) \in [BindId -> Player]
BY DEF Left, Player

LEMMA SnapshotType ==
  ASSUME NEW p \in Player
  PROVE  Snapshot(Finished(p)) \in Player \cup {None}
BY DEF Snapshot, Finished, Player, Status

-----------------------------------------------------------------------------
(* Type correctness, and that the game's name comes with its configuration. *)

NamedWithConfig == config = None <=> title = None

TypeInvariant == TypeOK /\ NamedWithConfig

LEMMA InitType == Init => TypeInvariant
<1> SUFFICES ASSUME Init PROVE TypeInvariant
  OBVIOUS
<1>1. [c \in Observer |-> Blank] \in [Observer -> [BindId -> Known]]
  BY BlankType DEF KnownPlayers
<1> QED BY <1>1, NewPlayerType DEF Init, TypeInvariant, TypeOK, NamedWithConfig, Present

LEMMA ForgetsType ==
  ASSUME TypeOK, NEW c, Forgets(c)
  PROVE  /\ told' \in Audiences
         /\ knows' \in [Observer -> {None} \cup
                  [title : Titles, words : {ToWords(FromWords(ws)) :
                     ws \in {f \in Forms : FromWords(f) # None}}]]
BY BlankType DEF Forgets, TypeOK, Audiences, KnownPlayers

\* Handlers that change players and what is told of them, and nothing else.
LEMMA RosterStepType ==
  ASSUME TypeInvariant, players' \in [BindId -> Player], told' \in Audiences,
         UNCHANGED <<conn, removed, setup, knows>>,
         worlds' \in SUBSET WorldId
  PROVE  TypeInvariant'
<1>1. Present' = Present
  BY DEF Present
<1> QED BY <1>1 DEF TypeInvariant, TypeOK, NamedWithConfig, setup, Audiences, KnownPlayers

LEMMA ListingType ==
  ASSUME NEW b
  PROVE  Listing(b) \in SUBSET {"adding", "listed"}
BY DEF Listing

LEMMA CloseSocketType ==
  ASSUME TypeInvariant, NEW b \in BindId, CloseSocket(b)
  PROVE  TypeInvariant'
<1> DEFINE over == IF players[b].status = "GAMING"
                   THEN Notify(LeaveTold(told, b), b, "status", "FINISHED")
                   ELSE LeaveTold(told, b)
<1>0. TypeOK /\ told \in Audiences /\ players[b] \in Player
  BY DEF TypeInvariant, TypeOK, Audiences, KnownPlayers
<1>1. over \in Audiences
  BY <1>0, LeaveToldType, NotifyTypes DEF Status
<1>2. told' = [c \in Observer |-> IF c = b THEN Blank ELSE over[c]]
  BY DEF CloseSocket
<1>3. told' \in [Observer -> [BindId -> Known]]
  <2> HIDE DEF over
  <2> QED BY <1>1, <1>2, BlankType DEF Audiences, KnownPlayers
<1>4. /\ conn' \in [BindId -> {"none", "adding", "listed", "lost"}]
      /\ Present' = Present \ {b}
      /\ knows' \in [Observer -> {None} \cup
                  [title : Titles, words : {ToWords(FromWords(ws)) :
                     ws \in {f \in Forms : FromWords(f) # None}}]]
  BY <1>0 DEF CloseSocket, TypeOK, Present
<1>5. CASE GameEnds
  BY <1>0, <1>3, <1>4, <1>5, NewPlayerType DEF GameEnds, TypeInvariant, TypeOK, NamedWithConfig
<1>6. CASE /\ removed' = [removed EXCEPT ![b] = Snapshot(Finished(players[b]))]
           /\ players' = [players EXCEPT ![b] = NewPlayer]
           /\ UNCHANGED <<worlds, setup>>
  <2>1. Snapshot(Finished(players[b])) \in Player \cup {None}
    BY <1>0, SnapshotType
  <2> QED BY <1>0, <1>3, <1>4, <1>6, <2>1, NewPlayerType
      DEF TypeInvariant, TypeOK, NamedWithConfig, setup
<1> QED BY <1>5, <1>6 DEF CloseSocket

\* One handler keeps every variable in its type.
LEMMA NextType == TypeInvariant /\ [Next]_vars => TypeInvariant'
<1> SUFFICES ASSUME TypeInvariant, [Next]_vars PROVE TypeInvariant'
  OBVIOUS
<1>0. TypeOK /\ told \in Audiences /\ players \in [BindId -> Player]
  BY DEF TypeInvariant, TypeOK, Audiences, KnownPlayers
<1>1. ASSUME NEW b \in BindId, Attach(b) PROVE TypeInvariant'
  <2>1. conn' \in [BindId -> {"none", "adding", "listed", "lost"}]
    BY <1>0, <1>1, ListingType DEF Attach, TypeOK
  <2> QED BY <1>0, <1>1, <2>1, ForgetsType, NewPlayerType
      DEF Attach, setup, TypeInvariant, TypeOK, NamedWithConfig, Audiences, KnownPlayers
<1>2. ASSUME NEW b \in BindId, Added(b) PROVE TypeInvariant'
  BY <1>0, <1>2 DEF Added, setup, TypeInvariant, TypeOK, NamedWithConfig
<1>3. ASSUME NEW b \in BindId, Lost(b) \/ Restore(b) PROVE TypeInvariant'
  <2>1. conn' \in [BindId -> {"none", "adding", "listed", "lost"}]
    BY <1>0, <1>3, ListingType DEF Lost, Restore, TypeOK
  <2> QED BY <1>0, <1>3, <2>1
      DEF Lost, Restore, setup, TypeInvariant, TypeOK, NamedWithConfig
<1>4. ASSUME NEW b \in BindId, NEW login \in Logins, RegisterName(b, login)
      PROVE  TypeInvariant'
  <2>1. Stored(login) \in Names
    BY <1>4, StoredType DEF RegisterName
  <2>2. players' \in [BindId -> Player]
    BY <1>0, <1>4, <2>1 DEF RegisterName, Player
  <2>3. told' \in Audiences
    BY <1>0, <1>4, <2>1, NotifyTypes DEF RegisterName
  <2> QED BY <1>0, <1>4, <2>2, <2>3, RosterStepType DEF RegisterName, TypeOK, setup
<1>5. ASSUME NEW b \in BindId, NEW bytes \in Bodies,
             SetPlayerData(b, bytes) \/ CreateVanger(b, bytes)
      PROVE  TypeInvariant'
  <2>1. players' \in [BindId -> Player]
    BY <1>0, <1>5, BodyType DEF SetPlayerData, CreateVanger, Player
  <2>2. told' \in Audiences
    BY <1>0, <1>5, BodyType, NotifyTypes DEF SetPlayerData, CreateVanger
  <2> QED BY <1>0, <1>5, <2>1, <2>2, RosterStepType
      DEF SetPlayerData, CreateVanger, TypeOK, setup
<1>6. ASSUME NEW b \in BindId, NEW w \in WorldId, SetWorld(b, w) PROVE TypeInvariant'
  <2> DEFINE parted == IF players[b].world # w THEN LeaveTold(told, b) ELSE told
             gaming == IF players[b].status # "GAMING"
                       THEN Notify(parted, b, "status", "GAMING") ELSE parted
  <2>1. players' \in [BindId -> Player] /\ players' = Placed(players, b, w)
    BY <1>0, <1>6, PlacedType DEF SetWorld
  <2>2. parted \in Audiences
    BY <1>0, LeaveToldType
  <2>3. gaming \in Audiences
    <3> HIDE DEF parted
    <3> QED BY <2>2, NotifyTypes DEF Status
  <2>4. Notify(gaming, b, "world", w) \in Audiences
    <3> HIDE DEF gaming
    <3> QED BY <2>3, NotifyTypes
  <2>5. told' = SendTotalList(Notify(gaming, b, "world", w), Placed(players, b, w), b)
    BY <1>6 DEF SetWorld
  <2>6. told' \in Audiences
    <3> HIDE DEF gaming
    <3> QED BY <1>0, <2>1, <2>4, <2>5, SendTotalListType
  <2>7. worlds' \in SUBSET WorldId /\ UNCHANGED <<conn, removed, setup, knows>>
    BY <1>0, <1>6 DEF SetWorld, TypeOK, setup
  <2> QED BY <2>1, <2>6, <2>7, RosterStepType
<1>7. ASSUME NEW b \in BindId, LeaveWorld(b) \/ \E w \in WorldId : SetWorldFails(b, w)
      PROVE  TypeInvariant'
  <2>1. /\ players' = Left(players, b) /\ told' = LeaveTold(told, b)
        /\ UNCHANGED <<conn, removed, setup, knows, worlds>>
    BY <1>7 DEF LeaveWorld, SetWorldFails
  <2>2. players' \in [BindId -> Player] /\ told' \in Audiences
    BY <1>0, <2>1, LeftType, LeaveToldType
  <2>3. worlds' \in SUBSET WorldId
    BY <1>0, <2>1 DEF TypeOK
  <2> QED BY <2>1, <2>2, <2>3, RosterStepType
<1>8. ASSUME NEW b \in BindId, TotalPlayersDataQuery(b) PROVE TypeInvariant'
  BY <1>0, <1>8, SendTotalListType, RosterStepType
  DEF TotalPlayersDataQuery, seats, setup, TypeOK
<1>9. ASSUME NEW b \in BindId, CloseSocket(b) PROVE TypeInvariant'
  BY <1>9, CloseSocketType
<1>10. ASSUME NEW b \in BindId, NEW name \in Titles, NEW words \in Forms,
              SetGameData(b, name, words)
       PROVE  TypeInvariant'
  <2>1. Present' = Present
    BY <1>10 DEF SetGameData, seats, Present
  <2>2. config = None /\ title = None
    BY <1>10 DEF SetGameData, SetConfig, IsConfigured, TypeInvariant, NamedWithConfig
  <2>3. /\ config' = FromWords(words)
        /\ title' = IF config' = None THEN title ELSE name
        /\ UNCHANGED <<conn, players, removed, worlds, told, knows>>
    BY <1>10 DEF SetGameData, SetConfig, seats
  <2>4. NamedWithConfig'
    BY <2>2, <2>3 DEF NamedWithConfig
  <2>5. TypeOK'
    BY <1>0, <2>1, <2>2, <2>3 DEF TypeOK
  <2> QED BY <2>4, <2>5 DEF TypeInvariant
<1>11. ASSUME NEW b \in BindId, GetGameData(b) PROVE TypeInvariant'
  <2>1. Present' = Present
    BY <1>11 DEF GetGameData, seats, Present
  <2>2. GameData \in [title : Titles, words : {ToWords(FromWords(ws)) :
                        ws \in {f \in Forms : FromWords(f) # None}}]
    BY <1>0, <1>11
    DEF GetGameData, IsConfigured, GameData, TypeInvariant, TypeOK, NamedWithConfig
  <2> QED BY <1>0, <1>11, <2>1, <2>2
      DEF GetGameData, seats, setup, TypeInvariant, TypeOK, NamedWithConfig
<1>12. CASE UNCHANGED vars
  BY <1>12 DEF vars, TypeInvariant, TypeOK, NamedWithConfig, Present
<1> QED BY <1>1, <1>2, <1>3, <1>4, <1>5, <1>6, <1>7, <1>8, <1>9, <1>10, <1>11, <1>12 DEF Next

\* Every variable of a game's roster keeps its type; in particular a name the
\* server keeps has at most 16 characters and no control characters.
THEOREM TypeCorrect == Spec => []TypeOK
<1>1. TypeInvariant => TypeOK
  BY DEF TypeInvariant
<1> QED BY <1>1, InitType, NextType, PTL DEF Spec

-----------------------------------------------------------------------------
(* What clients were told of the others. *)

\* What is known of b agrees with b's player, or, on a free seat, does not look
\* like one who plays.
Fits(known, b) ==
  IF b \in Present
  THEN Agrees(known, players[b])
  ELSE known.status # "GAMING" /\ known.world \in {0, Unknown}

AllAgree == \A c \in Observer \cap Present : \A b \in BindId \ {c} : Fits(told[c][b], b)

\* What the list says of those who left does not look like one who plays.
LeftAtRest ==
  \A b \in BindId : removed[b] # None =>
    removed[b].world = 0 /\ removed[b].status # "GAMING"

\* Nobody holds the seat of a removed player.
RemovedAreGone == \A b \in Present : removed[b] = None

RosterInvariant ==
  TypeInvariant /\ AllAgree /\ LeftAtRest /\ RemovedAreGone

LEMMA InvariantTypes ==
  ASSUME RosterInvariant
  PROVE  /\ TypeOK /\ told \in Audiences /\ players \in [BindId -> Player]
         /\ Present \in SUBSET BindId
         /\ \A c \in Observer : c \in BindId
BY DEF RosterInvariant, TypeInvariant, TypeOK, Audiences, KnownPlayers, Present

\* n is k but for what a notice says of a field.
Renewed(n, k, field, value) ==
  /\ n.name = IF field = "name" THEN value ELSE k.name
  /\ n.body = IF field = "body" THEN value ELSE k.body
  /\ n.status = IF field = "status" THEN value ELSE k.status
  /\ n.world = IF field = "world" THEN value ELSE k.world

\* What c knows of d after a change of b.
LEMMA ChangedFields ==
  ASSUME NEW t \in Audiences, NEW b \in BindId,
         NEW field \in {"name", "body", "status", "world"}, NEW value, NEW reached,
         NEW c \in Observer, NEW d \in BindId
  PROVE  LET v == IF c \in reached THEN value ELSE Unknown
             n == Changed(t, b, field, value, reached)[c][d]
         IN  IF c # b /\ c \in Present /\ d = b
             THEN Renewed(n, t[c][d], field, v)
             ELSE n = t[c][d]
<1> DEFINE v == IF c \in reached THEN value ELSE Unknown
           n == Changed(t, b, field, value, reached)[c][d]
<1>1. t[c][d] \in Known
  BY DEF Audiences, KnownPlayers
<1>2. n = IF c # b /\ c \in Present /\ d = b
          THEN [t[c][d] EXCEPT ![field] = v] ELSE t[c][d]
  BY ChangedEach
<1> HIDE DEF v, n
<1>3. \A k \in Known : Renewed([k EXCEPT ![field] = v], k, field, v)
  BY DEF Known, Renewed
<1>4. Renewed([t[c][d] EXCEPT ![field] = v], t[c][d], field, v)
  BY <1>1, <1>3
<1>5. IF c # b /\ c \in Present /\ d = b THEN Renewed(n, t[c][d], field, v) ELSE n = t[c][d]
  BY <1>2, <1>4
<1> QED BY <1>5 DEF v, n

LEMMA NotifyFields ==
  ASSUME NEW t \in Audiences, NEW b \in BindId,
         NEW field \in {"name", "body", "status", "world"}, NEW value,
         NEW c \in Observer, NEW d \in BindId
  PROVE  IF c # b /\ c \in Present /\ d = b
         THEN Renewed(Notify(t, b, field, value)[c][d], t[c][d], field,
                      IF c \in Listed THEN value ELSE Unknown)
         ELSE Notify(t, b, field, value)[c][d] = t[c][d]
BY ChangedFields DEF Notify

\* The client whose player has changed learns nothing from it.
LEMMA NotifySelf ==
  ASSUME NEW t, NEW b \in Observer, NEW field, NEW value
  PROVE  Notify(t, b, field, value)[b] = t[b]
BY DEF Notify, Changed

\* What c knows of d when b has left its world.
LEMMA LeaveToldFields ==
  ASSUME NEW b \in BindId, told \in Audiences, NEW c \in Observer, NEW d \in BindId
  PROVE  LET k == told[c][d]
             n == LeaveTold(told, b)[c][d]
         IN  IF c # b /\ c \in Present /\ d = b
             THEN /\ n.name = k.name /\ n.body = k.body /\ n.status = k.status
                  /\ n.world = IF players[b].world = 0 THEN k.world
                               ELSE IF c \in Listed THEN 0 ELSE Unknown
             ELSE n = k
BY NotifyFields DEF LeaveTold, Renewed

LEMMA LeaveToldSelf ==
  ASSUME NEW b \in Observer
  PROVE  LeaveTold(told, b)[b] = told[b]
BY NotifySelf DEF LeaveTold

-----------------------------------------------------------------------------
(* Each handler keeps clients informed. *)

\* The list tells c nothing wrong of the others.
LEMMA ListFits ==
  ASSUME RosterInvariant, NEW t, NEW ps, NEW c \in Observer \cap Present,
         NEW d \in BindId \ {c}, t[c][d] = told[c][d], ps[d] = players[d]
  PROVE  Fits(TotalList(t, ps, c)[d], d)
<1>1. Fits(told[c][d], d)
  BY DEF RosterInvariant, AllAgree
<1>2. d \in Present => Fits(players[d], d)
  BY DEF Fits, Agrees
<1>3. d \notin Present /\ removed[d] # None => Fits(removed[d], d)
  BY DEF Fits, RosterInvariant, LeftAtRest
<1> QED BY <1>1, <1>2, <1>3, TotalListEach

\* A handler that changes b's player, or only what is known of players, and
\* moves nobody.
LEMMA PlayerStep ==
  ASSUME RosterInvariant, TypeInvariant', NEW b \in Present, NEW p,
         players' = [players EXCEPT ![b] = p], UNCHANGED <<conn, removed>>,
         \A c \in Observer \cap Present :
           /\ c # b => Agrees(told'[c][b], p)
           /\ \A d \in BindId \ {b, c} : Fits(told'[c][d], d)
  PROVE  RosterInvariant'
<1>0. TypeOK /\ b \in BindId /\ Present' = Present
  BY InvariantTypes DEF Present
<1>1. ASSUME NEW c \in Observer \cap Present, NEW d \in BindId \ {c}
      PROVE  Fits(told[c][d], d)'
  <2>1. CASE d # b
    <3>1. players'[d] = players[d]
      BY <1>0, <2>1 DEF TypeOK
    <3> QED BY <1>0, <1>1, <2>1, <3>1 DEF Fits
  <2>2. CASE d = b
    <3>1. players'[b] = p
      BY <1>0 DEF TypeOK
    <3> QED BY <1>0, <1>1, <2>2, <3>1 DEF Fits
  <2> QED BY <2>1, <2>2
<1> QED BY <1>0, <1>1
    DEF RosterInvariant, AllAgree, LeftAtRest, RemovedAreGone

\* The same for a handler that tells c nothing of others than b.
LEMMA OwnStep ==
  ASSUME RosterInvariant, TypeInvariant', NEW b \in Present, NEW p,
         players' = [players EXCEPT ![b] = p], UNCHANGED <<conn, removed>>,
         \A c \in Observer : \A d \in BindId \ {b} : told'[c][d] = told[c][d],
         \A c \in Observer \cap Present : c # b => Agrees(told'[c][b], p)
  PROVE  RosterInvariant'
<1>1. ASSUME NEW c \in Observer \cap Present, NEW d \in BindId \ {b, c}
      PROVE  Fits(told'[c][d], d)
  BY DEF RosterInvariant, AllAgree
<1> QED BY <1>1, PlayerStep

LEMMA RegisterNameRoster ==
  ASSUME RosterInvariant, TypeInvariant', NEW b \in BindId, NEW login,
         RegisterName(b, login)
  PROVE  RosterInvariant'
<1> DEFINE p == [players[b] EXCEPT !.name = Stored(login)]
<1>0. told \in Audiences /\ b \in Present /\ players[b] \in Player
  BY InvariantTypes DEF RegisterName, Talks, Present
<1>1. players' = [players EXCEPT ![b] = p]
  BY DEF RegisterName
<1>2. ASSUME NEW c \in Observer \cap Present, c # b
      PROVE  Agrees(told'[c][b], p)
  <2>1. Agrees(told[c][b], players[b])
    BY <1>0, <1>2 DEF RosterInvariant, AllAgree, Fits
  <2>2. told' = Notify(told, b, "name", Stored(login))
    BY DEF RegisterName
  <2>3. /\ told'[c][b].name \in {Unknown, Stored(login)}
        /\ told'[c][b].body = told[c][b].body
        /\ told'[c][b].status = told[c][b].status /\ told'[c][b].world = told[c][b].world
    BY <1>0, <1>2, <2>2, NotifyFields DEF Renewed
  <2>4. /\ p.name = Stored(login) /\ p.body = players[b].body
        /\ p.status = players[b].status /\ p.world = players[b].world
    BY <1>0 DEF Player
  <2> QED BY <2>1, <2>2, <2>3, <2>4 DEF Agrees
<1>3. /\ \A c \in Observer : \A d \in BindId \ {b} : told'[c][d] = told[c][d]
      /\ UNCHANGED <<conn, removed>>
  BY <1>0, NotifyFields DEF RegisterName
<1> HIDE DEF p
<1> QED BY <1>0, <1>1, <1>2, <1>3, OwnStep

LEMMA BodyRoster ==
  ASSUME RosterInvariant, TypeInvariant', NEW b \in BindId, NEW bytes,
         SetPlayerData(b, bytes) \/ CreateVanger(b, bytes)
  PROVE  RosterInvariant'
<1> DEFINE p == [players[b] EXCEPT !.body = Body(bytes)]
<1>0. told \in Audiences /\ b \in Present /\ players[b] \in Player
  BY InvariantTypes DEF SetPlayerData, CreateVanger, Talks, Present
<1>1. players' = [players EXCEPT ![b] = p] /\ UNCHANGED <<conn, removed>>
  BY DEF SetPlayerData, CreateVanger
<1>4. /\ p.name = players[b].name /\ p.body = Body(bytes)
      /\ p.status = players[b].status /\ p.world = players[b].world
  BY <1>0 DEF Player
<1> HIDE DEF p
<1>2. ASSUME NEW c \in Observer \cap Present, c # b
      PROVE  Agrees(told'[c][b], p)
  <2>1. Agrees(told[c][b], players[b])
    BY <1>0, <1>2 DEF RosterInvariant, AllAgree, Fits
  <2>2. CASE SetPlayerData(b, bytes) /\ Body(bytes) # None
    <3>1. told' = Notify(told, b, "body", Body(bytes))
      BY <2>2 DEF SetPlayerData
    <3>2. /\ told'[c][b].name = told[c][b].name
          /\ told'[c][b].body \in {Unknown, Body(bytes)}
          /\ told'[c][b].status = told[c][b].status
          /\ told'[c][b].world = told[c][b].world
      BY <1>0, <1>2, <3>1, NotifyFields DEF Renewed
    <3> QED BY <1>4, <2>1, <3>2 DEF Agrees
  <2>3. CASE SetPlayerData(b, bytes) /\ Body(bytes) = None
    BY <1>4, <2>1, <2>3 DEF Agrees, SetPlayerData
  <2>4. CASE CreateVanger(b, bytes)
    <3>1. told' = Changed(told, b, "body", Body(bytes), {})
      BY <2>4 DEF CreateVanger
    <3>2. /\ told'[c][b].name = told[c][b].name /\ told'[c][b].body = Unknown
          /\ told'[c][b].status = told[c][b].status
          /\ told'[c][b].world = told[c][b].world
      BY <1>0, <1>2, <3>1, ChangedFields DEF Renewed
    <3> QED BY <1>4, <2>1, <3>2 DEF Agrees
  <2> QED BY <2>2, <2>3, <2>4
<1>3. \A c \in Observer : \A d \in BindId \ {b} : told'[c][d] = told[c][d]
  BY <1>0, NotifyFields, ChangedFields DEF SetPlayerData, CreateVanger
<1> QED BY <1>0, <1>1, <1>2, <1>3, OwnStep

LEMMA LeaveRoster ==
  ASSUME RosterInvariant, TypeInvariant', NEW b \in BindId,
         LeaveWorld(b) \/ \E w \in WorldId : SetWorldFails(b, w)
  PROVE  RosterInvariant'
<1> DEFINE p == [players[b] EXCEPT !.world = 0]
<1>0. told \in Audiences /\ b \in Present /\ players[b] \in Player
  BY InvariantTypes DEF LeaveWorld, SetWorldFails, Talks, Present
<1>1. /\ players' = [players EXCEPT ![b] = p] /\ told' = LeaveTold(told, b)
      /\ UNCHANGED <<conn, removed>>
  BY DEF LeaveWorld, SetWorldFails, Left
<1>2. ASSUME NEW c \in Observer \cap Present, c # b
      PROVE  Agrees(told'[c][b], p)
  <2>1. Agrees(told[c][b], players[b])
    BY <1>0, <1>2 DEF RosterInvariant, AllAgree, Fits
  <2>2. /\ told'[c][b].name = told[c][b].name /\ told'[c][b].body = told[c][b].body
        /\ told'[c][b].status = told[c][b].status
        /\ told'[c][b].world = IF players[b].world = 0 THEN told[c][b].world
                               ELSE IF c \in Listed THEN 0 ELSE Unknown
    BY <1>0, <1>1, <1>2, LeaveToldFields
  <2>3. /\ p.name = players[b].name /\ p.body = players[b].body
        /\ p.status = players[b].status /\ p.world = 0
    BY <1>0 DEF Player
  <2> QED BY <1>1, <2>1, <2>2, <2>3 DEF Agrees
<1>3. \A c \in Observer : \A d \in BindId \ {b} : told'[c][d] = told[c][d]
  BY <1>0, <1>1, LeaveToldFields
<1> HIDE DEF p
<1> QED BY <1>0, <1>1, <1>2, <1>3, OwnStep

LEMMA SetWorldRoster ==
  ASSUME RosterInvariant, TypeInvariant', NEW b \in BindId, NEW w \in WorldId, SetWorld(b, w)
  PROVE  RosterInvariant'
<1> DEFINE p      == [players[b] EXCEPT !.world = w, !.status = "GAMING"]
           parted == IF players[b].world # w THEN LeaveTold(told, b) ELSE told
           gaming == IF players[b].status # "GAMING"
                     THEN Notify(parted, b, "status", "GAMING") ELSE parted
           noted  == Notify(gaming, b, "world", w)
<1>0. /\ told \in Audiences /\ b \in Present /\ players[b] \in Player
      /\ players \in [BindId -> Player]
  BY InvariantTypes DEF SetWorld, Talks, Present
<1>1. /\ players' = [players EXCEPT ![b] = p] /\ UNCHANGED <<conn, removed>>
      /\ told' = SendTotalList(noted, Placed(players, b, w), b)
  BY <1>0 DEF SetWorld, Placed
<1>2. parted \in Audiences
  BY <1>0, LeaveToldType
<1>3. gaming \in Audiences
  <2> HIDE DEF parted
  <2> QED BY <1>2, NotifyTypes DEF Status
<1>4. Listed \subseteq Present
  BY DEF Listed, Present
<1>5. \A c \in Observer, d \in BindId :
        LET k == told[c][d]
            n == parted[c][d]
        IN  IF c # b /\ c \in Present /\ d = b
            THEN n.name = k.name /\ n.body = k.body /\ n.status = k.status
            ELSE n = k
  BY <1>0, LeaveToldFields
<1>6. \A c \in Observer, d \in BindId :
        LET k == told[c][d]
            n == gaming[c][d]
        IN  IF c # b /\ c \in Present /\ d = b
            THEN /\ n.name = k.name /\ n.body = k.body
                 /\ IF players[b].status # "GAMING" THEN n.status \in {"GAMING", Unknown}
                                                    ELSE n.status = k.status
            ELSE n = k
  <2> HIDE DEF parted
  <2> QED BY <1>0, <1>2, <1>5, NotifyFields DEF Renewed
<1>7. \A c \in Observer, d \in BindId :
        LET k == told[c][d]
            n == noted[c][d]
        IN  IF c # b /\ c \in Present /\ d = b
            THEN /\ n.name = k.name /\ n.body = k.body /\ n.world \in {Unknown, w}
                 /\ IF players[b].status # "GAMING" THEN n.status \in {"GAMING", Unknown}
                                                    ELSE n.status = k.status
            ELSE n = k
  <2> HIDE DEF gaming
  <2> QED BY <1>0, <1>3, <1>6, NotifyFields DEF Renewed
<1>8. /\ p.name = players[b].name /\ p.body = players[b].body
      /\ p.status = "GAMING" /\ p.world = w
  BY <1>0 DEF Player
<1> HIDE DEF p, noted
<1>9. ASSUME NEW c \in Observer \cap Present, c # b
      PROVE  Agrees(told'[c][b], p)
  <2>1. Agrees(told[c][b], players[b])
    BY <1>0, <1>9 DEF RosterInvariant, AllAgree, Fits
  <2>2. told'[c] = noted[c]
    BY <1>1, <1>9 DEF SendTotalList
  <2> QED BY <1>0, <1>1, <1>7, <1>8, <1>9, <2>1, <2>2 DEF Agrees
<1>10. ASSUME NEW c \in Observer \cap Present, NEW d \in BindId \ {b, c}
       PROVE  Fits(told'[c][d], d)
  <2>1. noted[c][d] = told[c][d]
    BY <1>7, <1>10
  <2>2. CASE c = b /\ c \in Listed
    <3>1. told'[c] = TotalList(noted, Placed(players, b, w), c)
      BY <1>1, <2>2 DEF SendTotalList
    <3>2. Placed(players, b, w)[d] = players[d]
      BY <1>0, <1>10 DEF Placed
    <3> QED BY <1>10, <2>1, <3>1, <3>2, ListFits
  <2>3. CASE ~(c = b /\ c \in Listed)
    BY <1>1, <1>10, <2>1, <2>3 DEF SendTotalList, RosterInvariant, AllAgree
  <2> QED BY <2>2, <2>3
<1> QED BY <1>0, <1>1, <1>9, <1>10, PlayerStep

LEMMA QueryRoster ==
  ASSUME RosterInvariant, TypeInvariant', NEW b \in BindId, TotalPlayersDataQuery(b)
  PROVE  RosterInvariant'
<1> DEFINE p == players[b]
<1>0. b \in Present /\ players \in [BindId -> Player]
  BY InvariantTypes DEF TotalPlayersDataQuery, Talks, Present
<1>1. /\ players' = [players EXCEPT ![b] = p] /\ UNCHANGED <<conn, removed>>
      /\ told' = SendTotalList(told, players, b)
  BY <1>0 DEF TotalPlayersDataQuery, seats
<1>2. ASSUME NEW c \in Observer \cap Present, NEW d \in BindId \ {c}
      PROVE  Fits(told'[c][d], d)
  BY <1>1, <1>2, ListFits DEF SendTotalList, RosterInvariant, AllAgree
<1>3. ASSUME NEW c \in Observer \cap Present, c # b
      PROVE  Agrees(told'[c][b], p)
  BY <1>0, <1>1, <1>2, <1>3 DEF Fits
<1> HIDE DEF p
<1>4. \A c \in Observer \cap Present :
        /\ c # b => Agrees(told'[c][b], p)
        /\ \A d \in BindId \ {b, c} : Fits(told'[c][d], d)
  BY <1>2, <1>3
<1> QED BY <1>0, <1>1, <1>4, PlayerStep

\* A player who comes was told nothing, and nobody was told of it.
LEMMA AttachRoster ==
  ASSUME RosterInvariant, TypeInvariant', NEW b \in BindId, Attach(b)
  PROVE  RosterInvariant'
<1>0. TypeOK /\ b \notin Present
  BY InvariantTypes DEF Attach
<1>1. \A c \in Observer : told'[c] = IF c = b THEN Blank ELSE told[c]
  BY DEF Attach, Forgets
<1>2. Present' = Present \cup {b}
  <2>1. PICK s \in {"adding", "listed"} : conn' = [conn EXCEPT ![b] = s]
    BY ListingType DEF Attach
  <2> QED BY <1>0, <2>1 DEF TypeOK, Present
<1>3. /\ players'[b] = NewPlayer
      /\ \A d \in BindId \ {b} : players'[d] = players[d] /\ removed'[d] = removed[d]
      /\ removed'[b] = None
  BY <1>0 DEF Attach, TypeOK
<1>4. ASSUME NEW c \in Observer \cap Present', NEW d \in BindId \ {c}
      PROVE  Fits(told[c][d], d)'
  <2>1. CASE c = b
    <3>1. told'[c][d] = Nothing
      BY <1>1, <1>4, <2>1 DEF Blank
    <3> QED BY <3>1 DEF Fits, Agrees, Nothing, Status
  <2>2. CASE c # b
    <3>1. Fits(told[c][d], d) /\ told'[c][d] = told[c][d]
      BY <1>1, <1>2, <1>4, <2>2 DEF RosterInvariant, AllAgree
    <3>2. CASE d # b
      <4>1. d \in Present' <=> d \in Present
        BY <1>2, <3>2
      <4> QED BY <1>3, <1>4, <3>1, <3>2, <4>1 DEF Fits
    <3>3. CASE d = b
      BY <1>0, <1>2, <1>3, <3>1, <3>3 DEF Fits, Agrees, NewPlayer
    <3> QED BY <3>2, <3>3
  <2> QED BY <2>1, <2>2
<1>5. LeftAtRest'
  BY <1>3 DEF RosterInvariant, LeftAtRest
<1>6. RemovedAreGone'
  <2>1. ASSUME NEW d \in Present' PROVE removed'[d] = None
    <3>1. (d \in Present \/ d = b) /\ d \in BindId
      BY <1>2, <2>1 DEF Present
    <3> QED BY <1>3, <3>1 DEF RosterInvariant, RemovedAreGone
  <2> QED BY <2>1 DEF RemovedAreGone
<1> QED BY <1>4, <1>5, <1>6 DEF RosterInvariant, AllAgree

LEMMA CloseSocketRoster ==
  ASSUME RosterInvariant, TypeInvariant', NEW b \in BindId, CloseSocket(b)
  PROVE  RosterInvariant'
<1> DEFINE parted == LeaveTold(told, b)
           over   == IF players[b].status = "GAMING"
                     THEN Notify(parted, b, "status", "FINISHED") ELSE parted
           left   == Snapshot(Finished(players[b]))
<1>0. /\ TypeOK /\ TypeOK' /\ told \in Audiences /\ b \in Present
      /\ players[b] \in Player /\ players \in [BindId -> Player]
  BY InvariantTypes DEF CloseSocket, TypeInvariant
<1>1. told' = [c \in Observer |-> IF c = b THEN Blank ELSE over[c]]
  BY DEF CloseSocket
<1>2. Present' = Present \ {b}
  BY <1>0 DEF CloseSocket, TypeOK, Present
<1>3. parted \in Audiences
  BY <1>0, LeaveToldType
<1>5. \A c \in Observer, d \in BindId :
        LET k == told[c][d]
            n == parted[c][d]
        IN  IF c # b /\ c \in Present /\ d = b
            THEN /\ n.status = k.status
                 /\ IF players[b].world = 0 THEN n.world = k.world ELSE n.world \in {0, Unknown}
            ELSE n = k
  BY <1>0, LeaveToldFields
<1>6. \A c \in Observer, d \in BindId :
        LET k == told[c][d]
            n == over[c][d]
        IN  IF c # b /\ c \in Present /\ d = b
            THEN /\ IF players[b].status = "GAMING" THEN n.status \in {"FINISHED", Unknown}
                                                    ELSE n.status = k.status
                 /\ IF players[b].world = 0 THEN n.world = k.world ELSE n.world \in {0, Unknown}
            ELSE n = k
  <2> HIDE DEF parted
  <2> QED BY <1>0, <1>3, <1>5, NotifyFields DEF Renewed
<1>7. left # None => left.world = 0 /\ left.status # "GAMING"
  BY <1>0 DEF Snapshot, Finished, Player
<1>8. \/ GameEnds /\ Present = {b}
      \/ /\ removed' = [removed EXCEPT ![b] = left]
         /\ players' = [players EXCEPT ![b] = NewPlayer]
  BY DEF CloseSocket
<1> HIDE DEF left, over
<1>9. ASSUME NEW c \in Observer \cap Present', NEW d \in BindId \ {c}
      PROVE  Fits(told[c][d], d)'
  <2>0. c # b /\ c \in Present /\ c \in Observer
    BY <1>2, <1>9
  <2>1. told'[c][d] = over[c][d] /\ Fits(told[c][d], d)
    BY <1>1, <1>9, <2>0 DEF RosterInvariant, AllAgree
  <2>2. CASE d # b
    <3>1. told'[c][d] = told[c][d]
      BY <1>6, <1>9, <2>0, <2>1, <2>2
    <3>2. players'[d] = players[d]
      BY <1>0, <1>8, <1>9, <2>0, <2>2 DEF TypeOK
    <3>3. d \in Present' <=> d \in Present
      BY <1>2, <2>2
    <3> QED BY <2>1, <3>1, <3>2, <3>3 DEF Fits
  <2>3. CASE d = b
    <3>1. Agrees(told[c][b], players[b])
      BY <1>0, <2>1, <2>3 DEF Fits
    <3>2. told'[c][b].status # "GAMING" /\ told'[c][b].world \in {0, Unknown}
      BY <1>0, <1>6, <2>0, <2>1, <2>3, <3>1 DEF Agrees, Player, Status
    <3> QED BY <1>2, <2>3, <3>2 DEF Fits
  <2> QED BY <2>2, <2>3
<1>11. LeftAtRest'
  BY <1>0, <1>7, <1>8 DEF GameEnds, TypeOK, RosterInvariant, LeftAtRest
<1>12. RemovedAreGone'
  BY <1>0, <1>2, <1>8 DEF GameEnds, TypeOK, RosterInvariant, RemovedAreGone, Present
<1> QED BY <1>9, <1>11, <1>12
    DEF RosterInvariant, AllAgree

\* Handlers that touch only connections or the configuration.
LEMMA RosterUnchanged ==
  ASSUME RosterInvariant, TypeInvariant', Present' = Present,
         UNCHANGED <<players, removed, told>>
  PROVE  RosterInvariant'
BY DEF RosterInvariant, AllAgree, Fits, LeftAtRest, RemovedAreGone

LEMMA SamePresent ==
  ASSUME TypeOK, NEW b \in BindId, Added(b) \/ Lost(b) \/ Restore(b)
  PROVE  Present' = Present
<1>1. PICK s \in {"adding", "listed", "lost"} : conn' = [conn EXCEPT ![b] = s]
  BY ListingType DEF Added, Lost, Restore
<1>2. b \in Present
  BY DEF Added, Lost, Restore, Present
<1> QED BY <1>1, <1>2 DEF TypeOK, Present

LEMMA InitRoster == Init => RosterInvariant
<1> SUFFICES ASSUME Init PROVE RosterInvariant
  OBVIOUS
<1>1. Present = {}
  BY DEF Init, Present
<1> QED BY <1>1, InitType
    DEF Init, RosterInvariant, AllAgree, LeftAtRest, RemovedAreGone

LEMMA NextRoster == RosterInvariant /\ [Next]_vars => RosterInvariant'
<1> SUFFICES ASSUME RosterInvariant, [Next]_vars PROVE RosterInvariant'
  OBVIOUS
<1>0. TypeInvariant'
  BY NextType DEF RosterInvariant
<1>1. ASSUME NEW b \in BindId, Attach(b) PROVE RosterInvariant'
  BY <1>0, <1>1, AttachRoster
<1>2. ASSUME NEW b \in BindId, Added(b) \/ Lost(b) \/ Restore(b) PROVE RosterInvariant'
  <2>1. UNCHANGED <<players, removed, told>>
    BY <1>2 DEF Added, Lost, Restore
  <2>2. Present' = Present
    BY <1>2, SamePresent, InvariantTypes
  <2> QED BY <1>0, <2>1, <2>2, RosterUnchanged
<1>3. ASSUME NEW b \in BindId, \E login \in Logins : RegisterName(b, login)
      PROVE  RosterInvariant'
  BY <1>0, <1>3, RegisterNameRoster
<1>4. ASSUME NEW b \in BindId,
             \E bytes \in Bodies : SetPlayerData(b, bytes) \/ CreateVanger(b, bytes)
      PROVE  RosterInvariant'
  BY <1>0, <1>4, BodyRoster
<1>5. ASSUME NEW b \in BindId, \E w \in WorldId : SetWorld(b, w) PROVE RosterInvariant'
  BY <1>0, <1>5, SetWorldRoster
<1>6. ASSUME NEW b \in BindId, LeaveWorld(b) \/ \E w \in WorldId : SetWorldFails(b, w)
      PROVE  RosterInvariant'
  BY <1>0, <1>6, LeaveRoster
<1>7. ASSUME NEW b \in BindId, TotalPlayersDataQuery(b) PROVE RosterInvariant'
  BY <1>0, <1>7, QueryRoster
<1>8. ASSUME NEW b \in BindId, CloseSocket(b) PROVE RosterInvariant'
  BY <1>0, <1>8, CloseSocketRoster
<1>9. ASSUME NEW b \in BindId,
             (\E name \in Titles, words \in Forms : SetGameData(b, name, words))
               \/ GetGameData(b)
      PROVE  RosterInvariant'
  BY <1>0, <1>9, RosterUnchanged DEF SetGameData, GetGameData, seats, Present
<1>10. CASE UNCHANGED vars
  BY <1>0, <1>10, RosterUnchanged DEF vars, Present
<1> QED BY <1>1, <1>2, <1>3, <1>4, <1>5, <1>6, <1>7, <1>8, <1>9, <1>10 DEF Next

LEMMA RosterHolds == Spec => []RosterInvariant
BY InitRoster, NextRoster, PTL DEF Spec

\* What a client was told of the name, the body, the status and the world of a
\* player who holds a seat is what the server holds, whatever order the handlers
\* ran in.  Changes it was sent no word of are left out: those made while its own
\* Client was off the list and bodies that came with a vanger; so are the name
\* and the body of a player without one.
THEOREM RosterCorrect == Spec => []RosterAgrees
<1>1. RosterInvariant => RosterAgrees
  BY DEF RosterInvariant, AllAgree, Fits, RosterAgrees, Present
<1> QED BY <1>1, RosterHolds, PTL

\* No client is left with a player that plays, or is in a world, on a seat that
\* nobody holds, unless it missed that while its own Client was off the list.
THEOREM NobodyHaunts == Spec => []NoGhosts
<1>1. RosterInvariant => NoGhosts
  <2> SUFFICES ASSUME RosterInvariant, NEW c \in Observer \cap Present,
                      NEW b \in BindId \ Present
               PROVE  told[c][b].status # "GAMING" /\ told[c][b].world \in {0, Unknown}
    BY DEF NoGhosts
  <2>1. b # c
    OBVIOUS
  <2> QED BY <2>1 DEF RosterInvariant, AllAgree, Fits
<1> QED BY <1>1, RosterHolds, PTL

-----------------------------------------------------------------------------
(* The scores of those who left. *)

\* A seat has at most one entry: its player's, or that of who left it.
ScoreEntry(e, b) ==
  \/ b \in Present /\ players[b].name # None /\ players[b].body # None
       /\ e = Entry(b, players[b])
  \/ removed[b] # None /\ e = Entry(b, removed[b])

ScoresListed == \A b \in BindId : \A e : e \in ScoreOf(b) <=> ScoreEntry(e, b)

LEMMA ScoreEach == ScoresListed
<1>1. \A a, p : Entry(a, p).bind = a
  BY DEF Entry
<1> QED BY <1>1 DEF ScoresListed, ScoreOf, Entries, ScoreEntry, Present

LEMMA SameScore ==
  ASSUME NEW b \in BindId, \A e : ScoreEntry(e, b)' <=> ScoreEntry(e, b)
  PROVE  ScoreOf(b)' = ScoreOf(b)
<1>1. ScoresListed'
  BY ScoreEach, PTL
<1>2. \A e : e \in ScoreOf(b)' <=> e \in ScoreOf(b)
  BY <1>1, ScoreEach DEF ScoresListed
<1>3. ScoreOf(b) \in SUBSET Entries /\ (ScoreOf(b) \in SUBSET Entries)'
  BY DEF ScoreOf
<1> QED BY <1>2 DEF ScoreOf

\* A step of somebody else, on a seat that is free before and after.
LEMMA StillRemoved ==
  ASSUME NEW b \in BindId, b \notin Present, b \notin Present', removed'[b] = removed[b]
  PROVE  ScoreOf(b)' = ScoreOf(b)
BY SameScore DEF ScoreEntry, Entry

\* The player who leaves is in the list as it was.
LEMMA LeaverKeepsScore ==
  ASSUME RosterInvariant, NEW b \in BindId, CloseSocket(b), Present # {b}
  PROVE  ScoreOf(b)' = ScoreOf(b)
<1> DEFINE p == players[b]
           r == Snapshot(Finished(p))
<1>1. /\ b \in Present /\ removed[b] = None /\ p \in Player
      /\ b \notin Present' /\ removed'[b] = r
  BY InvariantTypes DEF CloseSocket, Present, TypeOK, RosterInvariant, RemovedAreGone
<1>2. IF p.name = None \/ p.body = None THEN r = None
      ELSE r \in Player /\ r.name = p.name /\ r.body = p.body
  BY <1>1 DEF Snapshot, Finished, Player, Status
<1>3. r # None <=> p.name # None /\ p.body # None
  BY <1>2
<1> HIDE DEF r
<1> QED BY <1>1, <1>2, <1>3, SameScore DEF ScoreEntry, Entry

\* No departure takes anybody's score from the top list: neither that of the
\* player who leaves nor that of one who left before.
THEOREM ScoresStay == Spec => ScoresKept
<1>1. ASSUME RosterInvariant, RosterInvariant', [Next]_vars, NEW b \in BindId,
             b \notin Present', Present' # {}
      PROVE  ScoreOf(b)' = ScoreOf(b)
  <2>0. TypeOK
    BY <1>1, InvariantTypes
  <2>1. CASE \E a \in BindId : Attach(a)
    <3>1. PICK a \in BindId : Attach(a)
      BY <2>1
    <3>2. PICK s \in {"adding", "listed"} : conn' = [conn EXCEPT ![a] = s]
      BY <3>1, ListingType DEF Attach
    <3>3. Present' = Present \cup {a}
      BY <2>0, <3>2 DEF TypeOK, Present
    <3>4. removed'[b] = removed[b]
      BY <1>1, <2>0, <3>1, <3>3 DEF Attach, TypeOK
    <3> QED BY <1>1, <3>3, <3>4, StillRemoved
  <2>2. CASE \E a \in BindId : CloseSocket(a)
    <3>1. PICK a \in BindId : CloseSocket(a)
      BY <2>2
    <3>2. Present' = Present \ {a} /\ Present # {a}
      BY <1>1, <2>0, <3>1 DEF CloseSocket, TypeOK, Present
    <3>3. CASE b = a
      BY <1>1, <3>1, <3>2, <3>3, LeaverKeepsScore
    <3>4. CASE b # a
      BY <1>1, <2>0, <3>1, <3>2, <3>4, StillRemoved DEF CloseSocket, TypeOK
    <3> QED BY <3>3, <3>4
  <2>3. CASE Present' = Present /\ removed' = removed
    BY <1>1, <2>3, StillRemoved
  <2>4. ASSUME NEW a \in BindId,
               \/ Added(a) \/ Lost(a) \/ Restore(a)
               \/ \E login \in Logins : RegisterName(a, login)
               \/ \E bytes \in Bodies : SetPlayerData(a, bytes) \/ CreateVanger(a, bytes)
               \/ \E w \in WorldId : SetWorld(a, w) \/ SetWorldFails(a, w)
               \/ LeaveWorld(a) \/ TotalPlayersDataQuery(a)
               \/ \E name \in Titles, words \in Forms : SetGameData(a, name, words)
               \/ GetGameData(a)
        PROVE  Present' = Present /\ removed' = removed
    <3>1. CASE Added(a) \/ Lost(a) \/ Restore(a)
      BY <2>0, <3>1, SamePresent DEF Added, Lost, Restore
    <3>2. CASE conn' = conn /\ removed' = removed
      BY <3>2 DEF Present
    <3> QED BY <2>4, <3>1, <3>2
        DEF RegisterName, SetPlayerData, CreateVanger, SetWorld, SetWorldFails,
            LeaveWorld, TotalPlayersDataQuery, SetGameData, GetGameData, seats
  <2>5. UNCHANGED vars => Present' = Present /\ removed' = removed
    BY DEF vars, Present
  <2> QED BY <1>1, <2>1, <2>2, <2>3, <2>4, <2>5 DEF Next
<1>2. RosterInvariant /\ RosterInvariant' /\ [Next]_vars =>
        \A b \in BindId :
          b \notin Present' /\ Present' # {} => ScoreOf(b)' = ScoreOf(b)
  BY <1>1
<1> QED BY <1>2, RosterHolds, PTL DEF Spec, ScoresKept

-----------------------------------------------------------------------------
(* The configuration, and what clients were told of it. *)

LEMMA ParamCounts == \A type \in DOMAIN ParamCount :
  ParamCount[type] \in Nat /\ (type = VAN_WAR => ParamCount[type] = 5)
BY DEF ParamCount, VAN_WAR, MECHOSOMA, PASSEMBLOSS, MUSTODONT

LEMMA ParametersKept ==
  ASSUME NEW type \in DOMAIN ParamCount, NEW ps \in Seq(Int), Len(ps) = ParamCount[type]
  PROVE  /\ Parameters(type, ps) \in Seq(Int)
         /\ Len(Parameters(type, ps)) = Len(ps)
         /\ Parameters(type, Parameters(type, ps)) = Parameters(type, ps)
<1>1. CASE type = VAN_WAR
  <2>1. 5 \in 1 .. Len(ps) /\ MaxTime \in Int
    BY <1>1, ParamCounts DEF MaxTime
  <2>2. /\ [ps EXCEPT ![5] = MaxTime] \in Seq(Int)
        /\ Len([ps EXCEPT ![5] = MaxTime]) = Len(ps)
    BY <2>1, ExceptSeq
  <2>3. [[ps EXCEPT ![5] = MaxTime] EXCEPT ![5] = MaxTime] = [ps EXCEPT ![5] = MaxTime]
    OBVIOUS
  <2> QED BY <1>1, <2>2, <2>3 DEF Parameters
<1>2. CASE type # VAN_WAR
  BY <1>2 DEF Parameters
<1> QED BY <1>1, <1>2

LEMMA Concatenation ==
  ASSUME NEW s \in Seq(Int), NEW t \in Seq(Int)
  PROVE  /\ s \o t \in Seq(Int)
         /\ Len(s \o t) = Len(s) + Len(t)
         /\ \A i \in 1 .. Len(s) + Len(t) :
              (s \o t)[i] = IF i <= Len(s) THEN s[i] ELSE t[i - Len(s)]
BY ConcatProperties

\* The words of a head and of parameters, taken apart again.
LEMMA Parts ==
  ASSUME NEW head \in Seq(Int), Len(head) = 6, NEW ps \in Seq(Int)
  PROVE  /\ Len(head \o ps) = 6 + Len(ps)
         /\ \A i \in 1 .. 6 : (head \o ps)[i] = head[i]
         /\ SubSeq(head \o ps, 7, 6 + Len(ps)) = ps
<1>1. Len(ps) \in Nat
  OBVIOUS
<1>2. /\ head \o ps \in Seq(Int) /\ Len(head \o ps) = Len(head) + Len(ps)
      /\ \A i \in 1 .. Len(head) + Len(ps) :
           (head \o ps)[i] = IF i <= Len(head) THEN head[i] ELSE ps[i - Len(head)]
  BY Concatenation
<1>3. \A back \in Seq(Int) :
        /\ Len(back) = 6 + Len(ps)
        /\ \A i \in 1 .. Len(ps) : back[6 + i] = ps[i]
        => SubSeq(back, 7, 6 + Len(ps)) = ps
  <2> SUFFICES ASSUME NEW back \in Seq(Int), Len(back) = 6 + Len(ps),
                      \A i \in 1 .. Len(ps) : back[6 + i] = ps[i]
               PROVE  SubSeq(back, 7, 6 + Len(ps)) = ps
    OBVIOUS
  <2>1. \A i \in 7 .. 6 + Len(ps) : back[i] \in Int
    BY <1>1
  <2>2. /\ SubSeq(back, 7, 6 + Len(ps)) \in Seq(Int)
        /\ Len(SubSeq(back, 7, 6 + Len(ps))) = Len(ps)
        /\ \A i \in 1 .. Len(ps) : SubSeq(back, 7, 6 + Len(ps))[i] = back[6 + i]
    BY <1>1, <2>1, SubSeqProperties
  <2> QED BY <2>2, SeqEqual
<1>4. \A i \in 1 .. Len(ps) : (head \o ps)[6 + i] = ps[i]
  BY <1>1, <1>2
<1> QED BY <1>1, <1>2, <1>3, <1>4

\* A configuration written out as words is read back as it was.
LEMMA RoundTrip ==
  ASSUME NEW words \in Seq(Int), FromWords(words) # None
  PROVE  FromWords(ToWords(FromWords(words))) = FromWords(words)
<1> DEFINE n == ParamCount[words[2]]
           c == FromWords(words)
           head == <<c.initial_rnd, c.game_type, c.initial_cash, c.artefacts_using,
                     c.in_escave_time, c.color>>
<1>1. /\ ~(Len(words) < 6) /\ words[2] \in DOMAIN ParamCount
      /\ ~(Len(words) < 6 + n)
  BY DEF FromWords
<1>2. n \in Nat
  BY <1>1, ParamCounts
<1>3. PICK ps : ps = SubSeq(words, 7, 6 + n)
  OBVIOUS
<1>4. ps \in Seq(Int) /\ Len(ps) = n
  <2>1. Len(words) \in Nat
    OBVIOUS
  <2>2. \A i \in 7 .. 6 + n : words[i] \in Int
    BY <1>1, <1>2, <2>1
  <2> QED BY <1>2, <1>3, <2>2, SubSeqProperties
<1>5. c = [initial_rnd |-> words[1], game_type |-> words[2],
           initial_cash |-> words[3], artefacts_using |-> words[4],
           in_escave_time |-> words[5], color |-> words[6],
           params |-> Parameters(words[2], ps)]
  BY <1>1, <1>3 DEF FromWords
<1> HIDE DEF c
<1>6. /\ c.initial_rnd = words[1] /\ c.game_type = words[2]
      /\ c.initial_cash = words[3] /\ c.artefacts_using = words[4]
      /\ c.in_escave_time = words[5] /\ c.color = words[6]
      /\ c.params = Parameters(words[2], ps)
  BY <1>5
<1>7. /\ c.params \in Seq(Int) /\ Len(c.params) = n
      /\ Parameters(words[2], c.params) = c.params
  BY <1>1, <1>4, <1>6, ParametersKept
<1>8. head \in Seq(Int) /\ Len(head) = 6
  <2>1. Len(words) \in Nat
    OBVIOUS
  <2>2. \A i \in 1 .. 6 : words[i] \in Int
    BY <1>1, <2>1
  <2> QED BY <1>6, <2>2
<1>9. PICK back : back = ToWords(c)
  OBVIOUS
<1>10. /\ Len(back) = 6 + n
       /\ back[1] = words[1] /\ back[2] = words[2] /\ back[3] = words[3]
       /\ back[4] = words[4] /\ back[5] = words[5] /\ back[6] = words[6]
       /\ SubSeq(back, 7, 6 + n) = c.params
  <2> DEFINE params == c.params
  <2>1. back = head \o c.params
    BY <1>9 DEF ToWords
  <2>2. /\ head[1] = words[1] /\ head[2] = words[2] /\ head[3] = words[3]
        /\ head[4] = words[4] /\ head[5] = words[5] /\ head[6] = words[6]
    BY <1>6
  <2>3. params \in Seq(Int) /\ Len(params) = n
    BY <1>7
  <2> HIDE DEF head, params
  <2>4. /\ Len(head \o params) = 6 + n
        /\ \A i \in 1 .. 6 : (head \o params)[i] = head[i]
        /\ SubSeq(head \o params, 7, 6 + n) = params
    BY <1>8, <2>3, Parts
  <2>5. back = head \o params
    BY <2>1 DEF params
  <2>6. params = c.params
    BY DEF params
  <2>7. /\ back[1] = head[1] /\ back[2] = head[2] /\ back[3] = head[3]
        /\ back[4] = head[4] /\ back[5] = head[5] /\ back[6] = head[6]
    <3>1. 1 \in 1 .. 6 /\ 2 \in 1 .. 6 /\ 3 \in 1 .. 6 /\ 4 \in 1 .. 6 /\ 5 \in 1 .. 6 /\ 6 \in 1 .. 6
      OBVIOUS
    <3> QED BY <2>4, <2>5, <3>1
  <2>8. Len(back) = 6 + n /\ SubSeq(back, 7, 6 + n) = c.params
    BY <2>4, <2>5, <2>6
  <2> QED BY <2>2, <2>7, <2>8
<1>11. FromWords(back) =
         [initial_rnd |-> words[1], game_type |-> words[2],
          initial_cash |-> words[3], artefacts_using |-> words[4],
          in_escave_time |-> words[5], color |-> words[6],
          params |-> c.params]
  <2>1. /\ ~(Len(back) < 6) /\ back[2] \in DOMAIN ParamCount
        /\ ~(Len(back) < 6 + ParamCount[back[2]])
        /\ SubSeq(back, 7, 6 + ParamCount[back[2]]) = c.params
    <3>1. ParamCount[back[2]] = n /\ back[2] \in DOMAIN ParamCount
      BY <1>1, <1>10
    <3>2. Len(back) = 6 + n /\ SubSeq(back, 7, 6 + n) = c.params
      BY <1>10
    <3>3. \A k \in Nat : ~(6 + k < 6) /\ ~(6 + k < 6 + k)
      OBVIOUS
    <3> HIDE DEF n
    <3> QED BY <1>2, <3>1, <3>2, <3>3
  <2> QED BY <1>7, <1>10, <2>1 DEF FromWords
<1> QED BY <1>5, <1>6, <1>9, <1>11 DEF c

\* What an observer was told of the configuration is what holds, and it has held
\* its seat since.
ConfigTold ==
  \A c \in Observer : knows[c] # None =>
    c \in Present /\ config # None /\ knows[c] = GameData

ConfigInvariant == TypeInvariant /\ ConfigTold

LEMMA NextConfig == ConfigInvariant /\ [Next]_vars => ConfigInvariant'
<1> SUFFICES ASSUME ConfigInvariant, [Next]_vars PROVE ConfigTold'
  BY NextType DEF ConfigInvariant
<1>0. TypeOK
  BY DEF ConfigInvariant, TypeInvariant
<1>1. ASSUME NEW b \in BindId, Attach(b) PROVE ConfigTold'
  <2>1. ASSUME NEW c \in Observer, knows'[c] # None
        PROVE  c \in Present' /\ config' # None /\ knows'[c] = GameData'
    <3>1. c # b /\ knows'[c] = knows[c]
      BY <1>1, <2>1 DEF Attach, Forgets
    <3>2. c \in Present /\ config # None /\ knows[c] = GameData
      BY <2>1, <3>1 DEF ConfigInvariant, ConfigTold
    <3>3. conn'[c] = conn[c]
      BY <1>0, <1>1, <3>1 DEF Attach, TypeOK
    <3> QED BY <1>1, <3>1, <3>2, <3>3 DEF Attach, Present, setup, GameData
  <2> QED BY <2>1 DEF ConfigTold
<1>3. ASSUME NEW b \in BindId, Added(b) \/ Lost(b) \/ Restore(b) PROVE ConfigTold'
  <2>1. Present' = Present
    BY <1>0, <1>3, SamePresent
  <2>2. UNCHANGED <<setup, knows>>
    BY <1>3 DEF Added, Lost, Restore
  <2> QED BY <2>1, <2>2 DEF ConfigInvariant, ConfigTold, GameData, setup
<1>4. ASSUME NEW b \in BindId, CloseSocket(b) PROVE ConfigTold'
  <2>1. ASSUME NEW c \in Observer, knows'[c] # None
        PROVE  c \in Present' /\ config' # None /\ knows'[c] = GameData'
    <3>1. c # b /\ knows'[c] = knows[c]
      BY <1>4, <2>1 DEF CloseSocket
    <3>2. c \in Present /\ config # None /\ knows[c] = GameData
      BY <2>1, <3>1 DEF ConfigInvariant, ConfigTold
    <3>3. c \in Present'
      BY <1>0, <1>4, <3>1, <3>2 DEF CloseSocket, TypeOK, Present
    <3>4. UNCHANGED setup
      BY <1>4, <3>1, <3>2 DEF CloseSocket
    <3> QED BY <3>1, <3>2, <3>3, <3>4 DEF setup, GameData
  <2> QED BY <2>1 DEF ConfigTold
<1>5. ASSUME NEW b \in BindId, NEW name, NEW words, SetGameData(b, name, words)
      PROVE  ConfigTold'
  <2>1. \A c \in Observer : knows[c] = None
    BY <1>5 DEF SetGameData, SetConfig, IsConfigured, ConfigInvariant, ConfigTold
  <2> QED BY <1>5, <2>1 DEF SetGameData, ConfigTold
<1>6. ASSUME NEW b \in BindId, GetGameData(b) PROVE ConfigTold'
  <2>1. UNCHANGED <<conn, config, title>> /\ config # None
    BY <1>6 DEF GetGameData, IsConfigured, seats, setup
  <2>2. Present' = Present /\ Listed \subseteq Present /\ GameData' = GameData
    BY <2>1 DEF Listed, Present, GameData
  <2>3. knows' = [c \in Observer |-> IF c = b /\ c \in Listed THEN GameData ELSE knows[c]]
    BY <1>6 DEF GetGameData
  <2> QED BY <2>1, <2>2, <2>3 DEF ConfigInvariant, ConfigTold
<1>7. CASE UNCHANGED <<conn, setup, knows>>
  BY <1>7 DEF ConfigInvariant, ConfigTold, Present, GameData, setup
<1>8. ASSUME NEW b \in BindId,
             \/ \E login \in Logins : RegisterName(b, login)
             \/ \E bytes \in Bodies : SetPlayerData(b, bytes) \/ CreateVanger(b, bytes)
             \/ \E w \in WorldId : SetWorld(b, w) \/ SetWorldFails(b, w)
             \/ LeaveWorld(b) \/ TotalPlayersDataQuery(b)
      PROVE  ConfigTold'
  BY <1>7, <1>8
  DEF RegisterName, SetPlayerData, CreateVanger, SetWorld, SetWorldFails, LeaveWorld,
      TotalPlayersDataQuery, seats, setup
<1>9. UNCHANGED vars => UNCHANGED <<conn, setup, knows>>
  BY DEF vars, setup
<1> QED BY <1>1, <1>3, <1>4, <1>5, <1>6, <1>7, <1>8, <1>9 DEF Next

\* The first configuration that parses is final: a client that asked was told
\* the name the games list shows and words that parse to the very configuration
\* the server plays by.
THEOREM ConfigurationFinal == Spec => []ConfiguredOnce
<1>1. Init => ConfigInvariant
  BY InitType DEF Init, ConfigInvariant, ConfigTold
<1>2. ConfigInvariant => ConfiguredOnce
  <2> SUFFICES ASSUME ConfigInvariant PROVE ConfiguredOnce
    OBVIOUS
  <2>1. config # None => FromWords(ToWords(config)) = config
    <3> SUFFICES ASSUME config # None PROVE FromWords(ToWords(config)) = config
      OBVIOUS
    <3>1. PICK words \in Forms : config = FromWords(words)
      BY DEF ConfigInvariant, TypeInvariant, TypeOK
    <3>2. words \in Seq(Int)
      BY PacketsAssumption
    <3> QED BY <3>1, <3>2, RoundTrip
  <2>2. ASSUME NEW c \in Observer, knows[c] # None
        PROVE  /\ config # None /\ FromWords(knows[c].words) = config
               /\ \E g \in GamesList : g.title = knows[c].title
    <3>1. config # None /\ knows[c] = GameData
      BY <2>2 DEF ConfigInvariant, ConfigTold
    <3>2. knows[c].words = ToWords(config) /\ knows[c].title = title
      BY <3>1 DEF GameData
    <3>3. \E g \in GamesList : g.title = title
      BY <3>1 DEF GamesList, IsConfigured
    <3> QED BY <2>1, <3>1, <3>2, <3>3
  <2> QED BY <2>2 DEF ConfiguredOnce, ConfigInvariant, TypeInvariant, NamedWithConfig
<1> QED BY <1>1, <1>2, NextConfig, PTL DEF Spec
-----------------------------------------------------------------------------
(* The top list.                                                           *)

Descends(s) == \A i, j \in 1 .. Len(s) : i < j => s[i].rating >= s[j].rating

Rated(S) == IsFiniteSet(S) /\ \A e \in S : e.rating \in Int

LEMMA OneFewer ==
  ASSUME NEW n \in Nat, NEW S, NEW x \in S, Rated(S), Cardinality(S) = n + 1
  PROVE  Rated(S \ {x}) /\ Cardinality(S \ {x}) = n
<1>1. IsFiniteSet(S \ {x}) /\ Cardinality(S \ {x}) = Cardinality(S) - 1
  BY FS_RemoveElement DEF Rated
<1>2. Cardinality(S \ {x}) = n
  BY <1>1
<1> QED BY <1>1, <1>2 DEF Rated

\* A member of SetToSeqs lists the set: each of its elements, once.
LEMMA ListOfAll ==
  ASSUME NEW n \in Nat, NEW S, Cardinality(S) = n, NEW s \in SetToSeqs(S)
  PROVE  /\ s \in [1 .. n -> S] /\ Len(s) = n
         /\ \A i, j \in 1 .. n : i # j => s[i] # s[j]
<1>1. s \in {f \in [1 .. n -> S] : \A i, j \in 1 .. n : i # j => f[i] # f[j]}
  BY DEF SetToSeqs
<1> QED BY <1>1

LEMMA WorstExists ==
  \A n \in Nat : \A S : Rated(S) /\ Cardinality(S) = n + 1 =>
    \E m \in S : \A e \in S : e.rating >= m.rating
<1> DEFINE T == {n \in Nat : \A S : Rated(S) /\ Cardinality(S) = n + 1 =>
                   \E m \in S : \A e \in S : e.rating >= m.rating}
<1>1. 0 \in T
  <2> SUFFICES ASSUME NEW S, Rated(S), Cardinality(S) = 1
               PROVE  \E m \in S : \A e \in S : e.rating >= m.rating
    OBVIOUS
  <2>1. PICK x : S = {x}
    BY FS_Singleton DEF Rated
  <2>2. x \in S /\ x.rating \in Int /\ \A e \in S : e = x
    BY <2>1 DEF Rated
  <2>3. x.rating >= x.rating
    BY <2>2
  <2> QED BY <2>2, <2>3
<1>2. ASSUME NEW n \in Nat, n \in T PROVE n + 1 \in T
  <2> SUFFICES ASSUME NEW S, Rated(S), Cardinality(S) = n + 1 + 1
               PROVE  \E m \in S : \A e \in S : e.rating >= m.rating
    OBVIOUS
  <2>1. PICK x : x \in S
    BY FS_EmptySet DEF Rated
  <2>2. Rated(S \ {x}) /\ Cardinality(S \ {x}) = n + 1
    BY <2>1, OneFewer
  <2>3. PICK m \in S \ {x} : \A e \in S \ {x} : e.rating >= m.rating
    BY <1>2, <2>2
  <2>4. m \in S /\ m.rating \in Int /\ x.rating \in Int /\ \A e \in S : e.rating \in Int
    BY <2>1, <2>3 DEF Rated
  <2>5. CASE x.rating >= m.rating
    BY <2>3, <2>4, <2>5
  <2>6. CASE ~(x.rating >= m.rating)
    <3>1. \A e \in S : e.rating >= x.rating
      BY <2>3, <2>4, <2>6
    <3> QED BY <2>1, <3>1
  <2> QED BY <2>5, <2>6
<1> HIDE DEF T
<1>3. Nat \subseteq T
  BY <1>1, <1>2, SetInduction
<1> QED BY <1>3 DEF T

\* Any entries can be sorted: put the worst behind the others, sorted.
LEMMA RankingExists ==
  \A n \in Nat : \A S : Rated(S) /\ Cardinality(S) = n =>
    \E s \in SetToSeqs(S) : Descends(s)
<1> DEFINE T == {n \in Nat : \A S : Rated(S) /\ Cardinality(S) = n =>
                   \E s \in SetToSeqs(S) : Descends(s)}
<1>1. 0 \in T
  <2> SUFFICES ASSUME NEW S, Rated(S), Cardinality(S) = 0
               PROVE  \E s \in SetToSeqs(S) : Descends(s)
    OBVIOUS
  <2> DEFINE s == [i \in 1 .. 0 |-> i]
  <2>1. s \in SetToSeqs(S)
    BY DEF SetToSeqs
  <2>2. Descends(s)
    BY DEF Descends
  <2> QED BY <2>1, <2>2
<1>2. ASSUME NEW n \in Nat, n \in T PROVE n + 1 \in T
  <2> SUFFICES ASSUME NEW S, Rated(S), Cardinality(S) = n + 1
               PROVE  \E s \in SetToSeqs(S) : Descends(s)
    OBVIOUS
  <2>1. PICK m \in S : \A e \in S : e.rating >= m.rating
    BY WorstExists
  <2>2. Rated(S \ {m}) /\ Cardinality(S \ {m}) = n
    BY <2>1, OneFewer
  <2>3. PICK r \in SetToSeqs(S \ {m}) : Descends(r)
    BY <1>2, <2>2
  <2>4. /\ r \in [1 .. n -> S \ {m}] /\ Len(r) = n
        /\ \A i, j \in 1 .. n : i # j => r[i] # r[j]
    BY <2>2, <2>3, ListOfAll
  <2> DEFINE s == [i \in 1 .. n + 1 |-> IF i = n + 1 THEN m ELSE r[i]]
  <2>5. /\ s \in [1 .. n + 1 -> S] /\ Len(s) = n + 1
        /\ s[n + 1] = m
        /\ \A i \in 1 .. n : s[i] = r[i] /\ s[i] \in S \ {m}
    BY <2>4
  <2>6. \A i \in 1 .. n + 1 : i = n + 1 \/ i \in 1 .. n
    OBVIOUS
  <2> HIDE DEF s
  <2>7. \A i, j \in 1 .. n + 1 : i # j => s[i] # s[j]
    BY <2>4, <2>5, <2>6
  <2>8. Descends(s)
    <3> SUFFICES ASSUME NEW i \in 1 .. n + 1, NEW j \in 1 .. n + 1, i < j
                 PROVE  s[i].rating >= s[j].rating
      BY <2>5 DEF Descends
    <3>1. i \in 1 .. n
      OBVIOUS
    <3>2. CASE j = n + 1
      BY <2>1, <2>5, <3>1, <3>2
    <3>3. CASE j # n + 1
      <4>1. r[i].rating >= r[j].rating
        BY <2>3, <2>4, <3>1, <3>3 DEF Descends
      <4> QED BY <2>5, <2>6, <3>1, <3>3, <4>1
    <3> QED BY <3>2, <3>3
  <2>9. s \in SetToSeqs(S)
    BY <2>5, <2>7 DEF SetToSeqs
  <2> QED BY <2>8, <2>9
<1> HIDE DEF T
<1>3. Nat \subseteq T
  BY <1>1, <1>2, SetInduction
<1> QED BY <1>3 DEF T

LEMMA MinOfTwo ==
  ASSUME NEW a \in Nat, NEW b \in Nat
  PROVE  Min({a, b}) = IF a <= b THEN a ELSE b
<1> DEFINE m == IF a <= b THEN a ELSE b
<1>1. m \in {a, b} /\ \A y \in {a, b} : m <= y
  OBVIOUS
<1>2. \A x \in {a, b} : (\A y \in {a, b} : x <= y) => x = m
  OBVIOUS
<1> HIDE DEF m
<1>3. Min({a, b}) = m
  BY <1>1, <1>2 DEF Min
<1> QED BY <1>3 DEF m

\* Entries of which some may have no rating to compare.
Entered(S) == IsFiniteSet(S) /\ \A e \in S : e.rating \in Int \cup {NaN}

\* The server has an answer, whatever the ratings are.
LEMMA RankingFound ==
  ASSUME NEW S, Entered(S)
  PROVE  \E s \in Rankings(S) : TRUE
<1> DEFINE n == Cardinality(S)
<1>1. n \in Nat
  BY FS_CardinalityType DEF Entered
<1>2. CASE Comparable(S)
  <2>1. Rated(S)
    BY <1>2 DEF Entered, Comparable, Rated
  <2>2. \E s \in SetToSeqs(S) : Descends(s)
    BY <1>1, <2>1, RankingExists
  <2> QED BY <2>2 DEF Rankings, Descends
<1>3. CASE ~Comparable(S)
  <2>1. PICK s \in Bijection(1 .. n, S) : TRUE
    BY FS_CardinalityType DEF Entered, ExistsBijection
  <2>2. /\ s \in [1 .. n -> S]
        /\ \A i, j \in 1 .. n : i # j => s[i] # s[j]
    BY <2>1 DEF Bijection, Injection, IsInjective
  <2>3. s \in SetToSeqs(S)
    BY <2>2 DEF SetToSeqs
  <2> QED BY <1>3, <2>3 DEF Rankings
<1> QED BY <1>2, <1>3

\* What the first entries of a ranking are.
LEMMA BestOfRanking ==
  ASSUME NEW S, Entered(S), NEW s \in Rankings(S), NEW k \in Nat, k <= Cardinality(S)
  PROVE  LET list == SubSeq(s, 1, k)
         IN  /\ Len(list) = k /\ Len(s) = Cardinality(S)
             /\ IsInjective(list) /\ ToSet(list) \subseteq S
             /\ Comparable(S) =>
                  /\ Descends(list)
                  /\ \A e \in ToSet(list), f \in S \ ToSet(list) : e.rating >= f.rating
<1> DEFINE n == Cardinality(S)
           list == SubSeq(s, 1, k)
<1>1. n \in Nat
  BY FS_CardinalityType DEF Entered
<1>2. s \in SetToSeqs(S) /\ (Comparable(S) => Descends(s))
  BY DEF Rankings, Descends
<1>3. k <= n
  OBVIOUS
<1> HIDE DEF n
<1>4. /\ s \in [1 .. n -> S] /\ Len(s) = n
      /\ \A i, j \in 1 .. n : i # j => s[i] # s[j]
  BY <1>1, <1>2, ListOfAll DEF n
<1>5. \A e \in S : \E i \in 1 .. n : s[i] = e
  <2>1. s \in Injection(1 .. n, S) /\ IsFiniteSet(S)
    BY <1>4 DEF Injection, IsInjective, Entered
  <2>2. Cardinality(1 .. n) = n
    BY <1>1, FS_Interval
  <2>3. s \in Surjection(1 .. n, S)
    BY <2>1, <2>2, FS_Injection DEF n
  <2> QED BY <2>3 DEF Surjection
<1>6. s \in Seq(S)
  BY <1>1, <1>4
<1>7. /\ Len(list) = k /\ DOMAIN list = 1 .. k
      /\ \A i \in 1 .. k : list[i] = s[i] /\ i \in 1 .. n
  BY <1>1, <1>3, <1>4, <1>6
<1> HIDE DEF list
<1>8. IsInjective(list) /\ ToSet(list) \subseteq S
  BY <1>4, <1>7 DEF IsInjective, ToSet
<1>9. Comparable(S) => Descends(list)
  BY <1>2, <1>4, <1>7 DEF Descends
<1>10. ASSUME Comparable(S), NEW e \in ToSet(list), NEW f \in S \ ToSet(list)
       PROVE  e.rating >= f.rating
  <2>1. PICK i \in 1 .. k : e = s[i] /\ i \in 1 .. n
    BY <1>7 DEF ToSet
  <2>2. PICK j \in 1 .. n : f = s[j]
    BY <1>5
  <2>3. j \notin 1 .. k
    <3> SUFFICES ASSUME j \in 1 .. k PROVE f \in ToSet(list)
      OBVIOUS
    <3> QED BY <1>7, <2>2 DEF ToSet
  <2>4. i < j
    BY <1>1, <1>3, <2>1, <2>3
  <2> QED BY <1>2, <1>4, <1>10, <2>1, <2>2, <2>4 DEF Descends
<1> QED BY <1>4, <1>7, <1>8, <1>9, <1>10 DEF list, n

\* Only players with a name and a body are remembered.
RemovedScored == \A b \in BindId : removed[b] # None => removed[b].body # None

LEMMA ScoredStep == RosterInvariant /\ RemovedScored /\ [Next]_vars => RemovedScored'
<1> SUFFICES ASSUME RosterInvariant, RemovedScored, [Next]_vars, NEW b \in BindId,
                    removed'[b] # None
             PROVE  removed'[b].body # None
  BY DEF RemovedScored
<1>0. TypeOK
  BY InvariantTypes
<1>1. CASE removed'[b] = removed[b]
  BY <1>1 DEF RemovedScored
<1>2. ASSUME NEW a \in BindId, CloseSocket(a) PROVE removed'[b].body # None
  <2>1. players[a] \in Player
    BY <1>0 DEF TypeOK
  <2>2. Snapshot(Finished(players[a])) # None =>
          Snapshot(Finished(players[a])).body # None
    BY <2>1 DEF Snapshot, Finished, Player
  <2>3. CASE GameEnds
    BY <2>3 DEF GameEnds
  <2>4. CASE removed' = [removed EXCEPT ![a] = Snapshot(Finished(players[a]))]
    BY <1>0, <1>1, <2>2, <2>4 DEF TypeOK
  <2> QED BY <1>2, <2>3, <2>4 DEF CloseSocket
<1>3. ASSUME NEW a \in BindId, Attach(a) PROVE removed'[b] = removed[b]
  BY <1>0, <1>3 DEF Attach, TypeOK
<1>4. ASSUME NEW a \in BindId,
             \/ Added(a) \/ Lost(a) \/ Restore(a)
             \/ \E login \in Logins : RegisterName(a, login)
             \/ \E bytes \in Bodies : SetPlayerData(a, bytes) \/ CreateVanger(a, bytes)
             \/ \E w \in WorldId : SetWorld(a, w) \/ SetWorldFails(a, w)
             \/ LeaveWorld(a) \/ TotalPlayersDataQuery(a)
             \/ \E name \in Titles, words \in Forms : SetGameData(a, name, words)
             \/ GetGameData(a)
      PROVE  removed' = removed
  BY <1>4
  DEF Added, Lost, Restore, RegisterName, SetPlayerData, CreateVanger, SetWorld,
      SetWorldFails, LeaveWorld, TotalPlayersDataQuery, SetGameData, GetGameData, seats
<1> QED BY <1>1, <1>2, <1>3, <1>4 DEF Next, vars

LEMMA EntryTypes ==
  ASSUME RosterInvariant, RemovedScored
  PROVE  /\ Entered(Entries)
         /\ \A e, f \in Entries : e.bind = f.bind => e = f
<1>1. players \in [BindId -> Player] /\ removed \in [BindId -> Player \cup {None}]
  BY InvariantTypes DEF TypeOK
<1>2. Ratings \in SUBSET (Int \cup {NaN})
  BY PacketsAssumption DEF Ratings
<1>3. ASSUME NEW e \in Entries
      PROVE  /\ e.bind \in BindId /\ e.rating \in Int \cup {NaN}
             /\ e = IF e.bind \in Present THEN Entry(e.bind, players[e.bind])
                                          ELSE Entry(e.bind, removed[e.bind])
  <2>1. CASE \E b \in Present :
               players[b].name # None /\ players[b].body # None /\ e = Entry(b, players[b])
    BY <1>1, <1>2, <2>1 DEF Present, Player, Entry
  <2>2. CASE \E b \in BindId : removed[b] # None /\ e = Entry(b, removed[b])
    <3>1. PICK b \in BindId : removed[b] # None /\ e = Entry(b, removed[b])
      BY <2>2
    <3>2. b \notin Present
      BY <3>1 DEF RosterInvariant, RemovedAreGone
    <3> QED BY <1>1, <1>2, <3>1, <3>2 DEF RemovedScored, Player, Entry
  <2> QED BY <2>1, <2>2 DEF Entries
<1>4. IsFiniteSet(Entries)
  <2> DEFINE seat == [e \in Entries |-> e.bind]
  <2>1. seat \in Injection(Entries, BindId)
    BY <1>3 DEF Injection, IsInjective
  <2>2. IsFiniteSet(BindId)
    BY FS_Interval DEF BindId
  <2> HIDE DEF seat
  <2> QED BY <2>1, <2>2, FS_Injection
<1>5. \A e, f \in Entries : e.bind = f.bind => e = f
  BY <1>3
<1> QED BY <1>3, <1>4, <1>5 DEF Entered

LEMMA TopListExists ==
  ASSUME RosterInvariant, RemovedScored, NEW type
  PROVE  \E list \in TopLists(type) : TRUE
BY EntryTypes, RankingFound DEF TopLists

\* The top list shows those who are there and those who left, each seat once, as
\* many as there is room for; and, as long as no rating is a NaN, the best of them,
\* the best first.
THEOREM BestOnTop == Spec => []TopListShowsBest
<1>1. ASSUME RosterInvariant, RemovedScored, config # None PROVE TopListShowsBest
  <2> DEFINE k == Min({TopLimit, Cardinality(Entries)})
             n == Cardinality(Entries)
  <2>1. Entered(Entries) /\ \A e, f \in Entries : e.bind = f.bind => e = f
    BY <1>1, EntryTypes
  <2>2. n \in Nat /\ TopLimit \in Nat
    BY <2>1, FS_CardinalityType, LimitAssumption DEF Entered
  <2>3. k \in Nat /\ k <= n
    BY <2>2, MinOfTwo
  <2> HIDE DEF k, n
  <2>4. ASSUME NEW list \in TopLists(config.game_type)
        PROVE  /\ Len(list) = k
               /\ IsInjective(list) /\ ToSet(list) \subseteq Entries
               /\ Comparable(Entries) =>
                    /\ Descends(list)
                    /\ \A e \in ToSet(list), f \in Entries \ ToSet(list) :
                         e.rating >= f.rating
    <3>1. PICK s \in Rankings(Entries) : list = SubSeq(s, 1, Min({TopLimit, Len(s)}))
      BY <1>1 DEF TopLists, IsConfigured
    <3>2. Len(s) = n
      BY <2>1, <2>3, BestOfRanking DEF n
    <3>3. list = SubSeq(s, 1, k)
      BY <3>1, <3>2 DEF k, n
    <3> QED BY <2>1, <2>3, <3>3, BestOfRanking DEF n
  <2> QED BY <2>1, <2>4 DEF TopListShowsBest, Descends, k
<1>2. RosterInvariant /\ RemovedScored => TopListShowsBest
  BY <1>1 DEF TopListShowsBest
<1>3. Init => RemovedScored
  BY DEF Init, RemovedScored
<1> QED BY <1>2, <1>3, ScoredStep, RosterHolds, PTL DEF Spec

-----------------------------------------------------------------------------
(* Chat.  The mask of a message is a sum of powers of two, and the server   *)
(* reads its bits by division.                                              *)

\* With one more element there are twice as many subsets.
LEMMA DoubledPower == \A n \in Nat : 2 ^ n \in Nat \ {0} /\ 2 ^ (n + 1) = 2 * 2 ^ n
<1> SUFFICES ASSUME NEW n \in Nat PROVE 2 ^ n \in Nat \ {0} /\ 2 ^ (n + 1) = 2 * 2 ^ n
  OBVIOUS
<1> DEFINE Old == SUBSET (1 .. n)
           New == {s \cup {n + 1} : s \in Old}
<1>1. IsFiniteSet(1 .. n) /\ Cardinality(1 .. n) = n
  BY FS_Interval
<1>2. IsFiniteSet(1 .. n + 1) /\ Cardinality(1 .. n + 1) = n + 1
  BY FS_Interval
<1>3. IsFiniteSet(Old) /\ Cardinality(Old) = 2 ^ n
  BY <1>1, FS_SUBSET
<1>4. IsFiniteSet(SUBSET (1 .. n + 1)) /\ Cardinality(SUBSET (1 .. n + 1)) = 2 ^ (n + 1)
  BY <1>2, FS_SUBSET
<1>5. SUBSET (1 .. n + 1) = Old \cup New
  <2>1. ASSUME NEW s \in SUBSET (1 .. n + 1) PROVE s \in Old \cup New
    <3>1. s \ {n + 1} \in Old
      OBVIOUS
    <3>2. n + 1 \in s => s = (s \ {n + 1}) \cup {n + 1}
      OBVIOUS
    <3>3. n + 1 \notin s => s \in Old
      OBVIOUS
    <3> QED BY <3>1, <3>2, <3>3
  <2>2. ASSUME NEW s \in Old \cup New PROVE s \in SUBSET (1 .. n + 1)
    <3>1. 1 .. n \subseteq 1 .. n + 1 /\ n + 1 \in 1 .. n + 1
      OBVIOUS
    <3> QED BY <3>1
  <2> HIDE DEF Old, New
  <2> QED BY <2>1, <2>2
<1>6. Old \cap New = {}
  OBVIOUS
<1>7. IsFiniteSet(New) /\ Cardinality(New) = Cardinality(Old)
  <2> DEFINE add == [s \in Old |-> s \cup {n + 1}]
  <2>1. add \in Bijection(Old, New)
    <3>1. \A s, t \in Old : s \cup {n + 1} = t \cup {n + 1} => s = t
      <4>1. \A s \in Old : n + 1 \notin s
        OBVIOUS
      <4>2. \A s : n + 1 \notin s => s = (s \cup {n + 1}) \ {n + 1}
        OBVIOUS
      <4> HIDE DEF Old
      <4> QED BY <4>1, <4>2
    <3>2. \A x \in New : \E s \in Old : add[s] = x
      OBVIOUS
    <3>3. \A s, t \in Old : add[s] = add[t] => s = t
      BY <3>1
    <3>4. add \in [Old -> New]
      OBVIOUS
    <3> HIDE DEF Old, New, add
    <3> QED BY <3>2, <3>3, <3>4 DEF Bijection, Injection, Surjection, IsInjective
  <2> HIDE DEF Old, New, add
  <2> QED BY <2>1, <1>3, FS_Bijection DEF ExistsBijection
<1>8. Cardinality(Old \cup New) = Cardinality(Old) + Cardinality(New)
  <2> HIDE DEF Old, New
  <2>1. Cardinality(Old \cap New) = 0
    BY <1>6, FS_EmptySet
  <2>2. Cardinality(Old) \in Nat /\ Cardinality(New) \in Nat
    BY <1>3, <1>7, FS_CardinalityType
  <2> QED BY <1>3, <1>7, <2>1, <2>2, FS_Union
<1>9. Cardinality(Old) \in Nat /\ Cardinality(Old) # 0
  <2>1. {} \in Old
    OBVIOUS
  <2> HIDE DEF Old
  <2> QED BY <1>3, <2>1, FS_CardinalityType, FS_EmptySet
<1> HIDE DEF Old, New
<1>10. 2 ^ (n + 1) = 2 ^ n + 2 ^ n
  BY <1>3, <1>4, <1>5, <1>7, <1>8
<1>11. 2 ^ n \in Nat /\ 2 ^ n # 0
  BY <1>3, <1>9
<1> QED BY <1>10, <1>11

LEMMA DoubledProduct == \A p, t \in Nat : 2 * (p * (2 * t)) = p * (2 * (2 * t))
<1> TAKE p, t \in Nat
<1> DEFINE u == 2 * t
<1>1. u \in Nat
  OBVIOUS
<1>2. p * (u + u) = p * u + p * u
  <2> HIDE DEF u
  <2> QED BY <1>1
<1>3. 2 * u = u + u /\ p * u \in Nat
  BY <1>1
<1>4. 2 * (p * u) = p * u + p * u
  <2> HIDE DEF u
  <2> QED BY <1>3
<1>5. p * (2 * u) = p * (u + u)
  BY <1>3
<1> QED BY <1>2, <1>4, <1>5

LEMMA PowersApart ==
  \A i, j \in Nat : i < j => \E t \in Nat \ {0} : 2 ^ j = 2 ^ i * (2 * t)
<1> SUFFICES ASSUME NEW i \in Nat
             PROVE  \A j \in Nat : i < j => \E t \in Nat \ {0} : 2 ^ j = 2 ^ i * (2 * t)
  OBVIOUS
<1> DEFINE T == {d \in Nat : \E t \in Nat \ {0} : 2 ^ (i + d + 1) = 2 ^ i * (2 * t)}
<1>0. 2 ^ i \in Nat
  BY DoubledPower
<1>1. 0 \in T
  <2>1. 2 ^ (i + 0 + 1) = 2 ^ i * (2 * 1)
    BY <1>0, DoubledPower
  <2> QED BY <2>1
<1>2. ASSUME NEW d \in Nat, d \in T PROVE d + 1 \in T
  <2>1. PICK t \in Nat \ {0} : 2 ^ (i + d + 1) = 2 ^ i * (2 * t)
    BY <1>2
  <2>2. 2 ^ (i + (d + 1) + 1) = 2 * 2 ^ (i + d + 1)
    <3>1. i + d + 1 \in Nat /\ i + (d + 1) + 1 = (i + d + 1) + 1
      OBVIOUS
    <3> QED BY <3>1, DoubledPower
  <2>3. 2 ^ (i + (d + 1) + 1) = 2 ^ i * (2 * (2 * t))
    BY <1>0, <2>1, <2>2, DoubledProduct
  <2>4. 2 * t \in Nat \ {0}
    OBVIOUS
  <2>5. \E h \in Nat \ {0} : 2 ^ (i + (d + 1) + 1) = 2 ^ i * (2 * h)
    BY <2>3, <2>4
  <2> QED BY <2>5
<1>3. Nat \subseteq T
  <2> HIDE DEF T
  <2> QED BY <1>1, <1>2, SetInduction
<1>4. ASSUME NEW j \in Nat, i < j PROVE \E t \in Nat \ {0} : 2 ^ j = 2 ^ i * (2 * t)
  <2> DEFINE d == j - i - 1
  <2>1. d \in Nat /\ i + d + 1 = j
    BY <1>4
  <2>2. d \in T
    BY <2>1, <1>3
  <2>3. \E t \in Nat \ {0} : 2 ^ (i + d + 1) = 2 ^ i * (2 * t)
    BY <2>2
  <2> QED BY <2>1, <2>3
<1> QED BY <1>4

LEMMA Division ==
  ASSUME NEW m \in Nat \ {0}, NEW a \in Nat
  PROVE  /\ a \div m \in Nat
         /\ m * (a \div m) \in Nat
         /\ m * (a \div m) <= a /\ a < m * (a \div m) + m
<1>1. a \div m \in Nat
  OBVIOUS
<1>2. m * (a \div m) <= a
  OBVIOUS
<1>3. a < m * (a \div m) + m
  OBVIOUS
<1>4. m * (a \div m) \in Nat
  BY <1>1
<1> QED BY <1>1, <1>2, <1>3, <1>4

LEMMA Quotient ==
  ASSUME NEW m \in Nat \ {0}, NEW q \in Nat, NEW r \in Nat, r < m
  PROVE  (m * q + r) \div m = q
OBVIOUS

LEMMA QuotientGrows ==
  ASSUME NEW m \in Nat \ {0}, NEW a \in Nat, NEW t \in Nat
  PROVE  (a + m * t) \div m = a \div m + t
OBVIOUS

\* Different multiples of m are at least m apart.
LEMMA FartherMultiples ==
  ASSUME NEW m \in Nat \ {0}, NEW q \in Nat, NEW u \in Nat, q < u
  PROVE  m * q \in Nat /\ m * u \in Nat /\ m * q + m <= m * u
<1> DEFINE d == u - q - 1
<1>1. d \in Nat /\ u = q + 1 + d
  OBVIOUS
<1>2. m * (q + 1 + d) = m * q + m + m * d
  <2> HIDE DEF d
  <2> QED BY <1>1
<1>3. m * d \in Nat
  <2> HIDE DEF d
  <2> QED BY <1>1
<1>4. m * q \in Nat
  OBVIOUS
<1> HIDE DEF d
<1> QED BY <1>1, <1>2, <1>3, <1>4

\* A bit that was not set, of value m, leaves the bits above it alone: adding m
\* does not carry.
LEMMA LowerBit ==
  ASSUME NEW m \in Nat \ {0}, NEW t \in Nat \ {0}, NEW a \in Nat, ~Bit(a, m)
  PROVE  (a + m) \div (m * (2 * t)) = a \div (m * (2 * t))
<1> DEFINE M == m * (2 * t)
           q == a \div M
           r == a - M * q
           u == r \div m
<1>1. M \in Nat \ {0}
  <2>1. 2 * t \in Nat \ {0}
    OBVIOUS
  <2> QED BY <2>1
<1>2. q \in Nat /\ r \in Nat /\ r < M /\ a = M * q + r
  <2>1. q \in Nat /\ M * q \in Nat /\ M * q <= a /\ a < M * q + M
    <3> HIDE DEF M
    <3> QED BY <1>1, Division
  <2> HIDE DEF M, q
  <2> QED BY <1>1, <2>1
<1>3. u \in Nat /\ m * u \in Nat /\ m * u <= r /\ r < m * u + m
  <2> HIDE DEF r
  <2> QED BY <1>2, Division
<1>4. u % 2 = 0
  <2>1. M * q = m * (2 * (t * q))
    <3>1. q \in Nat
      BY <1>2
    <3> HIDE DEF q
    <3> QED BY <3>1
  <2>2. t * q \in Nat /\ 2 * (t * q) \in Nat
    <3>1. q \in Nat
      BY <1>2
    <3> HIDE DEF q
    <3> QED BY <3>1
  <2>3. a = r + m * (2 * (t * q))
    <3> HIDE DEF M, q, r
    <3> QED BY <1>1, <1>2, <2>1, <2>2
  <2>4. a \div m = u + 2 * (t * q)
    <3>1. (r + m * (2 * (t * q))) \div m = r \div m + 2 * (t * q)
      <4> HIDE DEF q, r
      <4> QED BY <1>2, <2>2, QuotientGrows
    <3> QED BY <2>3, <3>1
  <2>5. (a \div m) % 2 = 0
    BY Division DEF Bit
  <2> DEFINE w == t * q
  <2>6. (u + 2 * w) % 2 = 0 /\ w \in Nat
    BY <2>2, <2>4, <2>5
  <2> HIDE DEF u, w
  <2> QED BY <2>6, <1>3
<1>5. u + 1 < 2 * t
  <2>1. u < 2 * t
    <3>0. M \in Nat /\ r \in Nat /\ m * u \in Nat /\ r < M /\ m * u <= r
      BY <1>1, <1>2, <1>3
    <3>1. ASSUME 2 * t < u PROVE FALSE
      <4>1. M + m <= m * u
        <5> HIDE DEF u
        <5> QED BY <1>3, <3>1, FartherMultiples
      <4> HIDE DEF M, u, r
      <4> QED BY <3>0, <4>1
    <3>2. ASSUME 2 * t = u PROVE FALSE
      <4>1. M = m * u
        BY <3>2
      <4> HIDE DEF M, u, r
      <4> QED BY <3>0, <4>1
    <3> HIDE DEF u
    <3> QED BY <1>3, <3>1, <3>2
  <2>2. u \in Nat
    BY <1>3
  <2> HIDE DEF u
  <2> QED BY <2>1, <2>2, <1>4
<1>6. r + m < M
  <2>1. m * (u + 1) + m <= M
    <3> HIDE DEF u
    <3> QED BY <1>3, <1>5, FartherMultiples
  <2>2. m * (u + 1) = m * u + m
    <3> HIDE DEF u
    <3> QED BY <1>3
  <2> HIDE DEF M, u, r
  <2> QED BY <1>1, <1>2, <1>3, <2>1, <2>2
<1>7. a + m = M * q + (r + m)
  <2>1. M * q \in Nat
    <3> HIDE DEF M, q
    <3> QED BY <1>1, <1>2
  <2> HIDE DEF M, q, r
  <2> QED BY <1>2, <2>1
<1>8. (M * q + (r + m)) \div M = q
  <2> HIDE DEF M, q, r
  <2> QED BY <1>1, <1>2, <1>6, Quotient
<1> QED BY <1>7, <1>8

\* Adding the value of a bit that was not set sets this bit and no other.
LEMMA BitAdded ==
  ASSUME NEW a \in Nat, NEW i \in Nat, NEW j \in Nat, ~Bit(a, 2 ^ i)
  PROVE  Bit(a + 2 ^ i, 2 ^ j) <=> Bit(a, 2 ^ j) \/ i = j
<1>1. 2 ^ i \in Nat \ {0} /\ 2 ^ j \in Nat \ {0}
  BY DoubledPower
<1>2. CASE i = j
  <2>1. (a + 2 ^ i * 1) \div 2 ^ i = a \div 2 ^ i + 1
    BY <1>1, QuotientGrows
  <2>2. 2 ^ i * 1 = 2 ^ i
    BY <1>1
  <2>3. a \div 2 ^ i \in Nat
    BY <1>1, Division
  <2>4. (a \div 2 ^ i) % 2 # 1 => (a \div 2 ^ i + 1) % 2 = 1
    BY <2>3
  <2> QED BY <1>2, <2>1, <2>2, <2>4 DEF Bit
<1>3. CASE j < i
  <2>1. PICK t \in Nat \ {0} : 2 ^ i = 2 ^ j * (2 * t)
    BY <1>3, PowersApart
  <2>2. 2 * t \in Nat
    OBVIOUS
  <2>3. (a + 2 ^ i) \div 2 ^ j = a \div 2 ^ j + 2 * t
    <3>1. (a + 2 ^ j * (2 * t)) \div 2 ^ j = a \div 2 ^ j + 2 * t
      BY <1>1, <2>2, QuotientGrows
    <3> QED BY <2>1, <3>1
  <2>4. a \div 2 ^ j \in Nat
    BY <1>1, Division
  <2>5. (a \div 2 ^ j + 2 * t) % 2 = (a \div 2 ^ j) % 2
    BY <2>4
  <2>6. i # j
    BY <1>3
  <2> QED BY <2>3, <2>5, <2>6, Zenon DEF Bit
<1>4. CASE i < j
  <2>1. PICK t \in Nat \ {0} : 2 ^ j = 2 ^ i * (2 * t)
    BY <1>4, PowersApart
  <2>2. (a + 2 ^ i) \div 2 ^ j = a \div 2 ^ j
    <3>1. (a + 2 ^ i) \div (2 ^ i * (2 * t)) = a \div (2 ^ i * (2 * t))
      BY <1>1, LowerBit
    <3> QED BY <2>1, <3>1
  <2>3. i # j
    BY <1>4
  <2> QED BY <2>2, <2>3, Zenon DEF Bit
<1> QED BY <1>2, <1>3, <1>4

LEMMA PowersDiffer == \A i, j \in Nat : 2 ^ i = 2 ^ j => i = j
<1>1. ASSUME NEW i \in Nat, NEW j \in Nat, i < j PROVE 2 ^ i # 2 ^ j
  <2>1. PICK t \in Nat \ {0} : 2 ^ j = 2 ^ i * (2 * t)
    BY <1>1, PowersApart
  <2>2. ASSUME NEW m \in Nat \ {0} PROVE m * (2 * t) # m
    <3>1. m * 1 + m <= m * (2 * t)
      BY FartherMultiples
    <3> QED BY <3>1
  <2> QED BY <2>1, <2>2, DoubledPower
<1> QED BY <1>1

\* SumSet takes the members of P one after the other, whichever comes first.
\* Such a function on the subsets of P exists for their sizes up to any n.
Small(P, n) == {t \in SUBSET P : Cardinality(t) <= n}

Sums(f, D) ==
  f = [s \in D |->
         IF s = {} THEN 0 ELSE LET x == CHOOSE x \in s : TRUE IN x + f[s \ {x}]]

LEMMA Summable ==
  ASSUME NEW P, IsFiniteSet(P)
  PROVE  \A n \in Nat : \E f : Sums(f, Small(P, n))
<1> DEFINE T == {n \in Nat : \E f : Sums(f, Small(P, n))}
           small(n) == Small(P, n)
           one(s) == CHOOSE x \in s : TRUE
<1> USE DEF Small
<1>0. ASSUME NEW s \in SUBSET P
      PROVE  IsFiniteSet(s) /\ Cardinality(s) \in Nat
  BY FS_Subset, FS_CardinalityType
<1>1. ASSUME NEW n \in Nat, NEW s \in small(n + 1), s # {}
      PROVE  one(s) \in s /\ s \ {one(s)} \in small(n)
  <2>1. one(s) \in s
    BY <1>1
  <2>2. IsFiniteSet(s) /\ Cardinality(s) \in Nat
    BY <1>0
  <2>3. Cardinality(s \ {one(s)}) = Cardinality(s) - 1
    <3> HIDE DEF one
    <3> QED BY <2>1, <2>2, FS_RemoveElement
  <2> QED BY <2>1, <2>2, <2>3
<1>2. 0 \in T
  <2> DEFINE f == [s \in small(0) |-> 0]
  <2>1. \A s \in small(0) : s = {}
    BY <1>0, FS_EmptySet
  <2>2. f = [s \in small(0) |-> IF s = {} THEN 0 ELSE one(s) + f[s \ {one(s)}]]
    BY <2>1
  <2>3. Sums(f, small(0))
    BY <2>2 DEF Sums
  <2> QED BY <2>3
<1>3. ASSUME NEW n \in Nat, n \in T PROVE n + 1 \in T
  <2>1. PICK f : Sums(f, small(n))
    BY <1>3
  <2> DEFINE g == [s \in small(n + 1) |->
                     IF s = {} THEN 0 ELSE one(s) + f[s \ {one(s)}]]
  <2>2. \A s \in small(n) : s \in small(n + 1) /\ g[s] = f[s]
    <3>1. f = [s \in small(n) |-> IF s = {} THEN 0 ELSE one(s) + f[s \ {one(s)}]]
      BY <2>1 DEF Sums
    <3>2. \A s \in small(n) : s \in small(n + 1)
      BY <1>0
    <3> HIDE DEF Small, one
    <3> QED BY <3>1, <3>2
  <2>3. g = [s \in small(n + 1) |-> IF s = {} THEN 0 ELSE one(s) + g[s \ {one(s)}]]
    <3>1. \A s \in small(n + 1) : s # {} => g[s \ {one(s)}] = f[s \ {one(s)}]
      <4> HIDE DEF Small, one, g
      <4> QED BY <1>1, <2>2
    <3> HIDE DEF Small, one
    <3> QED BY <3>1
  <2>4. Sums(g, small(n + 1))
    <3> HIDE DEF g
    <3> QED BY <2>3 DEF Sums
  <2>5. n + 1 \in Nat /\ \E h : Sums(h, small(n + 1))
    <3> HIDE DEF g, Small
    <3> QED BY <2>4
  <2> QED BY <2>5
<1>4. Nat \subseteq T
  <2> HIDE DEF T
  <2> QED BY <1>2, <1>3, SetInduction
<1> QED BY <1>4

LEMMA SumUnfolds ==
  ASSUME NEW P, IsFiniteSet(P)
  PROVE  \E f : Sums(f, SUBSET P) /\ SumSet(P) = f[P]
<1>1. Small(P, Cardinality(P)) = SUBSET P
  <2>1. \A t \in SUBSET P : Cardinality(t) <= Cardinality(P)
    BY FS_Subset
  <2> QED BY <2>1 DEF Small
<1>2. \E f : Sums(f, SUBSET P)
  <2>1. Cardinality(P) \in Nat
    BY FS_CardinalityType
  <2>2. \E f : Sums(f, Small(P, Cardinality(P)))
    BY <2>1, Summable
  <2> QED BY <1>1, <2>2
<1>3. \E f : f = [s \in SUBSET P |->
         IF s = {} THEN 0 ELSE LET x == CHOOSE x \in s : TRUE IN x + f[s \ {x}]]
  BY <1>2 DEF Sums
<1> QED BY <1>3 DEF Sums, SumSet, FoldSet, MapThenFoldSet

\* The sum of different powers of two has just their bits.
LEMMA SumBits ==
  ASSUME NEW P, IsFiniteSet(P), \A p \in P : \E i \in Nat : p = 2 ^ i
  PROVE  \A i \in Nat : Bit(SumSet(P), 2 ^ i) <=> 2 ^ i \in P
<1>1. PICK f : Sums(f, SUBSET P) /\ SumSet(P) = f[P]
  BY SumUnfolds
<1> DEFINE Right(s) == f[s] \in Nat /\ \A i \in Nat : Bit(f[s], 2 ^ i) <=> 2 ^ i \in s
           T == {n \in Nat : \A s \in SUBSET P : Cardinality(s) = n => Right(s)}
<1>2. ASSUME NEW s \in SUBSET P
      PROVE  IsFiniteSet(s) /\ Cardinality(s) \in Nat
  BY FS_Subset, FS_CardinalityType
<1>3. 0 \in T
  <2> SUFFICES Right({})
    BY <1>2, FS_EmptySet
  <2>1. f[{}] = 0
    BY <1>1 DEF Sums
  <2>2. \A i \in Nat : ~Bit(0, 2 ^ i)
    <3> TAKE i \in Nat
    <3>1. 2 ^ i \in Nat \ {0}
      BY DoubledPower
    <3>2. ASSUME NEW m \in Nat \ {0} PROVE ~Bit(0, m)
      BY DEF Bit
    <3> QED BY <3>1, <3>2
  <2> QED BY <2>1, <2>2
<1>4. ASSUME NEW n \in Nat, n \in T PROVE n + 1 \in T
  <2> SUFFICES ASSUME NEW s \in SUBSET P, Cardinality(s) = n + 1
               PROVE  Right(s)
    OBVIOUS
  <2> DEFINE x == CHOOSE x \in s : TRUE
             r == s \ {x}
  <2>1. s # {} /\ IsFiniteSet(s)
    <3>1. IsFiniteSet(s) /\ Cardinality(s) # 0
      BY <1>2
    <3> QED BY <3>1, FS_EmptySet
  <2>2. x \in s
    BY <2>1
  <2>3. r \in SUBSET P /\ Cardinality(r) = n
    <3>1. Cardinality(r) = Cardinality(s) - 1
      <4> HIDE DEF x
      <4> QED BY <2>1, <2>2, FS_RemoveElement
    <3> QED BY <3>1
  <2>4. f[s] = x + f[r]
    BY <1>1, <2>1 DEF Sums
  <2>5. Right(r)
    BY <1>4, <2>3
  <2>6. PICK k \in Nat : x = 2 ^ k
    BY <2>2
  <2>7. f[s] = f[r] + 2 ^ k /\ f[s] \in Nat
    <3>1. 2 ^ k \in Nat
      BY DoubledPower
    <3> HIDE DEF x, r
    <3> QED BY <2>4, <2>5, <2>6, <3>1
  <2>8. ASSUME NEW i \in Nat PROVE Bit(f[s], 2 ^ i) <=> 2 ^ i \in s
    <3>1. ~Bit(f[r], 2 ^ k)
      BY <2>5, <2>6
    <3>2. Bit(f[s], 2 ^ i) <=> (2 ^ i \in r \/ k = i)
      <4> HIDE DEF x, r
      <4>1. Bit(f[r] + 2 ^ k, 2 ^ i) <=> Bit(f[r], 2 ^ i) \/ k = i
        BY <2>5, <3>1, BitAdded
      <4> QED BY <2>5, <2>7, <4>1, Zenon
    <3>3. 2 ^ i = 2 ^ k => k = i
      BY PowersDiffer
    <3>4. 2 ^ i \in s <=> (2 ^ i \in r \/ 2 ^ i = x)
      BY <2>2
    <3> HIDE DEF x, r
    <3> QED BY <2>6, <3>2, <3>3, <3>4, Zenon
  <2> QED BY <2>7, <2>8
<1>5. Nat \subseteq T
  <2> HIDE DEF T
  <2> QED BY <1>3, <1>4, SetInduction
<1>6. Right(P)
  BY <1>2, <1>5
<1> QED BY <1>1, <1>6

LEMMA MaskReaches ==
  ASSUME NEW b \in BindId, NEW S \in SUBSET BindId, players[b].name # None
  PROVE  Receivers(b, SumSet({2 ^ (x - 1) : x \in S})) = (S \ {b}) \cap Listed
<1> DEFINE P == {2 ^ (x - 1) : x \in S}
<1>1. \A x \in BindId : x - 1 \in Nat
  BY SeatsAssumption DEF BindId
<1>2. IsFiniteSet(P)
  <2>1. IsFiniteSet(BindId)
    BY SeatsAssumption, FS_Interval DEF BindId
  <2>2. IsFiniteSet(S)
    BY <2>1, FS_Subset
  <2>3. [x \in S |-> 2 ^ (x - 1)] \in Surjection(S, P)
    BY DEF Surjection
  <2> HIDE DEF P
  <2> QED BY <2>2, <2>3, FS_Surjection
<1>3. \A p \in P : \E i \in Nat : p = 2 ^ i
  BY <1>1
<1>4. ASSUME NEW c \in BindId PROVE Bit(SumSet(P), Mask(c)) <=> c \in S
  <2>1. Bit(SumSet(P), Mask(c)) <=> 2 ^ (c - 1) \in P
    <3> HIDE DEF P
    <3> QED BY <1>1, <1>2, <1>3, SumBits DEF Mask
  <2>2. 2 ^ (c - 1) \in P <=> c \in S
    <3>1. \A x \in S : 2 ^ (x - 1) = 2 ^ (c - 1) => x = c
      <4> TAKE x \in S
      <4>1. x - 1 \in Nat /\ c - 1 \in Nat
        BY <1>1
      <4>2. 2 ^ (x - 1) = 2 ^ (c - 1) => x - 1 = c - 1
        BY <4>1, PowersDiffer
      <4>3. x \in Int /\ c \in Int
        BY SeatsAssumption DEF BindId
      <4> QED BY <4>2, <4>3
    <3> QED BY <3>1
  <2> QED BY <2>1, <2>2
<1>5. Listed \subseteq BindId
  BY DEF Listed
<1> HIDE DEF P
<1>6. Receivers(b, SumSet(P)) = (S \ {b}) \cap Listed
  BY <1>4, <1>5 DEF Receivers
<1> QED BY <1>6 DEF P

\* A message sent to a set of seats, by the mask of their bits, reaches those of
\* them that are connected and not its sender, and nobody else, for any number of
\* seats (direct_sending, Bind::mask).
THEOREM MessagesReach == Spec => []ChatReaches
<1>1. Present \subseteq BindId
  BY DEF Present
<1>2. ChatReaches
  BY <1>1, MaskReaches DEF ChatReaches
<1> QED BY <1>2, PTL

=============================================================================
