--------------------------- MODULE SessionsProofs ---------------------------
(***************************************************************************)
(* Theorems about Sessions, for any number of connections, games and seats *)
(* and any capacity of the channels.                                       *)
(***************************************************************************)
EXTENDS Sessions, TLAPS

USE ClientAssumption, BoundsAssumption, OpsAssumption

-----------------------------------------------------------------------------
(* The operators on the players of one game. *)

LEMMA BindsType ==
  ASSUME NEW ps \in SUBSET Player
  PROVE  Binds(ps) \in SUBSET BindId
BY DEF Binds, Player

LEMMA NewPlayerType ==
  ASSUME NEW ps \in SUBSET Player, NEW c \in Client, NEW b \in BindId
  PROVE  NewPlayer(c, b, ps) \in Player
BY BindsType DEF NewPlayer, Player

\* Players that stay keep everything but the seats they count before them.
LEMMA WithoutMembers ==
  ASSUME NEW ps \in SUBSET Player, NEW C, NEW p \in Without(C, ps)
  PROVE  \E q \in ps : /\ q.client \notin C
                       /\ p = [q EXCEPT !.before = @ \ Binds({r \in ps : r.client \in C})]
BY DEF Without

LEMMA WithoutKeeps ==
  ASSUME NEW ps \in SUBSET Player, NEW C, NEW p \in ps, p.client \notin C
  PROVE  \E q \in Without(C, ps) : q.bind = p.bind
<1> DEFINE gone == {r \in ps : r.client \in C}
           q == [p EXCEPT !.before = @ \ Binds(gone)]
<1>1. p \in ps \ gone
  OBVIOUS
<1>2. Without(C, ps) = {[r EXCEPT !.before = @ \ Binds(gone)] : r \in ps \ gone}
  BY DEF Without
<1>3. q \in Without(C, ps)
  BY <1>1, <1>2
<1>4. q.bind = p.bind
  BY DEF Player
<1> QED BY <1>3, <1>4

LEMMA WithoutType ==
  ASSUME NEW ps \in SUBSET Player, NEW C
  PROVE  Without(C, ps) \in SUBSET Player
<1> SUFFICES ASSUME NEW p \in Without(C, ps) PROVE p \in Player
  OBVIOUS
<1>1. PICK q \in ps :
        p = [q EXCEPT !.before = @ \ Binds({r \in ps : r.client \in C})]
  BY DEF Without
<1> QED BY <1>1 DEF Player

\* Only the seats of those who leave are remembered.
LEMMA SnapshotsOfLeavers ==
  ASSUME NEW ps \in SUBSET Player, NEW C, NEW b \in Snapshots(C, ps)
  PROVE  \E p \in ps : p.client \in C /\ p.bind = b
BY DEF Snapshots, Binds, FirstHeld, Held

LEMMA SnapshotsType ==
  ASSUME NEW ps \in SUBSET Player, NEW C
  PROVE  Snapshots(C, ps) \in SUBSET BindId
BY SnapshotsOfLeavers DEF Player

\* One player of a game is replaced by another record.
LEMMA ReplacedType ==
  ASSUME TypeOK, NEW g \in open, NEW p, NEW q \in Player,
         players' = [players EXCEPT ![g] = (@ \ {p}) \cup {q}]
  PROVE  players' \in [GameId -> SUBSET Player]
BY DEF TypeOK

LEMMA LostType ==
  ASSUME TypeOK, NEW g \in open, NEW p \in players[g],
         NEW state \in {"no", "waiting", "due"}, SetLost(g, p, state)
  PROVE  players' \in [GameId -> SUBSET Player]
<1>1. p \in Player
  BY DEF TypeOK
<1>2. [p EXCEPT !.lost = state] \in Player
  BY <1>1 DEF Player
<1> QED BY <1>2, ReplacedType DEF SetLost

LEMMA TakeType ==
  ASSUME inbox \in Seq(Message), NEW kind, Take(kind)
  PROVE  inbox' \in Seq(Message) /\ Head(inbox) \in Message
BY DEF Take

LEMMA AttachType ==
  ASSUME TypeOK, NEW g \in GameId, NEW c \in Client, Attach(g, c)
  PROVE  /\ players' \in [GameId -> SUBSET Player]
         /\ removed' \in [GameId -> SUBSET BindId]
<1>1. CASE UNCHANGED <<players, removed>>
  BY <1>1 DEF TypeOK
<1>2. ASSUME NEW b \in FreeBind(players[g]),
             players' = [players EXCEPT ![g] = @ \cup {NewPlayer(c, b, @)}],
             removed' = [removed EXCEPT ![g] = @ \ {b}]
      PROVE  /\ players' \in [GameId -> SUBSET Player]
             /\ removed' \in [GameId -> SUBSET BindId]
  <2>1. b \in BindId /\ players[g] \in SUBSET Player
    BY DEF FreeBind, TypeOK
  <2>2. NewPlayer(c, b, players[g]) \in Player
    BY <2>1, NewPlayerType
  <2> QED BY <1>2, <2>1, <2>2 DEF TypeOK
<1> QED BY <1>1, <1>2 DEF Attach

LEMMA CloseInType ==
  ASSUME TypeOK, NEW reached, NEW C, CloseIn(reached, C)
  PROVE  /\ players' \in [GameId -> SUBSET Player]
         /\ removed' \in [GameId -> SUBSET BindId]
         /\ open' \in SUBSET GameId
         /\ lastGame' = lastGame
<1> DEFINE leavers(g) == {c \in C : g \in reached[c]}
<1>1. \A g \in GameId : players[g] \in SUBSET Player /\ removed[g] \in SUBSET BindId
  BY DEF TypeOK
<1>2. \A g \in GameId : Without(leavers(g), players[g]) \in SUBSET Player
  BY <1>1, WithoutType
<1>3. \A g \in GameId : Snapshots(leavers(g), players[g]) \in SUBSET BindId
  BY <1>1, SnapshotsType
<1>4. players' = [g \in GameId |-> Without(leavers(g), players[g])]
  BY DEF CloseIn
<1>5. PICK emptied \in SUBSET GameId :
        /\ open' = open \ emptied
        /\ removed' = [g \in GameId |-> IF g \in emptied THEN {}
                         ELSE removed[g] \cup Snapshots(leavers(g), players[g])]
  <2> DEFINE E == {g \in open : leavers(g) # {} /\ Without(leavers(g), players[g]) = {}}
  <2>1. E \in SUBSET GameId
    BY DEF TypeOK
  <2>2. /\ open' = open \ E
        /\ removed' = [g \in GameId |-> IF g \in E THEN {}
                         ELSE removed[g] \cup Snapshots(leavers(g), players[g])]
    BY DEF CloseIn
  <2> QED BY <2>1, <2>2
<1> QED BY <1>1, <1>2, <1>3, <1>4, <1>5 DEF CloseIn, TypeOK

-----------------------------------------------------------------------------
(* Type correctness. *)

LEMMA InitType == Init => TypeOK
BY DEF Init, TypeOK, GameId

\* One step of any task keeps every variable in its type.
LEMMA NextType == TypeOK /\ [Next]_vars => TypeOK'
<1> SUFFICES ASSUME TypeOK, [Next]_vars PROVE TypeOK'
  OBVIOUS
<1> USE DEF netVars, gameVars
<1>1. ASSUME NEW c \in Client, Accept(c) PROVE TypeOK'
  BY <1>1 DEF Accept, TypeOK
<1>2. ASSUME NEW c \in Client, AuthSucceeds(c) PROVE TypeOK'
  BY <1>2 DEF AuthSucceeds, Send, TypeOK, Message
<1>3. ASSUME NEW c \in Client, ConnectionEnds(c) PROVE TypeOK'
  BY <1>3 DEF ConnectionEnds, TypeOK
<1>4. ASSUME NEW c \in Client, SendDisconnected(c) PROVE TypeOK'
  BY <1>4 DEF SendDisconnected, Send, TypeOK, Message
<1>5. ASSUME NEW c \in Client, NEW packet \in Packets, Receive(c, packet)
      PROVE  TypeOK'
  <2>1. [id |-> c, kind |-> "Updated", packet |-> packet] \in Message
    BY DEF Message, Packets
  <2> QED BY <1>5, <2>1 DEF Receive, Send, TypeOK
<1>6. CASE SendAdd
  BY <1>6 DEF SendAdd, TypeOK
<1>7. CASE HandleAdd
  BY <1>7 DEF HandleAdd, TypeOK
<1>8. CASE HandleAuthenticated
  BY <1>8, TakeType DEF HandleAuthenticated, TypeOK
<1>9. CASE HandleDisconnected
  <2>1. inbox' \in Seq(Message)
    BY <1>9, TakeType DEF HandleDisconnected, TypeOK
  <2>2. players' \in [GameId -> SUBSET Player]
    <3>1. CASE UNCHANGED players
      BY <3>1 DEF TypeOK
    <3>2. CASE \E g \in open : \E p \in players[g] : SetLost(g, p, "waiting")
      BY <3>2, LostType
    <3> QED BY <1>9, <3>1, <3>2 DEF HandleDisconnected, GamesOf, FirstHeld, Held
  <2> QED BY <1>9, <2>1, <2>2 DEF HandleDisconnected, TypeOK
<1>10. CASE AttachToNewGame
  <2>1. inbox' \in Seq(Message) /\ Caller \in Client
    BY <1>10, TakeType DEF AttachToNewGame, TakePacket, TypeOK, Message, Caller
  <2>2. UniqGameId \in GameId /\ lastGame' \in 0 .. MaxGames
    BY <1>10 DEF AttachToNewGame, UniqGameId, GameId, TypeOK
  <2> QED BY <1>10, <2>1, <2>2, AttachType DEF AttachToNewGame, TakePacket, TypeOK
<1>11. CASE AttachToGame
  <2>1. inbox' \in Seq(Message) /\ Caller \in Client
    BY <1>11, TakeType DEF AttachToGame, TakePacket, TypeOK, Message, Caller
  <2>2. /\ players' \in [GameId -> SUBSET Player]
        /\ removed' \in [GameId -> SUBSET BindId]
    BY <1>11, <2>1, AttachType DEF AttachToGame, TypeOK
  <2> QED BY <1>11, <2>1, <2>2 DEF AttachToGame, TakePacket, TypeOK
<1>12. CASE RestoreConnection
  <2>1. inbox' \in Seq(Message) /\ Caller \in Client
    BY <1>12, TakeType DEF RestoreConnection, TakePacket, TypeOK, Message, Caller
  <2>2. clients' \in SUBSET Client
    BY <1>12 DEF RestoreConnection, TypeOK
  <2>3. players' \in [GameId -> SUBSET Player]
    <3>1. ASSUME NEW g \in open, NEW p \in players[g],
                 players' = [players EXCEPT ![g] = (@ \ {p}) \cup {Restored(p, Caller)}]
          PROVE  players' \in [GameId -> SUBSET Player]
      <4>1. p \in Player
        BY DEF TypeOK
      <4>2. Restored(p, Caller) \in Player
        BY <2>1, <4>1 DEF Restored, Player
      <4> QED BY <3>1, <4>2, ReplacedType
    <3> QED BY <1>12, <3>1 DEF RestoreConnection, TypeOK
  <2> QED BY <1>12, <2>1, <2>2, <2>3 DEF RestoreConnection, TakePacket, TypeOK
<1>13. CASE CloseSocket
  <2>1. inbox' \in Seq(Message)
    BY <1>13, TakeType DEF CloseSocket, TakePacket, TypeOK
  <2>2. /\ players' \in [GameId -> SUBSET Player]
        /\ removed' \in [GameId -> SUBSET BindId]
        /\ open' \in SUBSET GameId
        /\ lastGame' = lastGame
    BY <1>13, CloseInType DEF CloseSocket, TypeOK
  <2> QED BY <1>13, <2>1, <2>2 DEF CloseSocket, TakePacket, TypeOK
<1>14. CASE RegisterName \/ SetPlayerData \/ SetPlayerDataBad
  <2>1. inbox' \in Seq(Message)
    BY <1>14, TakeType
    DEF RegisterName, SetPlayerData, SetPlayerDataBad, SetProfile, TakePacket, TypeOK
  <2>2. players' \in [GameId -> SUBSET Player]
    <3>1. ASSUME NEW g \in open, NEW p \in players[g], NEW q \in Player,
                 players' = [players EXCEPT ![g] = (@ \ {p}) \cup {q}]
          PROVE  players' \in [GameId -> SUBSET Player]
      BY <3>1 DEF TypeOK
    <3>2. \A p \in Player : \A op \in {"NAME", "DATA", "BAD_DATA"} :
            Profiled(p, op) \in Player
      BY DEF Profiled, Player
    <3> QED BY <1>14, <3>1, <3>2
        DEF RegisterName, SetPlayerData, SetPlayerDataBad, SetProfile,
            GamesOf, FirstHeld, Held, TypeOK
  <2> QED BY <1>14, <2>1, <2>2
      DEF RegisterName, SetPlayerData, SetPlayerDataBad, SetProfile, TakePacket, TypeOK
<1>15. CASE ExpireDisconnectedPlayers
  <2>1. /\ players' \in [GameId -> SUBSET Player]
        /\ removed' \in [GameId -> SUBSET BindId]
        /\ open' \in SUBSET GameId
        /\ lastGame' = lastGame
    BY <1>15, CloseInType DEF ExpireDisconnectedPlayers
  <2> QED BY <1>15, <2>1 DEF ExpireDisconnectedPlayers, TypeOK
<1>16. CASE DeadlinePasses
  <2>1. players' \in [GameId -> SUBSET Player]
    BY <1>16, LostType DEF DeadlinePasses
  <2> QED BY <1>16, <2>1 DEF DeadlinePasses, TypeOK
<1>17. CASE UNCHANGED vars
  BY <1>17 DEF vars, TypeOK
<1> QED BY <1>1, <1>2, <1>3, <1>4, <1>5, <1>6, <1>7, <1>8, <1>9, <1>10, <1>11,
           <1>12, <1>13, <1>14, <1>15, <1>16, <1>17
    DEF Next, HandleMessage, HandlePacket

\* Every variable keeps its type: seats are numbered 1 to MAX_PLAYER_ID, and
\* only connections are listed, seated and heard of (server.rs, game.rs).
THEOREM TypeCorrect == Spec => []TypeOK
<1> QED BY InitType, NextType, PTL DEF Spec
-----------------------------------------------------------------------------
(* What one step of the server does to one game: nothing, or one player    *)
(* changes, joins, or some leave.                                          *)

Kept(g) == players'[g] = players[g] /\ removed'[g] = removed[g]

\* The main loop takes the Disconnected of connection c.
HearsEndOf(c) ==
  inbox # <<>> /\ Head(inbox).kind = "Disconnected" /\ Head(inbox).id = c
  /\ inbox' = Tail(inbox) /\ stage' = stage

\* A player keeps its seat; it is on the clock only if it was, or if its
\* connection is just reported gone.
Changed(g) ==
  \E p \in players[g], q \in Player :
    /\ q.bind = p.bind
    /\ q.lost # "no" =>
         q.client = p.client /\ (p.lost # "no" \/ HearsEndOf(p.client))
    /\ players'[g] = (players[g] \ {p}) \cup {q}
    /\ removed'[g] = removed[g]

Joined(g) ==
  \E c \in Client, b \in FreeBind(players[g]) :
    /\ players'[g] = players[g] \cup {NewPlayer(c, b, players[g])}
    /\ removed'[g] = removed[g] \ {b}

\* Those who leave asked for it, or are due.
Left(g) ==
  \E C :
    /\ \A c \in C : \/ ClosesItself(c)
                   \/ \E h \in GameId : \E p \in players[h] :
                        p.client = c /\ p.lost = "due"
    /\ players'[g] = Without(C, players[g])
    /\ removed'[g] \subseteq removed[g] \cup Snapshots(C, players[g])

LEMMA AttachStep ==
  ASSUME TypeOK, NEW h \in GameId, NEW c \in Client, Attach(h, c), NEW g \in GameId
  PROVE  Kept(g) \/ Joined(g)
<1>1. CASE UNCHANGED <<players, removed>>
  BY <1>1 DEF Kept
<1>2. ASSUME NEW b \in FreeBind(players[h]),
             players' = [players EXCEPT ![h] = @ \cup {NewPlayer(c, b, @)}],
             removed' = [removed EXCEPT ![h] = @ \ {b}]
      PROVE  Kept(g) \/ Joined(g)
  <2>1. CASE g = h
    BY <1>2, <2>1 DEF Joined, TypeOK
  <2>2. CASE g # h
    BY <1>2, <2>2 DEF Kept, TypeOK
  <2> QED BY <2>1, <2>2
<1> QED BY <1>1, <1>2 DEF Attach

LEMMA CloseInStep ==
  ASSUME TypeOK, NEW reached, NEW C, CloseIn(reached, C), NEW g \in GameId,
         \A c \in C : \/ ClosesItself(c)
                      \/ \E h \in GameId : \E p \in players[h] :
                           p.client = c /\ p.lost = "due"
  PROVE  Left(g)
<1> DEFINE D == {c \in C : g \in reached[c]}
<1>1. players'[g] = Without(D, players[g])
  BY DEF CloseIn
<1>2. removed'[g] \subseteq removed[g] \cup Snapshots(D, players[g])
  BY DEF CloseIn
<1> QED BY <1>1, <1>2 DEF Left

LEMMA ReplaceStep ==
  ASSUME TypeOK, NEW h \in open, NEW p \in players[h], NEW q \in Player,
         q.bind = p.bind,
         q.lost # "no" =>
           q.client = p.client /\ (p.lost # "no" \/ HearsEndOf(p.client)),
         players' = [players EXCEPT ![h] = (@ \ {p}) \cup {q}],
         removed' = removed, NEW g \in GameId
  PROVE  Kept(g) \/ Changed(g)
BY DEF Kept, Changed, TypeOK

LEMMA GameStep ==
  ASSUME TypeOK, [Next]_vars, NEW g \in GameId
  PROVE  Kept(g) \/ Changed(g) \/ Joined(g) \/ Left(g)
<1> USE DEF netVars, gameVars
<1>0. \A h \in open : h \in GameId /\ \A p \in players[h] : p \in Player
  BY DEF TypeOK
<1>1. CASE UNCHANGED <<players, removed>>
  BY <1>1 DEF Kept
<1>2. CASE HandleDisconnected
  <2>1. ASSUME NEW h \in open, NEW p \in players[h], p.client = Head(inbox).id,
               SetLost(h, p, "waiting")
        PROVE  Kept(g) \/ Changed(g)
    <3>1. [p EXCEPT !.lost = "waiting"] \in Player
      BY <1>0 DEF Player
    <3>2. HearsEndOf(p.client)
      BY <1>2, <2>1 DEF HandleDisconnected, Take, HearsEndOf
    <3>3. /\ [p EXCEPT !.lost = "waiting"].bind = p.bind
          /\ [p EXCEPT !.lost = "waiting"].client = p.client
      BY <1>0 DEF Player
    <3> QED BY <1>2, <2>1, <3>1, <3>2, <3>3, ReplaceStep
        DEF SetLost, HandleDisconnected
  <2> QED BY <1>1, <1>2, <2>1 DEF HandleDisconnected, GamesOf, FirstHeld, Held
<1>3. CASE AttachToNewGame \/ AttachToGame
  <2>1. Caller \in Client
    BY <1>3, TakeType
    DEF AttachToNewGame, AttachToGame, TakePacket, TypeOK, Message, Caller
  <2>2. CASE AttachToNewGame
    <3>1. UniqGameId \in GameId
      BY <2>2 DEF AttachToNewGame, UniqGameId, GameId, TypeOK
    <3> QED BY <2>1, <2>2, <3>1, AttachStep DEF AttachToNewGame
  <2>3. CASE AttachToGame
    BY <1>0, <1>1, <2>1, <2>3, AttachStep DEF AttachToGame
  <2> QED BY <1>3, <2>2, <2>3
<1>4. CASE RestoreConnection
  <2>1. Caller \in Client
    BY <1>4, TakeType DEF RestoreConnection, TakePacket, TypeOK, Message, Caller
  <2>2. ASSUME NEW h \in open, NEW p \in players[h],
               players' = [players EXCEPT ![h] = (@ \ {p}) \cup {Restored(p, Caller)}]
        PROVE  Kept(g) \/ Changed(g)
    <3>1. /\ Restored(p, Caller) \in Player
          /\ Restored(p, Caller).bind = p.bind
          /\ Restored(p, Caller).lost = "no"
      BY <1>0, <2>1 DEF Restored, Player
    <3> QED BY <1>4, <2>2, <3>1, ReplaceStep DEF RestoreConnection
  <2> QED BY <1>1, <1>4, <2>2 DEF RestoreConnection
<1>5. CASE CloseSocket
  <2>1. ClosesItself(Caller)
    BY <1>5 DEF CloseSocket, TakePacket, Take, ClosesItself, Caller
  <2> QED BY <1>1, <1>5, <2>1, CloseInStep DEF CloseSocket
<1>6. CASE RegisterName \/ SetPlayerData \/ SetPlayerDataBad
  <2>1. ASSUME NEW h \in open, NEW p \in players[h],
               NEW op \in {"NAME", "DATA", "BAD_DATA"},
               players' = [players EXCEPT ![h] = (@ \ {p}) \cup {Profiled(p, op)}]
        PROVE  Kept(g) \/ Changed(g)
    <3> p \in Player
      BY <1>0
    <3> DEFINE q == Profiled(p, op)
    <3>1. q \in Player /\ q.bind = p.bind /\ q.lost = p.lost /\ q.client = p.client
      BY DEF Profiled, Player
    <3>2. removed' = removed
      BY <1>6 DEF RegisterName, SetPlayerData, SetPlayerDataBad, SetProfile
    <3> QED BY <2>1, <3>1, <3>2, ReplaceStep
  <2> QED BY <1>1, <1>6, <2>1
      DEF RegisterName, SetPlayerData, SetPlayerDataBad, SetProfile,
          GamesOf, FirstHeld, Held
<1>7. CASE ExpireDisconnectedPlayers
  <2>1. \A c \in DueClients : \E h \in GameId : \E p \in players[h] :
          p.client = c /\ p.lost = "due"
    BY <1>0 DEF DueClients, DuePlayers
  <2> QED BY <1>7, <2>1, CloseInStep DEF ExpireDisconnectedPlayers
<1>8. CASE DeadlinePasses
  <2>1. ASSUME NEW h \in open, NEW p \in players[h], p.lost = "waiting",
               SetLost(h, p, "due")
        PROVE  Kept(g) \/ Changed(g)
    <3>1. /\ [p EXCEPT !.lost = "due"] \in Player
          /\ [p EXCEPT !.lost = "due"].bind = p.bind
          /\ [p EXCEPT !.lost = "due"].client = p.client
      BY <1>0 DEF Player
    <3> QED BY <1>8, <2>1, <3>1, ReplaceStep DEF SetLost, DeadlinePasses
  <2> QED BY <1>8, <2>1 DEF DeadlinePasses
<1>9. ASSUME NEW c \in Client,
             \/ Accept(c) \/ AuthSucceeds(c) \/ ConnectionEnds(c) \/ SendDisconnected(c)
             \/ \E packet \in Packets : Receive(c, packet)
      PROVE  Kept(g)
  BY <1>9 DEF Kept, Accept, AuthSucceeds, ConnectionEnds, SendDisconnected, Receive
<1>10. CASE SendAdd \/ HandleAdd \/ HandleAuthenticated \/ UNCHANGED vars
  BY <1>10 DEF Kept, SendAdd, HandleAdd, HandleAuthenticated, vars
<1> QED BY <1>2, <1>3, <1>4, <1>5, <1>6, <1>7, <1>8, <1>9, <1>10
    DEF Next, HandleMessage, HandlePacket

-----------------------------------------------------------------------------
(* Seats. *)

LEMMA SeatsStep == TypeOK /\ SeatsUnique /\ [Next]_vars => SeatsUnique'
<1> SUFFICES ASSUME TypeOK, SeatsUnique, [Next]_vars, NEW g \in GameId
             PROVE  /\ \A p, q \in players'[g] : p.bind = q.bind => p = q
                    /\ removed'[g] \cap Binds(players'[g]) = {}
  BY DEF SeatsUnique, Binds
<1> USE DEF Binds
<1>1. /\ \A p, q \in players[g] : p.bind = q.bind => p = q
      /\ removed[g] \cap Binds(players[g]) = {}
      /\ players[g] \in SUBSET Player
  BY DEF SeatsUnique, TypeOK
<1>2. CASE Kept(g)
  BY <1>1, <1>2 DEF Kept
<1>3. CASE Changed(g)
  BY <1>1, <1>3 DEF Changed
<1>4. CASE Joined(g)
  <2>1. PICK c \in Client, b \in FreeBind(players[g]) :
          /\ players'[g] = players[g] \cup {NewPlayer(c, b, players[g])}
          /\ removed'[g] = removed[g] \ {b}
    BY <1>4 DEF Joined
  <2>2. \A p \in players[g] : p.bind # b
    BY DEF FreeBind
  <2>3. NewPlayer(c, b, players[g]).bind = b
    BY DEF NewPlayer
  <2> HIDE DEF NewPlayer
  <2> QED BY <1>1, <2>1, <2>2, <2>3
<1>5. CASE Left(g)
  <2>1. PICK C : /\ players'[g] = Without(C, players[g])
                 /\ removed'[g] \subseteq removed[g] \cup Snapshots(C, players[g])
    BY <1>5 DEF Left
  <2>2. \A p \in players'[g] : \E q \in players[g] :
          /\ q.client \notin C
          /\ p.bind = q.bind
          /\ p = [q EXCEPT !.before = @ \ Binds({r \in players[g] : r.client \in C})]
    <3>1. ASSUME NEW p \in Without(C, players[g])
          PROVE  \E q \in players[g] :
            /\ q.client \notin C
            /\ p = [q EXCEPT !.before = @ \ Binds({r \in players[g] : r.client \in C})]
      BY DEF Without
    <3> QED BY <1>1, <2>1, <3>1 DEF Player
  <2>3. \A b \in Snapshots(C, players[g]) :
          \E p \in players[g] : p.client \in C /\ p.bind = b
    BY <1>1, SnapshotsOfLeavers
  <2>4. \A p, q \in players'[g] : p.bind = q.bind => p = q
    <3> HIDE DEF Binds
    <3> QED BY <1>1, <2>2
  <2>5. removed'[g] \cap {p.bind : p \in players'[g]} = {}
    BY <1>1, <2>1, <2>2, <2>3
  <2> QED BY <2>4, <2>5
<1> QED BY <1>2, <1>3, <1>4, <1>5, GameStep

\* No two players of a game ever share a seat, and the top list never remembers
\* a departed player under the seat of a present one.
THEOREM SeatsAreUnique == Spec => []SeatsUnique
<1>1. Init => SeatsUnique
  BY DEF Init, SeatsUnique, Binds
<1> QED BY <1>1, SeatsStep, TypeCorrect, PTL DEF Spec
-----------------------------------------------------------------------------
(* Who is on the clock.                                                    *)

\* Each connection says it ended once, and as the last thing it does.
Farewells ==
  \A i \in 1 .. Len(inbox) : inbox[i].kind = "Disconnected" =>
    /\ stage[inbox[i].id] = "gone"
    /\ \A j \in 1 .. Len(inbox) :
         inbox[j].kind = "Disconnected" /\ inbox[j].id = inbox[i].id => i = j

\* What one step does to the stages and the inbox: nothing to the inbox, a
\* message that is no farewell, a farewell, or the main loop takes a message.
Quiet == inbox' = inbox /\ \A c \in Client : stage[c] = "gone" => stage'[c] = "gone"

Said ==
  /\ \E m \in Message : m.kind # "Disconnected" /\ inbox' = Append(inbox, m)
  /\ \A c \in Client : stage[c] = "gone" => stage'[c] = "gone"

SaidFarewell ==
  \E c \in Client :
    /\ stage[c] = "closing"
    /\ stage' = [stage EXCEPT ![c] = "gone"]
    /\ inbox' = Append(inbox, [id |-> c, kind |-> "Disconnected", packet |-> NoPacket])

Taken == inbox # <<>> /\ inbox' = Tail(inbox) /\ stage' = stage

LEMMA InboxStep ==
  ASSUME TypeOK, [Next]_vars
  PROVE  Quiet \/ Said \/ SaidFarewell \/ Taken
<1> USE DEF netVars, gameVars
<1>1. ASSUME NEW c \in Client, Accept(c) \/ ConnectionEnds(c) PROVE Quiet
  BY <1>1 DEF Accept, ConnectionEnds, Quiet, TypeOK
<1>2. ASSUME NEW c \in Client, AuthSucceeds(c) PROVE Said
  BY <1>2 DEF AuthSucceeds, Send, Said, Message, TypeOK
<1>3. ASSUME NEW c \in Client, SendDisconnected(c) PROVE SaidFarewell
  BY <1>3 DEF SendDisconnected, Send, SaidFarewell
<1>4. ASSUME NEW c \in Client, NEW packet \in Packets, Receive(c, packet) PROVE Said
  <2>1. [id |-> c, kind |-> "Updated", packet |-> packet] \in Message
    BY DEF Message, Packets
  <2> QED BY <1>4, <2>1 DEF Receive, Send, Said
<1>5. CASE HandleMessage
  BY <1>5 DEF HandleMessage, HandlePacket, HandleAuthenticated, HandleDisconnected,
    AttachToNewGame, AttachToGame, RestoreConnection, CloseSocket, RegisterName,
    SetPlayerData, SetPlayerDataBad, SetProfile, TakePacket, Take, Taken
<1>6. CASE \/ SendAdd \/ HandleAdd \/ ExpireDisconnectedPlayers \/ DeadlinePasses
           \/ UNCHANGED vars
  BY <1>6 DEF SendAdd, HandleAdd, ExpireDisconnectedPlayers, DeadlinePasses, vars, Quiet
<1> QED BY <1>1, <1>2, <1>3, <1>4, <1>5, <1>6 DEF Next

LEMMA FarewellsStep == TypeOK /\ Farewells /\ [Next]_vars => Farewells'
<1> SUFFICES ASSUME TypeOK, Farewells, [Next]_vars PROVE Farewells'
  OBVIOUS
<1> inbox \in Seq(Message) /\ \A i \in 1 .. Len(inbox) : inbox[i].id \in Client
  <2>1. inbox \in Seq(Message)
    BY DEF TypeOK
  <2>2. \A i \in 1 .. Len(inbox) : inbox[i] \in Message
    BY <2>1
  <2> QED BY <2>1, <2>2 DEF Message
<1>1. CASE Quiet
  BY <1>1 DEF Quiet, Farewells
<1>2. CASE Said
  <2>1. PICK m \in Message : m.kind # "Disconnected" /\ inbox' = Append(inbox, m)
    BY <1>2 DEF Said
  <2>2. \A i \in 1 .. Len(inbox') : inbox'[i].kind = "Disconnected" =>
          i \in 1 .. Len(inbox) /\ inbox'[i] = inbox[i]
    BY <2>1
  <2> QED BY <1>2, <2>2 DEF Said, Farewells
<1>3. CASE SaidFarewell
  <2>1. PICK c \in Client :
          /\ stage[c] = "closing"
          /\ stage' = [stage EXCEPT ![c] = "gone"]
          /\ inbox' = Append(inbox,
                         [id |-> c, kind |-> "Disconnected", packet |-> NoPacket])
    BY <1>3 DEF SaidFarewell
  <2>2. \A i \in 1 .. Len(inbox') :
          \/ i \in 1 .. Len(inbox) /\ inbox'[i] = inbox[i]
          \/ i = Len(inbox) + 1 /\ inbox'[i].id = c
    BY <2>1
  <2>3. \A i \in 1 .. Len(inbox) : inbox[i].kind = "Disconnected" => inbox[i].id # c
    BY <2>1 DEF Farewells
  <2>4. stage'[c] = "gone" /\ \A d \in Client : d # c => stage'[d] = stage[d]
    BY <2>1 DEF TypeOK
  <2> QED BY <2>2, <2>3, <2>4 DEF Farewells
<1>4. CASE Taken
  <2>1. \A i \in 1 .. Len(inbox') :
          i + 1 \in 1 .. Len(inbox) /\ inbox'[i] = inbox[i + 1]
    BY <1>4 DEF Taken
  <2>2. \A i, j \in 1 .. Len(inbox') : i + 1 = j + 1 => i = j
    OBVIOUS
  <2> QED BY <1>4, <2>1, <2>2 DEF Taken, Farewells
<1> QED BY <1>1, <1>2, <1>3, <1>4, InboxStep

\* Once departed, departed for ever.
LEMMA DepartedStays ==
  ASSUME TypeOK, Farewells, [Next]_vars, NEW c \in Client, Departed(c)
  PROVE  Departed(c)'
<1> inbox \in Seq(Message)
  BY DEF TypeOK
<1>1. CASE Quiet
  BY <1>1 DEF Quiet, Departed
<1>2. CASE Said
  BY <1>2 DEF Said, Departed
<1>3. CASE SaidFarewell
  BY <1>3 DEF SaidFarewell, Departed, TypeOK
<1>4. CASE Taken
  BY <1>4 DEF Taken, Departed
<1> QED BY <1>1, <1>2, <1>3, <1>4, InboxStep

\* When the main loop has heard the farewell, there is no other.
LEMMA HeardDeparted ==
  ASSUME TypeOK, Farewells, NEW c \in Client, HearsEndOf(c)
  PROVE  Departed(c)'
<1> inbox \in Seq(Message) /\ inbox # <<>>
  BY DEF TypeOK, HearsEndOf
<1>1. inbox[1].kind = "Disconnected" /\ inbox[1].id = c /\ 1 \in 1 .. Len(inbox)
  BY DEF HearsEndOf
<1>2. stage[c] = "gone" /\ \A j \in 1 .. Len(inbox) :
        inbox[j].kind = "Disconnected" /\ inbox[j].id = c => j = 1
  BY <1>1 DEF Farewells
<1>3. \A i \in 1 .. Len(inbox') :
        i + 1 \in 1 .. Len(inbox) /\ i + 1 # 1 /\ inbox'[i] = inbox[i + 1]
  BY DEF HearsEndOf
<1> QED BY <1>2, <1>3 DEF Departed, HearsEndOf

LEMMA ClockStep ==
  TypeOK /\ Farewells /\ OnlyDepartedOnClock /\ [Next]_vars => OnlyDepartedOnClock'
<1> SUFFICES ASSUME TypeOK, Farewells, OnlyDepartedOnClock, [Next]_vars,
                    NEW g \in GameId, NEW p \in players'[g], p.lost # "no"
             PROVE  Departed(p.client)'
  BY DEF OnlyDepartedOnClock, Departed
<1>1. /\ players[g] \in SUBSET Player
      /\ \A q \in players[g] : q.lost # "no" => Departed(q.client)'
  BY DepartedStays DEF OnlyDepartedOnClock, TypeOK, Player
<1>2. CASE Kept(g)
  BY <1>1, <1>2 DEF Kept
<1>3. CASE Changed(g)
  <2>1. PICK q \in players[g], r \in Player :
          /\ r.lost # "no" =>
               r.client = q.client /\ (q.lost # "no" \/ HearsEndOf(q.client))
          /\ players'[g] = (players[g] \ {q}) \cup {r}
    BY <1>3 DEF Changed
  <2>2. q.client \in Client
    BY <1>1 DEF Player
  <2>3. CASE p = r
    BY <1>1, <2>1, <2>2, <2>3, HeardDeparted
  <2>4. CASE p # r
    BY <1>1, <2>1, <2>4
  <2> QED BY <2>3, <2>4
<1>4. CASE Joined(g)
  BY <1>1, <1>4 DEF Joined, NewPlayer
<1>5. CASE Left(g)
  <2>1. PICK C : players'[g] = Without(C, players[g])
    BY <1>5 DEF Left
  <2>2. PICK q \in players[g] :
          p = [q EXCEPT !.before = @ \ Binds({r \in players[g] : r.client \in C})]
    BY <2>1 DEF Without
  <2>3. q \in Player
    BY <1>1
  <2>4. p.client = q.client /\ p.lost = q.lost
    BY <2>2, <2>3 DEF Player
  <2> QED BY <1>1, <2>4
<1> QED BY <1>2, <1>3, <1>4, <1>5, GameStep

LEMMA ClockInvariant == Spec => [](TypeOK /\ Farewells /\ OnlyDepartedOnClock)
<1>1. Init => Farewells /\ OnlyDepartedOnClock
  BY DEF Init, Farewells, OnlyDepartedOnClock
<1> QED BY <1>1, InitType, NextType, FarewellsStep, ClockStep, PTL DEF Spec

\* The time-to-live of a seat runs only while its holder's connection is gone,
\* whatever order the messages of old and new holders are handled in.
THEOREM ClockRunsForDeparted == Spec => []OnlyDepartedOnClock
BY ClockInvariant, PTL

\* Players disappear only when their connection asked for it or is gone.
THEOREM PlayersStay == Spec => PresentPlayersStay
<1> DEFINE A == \A g \in GameId : \A p \in players[g] :
                  p.bind \notin Binds(players'[g]) =>
                    Departed(p.client) \/ ClosesItself(p.client)
<1>1. TypeOK /\ OnlyDepartedOnClock /\ [Next]_vars => [A]_vars
  <2> SUFFICES ASSUME TypeOK, OnlyDepartedOnClock, [Next]_vars,
                      NEW g \in GameId, NEW p \in players[g],
                      p.bind \notin Binds(players'[g])
               PROVE  Departed(p.client) \/ ClosesItself(p.client)
    OBVIOUS
  <2>0. players[g] \in SUBSET Player
    BY DEF TypeOK
  <2>1. ~Kept(g)
    BY DEF Kept, Binds
  <2>2. ~Changed(g)
    BY DEF Changed, Binds
  <2>3. ~Joined(g)
    BY DEF Joined, Binds
  <2>4. PICK C :
          /\ \A c \in C : \/ ClosesItself(c)
                         \/ \E h \in GameId : \E q \in players[h] :
                              q.client = c /\ q.lost = "due"
          /\ players'[g] = Without(C, players[g])
    BY <2>1, <2>2, <2>3, GameStep DEF Left
  <2>5. p.client \in C
    <3> SUFFICES ASSUME p.client \notin C PROVE p.bind \in Binds(players'[g])
      OBVIOUS
    <3>1. \E q \in players'[g] : q.bind = p.bind
      BY <2>0, <2>4, WithoutKeeps
    <3> QED BY <3>1 DEF Binds
  <2> QED BY <2>4, <2>5 DEF OnlyDepartedOnClock
<1> QED BY <1>1, ClockInvariant, PTL DEF Spec, PresentPlayersStay
-----------------------------------------------------------------------------
(* Games and their seats. *)

OpenIssued == \A g \in open : g <= lastGame

Inhabited == OpenIssued /\ GamesInhabited

LEMMA FirstSeat == 1 \in FreeBind({})
BY DEF FreeBind, Binds, BindId

LEMMA ReplaceInhabited ==
  ASSUME TypeOK, Inhabited, NEW h \in open, NEW p \in players[h], NEW q,
         players' = [players EXCEPT ![h] = (@ \ {p}) \cup {q}],
         open' = open, lastGame' = lastGame
  PROVE  Inhabited'
BY DEF Inhabited, OpenIssued, GamesInhabited, TypeOK

\* A player is added to h, or h was full already.
LEMMA AttachInhabits ==
  ASSUME TypeOK, NEW h \in GameId, NEW c \in Client, Attach(h, c),
         GamesInhabited
  PROVE  /\ players'[h] # {}
         /\ \A g \in GameId : g # h => players'[g] = players[g]
<1>1. CASE FreeBind(players[h]) = {}
  <2>1. players[h] # {}
    BY <1>1, FirstSeat
  <2> QED BY <1>1, <2>1 DEF Attach
<1>2. CASE FreeBind(players[h]) # {}
  <2>1. PICK b \in FreeBind(players[h]) :
          players' = [players EXCEPT ![h] = @ \cup {NewPlayer(c, b, @)}]
    BY <1>2 DEF Attach
  <2> QED BY <2>1 DEF TypeOK
<1> QED BY <1>1, <1>2

LEMMA CloseInInhabited ==
  ASSUME TypeOK, Inhabited, NEW reached, NEW C, CloseIn(reached, C)
  PROVE  Inhabited'
<1> DEFINE leavers(g) == {c \in C : g \in reached[c]}
           left(g)    == Without(leavers(g), players[g])
           emptied    == {g \in open : leavers(g) # {} /\ left(g) = {}}
<1>1. /\ players' = [g \in GameId |-> left(g)]
      /\ open' = open \ emptied
      /\ lastGame' = lastGame
  BY DEF CloseIn
<1>2. OpenIssued'
  BY <1>1 DEF Inhabited, OpenIssued
<1>3. ASSUME NEW g \in GameId PROVE g \in open' <=> players'[g] # {}
  <2>1. CASE g \notin open
    <3>1. players[g] = {}
      BY <2>1 DEF Inhabited, GamesInhabited
    <3>2. left(g) = {}
      BY <3>1 DEF Without
    <3> QED BY <1>1, <2>1, <3>2
  <2>2. CASE g \in open /\ leavers(g) = {}
    <3>1. PICK p : p \in players[g]
      BY <2>2 DEF Inhabited, GamesInhabited
    <3>2. players[g] \in SUBSET Player /\ p.client \notin leavers(g)
      BY <2>2 DEF TypeOK
    <3>3. left(g) # {}
      BY <3>1, <3>2, WithoutKeeps
    <3> QED BY <1>1, <2>2, <3>3
  <2>3. CASE g \in open /\ leavers(g) # {}
    <3> HIDE DEF leavers, left
    <3> QED BY <1>1, <2>3
  <2> QED BY <2>1, <2>2, <2>3
<1> QED BY <1>2, <1>3 DEF Inhabited, GamesInhabited

LEMMA InhabitedStep == TypeOK /\ Inhabited /\ [Next]_vars => Inhabited'
<1> SUFFICES ASSUME TypeOK, Inhabited, [Next]_vars PROVE Inhabited'
  OBVIOUS
<1> USE DEF netVars, gameVars
<1>0. CASE UNCHANGED <<open, players, lastGame>>
  BY <1>0 DEF Inhabited, OpenIssued, GamesInhabited
<1>1. CASE HandleDisconnected
  BY <1>0, <1>1, ReplaceInhabited
  DEF HandleDisconnected, SetLost, GamesOf, FirstHeld, Held
<1>2. CASE AttachToNewGame
  <2>1. Caller \in Client
    BY <1>2, TakeType DEF AttachToNewGame, TakePacket, TypeOK, Message, Caller
  <2>2. /\ UniqGameId \in GameId /\ lastGame' = UniqGameId /\ UniqGameId = lastGame + 1
        /\ lastGame \in Nat
    BY <1>2 DEF AttachToNewGame, UniqGameId, GameId, TypeOK
  <2>3. \A g \in open : g \in Nat /\ g <= lastGame
    BY DEF Inhabited, OpenIssued, TypeOK, GameId
  <2>4. players[UniqGameId] = {}
    BY <2>2, <2>3 DEF Inhabited, GamesInhabited
  <2>5. /\ players'[UniqGameId] # {}
        /\ \A g \in GameId : g # UniqGameId => players'[g] = players[g]
    BY <1>2, <2>1, <2>2, <2>4, AttachInhabits DEF AttachToNewGame, Inhabited
  <2>6. open' = open \cup {UniqGameId}
    BY <1>2 DEF AttachToNewGame
  <2>7. OpenIssued'
    BY <2>2, <2>3, <2>6 DEF OpenIssued
  <2>8. GamesInhabited'
    BY <2>2, <2>5, <2>6 DEF Inhabited, GamesInhabited
  <2> QED BY <2>7, <2>8 DEF Inhabited
<1>3. CASE AttachToGame
  <2>1. Caller \in Client
    BY <1>3, TakeType DEF AttachToGame, TakePacket, TypeOK, Message, Caller
  <2>2. ASSUME NEW h \in open, Attach(h, Caller) PROVE Inhabited'
    <3>1. h \in GameId
      BY DEF TypeOK
    <3>2. /\ players'[h] # {}
          /\ \A g \in GameId : g # h => players'[g] = players[g]
      BY <2>1, <2>2, <3>1, AttachInhabits DEF Inhabited
    <3> QED BY <1>3, <3>1, <3>2 DEF AttachToGame, Inhabited, OpenIssued, GamesInhabited
  <2> QED BY <1>0, <1>3, <2>2 DEF AttachToGame
<1>4. CASE RestoreConnection
  <2>1. ASSUME NEW h \in open, NEW p \in players[h],
               players' = [players EXCEPT ![h] = (@ \ {p}) \cup {Restored(p, Caller)}]
        PROVE  Inhabited'
    BY <1>4, <2>1, ReplaceInhabited DEF RestoreConnection
  <2> QED BY <1>0, <1>4, <2>1 DEF RestoreConnection
<1>5. CASE CloseSocket
  BY <1>0, <1>5, CloseInInhabited DEF CloseSocket
<1>6. CASE RegisterName \/ SetPlayerData \/ SetPlayerDataBad
  <2>1. ASSUME NEW h \in open, NEW p \in players[h], NEW q,
               players' = [players EXCEPT ![h] = (@ \ {p}) \cup {q}]
        PROVE  Inhabited'
    BY <1>6, <2>1, ReplaceInhabited
    DEF RegisterName, SetPlayerData, SetPlayerDataBad, SetProfile
  <2> QED BY <1>0, <1>6, <2>1
      DEF RegisterName, SetPlayerData, SetPlayerDataBad, SetProfile,
          GamesOf, FirstHeld, Held
<1>7. CASE ExpireDisconnectedPlayers
  BY <1>7, CloseInInhabited DEF ExpireDisconnectedPlayers
<1>8. CASE DeadlinePasses
  BY <1>8, ReplaceInhabited DEF DeadlinePasses, SetLost
<1>9. ASSUME NEW c \in Client,
             \/ Accept(c) \/ AuthSucceeds(c) \/ ConnectionEnds(c) \/ SendDisconnected(c)
             \/ \E packet \in Packets : Receive(c, packet)
      PROVE  UNCHANGED <<open, players, lastGame>>
  BY <1>9 DEF Accept, AuthSucceeds, ConnectionEnds, SendDisconnected, Receive
<1>10. CASE SendAdd \/ HandleAdd \/ HandleAuthenticated \/ UNCHANGED vars
  BY <1>0, <1>10 DEF SendAdd, HandleAdd, HandleAuthenticated, vars
<1> QED BY <1>0, <1>1, <1>2, <1>3, <1>4, <1>5, <1>6, <1>7, <1>8, <1>9, <1>10
    DEF Next, HandleMessage, HandlePacket

\* The games table holds exactly the games with a player: none is left behind
\* empty, and no player is left in a game that is gone.
THEOREM OpenGamesInhabited == Spec => []GamesInhabited
<1>1. Init => Inhabited
  BY DEF Init, Inhabited, OpenIssued, GamesInhabited
<1>2. Inhabited => GamesInhabited
  BY DEF Inhabited
<1> QED BY <1>1, <1>2, TypeCorrect, InhabitedStep, PTL DEF Spec

\* The id of a game is one that no game has had before: only the counter is
\* ever used to number a new one.
THEOREM IdsStayUnique == Spec => GameIdsNotReused
<1> DEFINE A == \A g \in GameId : g \in open' /\ g \notin open => g > lastGame
<1>1. TypeOK /\ [Next]_vars => [A]_vars
  <2> SUFFICES ASSUME TypeOK, [Next]_vars, NEW g \in GameId, g \in open', g \notin open
               PROVE  g > lastGame
    OBVIOUS
  <2> USE DEF netVars, gameVars
  <2>1. CASE AttachToNewGame
    BY <2>1 DEF AttachToNewGame, UniqGameId, TypeOK
  <2>2. CASE CloseSocket \/ ExpireDisconnectedPlayers
    <3>1. \A reached, C : ~CloseIn(reached, C)
      BY DEF CloseIn
    <3> QED BY <2>2, <3>1 DEF CloseSocket, ExpireDisconnectedPlayers
  <2> QED BY <2>1, <2>2
      DEF Next, vars, Accept, AuthSucceeds, ConnectionEnds, SendDisconnected, Receive,
          SendAdd, HandleAdd, HandleMessage, HandleAuthenticated, HandleDisconnected,
          HandlePacket, AttachToGame, RestoreConnection, RegisterName, SetPlayerData,
          SetPlayerDataBad, SetProfile, DeadlinePasses
<1> QED BY <1>1, TypeCorrect, PTL DEF Spec, GameIdsNotReused
-----------------------------------------------------------------------------
(* Clients that keep to one session each.                                  *)

OneSeat ==
  \A g, h \in GameId : \A p \in players[g], q \in players[h] :
    p.client = q.client => g = h /\ p.bind = q.bind

\* A client that has asked for a seat has none and has asked only once.
OneWish ==
  \A i \in 1 .. Len(inbox) : AsksForSeat(inbox[i]) =>
    /\ \A g \in GameId : \A p \in players[g] : p.client # inbox[i].id
    /\ \A j \in 1 .. Len(inbox) :
         AsksForSeat(inbox[j]) /\ inbox[j].id = inbox[i].id => i = j

\* Whatever a connection that is gone had to say comes before its farewell.
LastWords ==
  \A i \in 1 .. Len(inbox) : stage[inbox[i].id] = "gone" =>
    \E j \in i .. Len(inbox) :
      inbox[j].kind = "Disconnected" /\ inbox[j].id = inbox[i].id

\* A connection that is not gone says something, and asks for a seat only if
\* it has none and is not waiting for one.
Spoken ==
  \E m \in Message :
    /\ inbox' = Append(inbox, m)
    /\ m.kind # "Disconnected"
    /\ stage[m.id] # "gone"
    /\ AsksForSeat(m) => Seatless(m.id)
    /\ players' = players

NobodyGoes == \A c \in Client : stage'[c] = "gone" <=> stage[c] = "gone"

LEMMA SpeechStep ==
  ASSUME TypeOK, OneSession, [Next]_vars
  PROVE  \/ inbox' = inbox /\ NobodyGoes
         \/ Spoken /\ NobodyGoes
         \/ SaidFarewell /\ players' = players
         \/ Taken
<1> USE DEF netVars, gameVars
<1>1. ASSUME NEW c \in Client, Accept(c) \/ ConnectionEnds(c)
      PROVE  inbox' = inbox /\ NobodyGoes
  BY <1>1 DEF Accept, ConnectionEnds, NobodyGoes, TypeOK
<1>2. ASSUME NEW c \in Client, AuthSucceeds(c) PROVE Spoken /\ NobodyGoes
  <2>1. [id |-> c, kind |-> "Authenticated", packet |-> NoPacket] \in Message
    BY DEF Message
  <2>2. NobodyGoes
    BY <1>2 DEF AuthSucceeds, NobodyGoes, TypeOK
  <2> QED BY <1>2, <2>1, <2>2 DEF AuthSucceeds, Send, Spoken, AsksForSeat, NoPacket
<1>3. ASSUME NEW c \in Client, SendDisconnected(c)
      PROVE  SaidFarewell /\ players' = players
  BY <1>3 DEF SendDisconnected, Send, SaidFarewell
<1>4. ASSUME NEW c \in Client, NEW packet \in Packets, Receive(c, packet)
      PROVE  Spoken /\ NobodyGoes
  <2>1. [id |-> c, kind |-> "Updated", packet |-> packet] \in Message
    BY DEF Message, Packets
  <2>2. packet.op \in {"ATTACH", "RESTORE"} => Seatless(c)
    BY <1>4 DEF Receive
  <2>3. inbox' = Append(inbox, [id |-> c, kind |-> "Updated", packet |-> packet])
        /\ stage[c] = "reading" /\ stage' = stage /\ players' = players
    BY <1>4 DEF Receive, Send
  <2> QED BY <2>1, <2>2, <2>3 DEF Spoken, AsksForSeat, NobodyGoes
<1>5. CASE HandleMessage
  BY <1>5 DEF HandleMessage, HandlePacket, HandleAuthenticated, HandleDisconnected,
    AttachToNewGame, AttachToGame, RestoreConnection, CloseSocket, RegisterName,
    SetPlayerData, SetPlayerDataBad, SetProfile, TakePacket, Take, Taken
<1>6. CASE \/ SendAdd \/ HandleAdd \/ ExpireDisconnectedPlayers \/ DeadlinePasses
           \/ UNCHANGED vars
  BY <1>6 DEF SendAdd, HandleAdd, ExpireDisconnectedPlayers, DeadlinePasses, vars,
    NobodyGoes
<1> QED BY <1>1, <1>2, <1>3, <1>4, <1>5, <1>6 DEF Next

\* Player p of the next state has the seat of one of this state, for the same
\* client, and its clock is not stopped.
Heir(g, p) ==
  \E q \in players[g] :
    q.bind = p.bind /\ q.client = p.client /\ (q.lost # "no" => p.lost # "no")

\* A seat goes to the client whose packet is handled; the other seats stay.
Seated ==
  /\ inbox # <<>> /\ inbox' = Tail(inbox) /\ stage' = stage
  /\ AsksForSeat(Head(inbox)) /\ Head(inbox).kind = "Updated"
  /\ \E h \in GameId, b \in BindId :
       \A g \in GameId : \A p \in players'[g] :
         \/ Heir(g, p)
         \/ g = h /\ p.bind = b /\ p.client = Head(inbox).id

LEMMA HeirOfItself == \A g \in GameId : \A p \in players[g] : Heir(g, p)
<1> SUFFICES ASSUME NEW g \in GameId, NEW p \in players[g] PROVE Heir(g, p)
  OBVIOUS
<1>1. /\ p.bind = p.bind /\ p.client = p.client
      /\ p.lost # "no" => p.lost # "no"
  OBVIOUS
<1> QED BY <1>1, Zenon DEF Heir

LEMMA HeirsOfReplace ==
  ASSUME TypeOK, NEW h \in open, NEW p \in players[h], NEW q,
         q.bind = p.bind, q.client = p.client, p.lost # "no" => q.lost # "no",
         players' = [players EXCEPT ![h] = (@ \ {p}) \cup {q}],
         NEW g \in GameId, NEW r \in players'[g]
  PROVE  Heir(g, r)
BY DEF Heir, TypeOK

LEMMA HeirsOfCloseIn ==
  ASSUME TypeOK, NEW reached, NEW C, CloseIn(reached, C),
         NEW g \in GameId, NEW p \in players'[g]
  PROVE  Heir(g, p)
<1> DEFINE D == {c \in C : g \in reached[c]}
<1>1. p \in Without(D, players[g]) /\ players[g] \in SUBSET Player
  BY DEF CloseIn, TypeOK
<1> HIDE DEF D
<1>2. PICK q \in players[g] :
        p = [q EXCEPT !.before = @ \ Binds({r \in players[g] : r.client \in D})]
  BY <1>1 DEF Without
<1>3. p.bind = q.bind /\ p.client = q.client /\ p.lost = q.lost
  BY <1>1, <1>2 DEF Player
<1> QED BY <1>3 DEF Heir

LEMMA SeatedByAttach ==
  ASSUME TypeOK, NEW h \in GameId, NEW c \in Client, Attach(h, c)
  PROVE  \E b \in BindId : \A g \in GameId : \A p \in players'[g] :
           Heir(g, p) \/ (g = h /\ p.bind = b /\ p.client = c)
<1>1. CASE players' = players
  <2>1. 1 \in BindId
    BY DEF BindId
  <2>2. \A g \in GameId : \A p \in players'[g] : Heir(g, p)
    BY <1>1, HeirOfItself
  <2> QED BY <2>1, <2>2
<1>2. ASSUME NEW b \in FreeBind(players[h]),
             players' = [players EXCEPT ![h] = @ \cup {NewPlayer(c, b, @)}]
      PROVE  \A g \in GameId : \A p \in players'[g] :
               Heir(g, p) \/ (g = h /\ p.bind = b /\ p.client = c)
  <2> SUFFICES ASSUME NEW g \in GameId, NEW p \in players'[g]
               PROVE  Heir(g, p) \/ (g = h /\ p.bind = b /\ p.client = c)
    OBVIOUS
  <2>1. CASE p \in players[g]
    BY <2>1, HeirOfItself
  <2>2. CASE p \notin players[g]
    <3>1. g = h /\ p = NewPlayer(c, b, players[h])
      BY <1>2, <2>2 DEF TypeOK
    <3> QED BY <3>1 DEF NewPlayer
  <2> QED BY <2>1, <2>2
<1>3. \A b \in FreeBind(players[h]) : b \in BindId
  BY DEF FreeBind
<1> QED BY <1>1, <1>2, <1>3 DEF Attach

LEMMA SeatStep ==
  ASSUME TypeOK, [Next]_vars
  PROVE  Seated \/ \A g \in GameId : \A p \in players'[g] : Heir(g, p)
<1> USE DEF netVars, gameVars
<1>0. \A h \in open : h \in GameId /\ \A p \in players[h] : p \in Player
  BY DEF TypeOK
<1>1. CASE players' = players
  BY <1>1 DEF Heir
<1>2. CASE HandleDisconnected \/ DeadlinePasses
  <2>1. ASSUME NEW h \in open, NEW p \in players[h], NEW state \in {"waiting", "due"},
               SetLost(h, p, state)
        PROVE  \A g \in GameId : \A r \in players'[g] : Heir(g, r)
    <3>1. /\ [p EXCEPT !.lost = state].bind = p.bind
          /\ [p EXCEPT !.lost = state].client = p.client
          /\ [p EXCEPT !.lost = state].lost = state
      BY <1>0 DEF Player
    <3> QED BY <2>1, <3>1, HeirsOfReplace DEF SetLost
  <2> QED BY <1>1, <1>2, <2>1
      DEF HandleDisconnected, DeadlinePasses, GamesOf, FirstHeld, Held
<1>3. CASE AttachToNewGame \/ AttachToGame
  <2>1. Caller \in Client
    BY <1>3, TakeType
    DEF AttachToNewGame, AttachToGame, TakePacket, TypeOK, Message, Caller
  <2>2. players' = players \/ \E h \in GameId : Attach(h, Caller)
    <3>1. CASE AttachToNewGame
      <4>1. UniqGameId \in GameId
        BY <3>1 DEF AttachToNewGame, TypeOK, UniqGameId, GameId
      <4> QED BY <3>1, <4>1 DEF AttachToNewGame
    <3>2. CASE AttachToGame
      BY <1>0, <3>2 DEF AttachToGame
    <3> QED BY <1>3, <3>1, <3>2
  <2>3. ASSUME NEW h \in GameId, Attach(h, Caller) PROVE Seated
    BY <1>3, <2>1, <2>3, SeatedByAttach
    DEF AttachToNewGame, AttachToGame, TakePacket, Take, AsksForSeat, Caller, Seated
  <2> QED BY <1>1, <2>2, <2>3
<1>4. CASE RestoreConnection
  <2>1. ASSUME NEW h \in open, NEW p \in players[h],
               players' = [players EXCEPT ![h] = (@ \ {p}) \cup {Restored(p, Caller)}]
        PROVE  Seated
    <3>1. /\ h \in GameId /\ p.bind \in BindId
          /\ Restored(p, Caller).bind = p.bind
          /\ Restored(p, Caller).client = Head(inbox).id
      BY <1>0 DEF Player, Restored, Caller
    <3>2. \A g \in GameId : \A r \in players'[g] :
            Heir(g, r) \/ (g = h /\ r.bind = p.bind /\ r.client = Head(inbox).id)
      <4> SUFFICES ASSUME NEW g \in GameId, NEW r \in players'[g]
                   PROVE  \/ Heir(g, r)
                          \/ (g = h /\ r.bind = p.bind /\ r.client = Head(inbox).id)
        OBVIOUS
      <4>1. CASE r \in players[g]
        BY <4>1, HeirOfItself
      <4>2. CASE r \notin players[g]
        <5>1. g = h /\ r = Restored(p, Caller)
          BY <2>1, <4>2 DEF TypeOK
        <5> QED BY <3>1, <5>1
      <4> QED BY <4>1, <4>2
    <3> QED BY <1>4, <3>1, <3>2
        DEF RestoreConnection, TakePacket, Take, AsksForSeat, Seated
  <2> QED BY <1>1, <1>4, <2>1 DEF RestoreConnection
<1>5. CASE CloseSocket \/ ExpireDisconnectedPlayers
  BY <1>1, <1>5, HeirsOfCloseIn DEF CloseSocket, ExpireDisconnectedPlayers
<1>6. ASSUME NEW op \in {"NAME", "DATA", "BAD_DATA"}, SetProfile(op)
      PROVE  \A g \in GameId : \A r \in players'[g] : Heir(g, r)
  <2>1. ASSUME NEW h \in open, NEW p \in players[h],
               players' = [players EXCEPT ![h] = (@ \ {p}) \cup {Profiled(p, op)}]
        PROVE  \A g \in GameId : \A r \in players'[g] : Heir(g, r)
    <3>1. /\ Profiled(p, op).bind = p.bind /\ Profiled(p, op).client = p.client
          /\ Profiled(p, op).lost = p.lost
      BY <1>0 DEF Player, Profiled
    <3> QED BY <2>1, <3>1, HeirsOfReplace
  <2>2. \/ players' = players
        \/ \E h \in open : \E p \in players[h] :
             players' = [players EXCEPT ![h] = (@ \ {p}) \cup {Profiled(p, op)}]
    BY <1>6 DEF SetProfile, GamesOf, FirstHeld, Held
  <2> QED BY <1>1, <2>1, <2>2 DEF Heir
<1>7. ASSUME NEW c \in Client,
             \/ Accept(c) \/ AuthSucceeds(c) \/ ConnectionEnds(c) \/ SendDisconnected(c)
             \/ \E packet \in Packets : Receive(c, packet)
      PROVE  players' = players
  BY <1>7 DEF Accept, AuthSucceeds, ConnectionEnds, SendDisconnected, Receive
<1>8. CASE SendAdd \/ HandleAdd \/ HandleAuthenticated \/ UNCHANGED vars
  BY <1>1, <1>8 DEF SendAdd, HandleAdd, HandleAuthenticated, vars
<1> QED BY <1>1, <1>2, <1>3, <1>4, <1>5, <1>6, <1>7, <1>8
    DEF Next, HandleMessage, HandlePacket, RegisterName, SetPlayerData, SetPlayerDataBad

LEMMA MessagesOfClients ==
  ASSUME TypeOK
  PROVE  inbox \in Seq(Message) /\ \A i \in 1 .. Len(inbox) : inbox[i].id \in Client
<1>1. inbox \in Seq(Message)
  BY DEF TypeOK
<1>2. \A i \in 1 .. Len(inbox) : inbox[i] \in Message
  BY <1>1
<1> QED BY <1>1, <1>2 DEF Message

LEMMA LastWordsStep == TypeOK /\ OneSession /\ LastWords /\ [Next]_vars => LastWords'
<1> SUFFICES ASSUME TypeOK, OneSession, LastWords, [Next]_vars,
                    NEW i \in 1 .. Len(inbox'), stage'[inbox'[i].id] = "gone"
             PROVE  \E j \in i .. Len(inbox') :
                      inbox'[j].kind = "Disconnected" /\ inbox'[j].id = inbox'[i].id
  BY DEF LastWords
<1> inbox \in Seq(Message) /\ \A k \in 1 .. Len(inbox) : inbox[k].id \in Client
  BY MessagesOfClients
<1>1. CASE inbox' = inbox /\ NobodyGoes
  BY <1>1 DEF NobodyGoes, LastWords
<1>2. CASE Spoken /\ NobodyGoes
  <2>1. PICK m \in Message : inbox' = Append(inbox, m) /\ stage[m.id] # "gone"
    BY <1>2 DEF Spoken
  <2>2. m.id \in Client
    BY DEF Message
  <2>3. i \in 1 .. Len(inbox) /\ inbox'[i] = inbox[i]
    BY <1>2, <2>1, <2>2 DEF NobodyGoes
  <2>4. PICK j \in i .. Len(inbox) :
          inbox[j].kind = "Disconnected" /\ inbox[j].id = inbox[i].id
    BY <1>2, <2>3 DEF NobodyGoes, LastWords
  <2>5. j \in i .. Len(inbox') /\ inbox'[j] = inbox[j]
    BY <2>1, <2>3
  <2> QED BY <2>3, <2>4, <2>5
<1>3. CASE SaidFarewell
  <2>1. PICK c \in Client :
          /\ stage' = [stage EXCEPT ![c] = "gone"]
          /\ inbox' = Append(inbox,
                         [id |-> c, kind |-> "Disconnected", packet |-> NoPacket])
    BY <1>3 DEF SaidFarewell
  <2>2. /\ inbox'[Len(inbox')].id = c
        /\ inbox'[Len(inbox')].kind = "Disconnected"
        /\ Len(inbox') \in i .. Len(inbox')
    BY <2>1
  <2>3. CASE inbox'[i].id = c
    BY <2>2, <2>3
  <2>4. CASE inbox'[i].id # c
    <3>1. i \in 1 .. Len(inbox) /\ inbox'[i] = inbox[i]
      BY <2>1, <2>4
    <3>2. stage[inbox[i].id] = "gone"
      BY <2>1, <2>4, <3>1 DEF TypeOK
    <3>3. PICK j \in i .. Len(inbox) :
            inbox[j].kind = "Disconnected" /\ inbox[j].id = inbox[i].id
      BY <3>1, <3>2 DEF LastWords
    <3>4. j \in i .. Len(inbox') /\ inbox'[j] = inbox[j]
      BY <2>1, <3>1
    <3> QED BY <3>1, <3>3, <3>4
  <2> QED BY <2>3, <2>4
<1>4. CASE Taken
  <2>1. i + 1 \in 1 .. Len(inbox) /\ inbox'[i] = inbox[i + 1]
    BY <1>4 DEF Taken
  <2>2. PICK j \in i + 1 .. Len(inbox) :
          inbox[j].kind = "Disconnected" /\ inbox[j].id = inbox[i + 1].id
    BY <1>4, <2>1 DEF Taken, LastWords
  <2>3. j - 1 \in i .. Len(inbox') /\ inbox'[j - 1] = inbox[j]
    BY <1>4 DEF Taken
  <2> QED BY <2>1, <2>2, <2>3
<1> QED BY <1>1, <1>2, <1>3, <1>4, SpeechStep

LEMMA OneSeatStep == TypeOK /\ OneSeat /\ OneWish /\ [Next]_vars => OneSeat'
<1> SUFFICES ASSUME TypeOK, OneSeat, OneWish, [Next]_vars,
                    NEW g \in GameId, NEW h \in GameId,
                    NEW p \in players'[g], NEW q \in players'[h], p.client = q.client
             PROVE  g = h /\ p.bind = q.bind
  BY DEF OneSeat
<1> inbox \in Seq(Message)
  BY DEF TypeOK
<1>1. CASE Heir(g, p) /\ Heir(h, q)
  BY <1>1 DEF Heir, OneSeat
<1>2. CASE Seated
  <2>1. \A k \in GameId : \A r \in players'[k] : Heir(k, r) => r.client # Head(inbox).id
    BY <1>2 DEF Seated, Heir, OneWish
  <2> QED BY <1>1, <1>2, <2>1 DEF Seated
<1> QED BY <1>1, <1>2, SeatStep

LEMMA OneWishStep ==
  TypeOK /\ OneSession /\ GamesInhabited /\ OneWish /\ [Next]_vars => OneWish'
<1> SUFFICES ASSUME TypeOK, OneSession, GamesInhabited, OneWish, [Next]_vars,
                    NEW i \in 1 .. Len(inbox'), AsksForSeat(inbox'[i])
             PROVE  /\ \A g \in GameId : \A p \in players'[g] : p.client # inbox'[i].id
                    /\ \A j \in 1 .. Len(inbox') :
                         AsksForSeat(inbox'[j]) /\ inbox'[j].id = inbox'[i].id => i = j
  BY DEF OneWish, AsksForSeat
<1> inbox \in Seq(Message) /\ \A k \in 1 .. Len(inbox) : inbox[k].id \in Client
  BY MessagesOfClients
<1>1. CASE inbox' = inbox
  <2>1. ~Seated
    BY <1>1 DEF Seated
  <2>2. \A g \in GameId : \A p \in players'[g] : Heir(g, p)
    BY <2>1, SeatStep
  <2> QED BY <1>1, <2>2 DEF OneWish, Heir
<1>2. CASE Spoken
  <2>1. PICK m \in Message :
          /\ inbox' = Append(inbox, m)
          /\ AsksForSeat(m) => Seatless(m.id)
          /\ players' = players
    BY <1>2 DEF Spoken
  <2>2. \A j \in 1 .. Len(inbox') :
          \/ j \in 1 .. Len(inbox) /\ inbox'[j] = inbox[j]
          \/ j = Len(inbox) + 1 /\ inbox'[j] = m
    BY <2>1
  <2>3. AsksForSeat(m) =>
          /\ \A g \in GameId : \A p \in players[g] : p.client # m.id
          /\ \A j \in 1 .. Len(inbox) : AsksForSeat(inbox[j]) => inbox[j].id # m.id
    <3>1. Seatless(m.id) => \A g \in GameId : \A p \in players[g] : p.client # m.id
      BY DEF Seatless, GamesOf, Held, GamesInhabited
    <3> QED BY <2>1, <3>1 DEF Seatless
  <2> QED BY <2>1, <2>2, <2>3 DEF OneWish
<1>3. CASE SaidFarewell /\ players' = players
  <2>1. PICK c \in Client :
          inbox' = Append(inbox,
                     [id |-> c, kind |-> "Disconnected", packet |-> NoPacket])
    BY <1>3 DEF SaidFarewell
  <2>2. \A j \in 1 .. Len(inbox') : AsksForSeat(inbox'[j]) =>
          j \in 1 .. Len(inbox) /\ inbox'[j] = inbox[j]
    BY <2>1 DEF AsksForSeat, NoPacket
  <2> QED BY <1>3, <2>2 DEF OneWish
<1>4. CASE Taken
  <2>1. \A j \in 1 .. Len(inbox') :
          j + 1 \in 1 .. Len(inbox) /\ inbox'[j] = inbox[j + 1]
    BY <1>4 DEF Taken
  <2>2. \A j \in 1 .. Len(inbox') :
          AsksForSeat(inbox'[j]) /\ inbox'[j].id = inbox'[i].id => i + 1 = j + 1
    BY <2>1 DEF OneWish
  <2>3. \A g \in GameId : \A p \in players[g] : p.client # inbox'[i].id
    BY <2>1 DEF OneWish
  <2>4. Seated => Head(inbox).id # inbox'[i].id
    <3>1. Seated => AsksForSeat(inbox[1]) /\ Head(inbox) = inbox[1] /\ 1 \in 1 .. Len(inbox)
      BY <1>4 DEF Seated, Taken
    <3>2. 1 # i + 1
      OBVIOUS
    <3> QED BY <2>1, <3>1, <3>2 DEF OneWish
  <2>5. \A g \in GameId : \A p \in players'[g] : p.client # inbox'[i].id
    <3> SUFFICES ASSUME NEW g \in GameId, NEW p \in players'[g]
                 PROVE  p.client # inbox'[i].id
      OBVIOUS
    <3>1. CASE Heir(g, p)
      BY <2>3, <3>1 DEF Heir
    <3>2. CASE ~Heir(g, p)
      <4>1. Seated /\ p.client = Head(inbox).id
        BY <3>2, SeatStep DEF Seated
      <4> QED BY <2>4, <4>1
    <3> QED BY <3>1, <3>2
  <2> QED BY <2>2, <2>5
<1> QED BY <1>1, <1>2, <1>3, <1>4, SpeechStep

\* Only one branch of the main loop takes a Disconnected.
LEMMA FarewellHandled ==
  ASSUME TypeOK, [Next]_vars, inbox # <<>>, Head(inbox).kind = "Disconnected",
         inbox' = Tail(inbox)
  PROVE  HandleDisconnected
<1> inbox \in Seq(Message)
  BY DEF TypeOK
<1>1. Len(inbox') # Len(inbox) /\ Len(inbox') # Len(inbox) + 1
  <2>1. Len(inbox) \in Nat /\ Len(inbox') = Len(inbox) - 1
    OBVIOUS
  <2>2. \A n \in Nat : n - 1 # n /\ n - 1 # n + 1
    OBVIOUS
  <2> QED BY <2>1, <2>2
<1>2. inbox' # inbox
  BY <1>1, Zenon
<1>3. ASSUME NEW c, NEW kind, NEW packet PROVE ~Send(c, kind, packet)
  <2>1. Len(Append(inbox, [id |-> c, kind |-> kind, packet |-> packet])) = Len(inbox) + 1
    OBVIOUS
  <2> QED BY <1>1, <2>1, Zenon DEF Send
<1>4. CASE \E c \in Client :
             \/ Accept(c) \/ AuthSucceeds(c) \/ ConnectionEnds(c) \/ SendDisconnected(c)
             \/ \E packet \in Packets : Receive(c, packet)
  BY <1>2, <1>3, <1>4
  DEF Accept, AuthSucceeds, ConnectionEnds, SendDisconnected, Receive
<1>5. CASE \/ SendAdd \/ HandleAdd \/ ExpireDisconnectedPlayers \/ DeadlinePasses
           \/ UNCHANGED vars
  BY <1>2, <1>5
  DEF SendAdd, HandleAdd, ExpireDisconnectedPlayers, DeadlinePasses, vars, netVars
<1>6. CASE HandleMessage
  BY <1>6
  DEF HandleMessage, HandleAuthenticated, Take, HandlePacket, AttachToNewGame,
      AttachToGame, RestoreConnection, CloseSocket, RegisterName, SetPlayerData,
      SetPlayerDataBad, SetProfile, TakePacket
<1> QED BY <1>4, <1>5, <1>6 DEF Next

\* A connection departs when the main loop takes its Disconnected.
LEMMA DepartsWhenHeard ==
  ASSUME TypeOK, OneSession, [Next]_vars, NEW c \in Client, Departed(c)', ~Departed(c)
  PROVE  HearsEndOf(c)
<1> inbox \in Seq(Message) /\ \A k \in 1 .. Len(inbox) : inbox[k].id \in Client
  BY MessagesOfClients
<1>1. CASE inbox' = inbox /\ NobodyGoes
  BY <1>1 DEF NobodyGoes, Departed
<1>2. CASE Spoken /\ NobodyGoes
  <2>1. PICK m \in Message : inbox' = Append(inbox, m)
    BY <1>2 DEF Spoken
  <2>2. \A k \in 1 .. Len(inbox) : k \in 1 .. Len(inbox') /\ inbox'[k] = inbox[k]
    BY <2>1
  <2> QED BY <1>2, <2>2 DEF NobodyGoes, Departed
<1>3. CASE SaidFarewell
  <2>1. PICK d \in Client :
          /\ stage' = [stage EXCEPT ![d] = "gone"]
          /\ inbox' = Append(inbox,
                         [id |-> d, kind |-> "Disconnected", packet |-> NoPacket])
    BY <1>3 DEF SaidFarewell
  <2>2. Len(inbox') \in 1 .. Len(inbox') /\ inbox'[Len(inbox')].id = d
        /\ inbox'[Len(inbox')].kind = "Disconnected"
    BY <2>1
  <2>3. d # c
    BY <2>2 DEF Departed
  <2>4. \A k \in 1 .. Len(inbox) : k \in 1 .. Len(inbox') /\ inbox'[k] = inbox[k]
    BY <2>1
  <2> QED BY <2>1, <2>3, <2>4 DEF Departed, TypeOK
<1>4. CASE Taken
  <2>1. \A k \in 1 .. Len(inbox) : k # 1 =>
          k - 1 \in 1 .. Len(inbox') /\ inbox'[k - 1] = inbox[k]
    BY <1>4 DEF Taken
  <2>2. inbox[1].kind = "Disconnected" /\ inbox[1].id = c
    BY <1>4, <2>1 DEF Taken, Departed
  <2> QED BY <1>4, <2>2 DEF Taken, HearsEndOf
<1> QED BY <1>1, <1>2, <1>3, <1>4, SpeechStep

LEMMA AbandonStep ==
  /\ TypeOK /\ OneSession /\ SeatsUnique /\ GamesInhabited /\ OneSeat /\ LastWords
  /\ NoAbandonedSeat /\ [Next]_vars
  => NoAbandonedSeat'
<1> SUFFICES ASSUME TypeOK, OneSession, SeatsUnique, GamesInhabited, OneSeat, LastWords,
                    NoAbandonedSeat, [Next]_vars,
                    NEW g \in GameId, NEW p \in players'[g], Departed(p.client)'
             PROVE  p.lost # "no"
  BY DEF NoAbandonedSeat, Departed
<1> inbox \in Seq(Message) /\ \A k \in 1 .. Len(inbox) : inbox[k].id \in Client
  BY MessagesOfClients
<1>1. CASE ~Heir(g, p)
  <2>1. Seated /\ p.client = Head(inbox).id
    BY <1>1, SeatStep DEF Seated
  <2>2. Head(inbox) = inbox[1] /\ 1 \in 1 .. Len(inbox) /\ stage[inbox[1].id] = "gone"
    BY <2>1 DEF Seated, Departed
  <2>3. PICK j \in 1 .. Len(inbox) :
          inbox[j].kind = "Disconnected" /\ inbox[j].id = inbox[1].id
    BY <2>2 DEF LastWords
  <2>4. j - 1 \in 1 .. Len(inbox') /\ inbox'[j - 1] = inbox[j]
    BY <2>1, <2>2, <2>3 DEF Seated
  <2> QED BY <2>1, <2>2, <2>3, <2>4 DEF Departed
<1>2. CASE Heir(g, p)
  <2>1. PICK q \in players[g] :
          q.bind = p.bind /\ q.client = p.client /\ (q.lost # "no" => p.lost # "no")
    BY <1>2 DEF Heir
  <2>2. q \in Player /\ p.client \in Client
    BY <2>1 DEF TypeOK, Player
  <2>3. CASE Departed(p.client)
    BY <2>1, <2>3 DEF NoAbandonedSeat
  <2>4. CASE ~Departed(p.client)
    <3>1. HearsEndOf(p.client)
      BY <2>2, <2>4, DepartsWhenHeard
    <3>2. HandleDisconnected
      BY <3>1, FarewellHandled DEF HearsEndOf
    <3>3. GamesOf(p.client) # {}
      BY <2>1 DEF GamesOf, Held, GamesInhabited
    <3>4. PICK h \in open : \E r \in players[h] :
            r.client = p.client /\ SetLost(h, r, "waiting")
      BY <3>1, <3>2, <3>3 DEF HandleDisconnected, HearsEndOf, GamesOf, FirstHeld, Held
    <3>5. PICK r \in players[h] : r.client = p.client /\ SetLost(h, r, "waiting")
      BY <3>4
    <3>6. players'[g] = (players[g] \ {q}) \cup {[q EXCEPT !.lost = "waiting"]}
      <4>1. h = g /\ r = q
        BY <2>1, <3>5 DEF OneSeat, SeatsUnique, TypeOK
      <4> QED BY <3>5, <4>1 DEF SetLost, TypeOK
    <3>7. CASE p \in players[g] /\ p # q
      BY <2>1, <3>7 DEF SeatsUnique
    <3>8. CASE p = [q EXCEPT !.lost = "waiting"]
      BY <2>2, <3>8 DEF Player
    <3> QED BY <3>6, <3>7, <3>8
  <2> QED BY <2>3, <2>4
<1> QED BY <1>1, <1>2

\* When every client keeps to one session, the seat of a connection that is
\* gone is always on the clock, so that nobody's seat is held for ever by a
\* player who will not come back.
THEOREM NobodyAbandoned == ASSUME OneSession PROVE Spec => []NoAbandonedSeat
<1> DEFINE IInv == Inhabited /\ OneSeat /\ OneWish /\ LastWords /\ NoAbandonedSeat
<1>1. Init => IInv
  BY DEF Init, Inhabited, OpenIssued, GamesInhabited, OneSeat, OneWish, LastWords,
    NoAbandonedSeat
<1>2. TypeOK /\ SeatsUnique /\ IInv /\ [Next]_vars => IInv'
  BY InhabitedStep, OneSeatStep, OneWishStep, LastWordsStep, AbandonStep DEF Inhabited
<1>3. IInv => NoAbandonedSeat
  OBVIOUS
<1> HIDE DEF IInv
<1> QED BY <1>1, <1>2, <1>3, TypeCorrect, SeatsAreUnique, PTL DEF Spec
=============================================================================
