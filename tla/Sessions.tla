------------------------------ MODULE Sessions ------------------------------
(***************************************************************************)
(* Connections, games and seats of vangers-srv.                            *)
(*                                                                         *)
(* One task per TCP connection (client.rs, event_loop) and the accept task *)
(* talk to the main loop (server.rs, start) over two bounded channels: new *)
(* Clients travel on event_rx, everything a connection has to say travels  *)
(* on clients_rx, and the main loop takes from either in any order.  The   *)
(* handlers that run in the main loop open games, hand out seats (bind     *)
(* ids), move a seat to a new connection, and free the seats of players    *)
(* that closed their session or stayed disconnected for too long.          *)
(*                                                                         *)
(* A player's world, its objects and the packets sent to clients are the   *)
(* subject of the other modules.                                           *)
(*                                                                         *)
(* A definition marked "Mutation" is a wrong variant of the one below it,  *)
(* used to see that the properties notice; nothing else refers to it.      *)
(***************************************************************************)
EXTENDS Naturals, Sequences, FiniteSets

CONSTANTS
  Client,       \* TCP connections; a ClientID is drawn once per connection
  None,         \* "no client"
  MaxGames,     \* bound on the games ever opened (games_id_uniq is a u32)
  MaxPlayerId,  \* MAX_PLAYER_ID, seats per game
  EventCap,     \* capacity of event_rx
  InboxCap,     \* capacity of clients_rx
  MaxSent,      \* bound on the packets a connection delivers
  Ops,          \* the kinds of packets the connections deliver
  OneSession    \* TRUE: a connection asks for a seat only while it has none

ASSUME ClientAssumption == None \notin Client
ASSUME BoundsAssumption ==
  /\ MaxGames \in Nat
  /\ MaxPlayerId \in Nat \ {0}
  /\ EventCap \in Nat
  /\ InboxCap \in Nat
  /\ MaxSent \in Nat
ASSUME OpsAssumption ==
  /\ Ops \subseteq {"ATTACH", "RESTORE", "CLOSE", "NAME", "DATA", "BAD_DATA"}
  /\ OneSession \in BOOLEAN

GameId == 1 .. MaxGames
BindId == 1 .. MaxPlayerId

Packet == [op : Ops, game : 0 .. MaxGames, bind : 0 .. MaxPlayerId]

(***************************************************************************)
(* The packets a connection may deliver: ATTACH names a game (0 asks for a *)
(* new one), RESTORE a game and a seat, the rest carry nothing that        *)
(* matters here.                                                           *)
(***************************************************************************)
Packets ==
  {p \in Packet :
     /\ p.op # "RESTORE" => p.bind = 0
     /\ p.op = "RESTORE" => p.game # 0 /\ p.bind # 0
     /\ p.op \notin {"ATTACH", "RESTORE"} => p.game = 0}

NoPacket == [op |-> "NONE", game |-> 0, bind |-> 0]

Message ==
  [id : Client, kind : {"Authenticated", "Disconnected", "Updated"},
   packet : Packet \cup {NoPacket}]

(***************************************************************************)
(* A Player.  before holds the seats of the players at lower positions of  *)
(* the Vec the code keeps the players in, so that "the first player with   *)
(* this client_id" is a property of the set.  lost is disconnected_until:  *)
(* unset, running, or at or past its deadline.                             *)
(***************************************************************************)
Player ==
  [bind : BindId, client : Client, lost : {"no", "waiting", "due"},
   auth : BOOLEAN, body : BOOLEAN, before : SUBSET BindId]

VARIABLES
  stage,     \* progress of each connection's task
  adding,    \* the Client the accept task is handing over, or None
  events,    \* event_rx: Clients to add
  inbox,     \* clients_rx
  clients,   \* Server.clients
  open,      \* the keys of Server.games
  players,   \* Game.players, for every game id
  removed,   \* the seats of Game.removed_players, for every game id
  lastGame,  \* Server.games_id_uniq
  sent       \* packets delivered so far, counted for MaxSent

netVars  == <<stage, adding, events>>
gameVars == <<open, players, removed, lastGame>>
vars     == <<stage, adding, events, inbox, clients, open, players, removed,
              lastGame, sent>>

TypeOK ==
  /\ stage \in [Client -> {"idle", "handshake", "reading", "closing", "gone"}]
  /\ adding \in Client \cup {None}
  /\ events \in Seq(Client)
  /\ inbox \in Seq(Message)
  /\ clients \in SUBSET Client
  /\ open \in SUBSET GameId
  /\ players \in [GameId -> SUBSET Player]
  /\ removed \in [GameId -> SUBSET BindId]
  /\ lastGame \in 0 .. MaxGames
  /\ sent \in [Client -> 0 .. MaxSent]

Init ==
  /\ stage = [c \in Client |-> "idle"]
  /\ adding = None
  /\ events = <<>>
  /\ inbox = <<>>
  /\ clients = {}
  /\ open = {}
  /\ players = [g \in GameId |-> {}]
  /\ removed = [g \in GameId |-> {}]
  /\ lastGame = 0
  /\ sent = [c \in Client |-> 0]

-----------------------------------------------------------------------------
(* Lookups. *)

Held(c, ps) == {p \in ps : p.client = c}

\* The games `get_game_by_client_id` may find: a HashMap yields any of them.
GamesOf(c) == {g \in open : Held(c, players[g]) # {}}

\* The first player of client c in a game's Vec.
FirstHeld(c, ps) ==
  {p \in Held(c, ps) : \A q \in Held(c, ps) : q.bind \notin p.before}

Binds(ps) == {p.bind : p \in ps}

\* Mutation: seats numbered from zero.
FreeBindFromZero(ps) ==
  {b \in 0 .. MaxPlayerId :
     b \notin Binds(ps) /\ \A a \in 0 .. MaxPlayerId : a < b => a \in Binds(ps)}

\* The lowest seat that nobody in ps holds, if there is one.
FreeBind(ps) ==
  {b \in BindId : b \notin Binds(ps) /\ \A a \in BindId : a < b => a \in Binds(ps)}

\* ps without the players of the clients C, as Vec::retain leaves it.
Without(C, ps) ==
  LET gone == {p \in ps : p.client \in C}
  IN  {[p EXCEPT !.before = @ \ Binds(gone)] : p \in ps \ gone}

\* The seats RemovedPlayer::from_player remembers when clients C leave ps.
Snapshots(C, ps) ==
  Binds({p \in UNION {FirstHeld(c, ps) : c \in C} : p.auth /\ p.body})

-----------------------------------------------------------------------------
(* The accept task and the connections' tasks. *)

\* The accept task builds a Client, whose own task starts at once ...
Accept(c) ==
  /\ adding = None
  /\ stage[c] = "idle"
  /\ stage' = [stage EXCEPT ![c] = "handshake"]
  /\ adding' = c
  /\ UNCHANGED <<events, inbox, clients, gameVars, sent>>

\* ... and only then is it sent to the main loop, if the channel has room.
SendAdd ==
  /\ adding # None
  /\ Len(events) < EventCap
  /\ events' = Append(events, adding)
  /\ adding' = None
  /\ UNCHANGED <<stage, inbox, clients, gameVars, sent>>

Send(c, kind, packet) ==
  /\ Len(inbox) < InboxCap
  /\ inbox' = Append(inbox, [id |-> c, kind |-> kind, packet |-> packet])

AuthSucceeds(c) ==
  /\ stage[c] = "handshake"
  /\ Send(c, "Authenticated", NoPacket)
  /\ stage' = [stage EXCEPT ![c] = "reading"]
  /\ UNCHANGED <<adding, events, clients, gameVars, sent>>

\* The handshake fails, or the socket reaches its end or an I/O error.
ConnectionEnds(c) ==
  /\ stage[c] \in {"handshake", "reading"}
  /\ stage' = [stage EXCEPT ![c] = "closing"]
  /\ UNCHANGED <<adding, events, inbox, clients, gameVars, sent>>

SendDisconnected(c) ==
  /\ stage[c] = "closing"
  /\ Send(c, "Disconnected", NoPacket)
  /\ stage' = [stage EXCEPT ![c] = "gone"]
  /\ UNCHANGED <<adding, events, clients, gameVars, sent>>

AsksForSeat(m) == m.packet.op \in {"ATTACH", "RESTORE"}

\* A client that keeps to one session asks for a seat only when it holds none
\* and has no such request under way.
Seatless(c) ==
  /\ GamesOf(c) = {}
  /\ \A i \in 1 .. Len(inbox) : inbox[i].id = c => ~AsksForSeat(inbox[i])

\* Bound: no more requests for new games than MaxGames leaves room for.
MayOpenGame ==
  lastGame + Cardinality({i \in 1 .. Len(inbox) :
      inbox[i].packet.op = "ATTACH" /\ inbox[i].packet.game = 0}) < MaxGames

Receive(c, packet) ==
  /\ stage[c] = "reading"
  /\ sent[c] < MaxSent
  /\ OneSession /\ packet.op \in {"ATTACH", "RESTORE"} => Seatless(c)
  /\ packet.op = "ATTACH" /\ packet.game = 0 => MayOpenGame
  /\ Send(c, "Updated", packet)
  /\ sent' = [sent EXCEPT ![c] = @ + 1]
  /\ UNCHANGED <<stage, adding, events, clients, gameVars>>
-----------------------------------------------------------------------------
(* The main loop: one branch of its select! per action, each run to its    *)
(* end before the next branch is chosen.                                   *)

HandleAdd ==
  /\ events # <<>>
  /\ clients' = clients \cup {Head(events)}
  /\ events' = Tail(events)
  /\ UNCHANGED <<stage, adding, inbox, gameVars, sent>>

\* The main loop takes the next message, of the given kind.
Take(kind) ==
  /\ inbox # <<>>
  /\ Head(inbox).kind = kind
  /\ inbox' = Tail(inbox)

\* The connection and protocol fields it sets are read by nobody.
HandleAuthenticated ==
  /\ Take("Authenticated")
  /\ UNCHANGED <<netVars, clients, gameVars, sent>>

SetLost(g, p, state) ==
  players' = [players EXCEPT ![g] = (@ \ {p}) \cup {[p EXCEPT !.lost = state]}]

\* Mutation: only a Client that is listed has its player marked.
HandleDisconnectedIfListed ==
  /\ Take("Disconnected")
  /\ LET c == Head(inbox).id IN
       /\ clients' = clients \ {c}
       /\ \/ /\ GamesOf(c) = {} \/ c \notin clients
             /\ UNCHANGED players
          \/ /\ c \in clients
             /\ \E g \in GamesOf(c) : \E p \in FirstHeld(c, players[g]) :
                  SetLost(g, p, "waiting")
  /\ UNCHANGED <<netVars, open, removed, lastGame, sent>>

\* mark_player_disconnected, then the Client is dropped from the list.
HandleDisconnected ==
  /\ Take("Disconnected")
  /\ LET c == Head(inbox).id IN
       /\ clients' = clients \ {c}
       /\ \/ /\ GamesOf(c) = {}
             /\ UNCHANGED players
          \/ \E g \in GamesOf(c) : \E p \in FirstHeld(c, players[g]) :
               SetLost(g, p, "waiting")
  /\ UNCHANGED <<netVars, open, removed, lastGame, sent>>

\* The main loop takes a packet of the given kind.
TakePacket(op) ==
  /\ Take("Updated")
  /\ Head(inbox).packet.op = op
  /\ UNCHANGED <<netVars, sent>>

Caller == Head(inbox).id

NewPlayer(c, b, ps) ==
  [bind |-> b, client |-> c, lost |-> "no", auth |-> FALSE, body |-> FALSE,
   before |-> Binds(ps)]

\* Mutation: the departed player keeps its entry although its seat is taken.
AttachKeepingRemoved(g, c) ==
  /\ \/ FreeBind(players[g]) = {} /\ UNCHANGED players
     \/ \E b \in FreeBind(players[g]) :
          players' = [players EXCEPT ![g] = @ \cup {NewPlayer(c, b, @)}]
  /\ UNCHANGED removed

\* Game::attach_player: nothing happens when every seat is taken.
Attach(g, c) ==
  \/ /\ FreeBind(players[g]) = {}
     /\ UNCHANGED <<players, removed>>
  \/ \E b \in FreeBind(players[g]) :
       /\ players' = [players EXCEPT ![g] = @ \cup {NewPlayer(c, b, @)}]
       /\ removed' = [removed EXCEPT ![g] = @ \ {b}]

\* Mutation: game ids numbered by counting the games.
GameIdByCount == Cardinality(open) + 1

UniqGameId == lastGame + 1

\* attach_to_game for id 0: a new game, whose first seat goes to the caller.
AttachToNewGame ==
  /\ TakePacket("ATTACH")
  /\ Head(inbox).packet.game = 0
  /\ lastGame < MaxGames
  /\ lastGame' = UniqGameId
  /\ open' = open \cup {UniqGameId}
  /\ Attach(UniqGameId, Caller)
  /\ UNCHANGED clients

\* attach_to_game for a given id: an error when there is no such game.
AttachToGame ==
  /\ TakePacket("ATTACH")
  /\ LET g == Head(inbox).packet.game IN
       /\ g # 0
       /\ \/ g \notin open /\ UNCHANGED <<players, removed>>
          \/ g \in open /\ Attach(g, Caller)
  /\ UNCHANGED <<clients, open, lastGame>>

\* Mutation: the seat changes hands and its clock keeps running.
RestoredOnClock(p, c) == [p EXCEPT !.client = c]

Restored(p, c) == [p EXCEPT !.client = c, !.lost = "no"]

\* restore_connection: the seat moves to the caller, whoever held it, and the
\* former holder's Client is dropped from the list.
RestoreConnection ==
  /\ TakePacket("RESTORE")
  /\ LET g == Head(inbox).packet.game
         found == {p \in players[g] : p.bind = Head(inbox).packet.bind}
     IN \/ /\ g \notin open \/ found = {}
           /\ UNCHANGED <<players, clients>>
        \/ /\ g \in open
           /\ \E p \in found :
                /\ players' = [players EXCEPT ![g] =
                                 (@ \ {p}) \cup {Restored(p, Caller)}]
                /\ clients' = IF p.client = Caller THEN clients
                                                   ELSE clients \ {p.client}
  /\ UNCHANGED <<open, removed, lastGame>>

\* Mutation: a game whose last player left stays in the table.
CloseInKeepingGames(reached, C) ==
  LET leavers(g) == {c \in C : g \in reached[c]}
  IN  /\ players' = [g \in GameId |-> Without(leavers(g), players[g])]
      /\ removed' = [g \in GameId |->
                       removed[g] \cup Snapshots(leavers(g), players[g])]
      /\ UNCHANGED <<open, lastGame>>

\* close_socket of every client of C in the games its calls reach: each client
\* loses all its seats of a game it is closed in, and an empty game goes away.
CloseIn(reached, C) ==
  LET leavers(g) == {c \in C : g \in reached[c]}
      left(g)    == Without(leavers(g), players[g])
      emptied    == {g \in open : leavers(g) # {} /\ left(g) = {}}
  IN  /\ players' = [g \in GameId |-> left(g)]
      /\ open' = open \ emptied
      /\ removed' = [g \in GameId |->
                       IF g \in emptied THEN {}
                       ELSE removed[g] \cup Snapshots(leavers(g), players[g])]
      /\ UNCHANGED lastGame

\* CLOSE_SOCKET: the Client stays listed, the connection stays open.
CloseSocket ==
  /\ TakePacket("CLOSE")
  /\ \/ GamesOf(Caller) = {} /\ UNCHANGED gameVars
     \/ \E g \in GamesOf(Caller) : CloseIn([c \in {Caller} |-> {g}], {Caller})
  /\ UNCHANGED clients

\* The caller's player gets a name or a body; a body that cannot be parsed
\* takes away the one the player had.
Profiled(p, op) ==
  CASE op = "NAME"     -> [p EXCEPT !.auth = TRUE]
    [] op = "DATA"     -> [p EXCEPT !.body = TRUE]
    [] op = "BAD_DATA" -> [p EXCEPT !.body = FALSE]

SetProfile(op) ==
  /\ TakePacket(op)
  /\ \/ GamesOf(Caller) = {} /\ UNCHANGED players
     \/ \E g \in GamesOf(Caller) : \E p \in FirstHeld(Caller, players[g]) :
          players' = [players EXCEPT ![g] = (@ \ {p}) \cup {Profiled(p, op)}]
  /\ UNCHANGED <<clients, open, removed, lastGame>>

RegisterName     == SetProfile("NAME")
SetPlayerData    == SetProfile("DATA")
SetPlayerDataBad == SetProfile("BAD_DATA")

\* One tick of the clean-up timer: every player past its deadline is collected
\* first, then close_socket is called once per player collected, by client.
DuePlayers(g) == {p \in players[g] : p.lost = "due"}
DueClients    == {p.client : p \in UNION {DuePlayers(g) : g \in open}}
Calls(c)      ==
  Cardinality(UNION {{<<g, p.bind>> : p \in Held(c, DuePlayers(g))} : g \in open})

ExpireDisconnectedPlayers ==
  /\ DueClients # {}
  /\ \E reached \in [DueClients -> SUBSET open] :
       /\ \A c \in DueClients :
            /\ reached[c] \subseteq GamesOf(c)
            /\ Cardinality(reached[c]) =
                 IF Calls(c) < Cardinality(GamesOf(c))
                 THEN Calls(c) ELSE Cardinality(GamesOf(c))
       /\ CloseIn(reached, DueClients)
  /\ UNCHANGED <<netVars, inbox, clients, sent>>

\* DISCONNECTED_PLAYER_TTL has passed for a player.
DeadlinePasses ==
  /\ \E g \in open : \E p \in players[g] :
       /\ p.lost = "waiting"
       /\ SetLost(g, p, "due")
  /\ UNCHANGED <<netVars, inbox, clients, open, removed, lastGame, sent>>

HandlePacket ==
  \/ AttachToNewGame
  \/ AttachToGame
  \/ RestoreConnection
  \/ CloseSocket
  \/ RegisterName
  \/ SetPlayerData
  \/ SetPlayerDataBad

HandleMessage ==
  \/ HandleAuthenticated
  \/ HandleDisconnected
  \/ HandlePacket

Next ==
  \/ \E c \in Client :
       \/ Accept(c)
       \/ AuthSucceeds(c)
       \/ ConnectionEnds(c)
       \/ SendDisconnected(c)
       \/ \E packet \in Packets : Receive(c, packet)
  \/ SendAdd
  \/ HandleAdd
  \/ HandleMessage
  \/ ExpireDisconnectedPlayers
  \/ DeadlinePasses

Spec == Init /\ [][Next]_vars

(***************************************************************************)
(* Fairness.  The main loop keeps running: tokio's select! picks at random *)
(* among the branches that are ready, so one that stays ready is taken.    *)
(* The tasks that wait to send are woken in order as room appears, and     *)
(* time passes.  Nothing is assumed of the other end of a connection.      *)
(***************************************************************************)
FairSpec ==
  /\ Spec
  /\ WF_vars(SendAdd)
  /\ WF_vars(HandleAdd)
  /\ WF_vars(HandleMessage)
  /\ WF_vars(ExpireDisconnectedPlayers)
  /\ WF_vars(DeadlinePasses)
  /\ \A c \in Client : WF_vars(SendDisconnected(c))

-----------------------------------------------------------------------------
(* Properties. *)

\* The seat numbers of a game identify its players: attach_player looks for a
\* gap in a sorted list, which is only right while no two players share a seat,
\* and the seats of departed players that the top list still shows are never
\* the seats of present ones (game.rs, get_uniq_player_id and attach_player).
SeatsUnique ==
  \A g \in GameId :
    /\ \A p, q \in players[g] : p.bind = q.bind => p = q
    /\ removed[g] \cap Binds(players[g]) = {}

\* A game is in the table exactly while somebody has a seat in it: the games
\* list shows no empty games, and no player is left in a game that was dropped
\* (attach_to_game.rs creates it, close_socket.rs removes it).
GamesInhabited == \A g \in GameId : g \in open <=> players[g] # {}

\* Connection c has ended and the main loop has been told so.
Departed(c) ==
  /\ stage[c] = "gone"
  /\ \A i \in 1 .. Len(inbox) :
       ~(inbox[i].id = c /\ inbox[i].kind = "Disconnected")

\* The clock of a seat runs only while its present holder is disconnected: a
\* Disconnected of the connection a seat was restored from, however late it
\* comes, never puts the restored player on the clock (restore_connection.rs).
OnlyDepartedOnClock ==
  \A g \in GameId : \A p \in players[g] : p.lost # "no" => Departed(p.client)

\* A player disappears only because its own connection asked for it or has
\* departed: the expiry of a lost player never hits one that came back
\* (server.rs, expire_disconnected_players racing restore_connection.rs).
ClosesItself(c) ==
  inbox # <<>> /\ Head(inbox).packet.op = "CLOSE" /\ Head(inbox).id = c

PresentPlayersStay ==
  [][\A g \in GameId : \A p \in players[g] :
       p.bind \notin Binds(players'[g]) => Departed(p.client) \/ ClosesItself(p.client)]_vars

\* The player of a departed connection is always on the clock, so that its seat
\* will be freed.  This needs connections to keep to one session each: the
\* handlers of ATTACH and RESTORE do not refuse a client that has a seat, and
\* mark_player_disconnected marks one player only.
NoAbandonedSeat ==
  \A g \in GameId : \A p \in players[g] : Departed(p.client) => p.lost # "no"

\* A game id, once its game is gone, is never given to another game, so a late
\* RESTORE cannot land in a game opened since (server.rs, get_game_uniq_id).
GameIdsNotReused ==
  [][\A g \in GameId : g \in open' /\ g \notin open => g > lastGame]_vars

\* Once a connection is lost, its player leaves the game or is taken over by
\* another connection, and that is final (server.rs, DISCONNECTED_PLAYER_TTL).
LostPlayersLeave ==
  \A c \in Client : stage[c] = "closing" ~> [](GamesOf(c) = {})

\* server.rs:29 calls `clients` the "List of all connected TCP clients": nobody
\* stays on it whose end the main loop has handled.
ListedClientsConnected == \A c \in clients : ~Departed(c)
=============================================================================
