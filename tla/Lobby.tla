------------------------------- MODULE Lobby -------------------------------
(***************************************************************************)
(* The roster of a game: who sits where under which name, with which body, *)
(* status and world, how the game is configured, and what the packets of   *)
(* the server told the clients about all that.                             *)
(*                                                                         *)
(* Every handler runs to its end in the main loop, so one action is one    *)
(* handler.  A client is named by its seat.  Its Client may not be on the  *)
(* server's list yet (Event::Add is still on its way), or not any more;    *)
(* packets are sent to listed Clients only, and nothing is sent again      *)
(* later, not even to a client that restores its connection.  A packet for *)
(* a listed Client counts as sent: whether it arrives is up to Outbox and  *)
(* to the connection.                                                      *)
(* Seats are given and taken here as in Sessions, the objects that go with *)
(* a world are in GameObjects.                                             *)
(*                                                                         *)
(* A definition marked "Mutation" is a wrong variant of the one below it,  *)
(* used to see that the properties notice; nothing else refers to it.      *)
(***************************************************************************)
EXTENDS Integers, Sequences, FiniteSets, SequencesExt, FiniteSetsExt

CONSTANTS
  MaxPlayerId,  \* MAX_PLAYER_ID, seats of the game
  WorldId,      \* worlds a player may enter; 0 stands for none
  Observer,     \* the seats whose knowledge is followed
  Unsteady,     \* the seats whose Clients may be off the list
  Logins,       \* names in REGISTER_NAME packets
  Bodies,       \* the bytes of bodies, in SET_PLAYER_DATA or of a vanger
  Titles,       \* names in SET_GAME_DATA packets, none of them empty
  Forms,        \* the words after them
  TopLimit,     \* TOP_LIST_LIMIT
  None,         \* an Option without a value
  NaN,          \* the ratings that compare with none
  Unknown       \* what a client was never told, or has missed the change of

BindId == 1 .. MaxPlayerId

ASSUME SeatsAssumption == MaxPlayerId \in Nat \ {0} /\ Observer \cup Unsteady \subseteq BindId
ASSUME WorldAssumption == 0 \notin WorldId
ASSUME LimitAssumption == TopLimit \in Nat
ASSUME PacketsAssumption ==
  /\ Logins \subseteq [len : Nat, control : BOOLEAN]
  /\ Forms \subseteq Seq(Int)
  /\ \A bytes \in Bodies : bytes.size \in Nat /\ bytes.rating \in Int \cup {NaN}
ASSUME RatingAssumption == NaN \notin Int

Status == {"INITIAL", "GAMING", "FINISHED"}

Names   == [len : 1 .. 16, control : {FALSE}]
Ratings == {bytes.rating : bytes \in Bodies}

Player ==
  [name : Names \cup {None}, body : Ratings \cup {None}, status : Status,
   world : WorldId \cup {0}]

\* What is not there, or was not told, is no value.
ASSUME OptionAssumption ==
  /\ None \notin Player \cup Titles \cup Names
  /\ Unknown \notin Status

VARIABLES
  conn,     \* of each seat's Client: "adding" before it is listed, then
            \* "listed", and "lost" from the Disconnected on
  players,  \* Game.players; a seat with conn "none" has no player
  removed,  \* Game.removed_players, by seat
  worlds,   \* the ids of Game.worlds
  config,   \* Game.config
  title,    \* Game.name; None is the empty name of a new game
  told,     \* by observer and seat: what the client was last sent
  knows     \* by observer: the GAME_DATA the client was last sent

seats == <<conn, players, removed, worlds>>
setup == <<config, title>>
vars  == <<conn, players, removed, worlds, config, title, told, knows>>

Present == {b \in BindId : conn[b] # "none"}
Listed  == {b \in BindId : conn[b] = "listed"}

-----------------------------------------------------------------------------
(* Conversions. *)

(***************************************************************************)
(* extract_auth_data: a name of more than 16 characters is cut to 15, and  *)
(* control characters become asterisks.  A login is its length and whether *)
(* it has control characters.                                              *)
(***************************************************************************)
\* Mutation: the name is told as it was sent.
StoredAsSent(login) == login

Stored(login) ==
  [login EXCEPT !.len = IF login.len > 16 THEN 15 ELSE @, !.control = FALSE]

(***************************************************************************)
(* Body::from_slice needs the 25 bytes of the fixed fields; whatever comes *)
(* after them is kept as it is.  Of the fields the rating is left.         *)
(***************************************************************************)
BodySize == 1 + 1 + 1 + 1 + 4 + 4 + 1 + 2 + 2 + 4 + 4

Body(bytes) == IF bytes.size < BodySize THEN None ELSE bytes.rating

(***************************************************************************)
(* A configuration is a sequence of little-endian words: six of every      *)
(* game, then those of its type.  The time limit of a VAN_WAR is not read. *)
(***************************************************************************)
VAN_WAR     == 0
MECHOSOMA   == 1
PASSEMBLOSS == 2
MIR_RAGE    == 3
HUNTAGE     == 4
MUSTODONT   == 5

ParamCount ==
  [type \in VAN_WAR .. MUSTODONT |->
     IF type \in {VAN_WAR, MECHOSOMA} THEN 5
     ELSE IF type \in {PASSEMBLOSS, MUSTODONT} THEN 2
     ELSE 0]

MaxTime == 2147483647

Parameters(type, words) ==
  IF type = VAN_WAR THEN [words EXCEPT ![5] = MaxTime] ELSE words

\* Config::from_slice
FromWords(words) ==
  IF \/ Len(words) < 6
     \/ words[2] \notin DOMAIN ParamCount
     \/ Len(words) < 6 + ParamCount[words[2]]
  THEN None
  ELSE [initial_rnd |-> words[1], game_type |-> words[2],
        initial_cash |-> words[3], artefacts_using |-> words[4],
        in_escave_time |-> words[5], color |-> words[6],
        params |-> Parameters(words[2], SubSeq(words, 7, 6 + ParamCount[words[2]]))]

\* Config::to_vangers_byte
ToWords(c) ==
  <<c.initial_rnd, c.game_type, c.initial_cash, c.artefacts_using,
    c.in_escave_time, c.color>> \o c.params

-----------------------------------------------------------------------------
(* What the clients are told.  Of itself a client is told nothing here. *)

Nothing == [name |-> Unknown, body |-> Unknown, status |-> Unknown, world |-> Unknown]
Blank   == [b \in BindId |-> Nothing]

\* What the others know of b once a field of it has another value, which is sent
\* to those of them who are reached.
Changed(t, b, field, value, reached) ==
  [c \in Observer |->
     IF c # b /\ c \in Present
     THEN [t[c] EXCEPT ![b] = [@ EXCEPT ![field] = IF c \in reached THEN value ELSE Unknown]]
     ELSE t[c]]

\* Mutation: a value everybody has to know is sent to the sender's world.
NotifyWorld(t, b, field, value) ==
  [c \in Observer |->
     IF c # b /\ c \in Present /\ players[c].world = players[b].world
     THEN Changed(t, b, field, value, Listed)[c]
     ELSE t[c]]

\* notify_game: a packet about b to all others of the game.
Notify(t, b, field, value) == Changed(t, b, field, value, Listed)

(***************************************************************************)
(* total_players_data_packet, as its receiver c takes it: all players that *)
(* have a body and all removed ones, about the rest it says nothing.       *)
(***************************************************************************)
TotalList(t, ps, c) ==
  [b \in BindId |->
     CASE b # c /\ b \in Present /\ ps[b].body # None -> ps[b]
       [] b # c /\ b \notin Present /\ removed[b] # None -> removed[b]
       [] OTHER -> t[c][b]]

\* notify_player and the Response of on_update: c gets the list if it is listed.
SendTotalList(t, ps, c) ==
  [o \in Observer |-> IF o = c /\ c \in Listed THEN TotalList(t, ps, c) ELSE t[o]]

\* A client that has been told nothing yet.
Forgets(c) ==
  /\ told' = [o \in Observer |-> IF o = c THEN Blank ELSE told[o]]
  /\ knows' = [o \in Observer |-> IF o = c THEN None ELSE knows[o]]

-----------------------------------------------------------------------------
(* Seats and connections. *)

NewPlayer == [name |-> None, body |-> None, status |-> "INITIAL", world |-> 0]

Init ==
  /\ conn = [b \in BindId |-> "none"]
  /\ players = [b \in BindId |-> NewPlayer]
  /\ removed = [b \in BindId |-> None]
  /\ worlds = {}
  /\ config = None
  /\ title = None
  /\ told = [c \in Observer |-> Blank]
  /\ knows = [c \in Observer |-> None]

\* A Client is listed with Event::Add, before or after its first packets.
Listing(b) == IF b \in Unsteady THEN {"adding", "listed"} ELSE {"listed"}

\* Mutation: removed_players keeps the former holder of the seat.
AttachKeeping(b) ==
  /\ b \notin Present
  /\ \A a \in 1 .. b - 1 : a \in Present
  /\ \E s \in Listing(b) : conn' = [conn EXCEPT ![b] = s]
  /\ players' = [players EXCEPT ![b] = NewPlayer]
  /\ Forgets(b)
  /\ UNCHANGED <<removed, worlds, setup>>

\* attach_to_game: the first free seat.  Nobody else is told.
Attach(b) ==
  /\ b \notin Present
  /\ \A a \in 1 .. b - 1 : a \in Present
  /\ \E s \in Listing(b) : conn' = [conn EXCEPT ![b] = s]
  /\ players' = [players EXCEPT ![b] = NewPlayer]
  /\ removed' = [removed EXCEPT ![b] = None]
  /\ Forgets(b)
  /\ UNCHANGED <<worlds, setup>>

\* Event::Add of b's Client is taken.
Added(b) ==
  /\ conn[b] = "adding"
  /\ conn' = [conn EXCEPT ![b] = "listed"]
  /\ UNCHANGED <<players, removed, worlds, setup, told, knows>>

\* The Disconnected of b's Client is taken.
Lost(b) ==
  /\ b \in Unsteady
  /\ conn[b] \in {"adding", "listed"}
  /\ conn' = [conn EXCEPT ![b] = "lost"]
  /\ UNCHANGED <<players, removed, worlds, setup, told, knows>>

\* restore_connection: the client takes its seat back over another connection,
\* with all that is on it.  Only the word that it did is sent.
Restore(b) ==
  /\ b \in Present \cap Unsteady
  /\ \E s \in Listing(b) : conn' = [conn EXCEPT ![b] = s]
  /\ UNCHANGED <<players, removed, worlds, setup, told, knows>>

\* A packet from b can come.
Talks(b) == conn[b] \in {"adding", "listed"}

-----------------------------------------------------------------------------
(* Names and bodies. *)

\* register_name: the name is told to the others as it is stored.
RegisterName(b, login) ==
  /\ Talks(b)
  /\ login.len > 0
  /\ players' = [players EXCEPT ![b].name = Stored(login)]
  /\ told' = Notify(told, b, "name", Stored(login))
  /\ UNCHANGED <<conn, removed, worlds, setup, knows>>

(***************************************************************************)
(* set_player_data: set_body stores whatever the parse gives; a body that  *)
(* does not parse leaves the player without one, and nobody is told.       *)
(***************************************************************************)
SetPlayerData(b, bytes) ==
  /\ Talks(b)
  /\ players' = [players EXCEPT ![b].body = Body(bytes)]
  /\ told' = IF Body(bytes) = None THEN told ELSE Notify(told, b, "body", Body(bytes))
  /\ UNCHANGED <<conn, removed, worlds, setup, knows>>

\* create_object of a VANGER: the body that comes with it becomes the
\* player's, and no PLAYERS_DATA says so.
CreateVanger(b, bytes) ==
  /\ Talks(b)
  /\ players' = [players EXCEPT ![b].body = Body(bytes)]
  /\ told' = Changed(told, b, "body", Body(bytes), {})
  /\ UNCHANGED <<conn, removed, worlds, setup, knows>>

-----------------------------------------------------------------------------
(* Worlds. *)

\* What leave_world makes of a roster and of what is told, if b is in a world.
Left(ps, b) == [ps EXCEPT ![b].world = 0]

LeaveTold(t, b) == IF players[b].world = 0 THEN t ELSE Notify(t, b, "world", 0)

LeaveWorld(b) ==
  /\ Talks(b)
  /\ players[b].world # 0
  /\ players' = Left(players, b)
  /\ told' = LeaveTold(told, b)
  /\ UNCHANGED <<conn, removed, worlds, setup, knows>>

\* Game::place_player
Placed(ps, b, w) == [ps EXCEPT ![b].world = w, ![b].status = "GAMING"]

(***************************************************************************)
(* set_world: b leaves the world it is in, if that is another one; enters  *)
(* w, which is made if nobody was there before; and is sent the list of    *)
(* all players after the others were told.                                 *)
(***************************************************************************)
SetWorld(b, w) ==
  LET entered == Placed(players, b, w)
      parted  == IF players[b].world # w THEN LeaveTold(told, b) ELSE told
      gaming  == IF players[b].status # "GAMING"
                 THEN Notify(parted, b, "status", "GAMING")
                 ELSE parted
  IN /\ Talks(b)
     /\ players' = entered
     /\ worlds' = worlds \cup {w}
     /\ told' = SendTotalList(Notify(gaming, b, "world", w), entered, b)
     /\ UNCHANGED <<conn, removed, setup, knows>>

\* set_world with another size than that of the world, which is found out
\* after the old one was left.
SetWorldFails(b, w) ==
  /\ Talks(b)
  /\ w \in worlds
  /\ players[b].world # w
  /\ players' = Left(players, b)
  /\ told' = LeaveTold(told, b)
  /\ UNCHANGED <<conn, removed, worlds, setup, knows>>

\* total_players_data_query: dropped if b is not listed yet.
TotalPlayersDataQuery(b) ==
  /\ Talks(b)
  /\ told' = SendTotalList(told, players, b)
  /\ UNCHANGED <<seats, setup, knows>>

-----------------------------------------------------------------------------
(* Departure. *)

\* RemovedPlayer::from_player, after the player left its world.
Snapshot(p) == IF p.name = None \/ p.body = None THEN None ELSE [p EXCEPT !.world = 0]

Finished(p) == [p EXCEPT !.status = IF @ = "GAMING" THEN "FINISHED" ELSE @]

\* The last player takes the game along.
GameEnds ==
  /\ players' = [b \in BindId |-> NewPlayer]
  /\ removed' = [b \in BindId |-> None]
  /\ worlds' = {}
  /\ config' = None
  /\ title' = None

\* Mutation: the player is gone when PLAYERS_STATUS is to be sent, and with
\* it the game the packet would have gone to.
CloseSocketFirst(b) ==
  /\ b \in Present
  /\ conn' = [conn EXCEPT ![b] = "none"]
  /\ told' = [c \in Observer |-> IF c = b THEN Blank ELSE LeaveTold(told, b)[c]]
  /\ knows' = [c \in Observer |-> IF c = b THEN None ELSE knows[c]]
  /\ IF Present = {b}
     THEN GameEnds
     ELSE /\ removed' = [removed EXCEPT ![b] = Snapshot(Finished(players[b]))]
          /\ players' = [players EXCEPT ![b] = NewPlayer]
                  /\ UNCHANGED <<worlds, setup>>

\* Mutation: the score is kept of those who leave a world, not of those who
\* left before.
CloseSocketInWorld(b) ==
  /\ b \in Present
  /\ conn' = [conn EXCEPT ![b] = "none"]
  /\ told' = [c \in Observer |-> IF c = b THEN Blank ELSE told[c]]
  /\ knows' = [c \in Observer |-> IF c = b THEN None ELSE knows[c]]
  /\ IF Present = {b}
     THEN GameEnds
     ELSE /\ removed' = [removed EXCEPT ![b] = IF players[b].world = 0 THEN None
                                               ELSE Snapshot(Finished(players[b]))]
          /\ players' = [players EXCEPT ![b] = NewPlayer]
                  /\ UNCHANGED <<worlds, setup>>

(***************************************************************************)
(* close_socket, asked for by the client or called for a player that       *)
(* stayed lost for too long: the world is left, the status told while the  *)
(* player still holds its seat, and what the top list needs is kept.       *)
(***************************************************************************)
CloseSocket(b) ==
  LET parted == LeaveTold(told, b)
      over   == IF players[b].status = "GAMING"
                THEN Notify(parted, b, "status", "FINISHED")
                ELSE parted
  IN /\ b \in Present
     /\ conn' = [conn EXCEPT ![b] = "none"]
     /\ told' = [c \in Observer |-> IF c = b THEN Blank ELSE over[c]]
     /\ knows' = [c \in Observer |-> IF c = b THEN None ELSE knows[c]]
     /\ IF Present = {b}
        THEN GameEnds
        ELSE /\ removed' = [removed EXCEPT ![b] = Snapshot(Finished(players[b]))]
             /\ players' = [players EXCEPT ![b] = NewPlayer]
                        /\ UNCHANGED <<worlds, setup>>

-----------------------------------------------------------------------------
(* The configuration of the game. *)

IsConfigured == config # None

\* Game::set_config: whatever the parse gives, as long as it gave nothing yet.
SetConfig(words) ==
  /\ ~IsConfigured
  /\ config' = FromWords(words)

\* Mutation: the name is stored before the words are parsed.
SetGameDataNameFirst(b, name, words) ==
  /\ Talks(b)
  /\ SetConfig(words)
  /\ title' = name
  /\ UNCHANGED <<seats, told, knows>>

\* set_game_data: by any player, as long as the game has no configuration.
SetGameData(b, name, words) ==
  /\ Talks(b)
  /\ SetConfig(words)
  /\ title' = IF config' = None THEN title ELSE name
  /\ UNCHANGED <<seats, told, knows>>

GameData == [title |-> title, words |-> ToWords(config)]

\* get_game_data: dropped if b is not listed yet.
GetGameData(b) ==
  /\ Talks(b)
  /\ IsConfigured
  /\ knows' = [c \in Observer |-> IF c = b /\ c \in Listed THEN GameData ELSE knows[c]]
  /\ UNCHANGED <<seats, setup, told>>

\* games_list_query, for this game.
GamesList ==
  IF ~IsConfigured THEN {}
  ELSE {[title |-> title, players |-> Cardinality(Present),
         letter |-> CASE config.game_type = MECHOSOMA   -> "M"
                      [] config.game_type = VAN_WAR     -> "V"
                      [] config.game_type = PASSEMBLOSS -> "P"
                      [] config.game_type = MIR_RAGE    -> "R"
                      [] OTHER                          -> "?"]}

-----------------------------------------------------------------------------
(* The top list and chat. *)

\* A TopEntry, with the seat it is about.
Entry(b, p) == [bind |-> b, name |-> p.name, rating |-> p.body]

Entries ==
  {Entry(b, players[b]) : b \in {a \in Present : players[a].name # None /\ players[a].body # None}}
    \cup {Entry(b, removed[b]) : b \in {a \in BindId : removed[a] # None}}

(***************************************************************************)
(* The orders sort_by may leave the entries in: descending ratings, equal  *)
(* ones either way.  Its comparison calls a NaN equal to everything, which *)
(* is no order; sort_by then promises none (and may panic).                *)
(***************************************************************************)
Comparable(entries) == \A e \in entries : e.rating # NaN

Rankings(entries) ==
  {s \in SetToSeqs(entries) :
     Comparable(entries) =>
       \A i, j \in 1 .. Len(s) : i < j => s[i].rating >= s[j].rating}

\* top_list_query, for this game: the lists it may answer with.
TopLists(type) ==
  IF ~IsConfigured \/ config.game_type # type THEN {<<>>}
  ELSE {SubSeq(ranked, 1, Min({TopLimit, Len(ranked)})) : ranked \in Rankings(Entries)}

\* Mutation: the seat itself for the number of the bit.
MaskByNumber(b) == 2 ^ b

\* Bind::mask
Mask(b) == 2 ^ (b - 1)

Bit(mask, m) == (mask \div m) % 2 = 1

\* direct_sending: whom a message reaches, if its sender has a name.
Receivers(b, mask) ==
  IF players[b].name = None THEN {}
  ELSE {c \in Listed \ {b} : Bit(mask, Mask(c))}

-----------------------------------------------------------------------------
Next ==
  \E b \in BindId :
    \/ Attach(b)
    \/ Added(b)
    \/ Lost(b)
    \/ Restore(b)
    \/ \E login \in Logins : RegisterName(b, login)
    \/ \E bytes \in Bodies : SetPlayerData(b, bytes)
    \/ \E bytes \in Bodies : CreateVanger(b, bytes)
    \/ \E w \in WorldId : SetWorld(b, w)
    \/ \E w \in WorldId : SetWorldFails(b, w)
    \/ LeaveWorld(b)
    \/ TotalPlayersDataQuery(b)
    \/ CloseSocket(b)
    \/ \E name \in Titles, words \in Forms : SetGameData(b, name, words)
    \/ GetGameData(b)

Spec == Init /\ [][Next]_vars

-----------------------------------------------------------------------------
(* Properties. *)

Known ==
  [name : Names \cup {None, Unknown}, body : Ratings \cup {None, Unknown},
   status : Status \cup {Unknown}, world : WorldId \cup {0, Unknown}]

\* Every variable has its type; a name the server keeps has at most 16
\* characters and no control characters among them.
TypeOK ==
  /\ conn \in [BindId -> {"none", "adding", "listed", "lost"}]
  /\ players \in [BindId -> Player]
  /\ removed \in [BindId -> Player \cup {None}]
  /\ worlds \subseteq WorldId
  /\ config \in {FromWords(words) : words \in Forms} \cup {None}
  /\ title \in Titles \cup {None}
  /\ told \in [Observer -> [BindId -> Known]]
  /\ knows \in [Observer -> {None} \cup
                  [title : Titles, words : {ToWords(FromWords(ws)) :
                     ws \in {f \in Forms : FromWords(f) # None}}]]

(***************************************************************************)
(* What a client was sent of another player, by the list or by a notice    *)
(* since, over all its connections, is what the server holds: its name,    *)
(* its body, whether it plays and in which world.  The list is built from  *)
(* several fields, some of which the same handler changes, and notices go  *)
(* out in between.  It may be wrong about                                  *)
(*   - what changed without a word to it (Unknown): while its own Client   *)
(*     was off the list, or a body that came with a vanger, which no       *)
(*     PLAYERS_DATA announces;                                             *)
(*   - the name of a player who has none yet, and the body of one who has  *)
(*     none: those of the last holder of the seat, or the body before a    *)
(*     SET_PLAYER_DATA that did not parse, stay with the others.           *)
(***************************************************************************)
Agrees(known, p) ==
  /\ p.name # None => known.name \in {Unknown, p.name}
  /\ p.body # None => known.body \in {Unknown, p.body}
  /\ known.status # Unknown => (known.status = "GAMING" <=> p.status = "GAMING")
  /\ known.world \in {Unknown, p.world}

RosterAgrees ==
  \A c \in Observer \cap Present : \A b \in Present \ {c} :
    Agrees(told[c][b], players[b])

\* No client is left with a player that plays, or is in a world, on a seat
\* that nobody holds, whichever way the player left, unless it missed that while
\* its own Client was off the list.
NoGhosts ==
  \A c \in Observer \cap Present, b \in BindId \ Present :
    /\ told[c][b].status # "GAMING"
    /\ told[c][b].world \in {0, Unknown}

\* The first configuration that parses is final: the name belongs to it, a
\* client that asked was told the name the games list shows and words that
\* parse to the very configuration the server plays by.
ConfiguredOnce ==
  /\ config = None <=> title = None
  /\ \A c \in Observer : knows[c] # None =>
       /\ config # None
       /\ FromWords(knows[c].words) = config
       /\ \E g \in GamesList : g.title = knows[c].title

(***************************************************************************)
(* The top list of the game's type has room for the best: every seat is in *)
(* it at most once, as whoever held it last, and, as long as no client has *)
(* sent a body whose rating is a NaN, nobody who is left out has a better  *)
(* rating than somebody who is in.                                         *)
(***************************************************************************)
TopListShowsBest ==
  config # None =>
    /\ \A e, f \in Entries : e.bind = f.bind => e = f
    /\ \A list \in TopLists(config.game_type) :
         /\ Len(list) = Min({TopLimit, Cardinality(Entries)})
         /\ IsInjective(list) /\ ToSet(list) \subseteq Entries
         /\ Comparable(Entries) =>
              /\ \A i, j \in 1 .. Len(list) : i < j => list[i].rating >= list[j].rating
              /\ \A e \in ToSet(list), f \in Entries \ ToSet(list) : e.rating >= f.rating

\* A message to a set of seats, given by a mask whose bit n - 1 is for seat n (the
\* masks bind.rs gives out), reaches just those of its members that are connected,
\* and never its sender.
ChatReaches ==
  \A b \in Present, S \in SUBSET BindId :
    players[b].name # None =>
      Receivers(b, SumSet({2 ^ (x - 1) : x \in S})) = (S \ {b}) \cap Listed

\* The same with bit n for seat n, as ARCHITECTURE_2025_02_26.md has it (line 544).
ChatByNumber ==
  \A b \in Present, S \in SUBSET BindId :
    players[b].name # None =>
      Receivers(b, SumSet({2 ^ x : x \in S})) = (S \ {b}) \cap Listed

\* A departure takes nobody's score from the top list, neither that of the
\* player who leaves nor that of one who left before; only the seat's next
\* holder or the end of the game does.
ScoreOf(b) == {e \in Entries : e.bind = b}

ScoresKept ==
  [][\A b \in BindId :
       b \notin Present' /\ Present' # {} => ScoreOf(b)' = ScoreOf(b)]_vars
=============================================================================
