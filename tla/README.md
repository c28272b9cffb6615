# vangers-srv in TLA+

`vangers-srv` is a server for the multiplayer game of *Vangers*: players open
games on it, take seats in them, enter worlds, and the server relays the objects
("vanjects") they create, move, exchange and lose. This directory models the
part of it that keeps state and is hard to test: which connection holds which
seat, who owns which object and who has been told so, and in what order packets
reach a client. Source paths below are relative to `src/vangers-srv/src/`.

| Module | What it is |
|---|---|
| `Sessions` | connections, channels, main loop, games and seats |
| `GameObjects` | the objects of a game, the worlds of its players, what each was told |
| `ItemCustody` | abstract: where an item is; `GameObjects` implements it |
| `Outbox` | the outgoing packets of one client |
| `Lobby` | the roster of a game, its configuration, top list and chat, and what clients are told of them |
| `Framing` | the task that reads from a connection: greeting, buffer, packets |
| `PacketStream` | abstract: what that task promises the main loop; `Framing` implements it |
| `VanjectIds` | the 32 bits of an object id |
| `SessionsProofs`, `GameObjectsProofs`, `OutboxProofs`, `FramingProofs`, `LobbyProofs`, `VanjectIdsProofs` | theorems about these modules, checked by TLAPS |
| `FlattenTheorems` | what those proofs need of `FlattenSeq`, and induction over a set of numbers |
| `MCSessions`, `MCGameObjects`, `MCOutbox`, `MCLobby`, `MCFraming` | instances for TLC |

Run a model with `tlc -config MCSessions.cfg MCSessions` (in the same way for the
other `.cfg` files), and the proofs of a module with `tlapm SessionsProofs.tla` (in the
same way for the others).

## 1. The system

One OS process on tokio. The **accept task** takes TCP connections and builds a
`Client` for each. Every connection has a **reader task** (`event_loop`:
handshake, then cut packets out of the stream) and a **writer task**
(`writer_loop`). The **main loop** (`Server::start`) owns all game state and runs
one handler at a time to its end, without an `await` inside. They interact only
through:

- `event_rx` (bounded, 10): the accept task hands over new Clients, and the
  signal task asks for a halt;
- `clients_rx` (bounded, 50): every reader's `Authenticated`, `Updated(packet)`
  and `Disconnected`;
- per client, a bounded channel (1000) from the main loop to the writer, with a
  task spawned per packet while it is full, a slot for the latest `SERVER_TIME`,
  and a table of the latest update per object, both slots with a `Notify`;
- a timer of the main loop that ticks every second and expires lost players.

### Components

**Connections, games and seats** (`server/server.rs`, `server/games.rs`,
`game/game.rs`, `attach_to_game`, `restore_connection`, `close_socket`,
`register_name`, `set_player_data`). State: the list `clients`, the table `games`,
in each game the players in the order of their arrival (seat number `bind`, client
id, `disconnected_until`, name, body) and the remembered `removed_players`.
Operations: accept, add, authenticate, disconnect, attach, restore, close, expire.
Hard: two channels without an order between them; a restored seat whose former
connection still speaks, or is only then found dead; expiry that works by client
ids it has collected; ids that are handed out again. Correct means: a seat has one
holder, the clock of a seat runs only for a holder that is gone, nobody who is
present is removed, whoever is lost leaves at last, games live exactly as long as
they have players, the list is the list of the connected.

**Worlds and objects** (`create_object`, `update_object`, `delete_object`,
`item_transfer`, `set_world`, `leave_world`, `close_socket`, `vanject.rs`,
`game/world.rs`). State: the game's objects with owner and body, its worlds with
their size, each player's world. Hard: several players race for an item that
exists in one of two forms; leaving a world deletes by owner and by station; a
newcomer knows the world from a snapshot and the notifications after it; an
operation that fails after its first half. Correct means: an item is in one place,
an object changes hands only where it may, belongings go with their owner and
nobody else's do, and what the players were told agrees with what the server has.

**Outgoing packets** (`client.rs`: `send*`, `LatestObjectUpdates`, `writer_loop`).
Hard: the only state shared between threads. Correct means: nothing reliable is
lost or held back, also when the channel is full or the Client is dropped; the
writer sleeps on nothing; no update resurrects an object; newer replaces older.

**Handshake and framing** (`client.rs`: `auth`, the read loop; `protocol.rs`). State: the
greeting so far, a buffer and how much of it is unread. Hard: the stream arrives in
pieces of any size, the buffer is used again and again and keeps bytes of earlier reads.
Correct means: the greeting decides, and the main loop gets the packets that were sent,
each once, whole and in order.

**Dispatch and notification** (`server/callback/mod.rs`, `Server::notify*`). No
state of their own: the handler of an action, and the clients a packet goes to. A client
that is not on the list gets nothing, and nothing is sent again.

**Object ids** (`vanject.rs`). Bit fields of an `i32` and predicates on them. Correct
means: the server reads from an id what the client packed into it.

**The roster** (`register_name`, `set_player_data`, `set_world`, `leave_world`,
`close_socket`, `restore_connection`, `total_players_data_query`, `player/`). State: name,
body, status and world of each player, and the snapshots of those who left. Hard: clients
know it from a list at one time and notices at others, sent by handlers that change
several fields on several ways out. Correct means: what a client was told is so.

**Game configuration** (`game/config.rs`, `game/prm.rs`, `set_game_data`,
`get_game_data`). A game is configured once, with a name. Correct means: the first that
parses is final, name and words belong together.

**Queries and chat** (`games_list_query`, `top_list_query`, `direct_sending`,
`player/bind.rs`). No state. Correct means: the top list has the best, of those who left
too, each seat once; a message reaches the seats of its mask.

**Positions, statistics, shell, `main.rs`**: no state of interest; section 9 says why they
are left out.

The list with sources and status is in `PROJECT.json` under `components`, the
hazards, each at its line, under `hazards`.

## 2. Sessions

| Model | Code |
|---|---|
| `stage[c]`, `Accept`, `AuthSucceeds`, `ConnectionEnds`, `SendDisconnected`, `Receive` | the accept task's loop body and `Client::event_loop`, from the handshake to its last send |
| `adding`, `SendAdd`, `events`, `HandleAdd` | `Event::Add` on its way through `event_rx` |
| `inbox`, `Take` | `clients_rx` |
| `clients`, `open`, `lastGame` | `Server.clients`, the keys of `Server.games`, `games_id_uniq` |
| `players[g]`, `removed[g]` | `Game.players`, `Game.removed_players` |
| `AttachToNewGame`, `AttachToGame`, `RestoreConnection`, `CloseSocket`, `RegisterName`, `SetPlayerData(Bad)` | the handlers of these names, each one action with its error paths |
| `DeadlinePasses`, `ExpireDisconnectedPlayers` | `DISCONNECTED_PLAYER_TTL` and the timer branch of the `select!` |

A player's `before` is the set of seats earlier in the `Vec`: it makes "the first
player with this client id" (`Game::get_player`) definable over a set. A client may
hold seats of several games, or several of one, since neither ATTACH nor RESTORE
refuses it; `get_game_by_client_id` walks a `HashMap`, so which game it finds is a
nondeterministic choice. `lost` stands for `disconnected_until`: unset, ahead,
passed. `expire_disconnected_players` first collects, then calls `close_socket` per
collected player: one action, in which every collected client is closed in as many
of its games as there are calls for it.

Bounds: `MaxGames` games are ever opened, each connection delivers `MaxSent`
packets, the channels have their capacities as constants. `OneSession` restricts
clients to asking for a seat only while they hold none and have not asked; it is an
assumption about clients which the server does not enforce, and only the runs and
results that say so use it.

**Run `sessions`** (2 connections, 2 games, 2 seats, 3 packets each, capacities 1,
any client behaviour; 1.1 million states up to the symmetry of connections):
`SeatsUnique`, `GamesInhabited`, `OnlyDepartedOnClock`, `PresentPlayersStay`,
`GameIdsNotReused`. Two connections are the holder of a seat and the one that
restores it, or two players; two seats make a gap in the numbering possible, two
games a client with seats in both. **Run `sessions_live`** (the same, `OneSession`,
with bodies that do not parse): `NoAbandonedSeat` and the liveness property
`LostPlayersLeave`. Without `OneSession` both are false: a disconnection marks one
player of the client, and the client's other seats stay for ever.

**Fairness** (`FairSpec`): tokio's `select!` without `biased` chooses at random among
the branches that are ready, so the main loop's branches get weak fairness each; a
task waiting to send is woken in order as room appears; deadlines pass. Nothing is
assumed of the other end of a connection, which may fall silent.

One run shows where the code differs from its comment "List of all connected TCP
clients" (`server/server.rs:29`). **`listed`**: `Disconnected` can overtake
`Event::Add`, after which the Client stays on the list for good. (The list also lacks some
that are connected: a RESTORE drops the Client of the seat's former connection, which
stays open and is still served.)

## 3. GameObjects

One game; every handler is an action of a seat `b`. A packet answered with an error
changes nothing and has no action, except `SetWorld` with a wrong size, which has
left the old world by then. `objects[id]` keeps an object's owner and the id its body
links to (what `item_has_paired_vanject` reads). Ids are records of the fields that
`vanject.rs` extracts; how it does that is in `VanjectIds`, a module of operators on
integers of 32 bits with a sign.

A seat's Client is on its way to `Server.clients`, on it, or gone (`conn`). The server sends
to the Clients on the list only (`Listed`; `server/server.rs:194`, 224, 271, 298), keeps the
seat and the world of a player whose connection is lost, and replays nothing on RESTORE
(`restore_connection.rs`). `Join`, `Added`, `Lost` and `Restore` move a Client on and off the
list in any order, and handlers run for a client that is not listed yet (`Talks`); `Unsteady`
are the seats to which that may happen.

`told[b]` is a history variable: for each object, the owner seat `b` was last told
of, by the packets of the handlers (`notify_game`, `notify_world`, `notify_player`,
snapshot and replay) and by its own requests, 0 for none. It stays with the player over
losses and RESTOREs. What it says of the objects of a world starts afresh when the player
enters one, and ends when it leaves. Where an owner changed without a word to the player,
because its Client was off the list or nothing was sent, it is `Missed`, until a later packet
tells it better. A packet to a listed Client counts as received: delivery is the subject of
`Outbox`.

So a client that comes back in its world **may** hold stale objects: the code does nothing
about that, and no property here says otherwise. `ViewsAgree` says that nothing else is
wrong: what was told and not missed since is so, at every moment and whatever was lost and
restored before, and nothing is missed but by a player who may be off the list, or of a vanger
whose body does not parse.

`Disciplined` is a set of ids. Under these, clients do what the game's client does: they
create objects of their own station, in the world they are in, and link the two forms of an
item to each other. The server checks none of it; under all other ids clients create
anything anywhere with any link. `BelongingsWithOwner` and `ItemsInCustody` speak of the
disciplined ids, among clients that do what they like with the others; without discipline they
are false, because an object may be created in a world its creator is not in, or an item
without a link to its other form. `Bodies` says whether a created vanger's body parses: one
that does not is stored and announced to nobody (`AnnounceToNobody`).

**Run `objects`** (2 seats, of which the Client of the second may be off the list, 2 worlds,
2 sizes, an item in both forms and a vanger with discipline, a global object and a sensor
that anyone may create and update, bodies that parse and that do not; 101 thousand states up
to the symmetry of the sizes): `BelongingsWithOwner`, `ViewsAgree`, `LeaversTakeTheirOwn`,
`OwnersKeep`, and the refinement `ItemsInCustody`, by which the handlers implement
`ItemCustody` under the mapping `Custody`. Two seats are two players who race for an item, an
actor and one who is told, and a seat that gets a new holder; the steady one shows that nothing
is missed without a reason. Two worlds let the players be apart; two sizes make `SetWorld`
fail half way. Of the five ids there is one for each way the guards of `UpdateObject` and
`CreateNew` can go. `IdsReadAsPacked` ties the records to the bits: for the stations of
whoever is in the game and the last one there is, for types of every class and the limits of
every field, static or not, the shifts and masks of `vanject.rs` give back the fields of an id
and put it into the class the handlers' guards mean.

Seat reuse is in `CloseSocket` and `Join`; that the seat a game hands out is the
lowest free one is in `Sessions`. `CloseSocket` is taken at any time, since expiry
may close any player.

## 4. Outbox

| Model | Code |
|---|---|
| `time`, `timePermit`, `order`, `pending`, `updPermit` | the two slots and their `Notify` permits |
| `queue`, `tasks`, `waiters` | the channel, the tasks spawned while it is full, tokio's line of waiting senders |
| `at`, `writing`, `rxClosed` | where `writer_loop` is |
| `SendReliable`, `SendRealtimeUpdate`, `SendLatestServerTime` | the methods of `Client`, each two accesses |
| `StartsSending`, `EndsSending`, `sending` | a call of one of them by the main loop, its first and its second access |
| `DropClient` | the main loop takes the Client off its list |
| `WriterTakesTime` ... `WriteFails` | `writer_loop` and `write_client_packet`, a step per access to shared state |
| `TaskRuns` | a spawned task's `send().await` |

Each access to a mutex, to the channel or to a permit is a step of its own, also those of one
method: `send_reliable` removes a pending update under the mutex (`client.rs:70`) and then
tries the channel (`client.rs:89`), the other two fill a slot and then notify. The writer
and the spawned tasks run in between; the main loop, which is one task, does nothing else until
the second access (`sending`).

The channel and `Notify` are tokio's, and modelled by what they promise: a permit that
a receive frees goes to the first sender in line and is not free for `try_send`;
`notify_one` stores a permit when nobody waits. That the line is served in
order is what tokio documents of its semaphore, and liveness needs it.

`SendPlain`, `SendTime`, `SendObject`, `SendGone`, `SendUpdate`, `ChangesUnseen` and
`SwitchesWorld` are what the handlers do to one client's Outbox: an object's state goes out reliably on
creation and in a snapshot, its changes through the table while the client is in its
world, its deletion reliably in any case. Packets carry a stamp and the age of what
they say. `owed` (sent, not yet written) and `heard` (newest state written) are
history variables. Kinds in `Endless` are sent without stamp and without bound, so
that starvation is possible.

**Run `outbox`** (capacity 1, two tasks, a vanger, three stamps, endless plain packets
and server times; 3.3 million states): `NoLostWakeup`, `NothingReliableLost`,
`NothingLeftBehind`, `NoUpdateAfterGone`. The mutants of the first and the last swap the two
accesses of a method: notifying before the slot is filled loses a wake-up, trying the channel
before the removal lets an old update follow the news. Capacity 1 makes the channel full as soon as
it holds anything; two tasks make a line. **Run `outbox_live`** (two vangers, endless
updates): `LineIsPending`, `ReliableWritten`, `UpdatesWritten`. Fairness: tokio runs
tasks that are ready and a write ends, if only with an error; of the main loop only that it
ends a send it has started, none of which waits for anything.

Two runs show where the code differs from
`docs/NETWORK_LATENCY_PLAN_2026_05_17.md`. **`outbox_overflow`**: reliable packets
"must go through a reliable FIFO" (line 244), but with the channel full a packet left to
a spawned task is overtaken by later ones. **`outbox_stale`**: "if the server has not yet
sent an old update of the object, the new one must replace it" (lines 291-292), but an
update left pending while the client was elsewhere is written after the newer state in
the snapshot of its return.

What follows from the order in which the writer looks, seen with other values of the
constants and not kept as runs: with endless plain packets `UpdatesWritten` fails, with
endless server times both liveness properties do (the plan lists this as work to be done,
lines 359 and 360); a `SERVER_TIME` sent just before the Client is dropped may never be
written, which is why `NothingLeftBehind` does not speak of it.

Bounds: `MaxStamp` numbered packets and changes, `MaxWaiting` tasks that wait for room
(the main loop of the model sends nothing reliable while all of them wait, the code's
spawns another), and `Cap` for the 1000 places of the channel. Three stamps are enough for
an update, the news that its object is gone and a newer update.

## 5. Framing

| Model | Code |
|---|---|
| `stage = "greeting"`, `received`, `GreetingGoesOn`, `GreetingAccepted`, `GreetingRefused`, `GreetingBreaksOff` | `auth` and what `event_loop` makes of its result |
| `buff`, `kept`, `readable`, `offset` | `buff`, `buff_offset`, `buff_readable_size`, `offset` |
| `Reads`, `CutsPacket`, `StopsCutting`, `Panics`, `ReadEnds` | the read loop, a step per `await` |
| `wire`, `sent`, `gone`, `Sends`, `HangsUp` | the other end of the connection |
| `messages` | what the task sent to `clients_rx` |

A read yields any number of the bytes on the wire. The buffer keeps what earlier reads
left in it, and a length is two of its bytes, whether both have arrived or not
(`PacketSize`). When the first byte of a length is the last byte of the whole buffer, the
second is out of bounds and the task panics, without a `Disconnected`.

Clients send lengths that are right, and wait for the answer to their greeting before
they send a packet: `auth` drops what comes behind the greeting in the same read, so a
client that does not wait loses packets. `PacketStream` states the promise that `Sessions`
starts from: one `Authenticated`, then packets, one `Disconnected` at the end.

**Run `framing`** (a buffer of 6 bytes for 32767, two magic bytes for 36, five greetings,
four packets of two lengths; 7169 states): `GreetingDecides`, `NoByteLost`, the refinement
`PacketsAsPromised`, and the liveness property `AllHandedOver` with its one exception, the
panic. In six bytes a packet of five (length included) and one of three meet in every way:
half a length at the end, a tail that is moved, a buffer that is full. The greetings are
wrong at each place where `auth` looks. All bytes of these packets are below 128. Those of real
clients are not (their action codes are 0x81 to 0x95), and where a byte from 128 up can be
left over behind half a length the properties fail, as the next run shows; what holds of such
packets is in the theorems of section 7.

**Run `framing_stale`** (a buffer of 16, one byte of 200 in a packet) shows what a byte from
128 does. If only the first byte of a length has arrived and the byte behind it was left by
an earlier read, the length is negative; the tail is then not moved, yet counted as kept,
and bytes that were cut already are cut again: `PacketsAsSent` fails.

**Fairness** (`FairSpec`): weak fairness of the task as a whole, which tokio polls while
bytes are there or its send has room. Nothing is assumed of the client.

## 6. Lobby

| Model | Code |
|---|---|
| `conn[b]` | whether the `Client` of the player on seat `b` is on its way to the list, on it, or gone |
| `players`, `removed`, `worlds`, `config`, `title` | the fields of `Game` of these names (`title` is `name`) |
| `Attach`, `Restore`, `RegisterName`, `SetPlayerData`, `SetWorld`, `SetWorldFails`, `LeaveWorld`, `CloseSocket`, `TotalPlayersDataQuery`, `SetGameData`, `GetGameData` | the handlers of these names |
| `CreateVanger` | the branch of `create_object` that takes a vanger's body for the player's |
| `Added`, `Lost` | the main loop on `Event::Add` and `Disconnected` |
| `FromWords`, `ToWords`, `Body`, `Stored` | `Config::from_slice` and `to_vangers_byte`, `Body::from_slice`, `extract_auth_data` |
| `GamesList`, `TopLists`, `Receivers` | the answers of `games_list_query`, `top_list_query`, the audience of `direct_sending` |

One game. `told[c][b]` is a history variable: what the Client of seat `c` was last sent of
the name, body, status and world of seat `b`, by the list of all players and the notices;
`knows[c]` is the `GAME_DATA` it was sent. Both stay with a client that restores its
connection: RESTORE replays nothing, so it goes on with what it knew. A field that changed
without a word to `c` is `Unknown` until the next notice or list: because `c`'s Client was off
the list (`Changed`), or because the body came with a vanger, which no `PLAYERS_DATA` announces
(`CreateVanger`). A body is its size and rating, a name its length and whether it has control
characters, a configuration a sequence of words; each is converted as the code does it.

A packet for a Client on the list counts as received (`Outbox` is about delivery), one for a
Client that is not is lost.

**Run `lobby`** (2 seats, 2 worlds, a name that is cut and cleaned, bodies good, better, too short
and rated NaN, a configuration of each outcome, room for one in the top list; 378 thousand
states up to the symmetry of worlds):

- `RosterAgrees`: what a client was told of another player is what the server holds. It says
  nothing of what the client missed (`Unknown`), of the name of a player who has none yet, and
  of the body of one who has none: after a `SET_PLAYER_DATA` that does not parse the server has
  no body (`player/player.rs:107`), and the others keep the former one.
- `NoGhosts`: no client is left with somebody who plays, or is in a world, on a free seat,
  unless it missed the departure.
- `ConfiguredOnce`: name and configuration come together, and what `GET_GAME_DATA` answers
  parses to the configuration the game is played by, under the name of the games list.
- `TopListShowsBest`, `ScoresKept`: each seat once, as many as there is room for, and, as long
  as all ratings compare, the best first and nobody better left out; a departure takes no score
  away.
- `ChatReaches`: a message reaches the connected seats of its mask, bit `n - 1` for seat `n`,
  and not its sender.

Two seats are a player and one that is told of it, and a seat that gets a new holder; the
second one's knowledge is followed (`Observer`), since seats differ only in the order in
which they are handed out, and the first is both held before and taken again while the
second stays. A limit of one makes the top list leave somebody out. `SetWorldFails` needs a
world that somebody made, hence two worlds.

Left open: which of equal ratings comes first (the sort is stable, but over several games
the entries come in the order of a `HashMap`): `Rankings` are all orders of the entries by
rating. Ratings are integers, of which only the order matters, or `NaN`: the bits of the float
come unchecked from the client (`player/body.rs:84`). `partial_cmp(..).unwrap_or(Equal)` then
calls a NaN equal to everything, which is no order; `sort_by` promises none in that case (and
may panic), so that `Rankings` allows any, and the top list **may** leave out a better one. One
client's NaN does that to the list of a whole type of games.

**Run `chat`** shows where the code differs from `docs/ARCHITECTURE_2025_02_26.md`. Line 544
says that bit N of the mask is `player_id` N; the code takes bit N - 1 (`player/bind.rs:18`), the
ids beginning at 1. `ChatByNumber`, the document's reading, is violated: the message reaches
the next seat.

## 7. What is proved

Every safety property of a passing run, the two refinements included, is proved for all
values of the constants, from the named assumptions of the modules. What a theorem assumes
beyond them stands in its statement, and in the tables below.

### Sessions

For every set of connections, all capacities, numbers of games and seats, and every choice
of `Ops`:

| Theorem | Statement |
|---|---|
| `TypeCorrect` | `Spec => []TypeOK` |
| `SeatsAreUnique` | `Spec => []SeatsUnique` |
| `ClockRunsForDeparted` | `Spec => []OnlyDepartedOnClock` |
| `PlayersStay` | `Spec => PresentPlayersStay` |
| `OpenGamesInhabited` | `Spec => []GamesInhabited` |
| `IdsStayUnique` | `Spec => GameIdsNotReused` |
| `NobodyAbandoned` | `Spec => []NoAbandonedSeat`, if `OneSession` |

What a step does to one game is stated once (`GameStep`): nothing (`Kept`); one player
changes its client, clock, name or body (`Changed`); one joins, on the lowest free seat,
which is then forgotten in `removed` (`Joined`); or some leave, and only leavers are
remembered (`Left`). Each property then needs one argument per shape instead of one per
handler. With the type invariant, `SeatsUnique` is inductive over these shapes.

`OnlyDepartedOnClock` is not inductive alone: that a holder on the clock is `Departed`
has to survive whatever is in the channel. It is proved together with `Farewells`: a
connection says `Disconnected` once, as the last thing it does, so that one whose
`Disconnected` the main loop has taken stays departed (the invariant is
`TypeOK /\ Farewells /\ OnlyDepartedOnClock`, `ClockInvariant`). A RESTORE stops the
clock, and a late `Disconnected` of the former holder finds no player of that client.
`PresentPlayersStay` follows: expiry collects only players on the clock.
`GamesInhabited` is proved together with `OpenIssued`, that open games have ids already
issued: the game that ATTACH opens is therefore new and empty, and its first seat free.

`NoAbandonedSeat` rests on three more facts: a client with `OneSession` has one seat
(`OneSeat`), or none and one request for it under way (`OneWish`), and what a connection
that is gone had to say comes before its farewell (`LastWords`). So when the farewell is
heard, the one player that is found is the one there is. The assumption is one about clients, as section 2
says; without it the property is false.

### GameObjects

For any number of seats, any worlds and any set of ids:

| Theorem | Statement |
|---|---|
| `TypeCorrect` | `Spec => []TypeOK` |
| `UpdatesKeepOwners` | `Spec => OwnersKeep` |
| `LeaversTakeNothingElse` | `Spec => LeaversTakeTheirOwn` |
| `PlayersKnowTheirWorld` | `Spec => []ViewsAgree` |
| `BelongingsFollowOwners` | `Spec => []BelongingsWithOwner` |
| `HandlersKeepCustody` | `Spec => ItemsInCustody` |

They hold for any `Unsteady`, any `Bodies` and any `Disciplined`: the first four whatever the
clients do, the last two of the ids in `Disciplined`, whatever clients do with all others. What
`ViewsAgree` leaves out is in section 3.

`BelongingsWithOwner` needs `PrivateAtStation`: a private object is of the station that its
id names, so that it goes with its owner by whichever of the two rules deletes it.
`ViewsAgree` needs `NobodyElsewhere`: seats nobody holds are in no world, and `SteadyListed`:
only Clients of unsteady seats are off the list. The argument is by
`Informed`: after a step, a client in the world of an object either knew what it knows and
nothing changed, or was told, or missed it for one of the two reasons. For the refinement, `OncePerItem` says that at most one form of
an item exists; a step then moves an item as `CustodyMove` allows, one move of `ItemCustody`
for each item (`StepMoves`), and all of them together are a step of it or a stutter.

`VanjectIdsProofs`: `EveryIdReadsBack`, for every value of every field at its full width;
and `IdsUnpacked`, `Spec => []IdsReadAsPacked`, if `MaxPlayerId <= 31`, which is what the
five bits of a station hold (`MAX_PLAYER_ID` is 30, `game/game.rs:18`).

### Outbox

For any objects, any capacity and any number of tasks:

| Theorem | Statement |
|---|---|
| `TypeCorrect` | `Spec => []TypeOK` |
| `LineExact` | `Spec => []LineIsPending` |
| `WakesUp` | `Spec => []NoLostWakeup` |
| `GoneForGood` | `Spec => []NoUpdateAfterGone` |
| `ReliableKept` | `Spec => []NothingReliableLost` |
| `AllDelivered` | `Spec => []NothingLeftBehind` |

That the channel never holds more than it may is part of `TypeOK`, and is the invariant of
the channel alone (`ChannelInvariant`): packets and granted places never exceed the
capacity, nobody waits while there is room (`Places`), and the line has just the tasks that
wait, each once (`InLine`). `Line` says the same of the objects and their pending updates.
`Permits` says why the writer does not sleep through work: while a slot is filled its permit
is stored, or the writer is about to look, or the main loop is about to store it. `NoUpdateAfterGone` needs to know that the news of
an object's end is never from later than now (`GonePast`) and that a pending update is later
than any such news of its object, on its way or heard (`PendingIsLater`).
`DeliveryInvariant` follows each stamp: it is in one place at a time (`Apart`, `Stamped`),
what is owed is on its way (`Owing`), what is still being sent is nowhere yet (`Unsent`), and the writer takes the channel for closed only when
it is empty for good, and leaves only when nothing is pending either (`Closing`).

### Framing

For a buffer of any length that holds the longest packet, any greetings, and packets of any
bytes and lengths:

| Theorem | Statement | if |
|---|---|---|
| `TypeCorrect` | `Spec => []TypeOK` | |
| `GreetingDecided` | `Spec => []GreetingDecides` | `[]Legible` |
| `NothingLost` | `Spec => []NoByteLost` | `[]Legible` |
| `StreamImplemented` | `Spec => PacketsAsPromised` | `[]Legible` |
| `LeftOversDecide` | all three | `[]LowLeftOvers` |
| `WholeLengthsAsPromised` | all three | `[]WholeLengths` |

`Legible` says that what the loop reads as a length is not below 2, which is what run
`framing_stale` breaks. `LeftOversDecide` says that nothing else can: where both bytes of a
length have arrived it is right, whatever the bytes; only where the first alone has
(`HalfLength`) does the byte that an earlier read left behind it count, and only from 127 up
(`LowLeftOvers` is `HalfLength => buff[offset + 1] < 127`). `WholeLengths` is `~HalfLength`: no
read ends between the two bytes of a length. These are conditions on how the stream is cut
into reads, which neither client nor server controls, and not on what clients send.

The invariant (`FramingInvariant`) relates the two ends of the stream: the part of the buffer
not cut yet, followed by the wire, is the concatenation of the packets sent and not handed
over (`StreamInvariant`, over `Window`). From it `NextSize` shows that a length of which both
bytes have arrived is the right one, `RoomLeft` that the tail always leaves room for a read.
Concatenation is the recursive function `FlattenSeq`; what it does is proved by induction
over the set of lengths for which the claim holds (`SetInduction` in `FlattenTheorems`),
as the library's induction theorems cannot be used.

### Lobby

For any number of seats and observers, any worlds and whatever the clients send:

| Theorem | Statement |
|---|---|
| `TypeCorrect` | `Spec => []TypeOK` |
| `RosterCorrect` | `Spec => []RosterAgrees` |
| `NobodyHaunts` | `Spec => []NoGhosts` |
| `ScoresStay` | `Spec => ScoresKept` |
| `ConfigurationFinal` | `Spec => []ConfiguredOnce` |
| `BestOnTop` | `Spec => []TopListShowsBest` |
| `MessagesReach` | `Spec => []ChatReaches` |

`RosterInvariant` is the invariant of the first two: what each client, on the list or not, was
told of anybody else fits (`AllAgree`), a player who left is remembered in no world and not as playing (`LeftAtRest`), and nobody
present is remembered as one who left (`RemovedAreGone`). The last is what keeps a seat from
having two scores. `ConfiguredOnce` needs `ConfigTold`: what a client was sent of the
configuration is what holds; the rest is the conversion, `ToWords` after `FromWords`, part by part
(`RoundTrip`). With `BestOnTop` goes that a finite set of entries has a ranking at all
(`RankingFound`), so that the server has a list to answer with (`TopListExists`).
`MessagesReach` needs that a sum of different powers of two has their bits (`SumBits`): adding
one that is not there does not carry. Both are by induction over the sizes of the sets.

### Only model-checked

The liveness properties `LostPlayersLeave`, `ReliableWritten`, `UpdatesWritten` and
`AllHandedOver`: fairness speaks of ENABLED, which is out of the prover's reach. The runs that
show a difference between code and documents are counterexamples and need no proof.

Each property of a passing run has a mutant in `PROJECT.json`: a definition changed the
way a plausible bug would change the code (an operator marked "Mutation" in the module),
under which TLC finds the property violated.

## 8. Plan

Done, in this order: `Sessions` with its runs and proofs, `GameObjects` with
`ItemCustody`, `Outbox`, `Framing` with `PacketStream`, `VanjectIds`, `Lobby`, and the proofs
of section 7. To come:

1. `Mailbox`, abstract: a bag of reliable packets and a latest value per object;
   `Outbox` implements it, checked and proved.
2. `ViewsAgree` and `RosterAgrees` of what has arrived, with such a mailbox per client in
   place of delivery at once, once TLC can visit a product of that size; the proof does not
   depend on it.
3. That `Sessions` takes of a reader task what `PacketStream` promises, as a refinement.

The modules avoid RECURSIVE operators and keep actions and invariants in named parts, so
that they can be proved about as they are.

## 9. Not modelled

- `Event::Halt`: it ends the process, and nothing is persisted.
- `server_time_query`: a multiplication of the uptime, which overflows a `u32` after 194
  days.
- Positions: the next packet overwrites them, no guard reads them, and they are told only
  in the list of all players.
- The text of a message (cut at 140 bytes), titles and other wording; statistics, which are
  opaque bytes at the end of a body; `body_alt.rs`, which is not compiled.
- Packets too long for an `i16` (`as_bytes` panics, `create_answer` gives up) and a list of
  more than 255 games, whose number is a byte.
- The length 32766 or 32767 in `Framing`, whose sum with 2 overflows an `i16`.
- The shell, which is declared and never used, and `main.rs`.
