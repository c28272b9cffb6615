------------------------------- MODULE Outbox -------------------------------
(***************************************************************************)
(* What the server has to say to one client (client.rs).                   *)
(*                                                                         *)
(* The main loop hands packets to the Client: a SERVER_TIME goes to a slot *)
(* that keeps the latest one, the live UPDATE_OBJECT of a vanger to a slot *)
(* per object, everything else to a bounded FIFO channel, or, when that is *)
(* full, to a task spawned to wait for room.  The connection's writer task *)
(* takes from these in its order of priority and writes to the socket.     *)
(*                                                                         *)
(* The main loop, the spawned tasks and the writer run in parallel; every  *)
(* access to a slot's mutex, to the channel or to a permit is a step of    *)
(* its own.                                                                  *)
(*                                                                         *)
(* Packets that the properties tell apart carry a stamp, which grows with  *)
(* every change and every numbered packet, and the age of what they say:   *)
(* OBJECT is any reliable packet with the state of an object (an object    *)
(* replayed on entry to a world, CREATE_OBJECT), GONE is DELETE_OBJECT or  *)
(* HIDE_OBJECT, PLAIN is any other reliable packet.                        *)
(*                                                                         *)
(* A definition marked "Mutation" is a wrong variant of the one below it,  *)
(* used to see that the properties notice; nothing else refers to it.      *)
(***************************************************************************)
EXTENDS Naturals, Sequences, FiniteSets

CONSTANTS
  Objects,      \* the vangers the client hears of
  None,         \* no object
  Cap,          \* capacity of the FIFO channel
  MaxWaiting,   \* bound on the tasks spawned at a time to wait for room
  MaxStamp,     \* bound on the stamps
  Endless       \* kinds of packets that also come without stamp or bound

ASSUME ObjectsAssumption == None \notin Objects
ASSUME CapAssumption == Cap \in Nat \ {0}
ASSUME OutboxBoundsAssumption ==
  /\ MaxWaiting \in Nat
  /\ MaxStamp \in Nat
  /\ Endless \subseteq {"TIME", "UPDATE", "PLAIN"}

Stamps == 0 .. MaxStamp

Slots == 1 .. MaxWaiting

Packet ==
  [kind : {"TIME", "UPDATE", "OBJECT", "GONE", "PLAIN"},
   object : Objects \cup {None}, stamp : Stamps, age : Stamps]

NoPacket == [kind |-> "NONE", object |-> None, stamp |-> 0, age |-> 0]

ReliableKinds == {"PLAIN", "OBJECT", "GONE"}

Maybe == Packet \cup {NoPacket}

VARIABLES
  time,        \* latest_server_time
  timePermit,  \* the permit of latest_server_time_notify
  order,       \* LatestObjectUpdates.order
  pending,     \* LatestObjectUpdates.packets
  updPermit,   \* the permit of latest_object_updates_notify
  queue,       \* the channel's contents
  tasks,       \* the tasks spawned when the channel was full
  waiters,     \* those that wait for room, first come first served
  sending,     \* the packet the main loop is sending
  dropped,     \* the main loop has dropped the Client
  away,        \* the client is not in the objects' world
  at,          \* where the writer is
  writing,     \* the packet it is writing
  rxClosed,    \* rx_server_closed
  failed,      \* a write has failed
  clock,       \* the last stamp
  state,       \* the stamp of the last change of each object
  owed,        \* history: stamps of reliable packets sent, not yet written
  heard        \* history: the newest ages written, by object and kind

slotVars   == <<time, timePermit, order, pending, updPermit>>
chanVars   == <<queue, tasks, waiters>>
writerVars == <<at, writing, rxClosed, failed>>
sendVars   == <<sending, dropped, away, clock, state>>
histVars   == <<owed, heard>>
vars       == <<slotVars, chanVars, writerVars, sendVars, histVars>>

\* retain: the members of a line other than x, in their order.
Without(line, x) ==
  LET kept     == {k \in 1 .. Len(line) : line[k] # x}
      place(k) == Cardinality({j \in kept : j <= k})
  IN  [i \in 1 .. Cardinality(kept) |-> line[CHOOSE k \in kept : place(k) = i]]

FreeSlot == [stage |-> "free", packet |-> NoPacket]

TypeOK ==
  /\ time \in Maybe
  /\ {timePermit, updPermit, dropped, away, rxClosed, failed} \subseteq BOOLEAN
  /\ order \in Seq(Objects)
  /\ pending \in [Objects -> Maybe]
  /\ queue \in Seq(Packet) /\ Len(queue) <= Cap
  /\ tasks \in [Slots ->
                  [stage : {"free", "spawned", "waiting", "granted"}, packet : Maybe]]
  /\ waiters \in Seq(Slots)
  /\ at \in {"time", "fifo", "updates", "select", "write", "done"}
  /\ {writing, sending} \subseteq Maybe
  /\ clock \in Stamps
  /\ state \in [Objects -> Stamps]
  /\ owed \in SUBSET Stamps
  /\ heard \in [Objects -> [{"OBJECT", "GONE"} -> Stamps]]

Init ==
  /\ time = NoPacket
  /\ timePermit = FALSE
  /\ order = <<>>
  /\ pending = [o \in Objects |-> NoPacket]
  /\ updPermit = FALSE
  /\ queue = <<>>
  /\ tasks = [i \in Slots |-> FreeSlot]
  /\ waiters = <<>>
  /\ sending = NoPacket
  /\ dropped = FALSE
  /\ away = FALSE
  /\ at = "time"
  /\ writing = NoPacket
  /\ rxClosed = FALSE
  /\ failed = FALSE
  /\ clock = 0
  /\ state = [o \in Objects |-> 0]
  /\ owed = {}
  /\ heard = [o \in Objects |-> [k \in {"OBJECT", "GONE"} |-> 0]]

-----------------------------------------------------------------------------
(* The bounded channel, which is tokio's: a semaphore with a permit per    *)
(* free place.  A task that finds none waits in line; the permit a receive *)
(* gives back goes to the first in line, which uses it when it next runs.  *)

InStage(stage) == {i \in Slots : tasks[i].stage = stage}

\* Mutation: the permits that waiting tasks were given count as free.
RoomIgnoringGrants == Cap - Len(queue)

Room == Cap - Len(queue) - Cardinality(InStage("granted"))

\* The writer takes the first packet.
Recv ==
  /\ queue # <<>>
  /\ queue' = Tail(queue)
  /\ IF waiters = <<>>
     THEN UNCHANGED <<tasks, waiters>>
     ELSE /\ tasks' = [tasks EXCEPT ![Head(waiters)].stage = "granted"]
          /\ waiters' = Tail(waiters)

\* Mutation: the spawned tasks do not hold the channel open.
DisconnectedAtDrop == dropped

\* Every sender is gone, the tasks being senders too.
Disconnected == dropped /\ InStage("free") = Slots

-----------------------------------------------------------------------------
(* The main loop sends, one packet at a time.  Each method of Client makes  *)
(* two accesses to what it shares with the writer, which runs in between.   *)

MaySend == ~dropped /\ sending = NoPacket

\* Mutation: a packet that finds the channel full is dropped.
TrySendOrDrop(p) ==
  /\ UNCHANGED <<tasks, waiters>>
  /\ queue' = IF at # "done" /\ Room > 0 THEN Append(queue, p) ELSE queue

\* send_reliable's try_send: into the channel, or to a task of its own, or to
\* nobody once the writer has left.
TrySend(p) ==
  \/ /\ at = "done"
     /\ UNCHANGED chanVars
  \/ /\ at # "done"
     /\ Room > 0
     /\ queue' = Append(queue, p)
     /\ UNCHANGED <<tasks, waiters>>
  \/ /\ at # "done"
     /\ Room = 0
     /\ \E i \in InStage("free") :
          /\ \A j \in InStage("free") : i <= j
          /\ tasks' = [tasks EXCEPT ![i] = [stage |-> "spawned", packet |-> p]]
     /\ UNCHANGED <<queue, waiters>>

\* LatestObjectUpdates::remove
RemovePending(o) ==
  /\ pending' = [pending EXCEPT ![o] = NoPacket]
  /\ order' = IF pending[o] = NoPacket THEN order
              ELSE Without(order, o)

\* Mutations: every update queues its object, a replaced one once more; an
\* object that is replaced goes to the end of the line.
ReplaceAndQueue(p) ==
  /\ pending' = [pending EXCEPT ![p.object] = p]
  /\ order' = Append(order, p.object)
ReplaceAtBack(p) ==
  /\ pending' = [pending EXCEPT ![p.object] = p]
  /\ order' = Append(Without(order, p.object), p.object)

\* LatestObjectUpdates::replace
ReplacePending(p) ==
  /\ pending' = [pending EXCEPT ![p.object] = p]
  /\ order' = IF pending[p.object] = NoPacket THEN Append(order, p.object) ELSE order

\* Notify::notify_one
NotifyOne(permit) == TRUE

\* The news that an object is gone replaces what is pending of the object.
DropsPending(p) ==
  /\ IF p.kind = "GONE" THEN RemovePending(p.object) ELSE UNCHANGED <<order, pending>>
  /\ UNCHANGED <<chanVars, owed>>

EntersChannel(p) ==
  /\ TrySend(p)
  /\ owed' = IF p.stamp # 0 /\ at # "done" THEN owed \cup {p.stamp} ELSE owed
  /\ UNCHANGED <<order, pending>>

\* Mutation: what is pending is removed when the news is already in the channel.
SendThenDrop(n, p) ==
  \/ n = 1 /\ EntersChannel(p)
  \/ n = 2 /\ DropsPending(p)

\* The n-th access of send_reliable.
SendReliable(n, p) ==
  \/ n = 1 /\ DropsPending(p)
  \/ n = 2 /\ EntersChannel(p)

\* Mutation: the writer is woken before there is something to take.
NotifyThenFill(n, p) ==
  \/ n = 1 /\ updPermit' = NotifyOne(updPermit) /\ UNCHANGED <<order, pending>>
  \/ n = 2 /\ ReplacePending(p) /\ UNCHANGED updPermit

\* The n-th access of send_realtime_update.
SendRealtimeUpdate(n, p) ==
  \/ n = 1 /\ ReplacePending(p) /\ UNCHANGED updPermit
  \/ n = 2 /\ updPermit' = NotifyOne(updPermit) /\ UNCHANGED <<order, pending>>

\* The n-th access of send_latest_server_time.
SendLatestServerTime(n, p) ==
  \/ n = 1 /\ time' = p /\ UNCHANGED timePermit
  \/ n = 2 /\ timePermit' = NotifyOne(timePermit) /\ UNCHANGED time

Access(n, p) ==
  \/ /\ p.kind \in ReliableKinds
     /\ SendReliable(n, p)
     /\ UNCHANGED <<time, timePermit, updPermit>>
  \/ /\ p.kind = "UPDATE"
     /\ SendRealtimeUpdate(n, p)
     /\ UNCHANGED <<time, timePermit, chanVars, owed>>
  \/ /\ p.kind = "TIME"
     /\ SendLatestServerTime(n, p)
     /\ UNCHANGED <<order, pending, updPermit, chanVars, owed>>

\* The main loop calls the method that sends p, and comes back from it.
StartsSending(p) ==
  /\ MaySend
  /\ Access(1, p)
  /\ sending' = p
  /\ UNCHANGED <<writerVars, dropped, heard>>

EndsSending ==
  /\ sending # NoPacket
  /\ Access(2, sending)
  /\ sending' = NoPacket
  /\ UNCHANGED <<writerVars, dropped, away, clock, state, heard>>

\* The client enters the objects' world or leaves it, and is told so.
SwitchesWorld ==
  /\ clock < MaxStamp
  /\ clock' = clock + 1
  /\ away' = ~away
  /\ StartsSending([kind |-> "PLAIN", object |-> None, stamp |-> clock', age |-> 0])
  /\ UNCHANGED state

SendPlain ==
  \/ /\ clock < MaxStamp
     /\ clock' = clock + 1
     /\ StartsSending([kind |-> "PLAIN", object |-> None, stamp |-> clock', age |-> 0])
     /\ UNCHANGED <<away, state>>
  \/ /\ "PLAIN" \in Endless
     /\ StartsSending([kind |-> "PLAIN", object |-> None, stamp |-> 0, age |-> 0])
     /\ UNCHANGED <<away, clock, state>>

\* The state of o, as the server has it, goes out reliably: it is created, or
\* the client has entered its world.
SendObject(o) ==
  /\ ~away
  /\ clock < MaxStamp
  /\ clock' = clock + 1
  /\ StartsSending([kind |-> "OBJECT", object |-> o, stamp |-> clock', age |-> state[o]])
  /\ UNCHANGED <<away, state>>

\* o is deleted, or hidden from the client.
SendGone(o) ==
  /\ clock < MaxStamp
  /\ clock' = clock + 1
  /\ state' = [state EXCEPT ![o] = clock']
  /\ StartsSending([kind |-> "GONE", object |-> o, stamp |-> clock', age |-> clock'])
  /\ UNCHANGED away

\* o changes while the client is in another world: nothing is sent to it.
ChangesUnseen(o) ==
  /\ MaySend
  /\ away
  /\ clock < MaxStamp
  /\ clock' = clock + 1
  /\ state' = [state EXCEPT ![o] = clock']
  /\ UNCHANGED <<slotVars, chanVars, writerVars, dropped, sending, away, histVars>>

\* o changes and the client may see it.
SendUpdate(o) ==
  /\ ~away
  /\ \/ /\ clock < MaxStamp
        /\ clock' = clock + 1
        /\ state' = [state EXCEPT ![o] = clock']
        /\ StartsSending([kind |-> "UPDATE", object |-> o, stamp |-> clock', age |-> clock'])
     \/ /\ "UPDATE" \in Endless
        /\ StartsSending([kind |-> "UPDATE", object |-> o, stamp |-> 0, age |-> 0])
        /\ UNCHANGED <<clock, state>>
  /\ UNCHANGED away

SendTime ==
  /\ \/ /\ clock < MaxStamp
        /\ clock' = clock + 1
        /\ StartsSending([kind |-> "TIME", object |-> None, stamp |-> clock', age |-> clock'])
     \/ /\ "TIME" \in Endless
        /\ StartsSending([kind |-> "TIME", object |-> None, stamp |-> 0, age |-> 0])
        /\ UNCHANGED clock
  /\ UNCHANGED <<away, state>>

\* The main loop drops the Client, and its end of the channel with it.
DropClient ==
  /\ MaySend
  /\ dropped' = TRUE
  /\ UNCHANGED <<slotVars, chanVars, writerVars, sending, away, clock, state, histVars>>

-----------------------------------------------------------------------------
(* A spawned task runs: it takes a place, or gets in line, or gives up     *)
(* because the writer has left.                                            *)

TaskRuns(i) ==
  /\ \/ /\ at = "done"
        /\ tasks[i].stage # "free"
        /\ tasks' = [tasks EXCEPT ![i] = FreeSlot]
        /\ waiters' = Without(waiters, i)
        /\ UNCHANGED queue
     \/ /\ at # "done"
        /\ tasks[i].stage = "granted" \/ (tasks[i].stage = "spawned" /\ Room > 0)
        /\ queue' = Append(queue, tasks[i].packet)
        /\ tasks' = [tasks EXCEPT ![i] = FreeSlot]
        /\ UNCHANGED waiters
     \/ /\ at # "done"
        /\ tasks[i].stage = "spawned"
        /\ Room = 0
        /\ tasks' = [tasks EXCEPT ![i].stage = "waiting"]
        /\ waiters' = Append(waiters, i)
        /\ UNCHANGED queue
  /\ UNCHANGED <<slotVars, writerVars, sendVars, histVars>>

-----------------------------------------------------------------------------
(* The writer: writer_loop from the head of its loop. *)

Write(p) ==
  /\ writing' = p
  /\ at' = "write"

WriterTakesTime ==
  /\ at = "time"
  /\ IF time # NoPacket
     THEN Write(time) /\ time' = NoPacket
     ELSE at' = "fifo" /\ UNCHANGED <<time, writing>>
  /\ UNCHANGED <<timePermit, order, pending, updPermit, chanVars, rxClosed, failed,
                 sendVars, histVars>>

\* try_recv
WriterTriesFifo ==
  /\ at = "fifo"
  /\ \/ /\ ~rxClosed
        /\ Recv
        /\ Write(Head(queue))
        /\ UNCHANGED rxClosed
     \/ /\ rxClosed \/ queue = <<>>
        /\ rxClosed' = (rxClosed \/ Disconnected)
        /\ at' = "updates"
        /\ UNCHANGED <<chanVars, writing>>
  /\ UNCHANGED <<slotVars, failed, sendVars, histVars>>

\* LatestObjectUpdates::take_next: the first in line that is still pending.
Live(q) == {k \in 1 .. Len(q) : pending[q[k]] # NoPacket}

WriterTakesUpdate ==
  /\ at = "updates"
  /\ \E k \in Live(order) :
       /\ \A j \in Live(order) : k <= j
       /\ order' = SubSeq(order, k + 1, Len(order))
       /\ pending' = [pending EXCEPT ![order[k]] = NoPacket]
       /\ Write(pending[order[k]])
  /\ UNCHANGED <<time, timePermit, updPermit, chanVars, rxClosed, failed, sendVars, histVars>>

\* Nothing to send: the end, if there will be nothing any more, or a rest.
WriterRests ==
  /\ at = "updates"
  /\ Live(order) = {}
  /\ order' = <<>>
  /\ at' = IF rxClosed THEN "done" ELSE "select"
  /\ UNCHANGED <<time, timePermit, pending, updPermit, chanVars, writing, rxClosed, failed,
                 sendVars, histVars>>

\* The biased select!: the first of its branches that is ready.
WriterSelects ==
  /\ at = "select"
  /\ \/ /\ timePermit
        /\ timePermit' = FALSE
        /\ at' = "time"
        /\ UNCHANGED <<updPermit, chanVars, writing, rxClosed>>
     \/ /\ ~timePermit
        /\ Recv
        /\ Write(Head(queue))
        /\ UNCHANGED <<timePermit, updPermit, rxClosed>>
     \/ /\ ~timePermit
        /\ queue = <<>>
        /\ Disconnected
        /\ rxClosed' = TRUE
        /\ at' = "time"
        /\ UNCHANGED <<timePermit, updPermit, chanVars, writing>>
     \/ /\ ~timePermit
        /\ queue = <<>>
        /\ ~Disconnected
        /\ updPermit
        /\ updPermit' = FALSE
        /\ at' = "time"
        /\ UNCHANGED <<timePermit, chanVars, writing, rxClosed>>
  /\ UNCHANGED <<time, order, pending, failed, sendVars, histVars>>

Newer(a, b) == IF a > b THEN a ELSE b

\* write_all ends, well or badly.
WriteSucceeds ==
  /\ at = "write"
  /\ at' = "time"
  /\ writing' = NoPacket
  /\ owed' = owed \ (IF writing.kind \in ReliableKinds THEN {writing.stamp} ELSE {})
  /\ heard' = IF writing.kind \in {"OBJECT", "GONE"}
              THEN [heard EXCEPT ![writing.object][writing.kind] = Newer(@, writing.age)]
              ELSE heard
  /\ UNCHANGED <<slotVars, chanVars, rxClosed, failed, sendVars>>

WriteFails ==
  /\ at = "write"
  /\ at' = "done"
  /\ writing' = NoPacket
  /\ failed' = TRUE
  /\ queue' = <<>>
  /\ UNCHANGED <<slotVars, tasks, waiters, rxClosed, sendVars, histVars>>

Writer ==
  \/ WriterTakesTime
  \/ WriterTriesFifo
  \/ WriterTakesUpdate
  \/ WriterRests
  \/ WriterSelects
  \/ WriteSucceeds
  \/ WriteFails

Next ==
  \/ SendPlain
  \/ SwitchesWorld
  \/ SendTime
  \/ \E o \in Objects : SendObject(o) \/ SendGone(o) \/ ChangesUnseen(o) \/ SendUpdate(o)
  \/ EndsSending
  \/ DropClient
  \/ \E i \in Slots : TaskRuns(i)
  \/ Writer

Spec == Init /\ [][Next]_vars

(***************************************************************************)
(* Fairness: tokio runs every task that is ready, and a write to a socket  *)
(* ends, if only with an error.  Of the main loop it is assumed only that  *)
(* it comes back from a send: none of them waits for anything.             *)
(***************************************************************************)
FairSpec ==
  /\ Spec
  /\ WF_vars(Writer)
  /\ WF_vars(EndsSending)
  /\ \A i \in Slots : WF_vars(TaskRuns(i))

-----------------------------------------------------------------------------
(* Properties. *)

\* The line of objects is exactly the pending ones, each once, so that an
\* object waits its turn however often it is updated, removed and updated
\* again (the two halves of LatestObjectUpdates, client.rs:393).
LineIsPending ==
  /\ \A o \in Objects : pending[o] # NoPacket <=> \E k \in 1 .. Len(order) : order[k] = o
  /\ \A j, k \in 1 .. Len(order) : order[j] = order[k] => j = k

\* The writer never sleeps on something to send: a packet put in a slot after
\* the writer looked there leaves a permit that wakes it, as soon as the main
\* loop is done with that packet, and tasks in line have one before them that is
\* about to fill the channel (client.rs, the select! of writer_loop).
Asleep == at = "select" /\ ~timePermit /\ ~updPermit /\ queue = <<>> /\ ~Disconnected

NoLostWakeup ==
  Asleep => /\ time \in {NoPacket, sending}
            /\ \A o \in Objects : pending[o] \in {NoPacket, sending}
            /\ waiters # <<>> => InStage("granted") # {}

\* No reliable packet is lost on the way while writes succeed, not even when
\* the channel is full or the Client is dropped (the plan's "reliable events
\* are not lost"; send_reliable and the end of writer_loop).
Underway ==
  {queue[k].stamp : k \in 1 .. Len(queue)} \cup {tasks[i].packet.stamp : i \in Slots}
    \cup (IF writing.kind \in ReliableKinds THEN {writing.stamp} ELSE {})

NothingReliableLost == ~failed => owed = Underway \ {0}

\* A writer that leaves without an error leaves neither reliable packets nor
\* updates behind: those sent just before the Client was dropped get through,
\* whether they were in the channel, with a task or in a slot (client.rs, the
\* end of writer_loop).  A SERVER_TIME may stay behind: the writer looks for one
\* before it learns that the channel is closed.
NothingLeftBehind ==
  at = "done" /\ ~failed =>
    /\ queue = <<>> /\ owed = {}
    /\ \A o \in Objects : pending[o] = NoPacket

\* The client never gets an update of an object that is older than the news
\* that the object is gone (client.rs:68, remove_latest_object_update racing
\* the writer), whatever becomes of the order of reliable packets.
NoUpdateAfterGone ==
  at = "write" /\ writing.kind = "UPDATE" /\ writing.age # 0 =>
    heard[writing.object]["GONE"] < writing.age

\* Reliable packets arrive in the order they were sent in.
ReliableInOrder == [][\A s \in owed \ owed' : \A t \in owed : s <= t]_vars

\* An update that is pending gives way to a newer state of the same object: the
\* client never gets an update older than a state it has.
NewestUpdateOnly ==
  at = "write" /\ writing.kind = "UPDATE" /\ writing.age # 0 =>
    heard[writing.object]["OBJECT"] <= writing.age

\* Every reliable packet is written at last, unless a write fails.
ReliableWritten == \A s \in Stamps : s \in owed ~> s \notin owed \/ failed

\* Every object that has an update pending gets its turn.
UpdatesWritten ==
  \A o \in Objects : pending[o] # NoPacket ~> pending[o] = NoPacket \/ failed
=============================================================================
