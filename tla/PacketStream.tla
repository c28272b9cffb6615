---------------------------- MODULE PacketStream ----------------------------
(***************************************************************************)
(* What the task of a connection promises the main loop (client.rs, the    *)
(* messages MpscData it sends): one Authenticated before anything else, if *)
(* at all, then the packets of the client, each once and in the order they *)
(* were sent, and one Disconnected after everything else.                  *)
(***************************************************************************)
EXTENDS Naturals, Sequences, SequencesExt

CONSTANT Bodies   \* the packets clients send

VARIABLES
  sent,      \* the packets the client sent
  messages   \* what the main loop is sent

Authenticated == [kind |-> "Authenticated", packet |-> <<>>]
Disconnected  == [kind |-> "Disconnected", packet |-> <<>>]
Updated(p)    == [kind |-> "Updated", packet |-> p]

IsOpen(ms) == ms # <<>> /\ Last(ms) # Disconnected

\* The packets among the messages ms: all but the first and the closing one.
HandedOver(ms) ==
  LET lastUpdate == IF IsOpen(ms) THEN Len(ms) ELSE Len(ms) - 1
  IN  [i \in 1 .. lastUpdate - 1 |-> ms[i + 1].packet]

Init == sent = <<>> /\ messages = <<>>

Send ==
  /\ \E p \in Bodies : sent' = Append(sent, p)
  /\ UNCHANGED messages

Open ==
  /\ messages = <<>>
  /\ messages' = <<Authenticated>>
  /\ UNCHANGED sent

HandOver ==
  LET next == Len(HandedOver(messages)) + 1
  IN  /\ IsOpen(messages)
      /\ next <= Len(sent)
      /\ messages' = Append(messages, Updated(sent[next]))
      /\ UNCHANGED sent

Close ==
  /\ messages = <<>> \/ IsOpen(messages)
  /\ messages' = Append(messages, Disconnected)
  /\ UNCHANGED sent

Next == Send \/ Open \/ HandOver \/ Close

Spec == Init /\ [][Next]_<<sent, messages>>
=============================================================================
