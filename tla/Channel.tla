------------------------------- MODULE Channel -------------------------------
(***************************************************************************)
(* What a transport between two processes promises to those who use it     *)
(* (Rpc.h, Xprt.h, mcast.h): messages arrive whole. Over a connection they *)
(* arrive once, in the order in which they were sent, and all of them as   *)
(* long as the connection isn't lost; multicast, they may be lost,         *)
(* duplicated and reordered.                                               *)
(***************************************************************************)
EXTENDS Sequences, SequencesExt

CONSTANT Writers  \* Threads that write to the transport

VARIABLES
  ordered,  \* Is this a connection?
  todo,     \* Messages that each writer has still to send
  sent,     \* Messages in the order of their sending
  rcvd,     \* Messages handed to the receiver
  lost,     \* Is the connection lost, or the receiver told to stop?
  open      \* Does the receiver go on receiving?

vars == <<ordered, todo, sent, rcvd, lost, open>>

Init ==
  /\ ordered \in BOOLEAN
  /\ sent = <<>> /\ rcvd = <<>> /\ lost = FALSE /\ open = TRUE

Send(w) ==
  /\ todo[w] # <<>>
  /\ sent' = Append(sent, Head(todo[w]))
  /\ todo' = [todo EXCEPT ![w] = Tail(@)]
  /\ UNCHANGED <<ordered, rcvd, lost, open>>

\* The receiver gets the next message, or any if there's no order.
Receive ==
  /\ open
  /\ \E i \in DOMAIN sent :
       /\ ordered => i = Len(rcvd) + 1
       /\ rcvd' = Append(rcvd, sent[i])
  /\ UNCHANGED <<ordered, todo, sent, lost, open>>

\* The connection is lost, or the receiver told to stop.
Lose == ~lost /\ lost' = TRUE /\ UNCHANGED <<ordered, todo, sent, rcvd, open>>

\* A writer gives up. Over a connection, only when that was lost.
GiveUp(w) ==
  /\ ordered => lost
  /\ todo' = [todo EXCEPT ![w] = <<>>]
  /\ UNCHANGED <<ordered, sent, rcvd, lost, open>>

\* The receiver stops only then.
Stop == lost /\ open' = FALSE /\ UNCHANGED <<ordered, todo, sent, rcvd, lost>>

Next ==
  \/ \E w \in Writers : Send(w) \/ GiveUp(w)
  \/ Receive \/ Lose \/ Stop

\* What was sent over a connection arrives unless the connection is lost, and
\* the receiver finds out if it is.
Spec ==
  /\ Init /\ [][Next]_vars
  /\ WF_vars(Receive /\ ordered /\ ~lost)
  /\ WF_vars(Stop /\ open)
=============================================================================
