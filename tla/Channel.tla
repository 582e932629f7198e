------------------------------- MODULE Channel ------------------------------
(***************************************************************************)
(* What a mailbox, a message queue and the receive buffer of a serial line *)
(* promise: a bounded queue of messages.  A message is accepted once, is   *)
(* received by one thread, and is handed over as it was sent, in the order *)
(* of the queue.                                                           *)
(***************************************************************************)
EXTENDS Naturals, Sequences

CONSTANTS Thread, Message, NoMessage, Size

VARIABLES queue, \* the messages sent and not received
          hand   \* the message a thread has received and not returned with

Init == queue = <<>> /\ hand = [t \in Thread |-> NoMessage]

Put(m) == Len(queue) < Size /\ queue' = Append(queue, m) /\ UNCHANGED hand

(* A full queue forgets its oldest message. *)
PutOver(m) ==
  /\ queue' = Append(IF Len(queue) < Size THEN queue ELSE Tail(queue), m)
  /\ UNCHANGED hand

PutFirst(m) == Len(queue) < Size /\ queue' = <<m>> \o queue /\ UNCHANGED hand

Take(t) ==
  /\ queue # <<>> /\ hand[t] = NoMessage
  /\ hand' = [hand EXCEPT ![t] = Head(queue)]
  /\ queue' = Tail(queue)

Deliver(t) ==
  /\ hand[t] # NoMessage
  /\ hand' = [hand EXCEPT ![t] = NoMessage]
  /\ UNCHANGED queue

Clear == queue' = <<>> /\ UNCHANGED hand

Fifo ==
  \/ \E m \in Message : Put(m)
  \/ \E t \in Thread : Take(t) \/ Deliver(t)
  \/ Clear

FifoSpec == Init /\ [][Fifo]_<<queue, hand>>

(* ... with urgent messages, which go to the front. *)
UrgentSpec == Init /\ [][Fifo \/ \E m \in Message : PutFirst(m)]_<<queue, hand>>

(* ... for a sender that cannot wait. *)
LossySpec ==
  /\ Init
  /\ [][ \/ \E m \in Message : PutOver(m)
         \/ \E t \in Thread : Take(t) \/ Deliver(t) ]_<<queue, hand>>

=============================================================================
