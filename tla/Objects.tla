------------------------------ MODULE Objects -------------------------------
(***************************************************************************)
(* One object of each kind in turn, used by the same threads: kind says    *)
(* which one a behaviour is about, and the others keep their first state.  *)
(***************************************************************************)
EXTENDS Event, Mailbox, MessageQueue, MemPool

CONSTANT Kinds \* the kinds of object to look at

ASSUME ObjectsAssumption == Kinds \subseteq Kind

vars == <<k, pc, object, ev, mb, mq, mp>>

Init ==
  /\ \E c \in Kinds : ObjectInit(c)
  /\ ev = {}
  /\ MailboxStart /\ QueueStart /\ PoolStart

Next ==
  \/ kind = "event" /\ EventNext /\ UNCHANGED <<mb, mq, mp>>
  \/ kind = "mailbox" /\ MailboxNext /\ UNCHANGED <<ev, mq, mp>>
  \/ kind = "queue" /\ QueueNext /\ UNCHANGED <<ev, mb, mp>>
  \/ kind = "pool" /\ PoolNext /\ UNCHANGED <<ev, mb, mq>>
  \/ k.astray /\ UNCHANGED vars

Spec == Init /\ [][Next]_vars

(* Every variable has its type, whatever the kind of the object. *)
TypeOK ==
  CASE kind = "event" -> EventTypeOK
    [] kind = "mailbox" -> MailboxTypeOK
    [] kind = "queue" -> QueueTypeOK
    [] kind = "pool" -> PoolTypeOK

(* No lost wake-up in a mailbox (receivers and senders) and a message      *)
(* queue: a thread waits only while every message, or free place, has a    *)
(* woken thread on its way, whoever overtakes it.                          *)
NoLostWakeup == MailServed /\ LetterServed

=============================================================================
