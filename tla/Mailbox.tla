------------------------------ MODULE Mailbox -------------------------------
(***************************************************************************)
(* A mailbox (the rt_mb calls of ipc.c): a ring of messages, receivers     *)
(* that wait while it is empty and senders that wait while it is full.     *)
(* One waiter is woken per message or place; another thread may be faster, *)
(* and the waiter then waits again for the rest of its time.               *)
(***************************************************************************)
EXTENDS IpcObject

CONSTANTS MB_SIZE, \* mb->size
          Mail     \* the values that are sent

ASSUME MailboxAssumption ==
  MB_SIZE \in Nat \ {0} /\ Mail # {} /\ NoData \notin Mail

VARIABLE mb \* pool (msg_pool), entry, in (in_offset), out (out_offset), and
            \* hand: what *value holds when rt_mb_recv is about to return

mailboxVars == <<k, pc, object, mb>>

EmptyMailbox(b) == [b EXCEPT !.entry = 0, !.in = 0, !.out = 0]

(* rt_mb_init, rt_mb_create; what the pool holds before is never read. *)
MailboxStart ==
  mb = [pool |-> [i \in 0 .. MB_SIZE - 1 |-> CHOOSE m \in Mail : TRUE], entry |-> 0,
        in |-> 0, out |-> 0, hand |-> [t \in Thread |-> NoData]]

rt_mb_init == InitObject /\ mb' = EmptyMailbox(mb)

(* Mutant: writes to the oldest place. *)
StoreAtOut(b, m) ==
  [b EXCEPT !.pool[b.out] = m, !.in = (@ + 1) % MB_SIZE, !.entry = @ + 1]

Store(b, m) ==
  [b EXCEPT !.pool[b.in] = m,
            !.in = IF @ + 1 >= MB_SIZE THEN 0 ELSE @ + 1,
            !.entry = @ + 1]

Fetch(b) ==
  [b EXCEPT !.hand[me] = b.pool[b.out],
            !.out = IF @ + 1 >= MB_SIZE THEN 0 ELSE @ + 1,
            !.entry = @ - 1]

(* From the test of the loop in rt_mb_send_wait to the end of its section. *)
SendMail(m, time) ==
  \/ /\ mb.entry = MB_SIZE /\ time = "none"
     /\ Return /\ Leave
     /\ UNCHANGED <<k, mb>>
  \/ /\ mb.entry = MB_SIZE /\ time # "none"
     /\ k' = Block(k, senders, flag, time)
     /\ Goto("block", senders) /\ Enter(time, m)
     /\ UNCHANGED mb
  \/ /\ mb.entry # MB_SIZE
     /\ mb' = Store(mb, m)
     /\ WakeOne(receivers, "run") /\ Leave

(* rt_mb_send is the same with time = "none" *)
rt_mb_send_wait(m, time) ==
  /\ Calls /\ Usable
  /\ SendMail(m, time)
  /\ UNCHANGED kept

SendMailAgain ==
  /\ At("woken") /\ pc[me].on = {senders} /\ k.error[me] = "EOK"
  /\ \E time \in Remaining(arg[me].time) : SendMail(arg[me].data, time)
  /\ UNCHANGED kept

(* Mutant: wakes a receiver only if the mailbox was empty. *)
SendMailToEmpty(m) ==
  /\ k.isr /\ Usable /\ mb.entry # MB_SIZE
  /\ mb' = Store(mb, m)
  /\ k' = IF mb.entry = 0 /\ k.wait[receivers] # <<>>
          THEN rt_schedule(rt_ipc_list_resume(k, receivers)) ELSE k
  /\ UNCHANGED <<pc, object>>

(* rt_mb_send in an interrupt handler. *)
SendMailInHandler(m) ==
  /\ k.isr /\ Usable /\ mb.entry # MB_SIZE
  /\ mb' = Store(mb, m)
  /\ k' = IF k.wait[receivers] # <<>> THEN rt_schedule(rt_ipc_list_resume(k, receivers))
          ELSE k
  /\ UNCHANGED <<pc, object>>

(* The same for rt_mb_recv. *)
RecvMail(time) ==
  \/ /\ mb.entry = 0 /\ time = "none"
     /\ k' = IF At("woken") THEN [k EXCEPT !.error[me] = "ETIMEOUT"] ELSE k
     /\ Return /\ Leave
     /\ UNCHANGED mb
  \/ /\ mb.entry = 0 /\ time # "none"
     /\ k' = Block(k, receivers, flag, time)
     /\ Goto("block", receivers) /\ Enter(time, NoData)
     /\ UNCHANGED mb
  \/ /\ mb.entry # 0
     /\ mb' = Fetch(mb)
     /\ WakeOne(senders, "leave") /\ Leave

rt_mb_recv(time) ==
  /\ Calls /\ Usable
  /\ RecvMail(time)
  /\ UNCHANGED kept

(* Mutant: takes a message without a second look at the mailbox. *)
RecvMailUnchecked ==
  /\ At("woken") /\ pc[me].on = {receivers} /\ k.error[me] = "EOK"
  /\ mb' = Fetch(mb)
  /\ WakeOne(senders, "leave") /\ Leave
  /\ UNCHANGED kept

RecvMailAgain ==
  /\ At("woken") /\ pc[me].on = {receivers} /\ k.error[me] = "EOK"
  /\ \E time \in Remaining(arg[me].time) : RecvMail(time)
  /\ UNCHANGED kept

(* A call returns, after rt_schedule if it woke a thread. *)
MailReturn ==
  /\ Schedule \/ (At("leave") /\ Return /\ UNCHANGED k)
  /\ mb' = [mb EXCEPT !.hand[me] = NoData]
  /\ UNCHANGED object

(* rt_mb_control(RT_IPC_CMD_RESET) *)
rt_mb_control ==
  /\ Calls /\ Usable
  /\ k' = rt_ipc_list_resume_all(rt_ipc_list_resume_all(k, receivers), senders)
  /\ mb' = EmptyMailbox(mb)
  /\ Goto("sched", receivers)
  /\ UNCHANGED object

(* rt_mb_detach, rt_mb_delete: the receivers, then the senders. *)
rt_mb_detach ==
  /\ \/ Detach(receivers)
     \/ DetachLoop(receivers) \/ DetachLoop(senders)
     \/ /\ At("detach") /\ pc[me].on = {receivers} /\ k.wait[receivers] = <<>>
        /\ Goto("detach", senders)
        /\ UNCHANGED <<k, object>>
     \/ DetachObject(senders)
  /\ UNCHANGED mb

MailboxInit == ObjectInit("mailbox") /\ MailboxStart

MailboxNext ==
  \/ \E time \in Time : rt_mb_recv(time) \/ \E m \in Mail : rt_mb_send_wait(m, time)
  \/ SendMailAgain \/ RecvMailAgain \/ MailReturn
  \/ (WaitFails(receivers) \/ WaitFails(senders)) /\ UNCHANGED mb
  \/ \E m \in Mail : SendMailInHandler(m)
  \/ rt_mb_control \/ rt_mb_detach \/ rt_mb_init
  \/ ObjectCall /\ UNCHANGED mb

MailboxSpec == MailboxInit /\ [][MailboxNext]_mailboxVars
-----------------------------------------------------------------------------
MailboxTypeOK ==
  /\ ObjectTypeOK(Mail)
  /\ mb \in [ pool : [0 .. MB_SIZE - 1 -> Mail], entry : 0 .. MB_SIZE,
              in : 0 .. MB_SIZE - 1, out : 0 .. MB_SIZE - 1,
              hand : [Thread -> Mail \cup {NoData}] ]

(* The messages in the ring, oldest first. *)
MailQueue == [i \in 1 .. mb.entry |-> mb.pool[(mb.out + i - 1) % MB_SIZE]]

MailChannel == INSTANCE Channel
  WITH Message <- Mail, NoMessage <- NoData, Size <- MB_SIZE,
       queue <- MailQueue, hand <- mb.hand

(* A mailbox is a FIFO channel: whatever the interleaving of senders,      *)
(* receivers, handlers, timeouts and resets, every message accepted is     *)
(* received once, as it was sent and in order.                             *)
MailboxIsChannel == MailChannel!FifoSpec

(* No lost wake-up on either side of the mailbox. *)
MailServed ==
  kind = "mailbox" =>
    Served(mb.entry, receivers) /\ Served(MB_SIZE - mb.entry, senders)

=============================================================================
