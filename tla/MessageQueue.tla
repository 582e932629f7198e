---------------------------- MODULE MessageQueue ----------------------------
(***************************************************************************)
(* A message queue (the rt_mq calls of ipc.c).  Messages are copied into   *)
(* and out of buffers with interrupts enabled: a send takes a buffer from  *)
(* the free list in one section and links it in another, a receive unlinks *)
(* it in one section and frees it in another.  Buffers are linked by       *)
(* pointers, as in the code; 0 is RT_NULL.                                 *)
(***************************************************************************)
EXTENDS IpcObject

CONSTANTS MQ_MSGS, \* mq->max_msgs
          Letter   \* the messages that are sent; all fit into msg_size

ASSUME MessageQueueAssumption ==
  MQ_MSGS \in Nat \ {0} /\ Letter # {} /\ NoData \notin Letter

VARIABLE mq \* head, tail, free (msg_queue_head, _tail, _free), entry, next and
            \* data of every buffer, and hold: the buffer (local variable msg)
            \* a thread has in hand between the two sections of its call

queueVars == <<k, pc, object, mq>>

Buffer == 1 .. MQ_MSGS

NULL == 0

(* rt_mq_init, rt_mq_create: the last buffer is the first free one. *)
FreshQueue(data, hold) ==
  [ head |-> NULL, tail |-> NULL, free |-> MQ_MSGS, entry |-> 0,
    next |-> [b \in Buffer |-> b - 1], data |-> data, hold |-> hold ]

QueueStart ==
  mq = FreshQueue([b \in Buffer |-> CHOOSE m \in Letter : TRUE], [t \in Thread |-> NULL])

rt_mq_init == InitObject /\ mq' = FreshQueue(mq.data, mq.hold)

(* Mutant: leaves the buffer on the free list. *)
TakeBufferShared(q, t) == [q EXCEPT !.hold[t] = q.free]

(* The first section of rt_mq_send and rt_mq_urgent, past the full check. *)
TakeBuffer(q, t) == [q EXCEPT !.hold[t] = q.free, !.free = q.next[q.free]]

(* Mutant: copies the message into the first buffer of the queue. *)
LinkLastOver(q, b, m) ==
  [q EXCEPT !.data[IF q.head = NULL THEN b ELSE q.head] = m,
            !.next = [n \in Buffer |-> IF n = b THEN NULL
                                       ELSE IF n = q.tail THEN b ELSE q.next[n]],
            !.tail = b,
            !.head = IF q.head = NULL THEN b ELSE q.head,
            !.entry = @ + 1]

(* The copy and the second section of rt_mq_send, and of rt_mq_urgent. *)
LinkLast(q, b, m) ==
  [q EXCEPT !.data[b] = m,
            !.next = [n \in Buffer |-> IF n = b THEN NULL
                                       ELSE IF n = q.tail THEN b ELSE q.next[n]],
            !.tail = b,
            !.head = IF q.head = NULL THEN b ELSE q.head,
            !.entry = @ + 1]

LinkFirst(q, b, m) ==
  [q EXCEPT !.data[b] = m, !.next[b] = q.head, !.head = b,
            !.tail = IF q.tail = NULL THEN b ELSE q.tail,
            !.entry = @ + 1]

(* Off the queue, and onto the free list. *)
Unlinked(q) ==
  [q EXCEPT !.head = q.next[q.head], !.tail = IF q.tail = q.head THEN NULL ELSE q.tail]

Freed(q, b) == [q EXCEPT !.next[b] = q.free, !.free = b]

(* rt_mq_send ("fill") and rt_mq_urgent ("urge") *)
rt_mq_send(m, op) ==
  /\ Calls /\ Usable
  /\ mq.free # NULL
  /\ mq' = TakeBuffer(mq, me)
  /\ Goto(op, receivers) /\ Enter("none", m)
  /\ UNCHANGED <<k, kept>>

SendLink ==
  /\ At("fill") \/ At("urge")
  /\ LET q == [mq EXCEPT !.hold[me] = NULL]
     IN  mq' = IF At("fill") THEN LinkLast(q, mq.hold[me], arg[me].data)
               ELSE LinkFirst(q, mq.hold[me], arg[me].data)
  /\ WakeOne(receivers, "run") /\ Leave
  /\ UNCHANGED kept

(* Either call in an interrupt handler. *)
SendLetterInHandler(m) ==
  /\ k.isr /\ Usable /\ mq.free # NULL
  /\ LET q == [mq EXCEPT !.free = mq.next[mq.free]]
     IN  mq' \in {LinkLast(q, mq.free, m), LinkFirst(q, mq.free, m)}
  /\ k' = IF k.wait[receivers] # <<>> THEN rt_schedule(rt_ipc_list_resume(k, receivers))
          ELSE k
  /\ UNCHANGED <<pc, object>>

(* From the test of the loop in rt_mq_recv to the end of its section. *)
RecvLetter(time) ==
  \/ /\ mq.entry = 0 /\ time = "none"
     /\ k' = IF At("woken") THEN [k EXCEPT !.error[me] = "ETIMEOUT"] ELSE k
     /\ Return /\ Leave
     /\ UNCHANGED mq
  \/ /\ mq.entry = 0 /\ time # "none"
     /\ k' = Block(k, receivers, flag, time)
     /\ Goto("block", receivers) /\ Enter(time, NoData)
     /\ UNCHANGED mq
  \/ /\ mq.entry # 0
     /\ mq' = [Unlinked(mq) EXCEPT !.hold[me] = mq.head, !.entry = @ - 1]
     /\ Goto("leave", receivers) /\ Leave
     /\ UNCHANGED k

rt_mq_recv(time) ==
  /\ Calls /\ Usable
  /\ RecvLetter(time)
  /\ UNCHANGED kept

RecvLetterAgain ==
  /\ At("woken") /\ pc[me].on = {receivers} /\ k.error[me] = "EOK"
  /\ \E time \in Remaining(arg[me].time) : RecvLetter(time)
  /\ UNCHANGED kept

(* The copy and the second section of rt_mq_recv. *)
RecvFree ==
  /\ At("leave")
  /\ mq' = Freed([mq EXCEPT !.hold[me] = NULL], mq.hold[me])
  /\ Return
  /\ UNCHANGED <<k, object>>

(* rt_mq_control(RT_IPC_CMD_RESET): every queued buffer becomes free. *)
ReleaseAll(q) ==
  LET F[n \in 0 .. MQ_MSGS] ==
        IF n = 0 THEN q
        ELSE IF F[n - 1].head = NULL THEN F[n - 1]
        ELSE Freed(Unlinked(F[n - 1]), F[n - 1].head)
  IN  [F[MQ_MSGS] EXCEPT !.entry = 0]

rt_mq_control ==
  /\ Calls /\ Usable
  /\ k' = rt_ipc_list_resume_all(k, receivers)
  /\ mq' = ReleaseAll(mq)
  /\ Goto("sched", receivers)
  /\ UNCHANGED object

(* rt_mq_detach, rt_mq_delete *)
rt_mq_detach ==
  /\ Detach(receivers) \/ DetachLoop(receivers) \/ DetachObject(receivers)
  /\ UNCHANGED mq

QueueInit == ObjectInit("queue") /\ QueueStart

QueueNext ==
  \/ \E m \in Letter :
       \/ rt_mq_send(m, "fill") \/ rt_mq_send(m, "urge")
       \/ SendLetterInHandler(m)
  \/ \E time \in Time : rt_mq_recv(time)
  \/ SendLink \/ RecvLetterAgain \/ RecvFree
  \/ rt_mq_control \/ rt_mq_detach \/ rt_mq_init
  \/ (ObjectCall \/ WaitFails(receivers) \/ (Schedule /\ UNCHANGED object)) /\ UNCHANGED mq

QueueSpec == QueueInit /\ [][QueueNext]_queueVars
-----------------------------------------------------------------------------
QueueTypeOK ==
  /\ ObjectTypeOK(Letter)
  /\ mq \in [ head : Buffer \cup {NULL}, tail : Buffer \cup {NULL},
              free : Buffer \cup {NULL}, entry : 0 .. MQ_MSGS,
              next : [Buffer -> Buffer \cup {NULL}], data : [Buffer -> Letter],
              hold : [Thread -> Buffer \cup {NULL}] ]

(* The buffers linked from b on; a chain that does not end is cut. *)
Chain(b) ==
  LET F[n \in 0 .. MQ_MSGS] ==
        IF n = 0 \/ b = NULL THEN <<>>
        ELSE IF n = 1 THEN <<b>>
        ELSE LET s == F[n - 1]
                 c == mq.next[s[Len(s)]]
             IN  IF Len(s) < n - 1 \/ c = NULL THEN s ELSE Append(s, c)
  IN  F[MQ_MSGS]

(* Every buffer is in exactly one place: on the free list, in the queue,   *)
(* or in the hands of one thread between its two sections.  The queue ends *)
(* at tail and entry counts it.                                            *)
BuffersAccounted ==
  LET queue == Chain(mq.head)
      free == Chain(mq.free)
      Here(b) == {x \in {<<"queue", i>> : i \in DOMAIN queue} : queue[x[2]] = b}
                 \cup {x \in {<<"free", i>> : i \in DOMAIN free} : free[x[2]] = b}
                 \cup {x \in {<<"hand", t>> : t \in Thread} : mq.hold[x[2]] = b}
  IN  /\ \A b \in Buffer : Cardinality(Here(b)) = 1
      /\ mq.entry = Len(queue)
      /\ mq.tail = IF queue = <<>> THEN NULL ELSE queue[Len(queue)]

LetterQueue == [i \in DOMAIN Chain(mq.head) |-> mq.data[Chain(mq.head)[i]]]

LetterInHand ==
  [t \in Thread |-> IF pc[t].op = "leave" /\ mq.hold[t] # NULL THEN mq.data[mq.hold[t]] ELSE NoData]

QueueChannel == INSTANCE Channel
  WITH Message <- Letter, NoMessage <- NoData, Size <- MQ_MSGS,
       queue <- LetterQueue, hand <- LetterInHand

(* A message queue is a channel with urgent messages, although messages    *)
(* are copied while other threads and handlers use the queue: no send      *)
(* writes to a buffer that is queued or being read.                        *)
QueueIsChannel == QueueChannel!UrgentSpec

(* No lost wake-up: see Served. *)
LetterServed == kind = "queue" => Served(mq.entry, receivers)

=============================================================================
