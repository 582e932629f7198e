----------------------------- MODULE Semaphore ------------------------------
(***************************************************************************)
(* A semaphore (the rt_sem calls of ipc.c): threads take it, with or       *)
(* without a waiting time, threads and interrupt handlers release it, it   *)
(* is reset, and detached or deleted while threads may wait on it.         *)
(***************************************************************************)
EXTENDS IpcThreads

CONSTANTS VALUE_WIDTH, \* bits of rt_semaphore.value
          MaxValue,    \* bound: a release happens while value is below it
          sem          \* its suspend_thread list

ASSUME SemaphoreAssumption ==
  /\ VALUE_WIDTH \in Nat \ {0} /\ 2 ^ VALUE_WIDTH \in Nat \ {0}
  /\ MaxValue \in Nat
  /\ WaitList = {sem}
  /\ Relaxed = {}

VARIABLES value,  \* sem->value
          flag,   \* sem->parent.parent.flag
          live,   \* the object is initialised
          handed  \* history: the threads a release has handed its permit to and
                  \* that have not returned from rt_sem_take yet

own == <<value, flag, live, handed>>
vars == <<k, pc, value, flag, live, handed>>

(* What is left of a number in sem->value. *)
Stored(v) == v % 2 ^ VALUE_WIDTH

Init ==
  /\ KernelInit
  /\ value \in {Stored(v) : v \in 0 .. MaxValue} /\ flag \in {"FIFO", "PRIO"}
  /\ live = TRUE /\ handed = {}

(* The one rule of use: a semaphore is used between initialisation and     *)
(* detach, and from the first step of its detach by nobody else.           *)
Detaching == \E t \in Thread : pc[t].op \in {"detach", "rouse"}

Usable == live /\ ~Detaching

(* Mutant: takes a permit that is not there. *)
TakeUnchecked(time) ==
  /\ Calls /\ Usable
  /\ value' = value - 1
  /\ UNCHANGED <<k, pc, flag, live, handed>>

rt_sem_take(time) ==
  /\ Calls /\ Usable
  /\ \/ /\ value > 0
        /\ value' = value - 1
        /\ UNCHANGED <<k, pc>>
     \/ /\ value = 0 /\ time # "none"
        /\ k' = Block(k, sem, flag, time)
        /\ Goto("block", sem)
        /\ UNCHANGED value
  /\ UNCHANGED <<flag, live, handed>>

(* The end of rt_sem_take after a wait: it returns thread->error. *)
TakeReturn ==
  /\ At("woken") /\ pc[me].on = {sem}
  /\ handed' = handed \ {me}
  /\ Return
  /\ UNCHANGED <<k, value, flag, live>>

(* rt_sem_release up to its rt_schedule: the first waiter gets the permit, *)
(* or else the value goes up.                                              *)
ReleasePermit(x) ==
  IF k.wait[sem] # <<>>
  THEN /\ k' = x
       /\ handed' = handed \cup {FirstThread(k.wait[sem])}
       /\ UNCHANGED value
  ELSE /\ value < MaxValue
       /\ value' = Stored(value + 1)
       /\ UNCHANGED <<k, handed>>

(* Mutant: wakes a thread and does not schedule. *)
ReleaseWithoutSchedule ==
  /\ Calls /\ Usable
  /\ ReleasePermit(rt_ipc_list_resume(k, sem))
  /\ UNCHANGED <<pc, flag, live>>

rt_sem_release ==
  /\ Calls /\ Usable
  /\ ReleasePermit(rt_ipc_list_resume(k, sem))
  /\ IF k.wait[sem] # <<>> THEN Goto("sched", sem) ELSE UNCHANGED pc
  /\ UNCHANGED <<flag, live>>

(* The same call in an interrupt handler; handlers do not nest. *)
ReleaseInHandler ==
  /\ k.isr /\ Usable
  /\ ReleasePermit(rt_schedule(rt_ipc_list_resume(k, sem)))
  /\ UNCHANGED <<pc, flag, live>>

(* Mutant: sets the value under the feet of the waiters. *)
ResetLeavesWaiters(v) ==
  /\ Calls /\ Usable
  /\ value' = Stored(v)
  /\ Goto("sched", sem)
  /\ UNCHANGED <<k, flag, live, handed>>

(* rt_sem_control(RT_IPC_CMD_RESET) *)
rt_sem_control(v) ==
  /\ Calls /\ Usable
  /\ k' = rt_ipc_list_resume_all(k, sem)
  /\ value' = Stored(v)
  /\ Goto("sched", sem)
  /\ UNCHANGED <<flag, live, handed>>

(* rt_sem_detach and rt_sem_delete *)
rt_sem_detach ==
  /\ Calls /\ Usable
  /\ Goto("detach", sem)
  /\ UNCHANGED <<k, own>>

DetachLoop ==
  /\ DetachTest(sem) \/ DetachBody(sem)
  /\ UNCHANGED own

DetachObject ==
  /\ DetachEnd(sem)
  /\ live' = FALSE
  /\ UNCHANGED <<value, flag, handed>>

(* rt_sem_init and rt_sem_create *)
rt_sem_init(v, f) ==
  /\ Calls /\ ~live
  /\ value' = Stored(v) /\ flag' = f /\ live' = TRUE
  /\ UNCHANGED <<k, pc, handed>>

CallEnd == (BlockSchedule \/ Schedule \/ SleepReturn) /\ UNCHANGED own

Sleep == rt_thread_sleep /\ UNCHANGED own

Interrupt ==
  \/ (Tick \/ TickEnd) /\ UNCHANGED own
  \/ ReleaseInHandler

Expire(t) == Timeout(t) /\ UNCHANGED own

Next ==
  \/ \E time \in Time : rt_sem_take(time)
  \/ TakeReturn \/ rt_sem_release \/ Sleep \/ CallEnd
  \/ \E v \in 0 .. MaxValue :
       rt_sem_control(v) \/ \E f \in {"FIFO", "PRIO"} : rt_sem_init(v, f)
  \/ rt_sem_detach \/ DetachLoop \/ DetachObject
  \/ Interrupt
  \/ \E t \in Thread : Expire(t)
  \/ k.astray /\ UNCHANGED vars

(* Interrupts return, ticks keep coming and every running timer expires; a *)
(* thread on the processor gets on with the call it is in.                 *)
Fairness ==
  /\ WF_vars(Tick /\ UNCHANGED own) /\ WF_vars(TickEnd /\ UNCHANGED own)
  /\ \A t \in Thread :
       /\ SF_vars(Expire(t))
       /\ SF_vars(me = t /\ (TakeReturn \/ CallEnd \/ DetachLoop \/ DetachObject))

Spec == Init /\ [][Next]_vars /\ Fairness
-----------------------------------------------------------------------------
(* Properties *)

(* Every variable has its type. *)
TypeOK ==
  /\ IpcTypeOK
  /\ value \in 0 .. 2 ^ VALUE_WIDTH - 1 /\ flag \in {"FIFO", "PRIO"}
  /\ live \in BOOLEAN /\ handed \subseteq Thread

(* No lost wake-up: nobody waits on a semaphore that has a permit left,    *)
(* and nobody waits on one that is gone.                                   *)
NoLostWakeup == value > 0 \/ ~live => k.wait[sem] = <<>> \/ Detaching

(* A permit handed to a waiter is received, and no other waiter returns    *)
(* success: rt_sem_take returns RT_EOK after a wait exactly when a release *)
(* chose the thread, although a timeout, a reset or a detach may follow    *)
(* the release before the thread runs again.                               *)
PermitDelivered ==
  /\ \A t \in Thread : Inside(t, sem) =>
       IF In(t, k.wait[sem]) THEN t \notin handed ELSE t \in handed <=> k.error[t] = "EOK"
  /\ \A t \in handed : Inside(t, sem)

(* RT_IPC_FLAG_PRIO: the waiter of the highest priority is first in line. *)
PriorityOrder ==
  flag = "PRIO" => \A i, j \in DOMAIN k.wait[sem] :
                     i < j => k.prio[k.wait[sem][i]] <= k.prio[k.wait[sem][j]]

(* Full preemption: application code never runs while a thread of higher   *)
(* priority is READY, but for the ones a detach has woken (it does not     *)
(* schedule).                                                              *)
Preemptive == Preempts({t \in Thread : k.error[t] # "ERROR"})

(* The body of the loop in rt_ipc_list_resume_all takes the first thread   *)
(* of a list that it found non-empty with interrupts enabled (its comment: *)
(* "get next suspend thread"): there still is one.                         *)
RouseFindsThread == \A t \in Thread : pc[t].op = "rouse" => k.wait[sem] # <<>>

(* A waiter with a waiting time does not wait for ever. *)
TimedWaitEnds ==
  \A t \in Thread \ {Idle} : (In(t, k.wait[sem]) /\ t \in k.timer) ~> ~In(t, k.wait[sem])

(* RT_IPC_FLAG_FIFO starves nobody: if permits keep being handed over,     *)
(* every waiter leaves the list.                                           *)
FifoService ==
  ([](flag = "FIFO") /\ []<><<handed' \ handed # {}>>_vars) =>
    \A t \in Thread \ {Idle} : In(t, k.wait[sem]) ~> ~In(t, k.wait[sem])

=============================================================================
