------------------------------- MODULE Mutex --------------------------------
(***************************************************************************)
(* Mutexes (the rt_mutex calls of ipc.c): recursive, handed over to the    *)
(* first waiter by the release, and with priority inheritance.  A mutex is *)
(* named by its suspend_thread list.  A mutex is detached only when nobody *)
(* holds it, and so nobody waits for it: then rt_mutex_detach and          *)
(* rt_mutex_delete change no thread.                                       *)
(***************************************************************************)
EXTENDS IpcThreads

CONSTANT MaxHold  \* bound on recursive takes

ASSUME MutexAssumption ==
  /\ MaxHold \in Nat \ {0}
  /\ Relaxed \subseteq {"nested", "fifo"}

VARIABLES mtx,  \* [WaitList -> value, owner, original_priority and hold]
          flag, \* the flag of every mutex
          held  \* history: how many takes of the mutex have returned RT_EOK to
                \* the thread and are not released yet

own == <<mtx, flag, held>>
vars == <<k, pc, mtx, flag, held>>

NO_PRIORITY == 255

Free == [value |-> 1, owner |-> NoThread, original_priority |-> NO_PRIORITY, hold |-> 0]

(* Rules of use under which the priority is inherited: the waiters queue   *)
(* by priority ("fifo"), and a thread takes one mutex at a time ("nested"). *)
Init ==
  /\ KernelInit
  /\ mtx = [m \in WaitList |-> Free]
  /\ flag \in {"PRIO"} \cup (IF "fifo" \in Relaxed THEN {"FIFO"} ELSE {})
  /\ held = [t \in Thread |-> [m \in WaitList |-> 0]]

MayTake(m) == "nested" \in Relaxed \/ \A n \in WaitList \ {m} : mtx[n].owner # me

Take(m, t, x) ==
  [mtx EXCEPT ![m].owner = t, ![m].original_priority = x.prio[t], ![m].hold = @ + 1]

(* Mutant: the owner keeps its priority. *)
NoInherit(m) == k

(* Raise the owner to the priority of the thread that is about to wait. *)
Inherit(m) ==
  IF k.prio[me] < k.prio[mtx[m].owner]
  THEN rt_thread_control(k, mtx[m].owner, k.prio[me])
  ELSE k

rt_mutex_take(m, time) ==
  /\ Calls /\ MayTake(m)
  /\ \/ /\ mtx[m].owner = me /\ mtx[m].hold < MaxHold
        /\ mtx' = [mtx EXCEPT ![m].hold = @ + 1]
        /\ held' = [held EXCEPT ![me][m] = @ + 1]
        /\ k' = [k EXCEPT !.error[me] = "EOK"]
        /\ UNCHANGED pc
     \/ /\ mtx[m].owner # me /\ mtx[m].value > 0
        /\ mtx' = [Take(m, me, k) EXCEPT ![m].value = @ - 1]
        /\ held' = [held EXCEPT ![me][m] = @ + 1]
        /\ k' = [k EXCEPT !.error[me] = "EOK"]
        /\ UNCHANGED pc
     \/ /\ mtx[m].owner # me /\ mtx[m].value = 0 /\ time = "none"
        /\ k' = [k EXCEPT !.error[me] = "ETIMEOUT"]
        /\ UNCHANGED <<pc, mtx, held>>
     \/ /\ mtx[m].owner # me /\ mtx[m].value = 0 /\ time # "none"
        /\ k' = Block(Inherit(m), m, flag, time)
        /\ Goto("block", m)
        /\ UNCHANGED <<mtx, held>>
  /\ UNCHANGED flag

(* Mutant: the error is not looked at after the wait. *)
ReturnOk(m) ==
  /\ At("woken") /\ pc[me].on = {m}
  /\ held' = [held EXCEPT ![me][m] = @ + 1]
  /\ Return
  /\ UNCHANGED <<k, mtx, flag>>

(* The end of rt_mutex_take after a wait. *)
TakeReturn(m) ==
  /\ At("woken") /\ pc[me].on = {m}
  /\ held' = IF k.error[me] = "EOK" THEN [held EXCEPT ![me][m] = @ + 1] ELSE held
  /\ Return
  /\ UNCHANGED <<k, mtx, flag>>

(* Mutant: the inherited priority stays. *)
NoRestore(m) == k

(* The owner goes back to the priority it had when it took the mutex. *)
Restore(m) ==
  IF mtx[m].original_priority # k.prio[me]
  THEN rt_thread_control(k, me, mtx[m].original_priority)
  ELSE k

(* rt_mutex_release by the owner: count down; at 0 hand the mutex over to  *)
(* the first waiter, with an rt_schedule to come, or free it, without one. *)
rt_mutex_release(m) ==
  /\ Calls
  /\ mtx[m].owner = me
  /\ held' = [held EXCEPT ![me][m] = @ - 1]
  /\ \/ /\ mtx[m].hold > 1
        /\ mtx' = [mtx EXCEPT ![m].hold = @ - 1]
        /\ UNCHANGED <<k, pc>>
     \/ /\ mtx[m].hold = 1 /\ k.wait[m] # <<>>
        /\ LET x == Restore(m)
           IN  /\ mtx' = [Take(m, x.wait[m][1], x) EXCEPT ![m].hold = 1]
               /\ k' = rt_ipc_list_resume(x, m)
        /\ Goto("sched", m)
     \/ /\ mtx[m].hold = 1 /\ k.wait[m] = <<>>
        /\ mtx' = [mtx EXCEPT ![m] = Free]
        /\ k' = Restore(m)
        /\ UNCHANGED pc
  /\ UNCHANGED flag

(* Mutant: no test of the owner. *)
AnyoneReleases(m) ==
  /\ Calls
  /\ mtx[m].owner # me
  /\ mtx' = [mtx EXCEPT ![m].hold = @ - 1]
  /\ UNCHANGED <<k, pc, flag, held>>

(* rt_mutex_release by any other thread fails. *)
ReleaseByOther(m) ==
  /\ Calls
  /\ mtx[m].owner # me
  /\ k' = [k EXCEPT !.error[me] = "ERROR"]
  /\ UNCHANGED <<pc, own>>

CallEnd == (BlockSchedule \/ Schedule \/ SleepReturn) /\ UNCHANGED own

Sleep == rt_thread_sleep /\ UNCHANGED own

Interrupt == (Tick \/ TickEnd) /\ UNCHANGED own

Expire(t) == Timeout(t) /\ UNCHANGED own

Next ==
  \/ \E m \in WaitList :
       \/ \E time \in Time : rt_mutex_take(m, time)
       \/ TakeReturn(m) \/ rt_mutex_release(m) \/ ReleaseByOther(m)
  \/ Sleep \/ CallEnd \/ Interrupt
  \/ \E t \in Thread : Expire(t)

Spec == Init /\ [][Next]_vars
-----------------------------------------------------------------------------
(* Properties *)

(* Every variable has its type. *)
TypeOK ==
  /\ IpcTypeOK
  /\ mtx \in [WaitList -> [value : {0, 1}, owner : Thread \cup {NoThread},
                           original_priority : Priority \cup {NO_PRIORITY},
                           hold : 0 .. MaxHold]]
  /\ flag \in {"FIFO", "PRIO"}
  /\ held \in [Thread -> [WaitList -> 0 .. MaxHold]]

(* Mutual exclusion as the callers see it: what a thread has taken and not *)
(* released, by the codes its calls returned, is what the mutex records of *)
(* its owner.  The one exception is a thread the mutex was handed to that  *)
(* has not run yet; it will return RT_EOK.                                 *)
MutualExclusion ==
  \A m \in WaitList : \A t \in Thread :
    IF mtx[m].owner = t
    THEN \/ held[t][m] = mtx[m].hold /\ held[t][m] > 0
         \/ held[t][m] = 0 /\ mtx[m].hold = 1 /\ Inside(t, m)
            /\ k.error[t] = "EOK" /\ ~In(t, k.wait[m])
    ELSE held[t][m] = 0

(* A mutex is free exactly when nobody owns it, and then nobody waits; no  *)
(* thread waits for itself, and a thread that has left the list of a mutex *)
(* without getting it returns an error.                                    *)
WaitOK ==
  \A m \in WaitList :
    /\ mtx[m].owner = NoThread <=> mtx[m].value = 1
    /\ mtx[m].owner = NoThread => mtx[m] = Free /\ k.wait[m] = <<>>
    /\ ~In(mtx[m].owner, k.wait[m])
    /\ \A t \in Thread : Inside(t, m) /\ ~In(t, k.wait[m]) =>
         (k.error[t] = "EOK" <=> mtx[m].owner = t)

(* Priority inheritance: the owner of a mutex never has a lower priority   *)
(* than a thread that waits for it.                                        *)
Inherited ==
  \A m \in WaitList : \A i \in DOMAIN k.wait[m] :
    k.prio[mtx[m].owner] <= k.prio[k.wait[m][i]]

(* Inheritance ends with the mutex: a thread that owns none has the        *)
(* priority it was created with.                                           *)
InheritanceEnds ==
  \A t \in Thread : (\A m \in WaitList : mtx[m].owner # t) => k.prio[t] = init_priority(t)

(* Full preemption: application code never runs while a thread of higher   *)
(* priority is READY.                                                      *)
Preemptive == Preempts(Thread)

=============================================================================
