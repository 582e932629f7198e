------------------------------ MODULE RtKernel ------------------------------
(***************************************************************************)
(* The scheduling core of the kernel (scheduler.c, thread.c, clock.c and   *)
(* the suspend lists at the top of ipc.c) as operators from kernel state   *)
(* to kernel state.  Every operator is one interrupt-disabled section of   *)
(* the function it is named after, so a component composes the calls of a  *)
(* handler by composing operators, and cuts the handler into steps exactly *)
(* where the code enables interrupts.                                      *)
(*                                                                         *)
(* A kernel state k is a record:                                           *)
(*   ready    rt_thread_priority_table: one list of threads per priority   *)
(*   group    rt_thread_ready_priority_group: the set of its 1 bits        *)
(*   wait     the suspend_thread list of every IPC object                  *)
(*   defunct  rt_thread_defunct                                            *)
(*   stat, prio, mask, error, slice                                        *)
(*            thread->stat, current_priority, number_mask (its 1 bits),    *)
(*            error, remaining_tick                                        *)
(*   timer    the threads whose thread_timer is activated                  *)
(*   current  rt_current_thread                                            *)
(*   nest     rt_scheduler_lock_nest                                       *)
(*   isr      TRUE inside the tick interrupt                               *)
(*   astray   TRUE once the code has followed a pointer to what is not     *)
(*            there: a list head taken for a thread, a null block.  What   *)
(*            it does then is undefined; a behaviour of the model ends.    *)
(*                                                                         *)
(* A list is a sequence.  When a timer of a thread expires is left open    *)
(* here: an activated timer may expire at any tick.                        *)
(***************************************************************************)
EXTENDS Integers, Sequences

CONSTANTS Thread,      \* the thread control blocks
          NoThread,    \* what rt_list_entry yields on an empty list
          WaitList,    \* the suspend lists of the IPC objects
          PRIORITY_MAX,\* RT_THREAD_PRIORITY_MAX
          INIT_TICK    \* the time slice of every thread, in ticks

ASSUME KernelAssumption ==
  /\ NoThread \notin Thread
  /\ PRIORITY_MAX \in Nat \ {0}
  /\ INIT_TICK \in Nat \ {0}

Priority == 0 .. PRIORITY_MAX - 1

Stat == {"INIT", "READY", "SUSPEND", "CLOSE", "FREE"}

Error == {"EOK", "ETIMEOUT", "ERROR"}

KernelState ==
  [ ready : [Priority -> Seq(Thread)], group : SUBSET Priority,
    wait : [WaitList -> Seq(Thread)], defunct : Seq(Thread),
    stat : [Thread -> Stat], prio : [Thread -> Priority],
    mask : [Thread -> SUBSET Priority], error : [Thread -> Error],
    slice : [Thread -> 1 .. INIT_TICK], timer : SUBSET Thread,
    current : Thread \cup {NoThread}, nest : Nat, isr : BOOLEAN,
    astray : BOOLEAN ]

(* The list s without t; a node is linked at most once in a list. *)
Without(s, t) ==
  IF \E i \in DOMAIN s : s[i] = t
  THEN LET i == CHOOSE i \in DOMAIN s : s[i] = t
       IN  [j \in 1 .. Len(s) - 1 |-> IF j < i THEN s[j] ELSE s[j + 1]]
  ELSE s

In(t, s) == \E i \in DOMAIN s : s[i] = t

-----------------------------------------------------------------------------
(* rtservice.h *)

(* rt_list_remove(&thread->tlist): out of whatever list the node is in. *)
rt_list_remove(k, t) ==
  [k EXCEPT !.ready = [p \in Priority |-> Without(k.ready[p], t)],
            !.wait = [w \in WaitList |-> Without(k.wait[w], t)],
            !.defunct = Without(k.defunct, t)]

(* rt_list_entry(l->next): an empty list yields no thread at all. *)
FirstThread(s) == IF s = <<>> THEN NoThread ELSE s[1]

(* No thread and no handler goes on. *)
Astray(k) == [k EXCEPT !.astray = TRUE, !.isr = FALSE]

-----------------------------------------------------------------------------
(* scheduler.c *)

(* rt_lowest_bitmap over the bytes of the group: the lowest 1 bit.  With   *)
(* no bit set the code goes on with some fixed priority (24, were there 32) *)
(* whose list is then as empty as any other.                               *)
HighestReady(group) ==
  IF group = {} THEN PRIORITY_MAX - 1
  ELSE CHOOSE p \in group : \A q \in group : p <= q

(* Mutant: forgets the scheduler lock. *)
ScheduleIgnoresLock(k) ==
  [k EXCEPT !.current = FirstThread(k.ready[HighestReady(k.group)])]

rt_schedule(k) ==
  IF k.nest # 0 THEN k
  ELSE [k EXCEPT !.current = FirstThread(k.ready[HighestReady(k.group)])]

rt_schedule_insert_thread(k, t) ==
  [k EXCEPT !.stat[t] = "READY",
            !.ready[k.prio[t]] = Append(k.ready[k.prio[t]], t),
            !.group = @ \cup k.mask[t]]

(* Mutant: clears the bit without looking whether the list is empty. *)
RemoveClearsBit(k, t) ==
  LET r == rt_list_remove(k, t) IN [r EXCEPT !.group = @ \ k.mask[t]]

rt_schedule_remove_thread(k, t) ==
  LET r == rt_list_remove(k, t)
  IN  [r EXCEPT !.group = IF r.ready[k.prio[t]] = <<>> THEN @ \ k.mask[t] ELSE @]

-----------------------------------------------------------------------------
(* thread.c *)

(* Past the READY check: mark, then leave the ready list. *)
rt_thread_suspend(k, t) ==
  rt_schedule_remove_thread([k EXCEPT !.stat[t] = "SUSPEND"], t)

(* Mutant: the timer keeps running. *)
UnlinkLeavesTimer(k, t) == rt_list_remove(k, t)

(* The first section of rt_thread_resume: off every list, timer stopped. *)
Unlink(k, t) == [rt_list_remove(k, t) EXCEPT !.timer = @ \ {t}]

(* The whole of rt_thread_resume, as it runs with interrupts disabled. *)
rt_thread_resume(k, t) ==
  IF k.stat[t] # "SUSPEND" THEN k
  ELSE rt_schedule_insert_thread(Unlink(k, t), t)

(* RT_THREAD_CTRL_CHANGE_PRIORITY *)
rt_thread_control(k, t, p) ==
  IF k.stat[t] = "READY"
  THEN rt_schedule_insert_thread(
         [rt_schedule_remove_thread(k, t) EXCEPT !.prio[t] = p, !.mask[t] = {p}], t)
  ELSE [k EXCEPT !.prio[t] = p, !.mask[t] = {p}]

(* The test of rt_thread_yield: READY, and not alone in its list. *)
Shares(k, t) ==
  k.stat[t] = "READY" /\ In(t, k.ready[k.prio[t]]) /\ Len(k.ready[k.prio[t]]) > 1

(* rt_thread_yield past its test: to the end of the list; rt_schedule follows. *)
Requeue(k, t) ==
  LET r == rt_list_remove(k, t)
  IN  [r EXCEPT !.ready[k.prio[t]] = Append(r.ready[k.prio[t]], t)]

(* Mutants: the timer is not deactivated; the thread stays on the list it  *)
(* waits on.                                                               *)
TimeoutKeepsTimer(k, t) ==
  rt_schedule(rt_schedule_insert_thread(
    rt_list_remove([k EXCEPT !.error[t] = "ETIMEOUT"], t), t))

TimeoutKeepsList(k, t) ==
  rt_schedule(rt_schedule_insert_thread(
    [k EXCEPT !.timer = @ \ {t}, !.error[t] = "ETIMEOUT"], t))

(* rt_thread_timeout, after rt_timer_check has unlinked the timer. *)
rt_thread_timeout(k, t) ==
  rt_schedule(rt_schedule_insert_thread(
    rt_list_remove([k EXCEPT !.timer = @ \ {t}, !.error[t] = "ETIMEOUT"], t), t))

-----------------------------------------------------------------------------
(* Mutant: renews the slice and never yields. *)
TickNeverYields(k) ==
  [k EXCEPT !.slice[k.current] = IF @ > 1 THEN @ - 1 ELSE INIT_TICK]

(* clock.c: the time slice part of rt_tick_increase; rt_timer_check follows *)
(* as rt_thread_timeout for each timer that is due.                         *)
rt_tick_increase(k) ==
  LET t == k.current
  IN  IF k.slice[t] > 1 THEN [k EXCEPT !.slice[t] = @ - 1]
      ELSE LET y == [k EXCEPT !.slice[t] = INIT_TICK]
           IN  IF Shares(k, t) THEN rt_schedule(Requeue(y, t)) ELSE y

-----------------------------------------------------------------------------
(* ipc.c *)

(* s with t before the first thread of a lower priority, else at the end. *)
InsertByPriority(s, t, prio) ==
  LET Later(i) == \E j \in 1 .. i : prio[t] < prio[s[j]]
      i == IF Later(Len(s))
           THEN CHOOSE j \in 1 .. Len(s) : Later(j) /\ ~Later(j - 1)
           ELSE Len(s) + 1
  IN  [j \in 1 .. Len(s) + 1 |-> IF j < i THEN s[j] ELSE IF j = i THEN t ELSE s[j - 1]]

(* Mutants: arrival order whatever the flag; the last to come first. *)
SuspendIgnoresFlag(k, w, t, flag) ==
  LET s == IF k.stat[t] = "READY" THEN rt_thread_suspend(k, t) ELSE k
  IN  [s EXCEPT !.wait[w] = Append(@, t)]

SuspendInFront(k, w, t, flag) ==
  LET s == IF k.stat[t] = "READY" THEN rt_thread_suspend(k, t) ELSE k
  IN  [s EXCEPT !.wait[w] = <<t>> \o @]

rt_ipc_list_suspend(k, w, t, flag) ==
  LET s == IF k.stat[t] = "READY" THEN rt_thread_suspend(k, t) ELSE k
  IN  [s EXCEPT !.wait[w] =
         IF flag = "FIFO" THEN Append(@, t)
         ELSE InsertByPriority(@, t, k.prio)]

rt_ipc_list_resume(k, w) == rt_thread_resume(k, k.wait[w][1])

=============================================================================
