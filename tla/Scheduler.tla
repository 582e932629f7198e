----------------------------- MODULE Scheduler ------------------------------
(***************************************************************************)
(* Threads calling the thread API (thread.c, scheduler.c) under the tick   *)
(* interrupt (clock.c), and the idle thread that frees closed threads      *)
(* (idle.c).                                                               *)
(*                                                                         *)
(* One processor: only k.current takes steps, and none during the tick     *)
(* interrupt.  A step of a thread runs from one point where interrupts are *)
(* enabled to the next, so an interrupt, and with it a switch to another   *)
(* thread, may fall between any two steps of a call.  pc[t] is where       *)
(* thread t is inside the API and the thread its call is about.            *)
(***************************************************************************)
EXTENDS RtKernel

CONSTANTS Idle,        \* the idle thread
          Main,        \* the thread that rt_application_init starts
          MainPriority,\* its priority
          Static,      \* threads set up by rt_thread_init, not rt_thread_create
          Cleanup,     \* threads with a cleanup function
          Movable,     \* bound: the threads whose priority the application changes
          MaxNest,     \* bound on the nesting of rt_enter_critical
          Relaxed      \* the rules of use that callers do not keep

ASSUME SchedulerAssumption ==
  /\ Idle \in Thread /\ Main \in Thread \ {Idle}
  /\ MainPriority \in 0 .. PRIORITY_MAX - 2
  /\ Static \subseteq Thread /\ Idle \in Static
  /\ Cleanup \subseteq Thread /\ Idle \notin Cleanup
  /\ Movable \subseteq Thread
  /\ MaxNest \in Nat
  /\ Relaxed \subseteq {"timer", "shared", "init", "locked"}

VARIABLES k, pc,
          init_priority  \* thread->init_priority

vars == <<k, pc, init_priority>>

me == k.current

Op == {"run", "sched", "sleep", "slept", "exit", "suspend", "resume",
       "insert", "startup", "delete", "defunct", "free"}

IDLE_PRIORITY == PRIORITY_MAX - 1

(* A thread returns to application code, or moves on inside a call on t. *)
Return == pc' = [pc EXCEPT ![me] = [op |-> "run", arg |-> me]]

Goto(o, t) == pc' = [pc EXCEPT ![me] = [op |-> o, arg |-> t]]

At(o) == ~k.isr /\ me \in Thread /\ pc[me].op = o

(* Application code may call the API; the idle loop calls none of it. *)
Calls == At("run") /\ me # Idle

(* The kernel relies on rules of use that it does not enforce.  A thread   *)
(* is suspended, resumed, reprioritised or deleted by another only         *)
(*   - "timer"  while its timer is stopped,                                *)
(*   - "shared" while no other call is about it, and it is not in a call   *)
(*              about another thread,                                      *)
(*   - "init"   once it has been started;                                  *)
(* and nobody blocks                                                       *)
(*   - "locked" while the scheduler is locked.                             *)
Alone(t) ==
  /\ pc[t].arg = t
  /\ \A u \in Thread \ {t} : pc[u].arg # t

MayManage(t) ==
  /\ t # Idle
  /\ t \notin k.timer \/ "timer" \in Relaxed
  /\ Alone(t) \/ "shared" \in Relaxed

MayBlock == k.nest = 0 \/ "locked" \in Relaxed

-----------------------------------------------------------------------------
(* rt_system_scheduler_init, rt_thread_idle_init, rt_application_init and  *)
(* rt_system_scheduler_start: idle and main are ready, nothing else exists. *)
Boot(t) == IF t = Main THEN MainPriority ELSE IDLE_PRIORITY

Init ==
  /\ k = [ ready |-> [p \in Priority |->
                       IF p = IDLE_PRIORITY THEN <<Idle>>
                       ELSE IF p = MainPriority THEN <<Main>> ELSE <<>>],
           group |-> {IDLE_PRIORITY, MainPriority},
           wait |-> [w \in WaitList |-> <<>>], defunct |-> <<>>,
           stat |-> [t \in Thread |-> IF t \in {Idle, Main} THEN "READY" ELSE "FREE"],
           prio |-> [t \in Thread |-> Boot(t)],
           mask |-> [t \in Thread |-> {Boot(t)}],
           error |-> [t \in Thread |-> "EOK"],
           slice |-> [t \in Thread |-> INIT_TICK],
           timer |-> {}, current |-> Main, nest |-> 0, isr |-> FALSE,
           astray |-> FALSE ]
  /\ pc = [t \in Thread |-> [op |-> "run", arg |-> t]]
  /\ init_priority = [t \in Thread |-> Boot(t)]

(* rt_thread_init on a storage that holds no live thread, rt_thread_create *)
(* on freed memory.  Neither sets number_mask: static storage keeps its    *)
(* old value, allocated memory holds anything.                             *)
Create(t, p) ==
  /\ Calls
  /\ \/ k.stat[t] = "FREE"
     \/ t \in Static /\ k.stat[t] = "CLOSE" /\ t # me /\ ~In(t, k.defunct)
  /\ \A u \in Thread \ {t} : pc[u].arg # t
  /\ \E m \in IF t \in Static THEN {k.mask[t]} ELSE SUBSET Priority :
       k' = [k EXCEPT !.stat[t] = "INIT", !.prio[t] = p, !.mask[t] = m,
                      !.error[t] = "EOK", !.slice[t] = INIT_TICK]
  /\ pc' = [pc EXCEPT ![t] = [op |-> "run", arg |-> t]]
  /\ init_priority' = [init_priority EXCEPT ![t] = p]

(* Mutant: number_mask is not computed from the priority. *)
StartupWithoutMask(t) ==
  /\ Calls /\ MayManage(t)
  /\ k.stat[t] = "INIT"
  /\ k' = Unlink([k EXCEPT !.prio[t] = init_priority[t], !.stat[t] = "SUSPEND"], t)
  /\ Goto("startup", t)
  /\ UNCHANGED init_priority

(* rt_thread_startup, up to the end of the first section of the resume in it *)
Startup(t) ==
  /\ Calls /\ MayManage(t)
  /\ k.stat[t] = "INIT"
  /\ k' = Unlink([k EXCEPT !.prio[t] = init_priority[t],
                           !.mask[t] = {init_priority[t]},
                           !.stat[t] = "SUSPEND"], t)
  /\ Goto("startup", t)
  /\ UNCHANGED init_priority

(* rt_thread_resume: the check, made with interrupts enabled, the unlinking, *)
(* and the insertion, which it shares with rt_thread_startup.                *)
Resume(t) ==
  /\ Calls /\ MayManage(t)
  /\ k.stat[t] = "SUSPEND"
  /\ Goto("resume", t)
  /\ UNCHANGED <<k, init_priority>>

ResumeUnlink ==
  /\ At("resume")
  /\ k' = Unlink(k, pc[me].arg)
  /\ Goto("insert", pc[me].arg)
  /\ UNCHANGED init_priority

ResumeInsert ==
  /\ At("insert") \/ At("startup")
  /\ k' = rt_schedule_insert_thread(k, pc[me].arg)
  /\ IF pc[me].op = "startup" THEN Goto("sched", me) ELSE Return
  /\ UNCHANGED init_priority

(* rt_thread_suspend: the check, made with interrupts enabled, and the rest. *)
(* A thread that suspends itself must then call rt_schedule.                 *)
Suspend(t) ==
  /\ Calls /\ MayManage(t)
  /\ IF t = me THEN MayBlock ELSE k.nest > 0 \/ "shared" \in Relaxed
  /\ k.stat[t] = "READY"
  /\ Goto("suspend", t)
  /\ UNCHANGED <<k, init_priority>>

SuspendUnlink ==
  /\ At("suspend")
  /\ k' = rt_thread_suspend(k, pc[me].arg)
  /\ IF pc[me].arg = me THEN Goto("sched", me) ELSE Return
  /\ UNCHANGED init_priority

(* rt_thread_delete, and rt_thread_detach of a static thread: off its list, *)
(* timer stopped and CLOSE, then onto the defunct list.                     *)
Delete(t) ==
  /\ Calls /\ MayManage(t) /\ t # me
  /\ k.stat[t] \in {"READY", "SUSPEND"} \cup (IF "init" \in Relaxed THEN {"INIT"} ELSE {})
  /\ k' = rt_schedule_remove_thread(k, t)
  /\ Goto("delete", t)
  /\ UNCHANGED init_priority

DeleteClose ==
  /\ At("delete")
  /\ LET t == pc[me].arg
     IN  /\ k' = [k EXCEPT !.timer = @ \ {t}, !.stat[t] = "CLOSE"]
         /\ IF t \in Static /\ t \notin Cleanup THEN Return ELSE Goto("defunct", t)
  /\ UNCHANGED init_priority

DeleteDefunct ==
  /\ At("defunct")
  /\ k' = [k EXCEPT !.defunct = <<pc[me].arg>> \o @]
  /\ Return
  /\ UNCHANGED init_priority

(* Mutant: the thread is closed but not taken off its ready list. *)
ExitStaysReady ==
  /\ Calls /\ MayBlock
  /\ k' = [k EXCEPT !.stat[me] = "CLOSE", !.timer = @ \ {me}]
  /\ Goto("exit", me)
  /\ UNCHANGED init_priority

(* rt_thread_exit, which a thread function returns to. *)
Exit ==
  /\ Calls /\ MayBlock
  /\ LET r == rt_schedule_remove_thread(k, me)
     IN  k' = [r EXCEPT !.stat[me] = "CLOSE", !.timer = @ \ {me},
                        !.defunct = IF me \in Static /\ me \notin Cleanup
                                    THEN @ ELSE <<me>> \o @]
  /\ Goto("exit", me)
  /\ UNCHANGED init_priority

ExitSchedule ==
  /\ At("exit")
  /\ k' = rt_schedule(k)
  /\ UNCHANGED <<pc, init_priority>>

(* rt_thread_yield *)
Yield ==
  /\ Calls
  /\ Shares(k, me)
  /\ k' = Requeue(k, me)
  /\ Goto("sched", me)
  /\ UNCHANGED init_priority

(* rt_thread_sleep: suspend with the timer running, schedule, clear the error. *)
Sleep ==
  /\ Calls /\ MayBlock
  /\ LET s == IF k.stat[me] = "READY" THEN rt_thread_suspend(k, me) ELSE k
     IN  k' = [s EXCEPT !.timer = @ \cup {me}]
  /\ Goto("sleep", me)
  /\ UNCHANGED init_priority

SleepSchedule ==
  /\ At("sleep")
  /\ k' = rt_schedule(k)
  /\ Goto("slept", me)
  /\ UNCHANGED init_priority

SleepReturn ==
  /\ At("slept")
  /\ k' = [k EXCEPT !.error[me] = IF @ = "ETIMEOUT" THEN "EOK" ELSE @]
  /\ Return
  /\ UNCHANGED init_priority

(* rt_thread_control(RT_THREAD_CTRL_CHANGE_PRIORITY): no rt_schedule. *)
Control(t, p) ==
  /\ Calls /\ MayManage(t) /\ t \in Movable
  /\ k.stat[t] # "FREE"
  /\ k' = rt_thread_control(k, t, p)
  /\ UNCHANGED <<pc, init_priority>>

rt_enter_critical ==
  /\ Calls
  /\ k.nest < MaxNest
  /\ k' = [k EXCEPT !.nest = @ + 1]
  /\ UNCHANGED <<pc, init_priority>>

(* Mutant: an unbalanced call takes the nest below 0. *)
ExitCriticalUnclamped ==
  /\ Calls
  /\ k' = [k EXCEPT !.nest = @ - 1]
  /\ IF k.nest <= 1 THEN Goto("sched", me) ELSE UNCHANGED pc
  /\ UNCHANGED init_priority

(* The nest never goes below 0; at 0 rt_schedule follows. *)
rt_exit_critical ==
  /\ Calls
  /\ k' = [k EXCEPT !.nest = IF @ > 0 THEN @ - 1 ELSE 0]
  /\ IF k.nest <= 1 THEN Goto("sched", me) ELSE UNCHANGED pc
  /\ UNCHANGED init_priority

(* The rt_schedule that ends startup, yield, rt_exit_critical and, in the  *)
(* application, a thread's own suspension.                                 *)
Schedule ==
  /\ At("sched")
  /\ k' = rt_schedule(k)
  /\ Return
  /\ UNCHANGED init_priority

(* Mutant: unlinks the thread and forgets to free it. *)
IdleForgets ==
  /\ At("run") /\ me = Idle
  /\ k.defunct # <<>>
  /\ k' = rt_list_remove(k, k.defunct[1])
  /\ UNCHANGED <<pc, init_priority>>

(* rt_thread_idle_excute: unlink the first defunct thread; free its memory, *)
(* with interrupts enabled again, unless it is static.                      *)
IdleExcute ==
  /\ At("run") /\ me = Idle
  /\ k.defunct # <<>>
  /\ LET t == k.defunct[1]
     IN  /\ k' = rt_list_remove(k, t)
         /\ IF t \in Static THEN UNCHANGED pc ELSE Goto("free", t)
  /\ UNCHANGED init_priority

IdleFree ==
  /\ At("free")
  /\ k' = [k EXCEPT !.stat[pc[me].arg] = "FREE"]
  /\ Return
  /\ UNCHANGED init_priority

(* The tick interrupt: rt_tick_increase, then rt_timer_check, which times  *)
(* out the threads whose timers are due, one after the other.              *)
Tick ==
  /\ ~k.isr /\ me \in Thread
  /\ k' = [rt_tick_increase(k) EXCEPT !.isr = TRUE]
  /\ UNCHANGED <<pc, init_priority>>

Timeout(t) ==
  /\ k.isr /\ t \in k.timer
  /\ k' = rt_thread_timeout(k, t)
  /\ UNCHANGED <<pc, init_priority>>

TickEnd ==
  /\ k.isr
  /\ k' = [k EXCEPT !.isr = FALSE]
  /\ UNCHANGED <<pc, init_priority>>

ThreadStep ==
  \/ \E t \in Thread \ {Idle}, p \in Priority : Create(t, p) \/ Control(t, p)
  \/ \E t \in Thread \ {Idle} : Startup(t) \/ Resume(t) \/ Suspend(t) \/ Delete(t)
  \/ ResumeUnlink \/ ResumeInsert \/ SuspendUnlink \/ DeleteClose \/ DeleteDefunct
  \/ Exit \/ ExitSchedule \/ Yield \/ Sleep \/ SleepSchedule \/ SleepReturn
  \/ rt_enter_critical \/ rt_exit_critical \/ Schedule
  \/ IdleExcute \/ IdleFree

Next == ThreadStep \/ Tick \/ TickEnd \/ \E t \in Thread : Timeout(t)

(* Ticks keep coming, and every running timer expires; a thread that gets  *)
(* the processor again and again gets on with the call it is in, and the   *)
(* idle loop keeps looking at the defunct list.  Application code may stop *)
(* calling the kernel at any point.                                        *)
InCall ==
  \/ ResumeUnlink \/ ResumeInsert \/ SuspendUnlink \/ DeleteClose \/ DeleteDefunct
  \/ ExitSchedule \/ SleepSchedule \/ SleepReturn \/ Schedule \/ IdleExcute \/ IdleFree

Fairness ==
  /\ WF_vars(Tick) /\ WF_vars(TickEnd)
  /\ \A t \in Thread : SF_vars(Timeout(t)) /\ SF_vars(me = t /\ InCall)

Spec == Init /\ [][Next]_vars /\ Fairness
-----------------------------------------------------------------------------
(* Properties *)

(* Every field of the kernel state and every program counter has its type. *)
TypeOK ==
  /\ k \in KernelState
  /\ pc \in [Thread -> [op : Op, arg : Thread]]
  /\ init_priority \in [Thread -> Priority]

(* A thread that rt_thread_delete or rt_thread_detach has taken off its    *)
(* list and not yet closed: its stat still says READY or SUSPEND.          *)
BeingDeleted(t) == \E u \in Thread : pc[u] = [op |-> "delete", arg |-> t]

(* The ready lists hold exactly the READY threads, each once and at its    *)
(* current priority.                                                       *)
ReadyLists ==
  /\ \A p \in Priority : \A i \in DOMAIN k.ready[p] :
       /\ k.stat[k.ready[p][i]] = "READY"
       /\ k.prio[k.ready[p][i]] = p
       /\ \A j \in DOMAIN k.ready[p] : k.ready[p][j] = k.ready[p][i] => j = i
  /\ \A t \in Thread :
       k.stat[t] = "READY" /\ ~BeingDeleted(t) => In(t, k.ready[k.prio[t]])

(* A bit of rt_thread_ready_priority_group is set exactly when the list of *)
(* that priority is not empty, and the idle thread keeps one set: what     *)
(* rt_schedule relies on to find a thread at the head of the list.         *)
Bitmap == k.group = {p \in Priority : k.ready[p] # <<>>} /\ k.group # {}

(* Ready lists, priority bitmap and thread states agree after every step,  *)
(* whatever the interleaving of the thread API with the tick interrupt.    *)
ReadyQueueOK == ReadyLists /\ Bitmap

(* The assertion of rt_thread_timeout: a thread whose timer can expire is  *)
(* suspended.                                                              *)
TimeoutOnlySuspended == \A t \in k.timer : k.stat[t] = "SUSPEND"

(* A thread being closed is out of every list but the defunct one, where   *)
(* it waits once for the idle thread; the only closed thread on the        *)
(* processor is one that has not yet reached the rt_schedule of            *)
(* rt_thread_exit.                                                         *)
ClosedStaysOut ==
  \A t \in Thread :
    k.stat[t] \in {"CLOSE", "FREE"} =>
      /\ \A p \in Priority : ~In(t, k.ready[p])
      /\ t \notin k.timer
      /\ k.current = t => pc[t].op = "exit"
      /\ \A i, j \in DOMAIN k.defunct : k.defunct[i] = t /\ k.defunct[j] = t => i = j
      /\ k.stat[t] = "FREE" => ~In(t, k.defunct)

(* What a call still relies on after it has enabled interrupts: the thread *)
(* it is about is where the call left it, no other call is about it, and   *)
(* its timer is stopped.  A thread stays out of the hands of others while  *)
(* its own timer runs.                                                     *)
Pending(u) ==
  LET t == pc[u].arg
      o == pc[u].op
  IN  /\ o \in {"run", "sched", "sleep", "slept", "exit"} => t = u
      /\ o \in {"resume", "insert", "startup"} => t # u /\ k.stat[t] = "SUSPEND"
      /\ o = "suspend" /\ t # u => k.current = u /\ k.nest > 0 /\ k.stat[t] = "READY"
      /\ o = "delete" => /\ t # u /\ k.stat[t] \in {"READY", "SUSPEND"}
                         /\ \A p \in Priority : ~In(t, k.ready[p])
      /\ o \in {"defunct", "free"} => t # u /\ k.stat[t] = "CLOSE" /\ ~In(t, k.defunct)
      /\ t # u => /\ k.stat[u] = "READY"
                  /\ t # Idle /\ t # k.current /\ t \notin k.timer
                  /\ \A v \in Thread \ {t, u} : pc[v].arg # t
                  /\ pc[t].arg = t

MaskOK == \A t \in Thread : k.stat[t] \in {"READY", "SUSPEND"} => k.mask[t] = {k.prio[t]}

IdleOK == /\ k.stat[Idle] = "READY" /\ k.prio[Idle] = IDLE_PRIORITY
          /\ pc[Idle].op \in {"run", "free"}

CurrentOK ==
  /\ k.current \in Thread
  /\ \/ k.stat[k.current] = "READY"
     \/ k.stat[k.current] = "SUSPEND" /\ pc[k.current].op \in {"sched", "sleep"}
     \/ k.stat[k.current] = "CLOSE" /\ pc[k.current].op = "exit"

LockOK ==
  k.nest > 0 => /\ k.stat[k.current] = "READY" /\ pc[k.current].op # "sleep"
                /\ pc[k.current] # [op |-> "suspend", arg |-> k.current]

DefunctOK ==
  \A i, j \in DOMAIN k.defunct :
    /\ k.stat[k.defunct[i]] = "CLOSE"
    /\ k.defunct[i] = k.defunct[j] => i = j

CallInv ==
  /\ \A u \in Thread : Pending(u)
  /\ MaskOK /\ IdleOK /\ CurrentOK /\ LockOK /\ DefunctOK

(* Whenever the processor changes hands, the new thread heads the ready    *)
(* list of the highest priority at which any thread is ready, and the      *)
(* scheduler was not locked.                                               *)
SwitchToHighest ==
  [][k'.current # k.current =>
       /\ k'.nest = 0
       /\ k'.current \in Thread
       /\ k'.stat[k'.current] = "READY"
       /\ \A t \in Thread : k'.stat[t] = "READY" =>
            k'.prio[k'.current] <= k'.prio[t] \/ BeingDeleted(t)']_vars

(* t is READY and no READY thread has a higher priority. *)
Top(t) ==
  /\ k.stat[t] = "READY" /\ ~BeingDeleted(t)
  /\ \A u \in Thread : k.stat[u] = "READY" /\ ~BeingDeleted(u) => k.prio[t] <= k.prio[u]

(* Time slicing starves nobody: while the processor is held at the highest *)
(* ready priority and the scheduler is not locked, every READY thread of   *)
(* that priority runs again and again.                                     *)
RoundRobin ==
  \A t \in Thread :
    <>[](k.nest = 0 /\ Top(t) /\ Top(k.current)) => []<>(k.current = t)

(* Every thread that is closed is reclaimed, if the idle thread keeps      *)
(* getting the processor.                                                  *)
Reclaimed ==
  \A t \in Thread \ Static :
    []<>(k.current = Idle) => (In(t, k.defunct) ~> k.stat[t] # "CLOSE")

=============================================================================
