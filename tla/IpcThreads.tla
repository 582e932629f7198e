----------------------------- MODULE IpcThreads -----------------------------
(***************************************************************************)
(* What every IPC object of ipc.c shares: threads on one processor that    *)
(* call it, block on its suspend_thread lists, are woken or time out, and  *)
(* the tick interrupt.  A module for one kind of object extends this one   *)
(* with the object's own state and calls.                                  *)
(*                                                                         *)
(* pc[t] is where thread t is inside a call and the list it is about:      *)
(*   run      in application code                                          *)
(*   block    suspended by a call (on no list: rt_thread_delay), the       *)
(*            call's rt_schedule still to come                             *)
(*   woken    past that rt_schedule                                        *)
(*   sched    before the rt_schedule that ends a call                      *)
(*   detach   at the test of the loop in rt_ipc_list_resume_all            *)
(*   rouse    inside that loop, interrupts not disabled yet                *)
(*   fill     between two sections of a send, a buffer in hand             *)
(*   urge     the same in an urgent send                                   *)
(*   leave    past the section that received, about to return              *)
(***************************************************************************)
EXTENDS RtKernel

CONSTANTS Idle,     \* the idle thread
          InitReady,\* the ready lists when the scheduler starts
          Relaxed   \* the rules of use that callers do not keep

ASSUME IpcAssumption ==
  /\ Idle \in Thread
  /\ InitReady \in [Priority -> Seq(Thread)]
  /\ \A t \in Thread : \E p \in Priority :
       /\ \E i \in DOMAIN InitReady[p] : InitReady[p][i] = t
       /\ \A q \in Priority \ {p} : \A i \in DOMAIN InitReady[q] : InitReady[q][i] # t
       /\ \A i, j \in DOMAIN InitReady[p] :
            InitReady[p][i] = t /\ InitReady[p][j] = t => i = j
  /\ InitReady[PRIORITY_MAX - 1] = <<Idle>>

VARIABLES k, pc

me == k.current

(* The priority a thread is created with. *)
init_priority(t) == CHOOSE p \in Priority : In(t, InitReady[p])

(* rt_system_scheduler_start, with every thread created and started. *)
KernelInit ==
  LET group == {p \in Priority : InitReady[p] # <<>>}
  IN  /\ k = [ ready |-> InitReady, group |-> group,
               wait |-> [w \in WaitList |-> <<>>], defunct |-> <<>>,
               stat |-> [t \in Thread |-> "READY"],
               prio |-> [t \in Thread |-> init_priority(t)],
               mask |-> [t \in Thread |-> {init_priority(t)}],
               error |-> [t \in Thread |-> "EOK"],
               slice |-> [t \in Thread |-> INIT_TICK], timer |-> {},
               current |-> InitReady[HighestReady(group)][1], nest |-> 0, isr |-> FALSE,
               astray |-> FALSE ]
      /\ pc = [t \in Thread |-> [op |-> "run", on |-> {}]]

IpcTypeOK ==
  /\ k \in KernelState
  /\ pc \in [Thread -> [op : {"run", "block", "woken", "sched", "detach", "rouse",
                              "fill", "urge", "leave"},
                        on : SUBSET WaitList]]

At(o) == ~k.isr /\ ~k.astray /\ me \in Thread /\ pc[me].op = o

(* Only application threads call; the idle thread never blocks. *)
Calls == At("run") /\ me # Idle

Return == pc' = [pc EXCEPT ![me] = [op |-> "run", on |-> {}]]

Goto(o, w) == pc' = [pc EXCEPT ![me] = [op |-> o, on |-> {w}]]

(* thread t is in a blocking call on w that it has not returned from *)
Inside(t, w) == pc[t].op \in {"block", "woken"} /\ w \in pc[t].on

(* The waiting times of a blocking call: 0, a number of ticks, or for ever. *)
Time == {"none", "ticks", "forever"}

(* The blocking part of a call: clear the error, suspend, start the timer. *)
Block(x, w, flag, time) ==
  LET s == rt_ipc_list_suspend([x EXCEPT !.error[me] = "EOK"], w, me, flag)
  IN  IF time = "ticks" THEN [s EXCEPT !.timer = @ \cup {me}] ELSE s

(* ... and its rt_schedule; the thread goes on when it is woken. *)
BlockSchedule ==
  /\ At("block")
  /\ k' = rt_schedule(k)
  /\ pc' = [pc EXCEPT ![me].op = "woken"]

(* rt_thread_delay: suspend on no list with the timer running, schedule as *)
(* above, and clear the error of the timeout.                              *)
rt_thread_sleep ==
  /\ Calls
  /\ k' = [rt_thread_suspend(k, me) EXCEPT !.timer = @ \cup {me}]
  /\ pc' = [pc EXCEPT ![me].op = "block"]

SleepReturn ==
  /\ At("woken") /\ pc[me].on = {}
  /\ k' = [k EXCEPT !.error[me] = IF @ = "ETIMEOUT" THEN "EOK" ELSE @]
  /\ Return

(* The rt_schedule at the end of a call that woke a thread. *)
Schedule ==
  /\ At("sched")
  /\ k' = rt_schedule(k)
  /\ Return

(* rt_ipc_list_resume_all with interrupts disabled all along: every waiter *)
(* leaves with the error -RT_ERROR, in the order of the list.              *)
rt_ipc_list_resume_all(x, w) ==
  LET F[n \in 0 .. Len(x.wait[w])] ==
        IF n = 0 THEN x
        ELSE LET t == x.wait[w][n]
             IN  rt_thread_resume([F[n - 1] EXCEPT !.error[t] = "ERROR"], t)
  IN  F[Len(x.wait[w])]

(* rt_thread_resume of the first entry of the list w, with its error set.  *)
(* The head of an empty list is taken for a thread too; this is the        *)
(* outcome where the memory behind it, which the model does not have and   *)
(* the error goes to, does not look like a suspended thread, and           *)
(* rt_thread_resume refuses it;                                            *)
ResumeFirst(w, error) ==
  IF k.wait[w] = <<>> THEN k
  ELSE LET t == FirstThread(k.wait[w])
       IN  rt_thread_resume([k EXCEPT !.error[t] = error], t)

(* and this the one where it does: the head is linked as a thread.         *)
FollowsHead(w) == k.wait[w] = <<>> /\ k' = Astray(k) /\ UNCHANGED pc

(* The same loop with interrupts enabled, as rt_xxx_detach and             *)
(* rt_xxx_delete run it: the test, and the body that takes the first entry *)
(* of the list, whether there still is one or not.  Unlike every other     *)
(* call that wakes threads, no rt_schedule follows.                        *)
DetachTest(w) ==
  /\ At("detach") /\ pc[me].on = {w}
  /\ k.wait[w] # <<>>
  /\ Goto("rouse", w)
  /\ UNCHANGED k

DetachBody(w) ==
  /\ At("rouse") /\ pc[me].on = {w}
  /\ \/ k' = ResumeFirst(w, "ERROR") /\ Goto("detach", w)
     \/ FollowsHead(w)

DetachEnd(w) ==
  /\ At("detach") /\ pc[me].on = {w}
  /\ k.wait[w] = <<>>
  /\ Return
  /\ UNCHANGED k

(* The tick interrupt: rt_tick_increase, then rt_timer_check. *)
Tick ==
  /\ ~k.isr /\ ~k.astray
  /\ k' = [rt_tick_increase(k) EXCEPT !.isr = TRUE]
  /\ UNCHANGED pc

Timeout(t) ==
  /\ k.isr /\ t \in k.timer
  /\ k' = rt_thread_timeout(k, t)
  /\ UNCHANGED pc

TickEnd ==
  /\ k.isr
  /\ k' = [k EXCEPT !.isr = FALSE]
  /\ UNCHANGED pc
-----------------------------------------------------------------------------
(* Every thread is in one place, once: a READY thread on the ready list of *)
(* its priority, any other on the suspend list its call blocked on.  The   *)
(* bitmap tells the ready lists that are not empty, and a running timer    *)
(* belongs to a suspended thread (the assertion of rt_thread_timeout).     *)
(* Nothing is said of a kernel that took a list head for a thread.         *)
Places ==
  ~k.astray =>
  /\ \A t \in Thread :
       LET ready == {p \in Priority : In(t, k.ready[p])}
           wait == {w \in WaitList : In(t, k.wait[w])}
       IN  IF k.stat[t] = "READY" THEN ready = {k.prio[t]} /\ wait = {}
           ELSE /\ ready = {} /\ wait = pc[t].on
                /\ pc[t].op \in {"block", "woken"}
  /\ \A s \in {k.ready[p] : p \in Priority} \cup {k.wait[w] : w \in WaitList} :
       \A i, j \in DOMAIN s : s[i] = s[j] => i = j
  /\ k.group = {p \in Priority : k.ready[p] # <<>>}
  /\ \A t \in k.timer : k.stat[t] = "SUSPEND"

(* No READY thread of Ready has a higher priority than the thread that     *)
(* runs application code.                                                  *)
Preempts(Ready) ==
  At("run") => \A u \in Ready : k.stat[u] = "READY" => k.prio[me] <= k.prio[u]

=============================================================================
