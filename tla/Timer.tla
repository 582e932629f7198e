------------------------------- MODULE Timer --------------------------------
(***************************************************************************)
(* The timers of timer.c: two lists ordered by a tick counter that wraps,  *)
(* hard timers, whose functions run in the tick interrupt, and soft timers, *)
(* whose functions run in the timer thread with the scheduler locked.  One *)
(* application thread calls the timer API; the tick interrupt comes between *)
(* any two of its sections, and so does the timer thread, unless it is the *)
(* one that has locked the scheduler.                                      *)
(*                                                                         *)
(* Rules of use the kernel does not enforce (dropped if in Relaxed):       *)
(*   restart  a timer function does not start its own timer (it must stop  *)
(*            it first, for the flag is still set)                         *)
(*   shared   a timer function leaves alone the timers that the thread is  *)
(*            starting or stopping                                         *)
(*   soft     interrupts leave soft timers alone, and the function of a    *)
(*            soft timer leaves alone all timers but its own               *)
(***************************************************************************)
EXTENDS Integers, Sequences

CONSTANTS Hard, Soft, \* the timers without and with RT_TIMER_FLAG_SOFT_TIMER
          NoTimer,
          TICK_WIDTH, \* bits of rt_tick_t
          Ticks,      \* the values of init_tick that are used
          MaxLag,     \* bound: ticks a timer is overdue when it gets linked
          Systems,    \* sets of timers that a program may have
          Relaxed

TickRange == 2 ^ TICK_WIDTH

TICK_MAX == TickRange - 1 \* RT_TICK_MAX

ASSUME TimerAssumption ==
  /\ Hard \cap Soft = {} /\ NoTimer \notin Hard \cup Soft
  /\ TICK_WIDTH \in Nat /\ TickRange \in Nat \ {0}
  /\ MaxLag \in Nat /\ MaxLag + 1 < TICK_MAX \div 2
  /\ Ticks \subseteq Nat /\ \A n \in Ticks : n + MaxLag < TICK_MAX \div 2
  /\ Systems \subseteq SUBSET (Hard \cup Soft)
  /\ Relaxed \subseteq {"restart", "shared", "soft"}

Timers == Hard \cup Soft

VARIABLES
  made,     \* the timers of the program
  tick,     \* rt_tick
  list,     \* rt_timer_list and rt_soft_timer_list
  active,   \* the timers with RT_TIMER_FLAG_ACTIVATED
  periodic, \* the timers with RT_TIMER_FLAG_PERIODIC
  init,     \* init_tick of every timer
  timeout,  \* timeout_tick; 0 if the timer is on no list and in no start (never read)
  isr,      \* the tick interrupt: off, check (at the loop of rt_timer_check) or
            \* call (in the function of the timer on)
  app,      \* the application thread: run, link or wake (in rt_timer_start), unlink
            \* or clear (in rt_timer_stop), about the timer on
  tt,       \* the timer thread: next, suspend, delay, asleep, halted, enter, check, call
            \* (as isr); n and now are its position and current_tick in
            \* rt_soft_timer_check, wait the ticks it sleeps
  left      \* history: ticks until the timer is due, not wrapped, and not below Late

vars == <<made, tick, list, active, periodic, init, timeout, isr, app, tt, left>>

Member(s, t) == \E i \in DOMAIN s : s[i] = t

HardList == list["hard"]
SoftList == list["soft"]

Class(t) == IF t \in Soft THEN "soft" ELSE "hard"

(* Beyond this a history of lateness is not kept. *)
Late == -MaxLag - 2

(* a comes no later than b, if they are less than half the range apart. *)
Reached(a, b) == (b - a) % TickRange < TICK_MAX \div 2

(* rt_timer_init or rt_timer_create of every timer. *)
Init ==
  /\ made \in Systems
  /\ tick = 0
  /\ list = [c \in {"hard", "soft"} |-> <<>>]
  /\ active = {} /\ periodic \in SUBSET made
  /\ init \in [made -> Ticks] /\ timeout = [t \in made |-> 0]
  /\ isr = [op |-> "off", on |-> NoTimer]
  /\ app = [op |-> "run", on |-> NoTimer]
  /\ tt = [op |-> "next", n |-> NoTimer, on |-> NoTimer, now |-> 0, wait |-> 0]
  /\ left = [t \in made |-> 0]
-----------------------------------------------------------------------------
(* The sections of the API, as operators. *)

(* The list s without t; a node is linked at most once. *)
Without(s, t) ==
  IF Member(s, t)
  THEN LET i == CHOOSE i \in DOMAIN s : s[i] = t
       IN  [j \in 1 .. Len(s) - 1 |-> IF j < i THEN s[j] ELSE s[j + 1]]
  ELSE s

(* The list s with t at place i. *)
InsertAt(s, i, t) ==
  [j \in 1 .. Len(s) + 1 |-> IF j < i THEN s[j] ELSE IF j = i THEN t ELSE s[j - 1]]

Unlink(l, t) == [l EXCEPT ![Class(t)] = Without(@, t)]

(* Mutant: behind every timer that is earlier or due at the same time, but *)
(* compared without regard to the wrap.                                    *)
LinkUnwrapped(l, t, when) ==
  LET s == l[Class(t)]
      i == Len(SelectSeq(s, LAMBDA u : timeout[u] < when[t]))
  IN  [l EXCEPT ![Class(t)] = InsertAt(s, i + 1, t)]

(* Before the first timer that is not due earlier, else at the end. *)
Link(l, t, when) ==
  LET s == l[Class(t)]
      Before(i) == i > Len(s) \/ Reached(when[t], when[s[i]])
      i == CHOOSE j \in 1 .. Len(s) + 1 : Before(j) /\ \A h \in 1 .. j - 1 : ~Before(h)
  IN  [l EXCEPT ![Class(t)] = InsertAt(s, i, t)]

(* timer->timeout_tick = rt_tick_get() + timer->init_tick *)
Due(t) == [timeout EXCEPT ![t] = (tick + init[t]) % TickRange]

Forget(t) == [timeout EXCEPT ![t] = 0]

Left(t) == [left EXCEPT ![t] = init[t]]

(* rt_timer_start in a timer function, and of a timer that has expired, as *)
(* one step: a tick between reading it and linking is as good as one after *)
(* linking, for nobody else uses the list.                                 *)
Start(t, act) ==
  /\ timeout' = Due(t) /\ left' = Left(t)
  /\ list' = Link(list, t, Due(t))
  /\ active' = act \cup {t}

(* A start of a soft timer wakes the timer thread, if it is not READY. *)
Wake(t) ==
  IF t \in Soft /\ tt.op = "asleep" THEN [tt EXCEPT !.op = "enter", !.wait = 0] ELSE tt

StartPending(t) == app.op = "link" /\ app.on = t
-----------------------------------------------------------------------------
(* The application thread.  It does not run inside the interrupt, nor      *)
(* while the timer thread has locked the scheduler.                        *)
AppRuns == isr.op = "off" /\ tt.op \notin {"check", "call", "halted"}

Idle == [op |-> "run", on |-> NoTimer]

(* rt_timer_start: the check of the flag and the reading of the tick; then, *)
(* with interrupts disabled, the insertion; for a soft timer the wake-up.   *)
rt_timer_start(t) ==
  /\ AppRuns /\ app.op = "run" /\ t \notin active
  /\ timeout' = Due(t) /\ left' = Left(t)
  /\ app' = [op |-> "link", on |-> t]
  /\ UNCHANGED <<made, tick, list, active, periodic, init, isr, tt>>

StartLink ==
  /\ AppRuns /\ app.op = "link"
  /\ list' = Link(list, app.on, timeout)
  /\ active' = active \cup {app.on}
  /\ app' = IF app.on \in Soft THEN [app EXCEPT !.op = "wake"] ELSE Idle
  /\ UNCHANGED <<made, tick, periodic, init, timeout, isr, tt, left>>

StartWake ==
  /\ AppRuns /\ app.op = "wake"
  /\ tt' = Wake(app.on)
  /\ app' = Idle
  /\ UNCHANGED <<made, tick, list, active, periodic, init, timeout, isr, left>>

(* rt_timer_stop: the check, the removal, the flag. *)
rt_timer_stop(t) ==
  /\ AppRuns /\ app.op = "run" /\ t \in active
  /\ app' = [op |-> "unlink", on |-> t]
  /\ UNCHANGED <<made, tick, list, active, periodic, init, timeout, isr, tt, left>>

StopUnlink ==
  /\ AppRuns /\ app.op = "unlink"
  /\ list' = Unlink(list, app.on) /\ timeout' = Forget(app.on)
  /\ app' = [app EXCEPT !.op = "clear"]
  /\ UNCHANGED <<made, tick, active, periodic, init, isr, tt, left>>

StopClear ==
  /\ AppRuns /\ app.op = "clear"
  /\ active' = active \ {app.on}
  /\ app' = Idle
  /\ UNCHANGED <<made, tick, list, periodic, init, timeout, isr, tt, left>>

(* rt_timer_control *)
Control(t) ==
  \/ \E n \in Ticks : init' = [init EXCEPT ![t] = n] /\ UNCHANGED periodic
  \/ periodic' \in {periodic \ {t}, periodic \cup {t}} /\ UNCHANGED init

rt_timer_control(t) ==
  /\ AppRuns /\ app.op = "run"
  /\ Control(t)
  /\ UNCHANGED <<made, tick, list, active, timeout, isr, app, tt, left>>

(* rt_timer_detach or rt_timer_delete, and rt_timer_init or rt_timer_create *)
(* for the next use: only the latter resets the flag.                       *)
rt_timer_detach(t) ==
  /\ AppRuns /\ app.op = "run"
  /\ list' = Unlink(list, t)
  /\ active' = active \ {t}
  /\ timeout' = Forget(t) /\ left' = [left EXCEPT ![t] = 0]
  /\ UNCHANGED <<made, tick, periodic, init, isr, app, tt>>
-----------------------------------------------------------------------------
(* A call of a timer function about a timer x, in the tick interrupt or in *)
(* the timer thread, where self is its own timer; a start or stop does     *)
(* nothing if it finds the flag of x wrong.                                *)
Allowed(x, self) ==
  /\ "shared" \in Relaxed \/ x # app.on
  /\ "soft" \in Relaxed \/ x = self \/ {x, self} \cap Soft = {}

TimerFunction(x, self) ==
  /\ Allowed(x, self)
  /\ \/ /\ x \notin active /\ ("restart" \in Relaxed \/ x # self)
        /\ Start(x, active)
        /\ UNCHANGED <<periodic, init>>
     \/ /\ x \in active
        /\ list' = Unlink(list, x) /\ active' = active \ {x}
        /\ timeout' = Forget(x)
        /\ UNCHANGED <<periodic, init, left>>
     \/ /\ Control(x)
        /\ UNCHANGED <<list, active, timeout, left>>

(* After the function: a periodic timer that is still activated is started *)
(* again, any other is deactivated.                                        *)
Expired(t) ==
  IF t \in periodic /\ t \in active THEN Start(t, active)
  ELSE active' = active \ {t} /\ UNCHANGED <<list, timeout, left>>
-----------------------------------------------------------------------------
(* The tick interrupt *)

(* rt_tick_increase.  A thread that sleeps in rt_thread_delay is woken by  *)
(* its own timer, when wait has run out.                                   *)
Tick ==
  /\ isr.op = "off" /\ tt.op # "halted"
  /\ app.op = "link" => left[app.on] > -MaxLag
  /\ tick' = (tick + 1) % TickRange
  /\ left' = [t \in made |-> IF ~Member(list[Class(t)], t) /\ ~StartPending(t) THEN 0
                               ELSE IF left[t] > Late THEN left[t] - 1 ELSE left[t]]
  /\ tt' = IF tt.op = "asleep" /\ tt.wait > 1 THEN [tt EXCEPT !.wait = @ - 1]
           ELSE IF tt.op = "asleep" /\ tt.wait = 1
           THEN [tt EXCEPT !.op = "enter", !.wait = 0]
           ELSE tt
  /\ isr' = [op |-> "check", on |-> NoTimer]
  /\ UNCHANGED <<made, list, active, periodic, init, timeout, app>>

(* Mutant: takes one timer per tick. *)
CheckOnce ==
  /\ isr.op = "check"
  /\ isr' = [op |-> "off", on |-> NoTimer]
  /\ UNCHANGED <<made, tick, list, active, periodic, init, timeout, app, tt, left>>

HardDue == HardList # <<>> /\ Reached(timeout[HardList[1]], tick)

(* The loop of rt_timer_check: unlink the first timer if it is due, call   *)
(* its function, restart or deactivate it.                                 *)
CheckFire ==
  /\ isr.op = "check" /\ HardDue
  /\ isr' = [op |-> "call", on |-> HardList[1]]
  /\ list' = Unlink(list, HardList[1]) /\ timeout' = Forget(HardList[1])
  /\ UNCHANGED <<made, tick, active, periodic, init, app, tt, left>>

CheckCall(x) ==
  /\ isr.op = "call"
  /\ TimerFunction(x, isr.on)
  /\ tt' = IF x \in active' /\ x \notin active THEN Wake(x) ELSE tt
  /\ UNCHANGED <<made, tick, isr, app>>

CheckRestart ==
  /\ isr.op = "call"
  /\ Expired(isr.on)
  /\ isr' = [op |-> "check", on |-> NoTimer]
  /\ UNCHANGED <<made, tick, periodic, init, app, tt>>

CheckEnd ==
  /\ isr.op = "check" /\ ~HardDue
  /\ isr' = [op |-> "off", on |-> NoTimer]
  /\ UNCHANGED <<made, tick, list, active, periodic, init, timeout, app, tt, left>>
-----------------------------------------------------------------------------
(* The timer thread *)

ThreadRuns(op) == isr.op = "off" /\ tt.op = op

(* rt_timer_list_next_timeout, read with interrupts enabled. *)
SoftNext ==
  /\ ThreadRuns("next")
  /\ tt' = IF SoftList = <<>> \/ timeout[SoftList[1]] = TICK_MAX
           THEN [tt EXCEPT !.op = "suspend"]
           ELSE [tt EXCEPT !.op = "delay", !.wait = timeout[SoftList[1]]]
  /\ UNCHANGED <<made, tick, list, active, periodic, init, timeout, isr, app, left>>

(* rt_thread_suspend, without a timer. *)
SoftSuspend ==
  /\ ThreadRuns("suspend")
  /\ tt' = [tt EXCEPT !.op = "asleep"]
  /\ UNCHANGED <<made, tick, list, active, periodic, init, timeout, isr, app, left>>

(* rt_thread_delay(next_timeout), for which no ticks and one tick are the  *)
(* same; more than half of the range fail the assertion of rt_timer_start, *)
(* which stops the system, for rt_thread_sleep has disabled interrupts.    *)
SoftDelay ==
  /\ ThreadRuns("delay")
  /\ tt' = IF tt.wait < TICK_MAX \div 2
           THEN [tt EXCEPT !.op = "asleep", !.wait = IF @ > 0 THEN @ ELSE 1]
           ELSE [tt EXCEPT !.op = "halted", !.wait = 0]
  /\ UNCHANGED <<made, tick, list, active, periodic, init, timeout, isr, app, left>>

(* rt_enter_critical, and the start of rt_soft_timer_check. *)
SoftEnter ==
  /\ ThreadRuns("enter")
  /\ tt' = [tt EXCEPT !.op = "check", !.now = tick,
                      !.n = IF SoftList = <<>> THEN NoTimer ELSE SoftList[1]]
  /\ UNCHANGED <<made, tick, list, active, periodic, init, timeout, isr, app, left>>

(* n->next: NoTimer is the head of the list, and a node that is off the    *)
(* list is its own neighbour.                                              *)
Successor(n) ==
  LET s == SoftList
  IN  IF ~Member(s, n) THEN n
      ELSE LET i == CHOOSE i \in DOMAIN s : s[i] = n
           IN  IF i = Len(s) THEN NoTimer ELSE s[i + 1]

SoftDue == tt.n # NoTimer /\ Reached(timeout[tt.n], tt.now)

(* The loop of rt_soft_timer_check, as in rt_timer_check but with the      *)
(* position n kept over the call of the function.                          *)
SoftFire ==
  /\ ThreadRuns("check") /\ SoftDue
  /\ list' = Unlink(list, tt.n) /\ timeout' = Forget(tt.n)
  /\ tt' = [tt EXCEPT !.op = "call", !.on = tt.n, !.n = Successor(tt.n), !.now = 0]
  /\ UNCHANGED <<made, tick, active, periodic, init, isr, app, left>>

SoftCall(x) ==
  /\ ThreadRuns("call")
  /\ TimerFunction(x, tt.on)
  /\ UNCHANGED <<made, tick, isr, app, tt>>

SoftRestart ==
  /\ ThreadRuns("call")
  /\ Expired(tt.on)
  /\ tt' = [tt EXCEPT !.op = "check", !.on = NoTimer, !.now = tick]
  /\ UNCHANGED <<made, tick, periodic, init, isr, app>>

(* ... and rt_exit_critical. *)
SoftEnd ==
  /\ ThreadRuns("check") /\ ~SoftDue
  /\ tt' = [tt EXCEPT !.op = "next", !.n = NoTimer, !.now = 0]
  /\ UNCHANGED <<made, tick, list, active, periodic, init, timeout, isr, app, left>>
-----------------------------------------------------------------------------
Next ==
  \/ \E t \in made :
       \/ rt_timer_start(t) \/ rt_timer_stop(t) \/ rt_timer_control(t)
       \/ rt_timer_detach(t)
       \/ CheckCall(t) \/ SoftCall(t)
  \/ StartLink \/ StartWake \/ StopUnlink \/ StopClear
  \/ Tick \/ CheckFire \/ CheckRestart \/ CheckEnd
  \/ SoftNext \/ SoftSuspend \/ SoftDelay \/ SoftEnter \/ SoftFire \/ SoftRestart \/ SoftEnd

Spec == Init /\ [][Next]_vars
-----------------------------------------------------------------------------
(* Properties *)

(* Every variable has its type. *)
TypeOK ==
  /\ tick \in 0 .. TICK_MAX
  /\ list \in [{"hard", "soft"} -> Seq(made)]
  /\ HardList \in Seq(Hard) /\ SoftList \in Seq(Soft)
  /\ made \in Systems /\ active \subseteq made /\ periodic \subseteq made
  /\ init \in [made -> Ticks] /\ timeout \in [made -> 0 .. TICK_MAX]
  /\ isr \in [op : {"off", "check", "call"}, on : Timers \cup {NoTimer}]
  /\ app \in [op : {"run", "link", "wake", "unlink", "clear"}, on : Timers \cup {NoTimer}]
  /\ tt \in [ op : {"next", "suspend", "delay", "asleep", "halted", "enter", "check", "call"},
              n : Soft \cup {NoTimer}, on : Soft \cup {NoTimer}, now : 0 .. TICK_MAX,
              wait : 0 .. TICK_MAX ]
  /\ left \in [made -> Int]

(* A timer is on its list, once, exactly when it is activated, but for one *)
(* whose function runs or whose stop is not complete; and the list of hard *)
(* timers is in the order in which they are due, over every wrap of the    *)
(* tick and every start and stop from timer functions.                     *)
ListsOK ==
  /\ TypeOK
  /\ \A t \in made :
       LET s == list[Class(t)]
           here == {i \in DOMAIN s : s[i] = t}
       IN  /\ \A i, j \in here : i = j
           /\ \/ t \in active <=> here # {}
              \/ here = {} /\ (t \in {isr.on, tt.on} \/ (app.op = "clear" /\ app.on = t))
  /\ \A i, j \in DOMAIN HardList : i < j => left[HardList[i]] <= left[HardList[j]]

(* Timers are never early, and when the tick interrupt returns no hard     *)
(* timer is left that is due.                                              *)
FiresOnTime ==
  [][ /\ isr.op = "check" /\ isr'.op = "call" => left[isr'.on] <= 0
      /\ tt.op = "check" /\ tt'.op = "call" => left[tt'.on] <= 0
      /\ isr.op = "check" /\ isr'.op = "off" =>
           \A t \in made \cap Hard : Member(HardList, t) => left[t] > 0 ]_vars

(* The timer thread does not sleep beyond the tick in which a soft timer   *)
(* is due, unless a start is about to wake it: it asks for the tick of the *)
(* next timeout in order to sleep until then.                              *)
SoftOnTime ==
  tt.op = "asleep" /\ app.op # "wake" =>
    \A t \in made \cap Soft :
      Member(SoftList, t) /\ left[t] > 0 => tt.wait <= left[t]

=============================================================================
