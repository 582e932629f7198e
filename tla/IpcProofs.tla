------------------------------ MODULE IpcProofs -----------------------------
(***************************************************************************)
(* What the IPC objects share, proved once: the kernel state stays sound   *)
(* under every operator of RtKernel that a call uses (lemmas XSound), and  *)
(* every thread is where its call left it (IpcInv) under every step of     *)
(* IpcThreads.  The proofs about one kind of object extend this module.    *)
(***************************************************************************)
EXTENDS IpcThreads, KernelLemmas

(* A kernel state whose lists agree with the threads: the ready queue is   *)
(* consistent, only suspended threads wait, each on one list, and only     *)
(* they have a running timer; the idle thread is always ready.             *)
Sound(x) ==
  /\ x \in KernelState /\ Queue(x, {})
  /\ \A t \in Thread : x.mask[t] = {x.prio[t]} /\ x.stat[t] \in {"READY", "SUSPEND"}
  /\ x.defunct = <<>> /\ x.nest = 0 /\ x.current \in Thread /\ x.stat[Idle] = "READY"
  /\ \A w \in WaitList : Once(x.wait[w])
  /\ \A t \in Thread, w \in WaitList : In(t, x.wait[w]) =>
       x.stat[t] = "SUSPEND" /\ \A v \in WaitList : In(t, x.wait[v]) => v = w
  /\ \A t \in x.timer : x.stat[t] = "SUSPEND"

(* Every suspended thread is inside the call that suspended it and on the  *)
(* list it named; the thread on the processor is ready unless it has just  *)
(* suspended itself.                                                       *)
Located(x, c) ==
  /\ \A t \in Thread : x.stat[t] = "SUSPEND" =>
       c[t].op \in {"block", "woken"} /\ c[t].on = {w \in WaitList : In(t, x.wait[w])}
  /\ \A t \in Thread : c[t].op = "run" => c[t].on = {}
  /\ c[Idle].op = "run"
  /\ x.stat[x.current] = "READY" \/ c[x.current].op = "block"

IpcInv == IpcTypeOK /\ Sound(k) /\ Located(k, pc)

-----------------------------------------------------------------------------
(* Who is on the suspend lists after rt_list_remove.                       *)
LEMMA UnwaitIn ==
  ASSUME NEW x, Sound(x), NEW t \in Thread
  PROVE  /\ \A w \in WaitList : Once(Unwait(x, t)[w])
         /\ \A u \in Thread, w \in WaitList :
              In(u, Unwait(x, t)[w]) <=> In(u, x.wait[w]) /\ u # t
<1>1. \A w \in WaitList : x.wait[w] \in Seq(Thread) /\ Once(x.wait[w])
  BY DEF Sound, KernelState
<1>2. \A w \in WaitList : Unwait(x, t)[w] = Without(x.wait[w], t)
  BY DEF Unwait
<1> QED
  BY <1>1, <1>2, WithoutElements

(* No list holds a thread that is linked in none, so rt_list_remove        *)
(* changes no suspend list.                                                *)
LEMMA UnwaitSame ==
  ASSUME NEW x, Sound(x), NEW t \in Thread, x.stat[t] = "READY"
  PROVE  Unwait(x, t) = x.wait
<1>1. \A w \in WaitList : ~In(t, x.wait[w])
  BY DEF Sound
<1>2. \A w \in WaitList : Without(x.wait[w], t) = x.wait[w]
  BY <1>1, WithoutAbsent
<1>3. x.wait \in [WaitList -> Seq(Thread)]
  BY DEF Sound, KernelState
<1> QED
  BY <1>2, <1>3 DEF Unwait

(* A suspended thread is on no ready list, and nobody is defunct.          *)
LEMMA SoundOff ==
  ASSUME NEW x, Sound(x), NEW t \in Thread
  PROVE  /\ x.stat[t] = "SUSPEND" => OffLists(x, t)
         /\ ~In(t, x.defunct) /\ Without(x.defunct, t) = x.defunct
<1>1. x.stat[t] = "SUSPEND" => OffLists(x, t)
  BY DEF Sound, Queue, OffLists
<1>2. ~In(t, x.defunct)
  BY DEF Sound, In
<1> QED
  BY <1>1, <1>2, WithoutAbsent

(* The idle thread is a thread. *)
LEMMA IdleThread == Idle \in Thread
BY IpcAssumption

(* A kernel state in which a suspended thread was made ready, taken off    *)
(* its suspend list and had its timer stopped is sound.                    *)
LEMMA ReadiedSound ==
  ASSUME NEW x, Sound(x), NEW t \in Thread, NEW r,
         r \in KernelState, Queue(r, {}), r.stat = [x.stat EXCEPT ![t] = "READY"],
         r.wait = Unwait(x, t), r.timer = x.timer \ {t}, r.prio = x.prio, r.mask = x.mask,
         r.defunct = x.defunct, r.nest = x.nest, r.current \in Thread
  PROVE  Sound(r)
<1>1. x.stat \in [Thread -> Stat] /\ x.timer \subseteq Thread
  BY DEF Sound, KernelState
<1>2. r.stat[t] = "READY" /\ \A v \in Thread : v # t => r.stat[v] = x.stat[v]
  BY <1>1
<1>3. /\ \A w \in WaitList : Once(r.wait[w])
      /\ \A v \in Thread, w \in WaitList : In(v, r.wait[w]) <=> In(v, x.wait[w]) /\ v # t
  BY UnwaitIn
<1>4. \A v \in Thread : r.mask[v] = {r.prio[v]} /\ r.stat[v] \in {"READY", "SUSPEND"}
  <2>1. \A v \in Thread : x.mask[v] = {x.prio[v]} /\ x.stat[v] \in {"READY", "SUSPEND"}
    BY DEF Sound
  <2> QED
    BY <1>2, <2>1
<1>5. r.stat[Idle] = "READY"
  <2>1. x.stat[Idle] = "READY"
    BY DEF Sound
  <2> QED
    BY <1>2, <2>1, IdleThread
<1>6. ASSUME NEW v \in Thread, NEW w \in WaitList, In(v, r.wait[w])
      PROVE  r.stat[v] = "SUSPEND" /\ \A z \in WaitList : In(v, r.wait[z]) => z = w
  <2>1. In(v, x.wait[w]) /\ v # t
    BY <1>3, <1>6
  <2>2. x.stat[v] = "SUSPEND" /\ \A z \in WaitList : In(v, x.wait[z]) => z = w
    BY <2>1 DEF Sound
  <2> QED
    BY <1>2, <1>3, <2>1, <2>2
<1>7. ASSUME NEW v \in r.timer PROVE r.stat[v] = "SUSPEND"
  <2>1. v \in x.timer /\ v # t /\ v \in Thread
    BY <1>1, <1>7
  <2>2. x.stat[v] = "SUSPEND"
    BY <2>1 DEF Sound
  <2> QED
    BY <1>2, <2>1, <2>2
<1>8. r.defunct = <<>> /\ r.nest = 0
  BY DEF Sound
<1> QED
  BY <1>3, <1>4, <1>5, <1>6, <1>7, <1>8 DEF Sound

(* rt_thread_resume of a suspended thread makes it ready, takes it off its *)
(* suspend list and stops its timer.                                       *)
LEMMA ResumeSound ==
  ASSUME NEW x, Sound(x), NEW t \in Thread, x.stat[t] = "SUSPEND"
  PROVE  LET r == rt_thread_resume(x, t)
         IN  /\ Sound(r) /\ r.stat = [x.stat EXCEPT ![t] = "READY"]
             /\ r.wait = Unwait(x, t) /\ r.timer = x.timer \ {t}
             /\ r.error = x.error /\ r.prio = x.prio /\ r.mask = x.mask
             /\ r.current = x.current /\ r.isr = x.isr
<1> DEFINE u == Unlink(x, t)
           r == rt_schedule_insert_thread(u, t)
<1>0. x \in KernelState /\ x.defunct = <<>> /\ x.nest = 0 /\ x.current \in Thread
  BY DEF Sound
<1>1. OffLists(x, t) /\ ~In(t, x.defunct)
  BY SoundOff
<1>2. /\ u \in KernelState /\ SameRest(u, x)
      /\ u.ready = x.ready /\ u.group = x.group
      /\ u.stat = x.stat /\ u.prio = x.prio /\ u.mask = x.mask
      /\ u.timer = x.timer \ {t}
      /\ u.wait = Unwait(x, t) /\ u.error = x.error
  BY <1>0, <1>1, UnlinkFields
<1>3. rt_thread_resume(x, t) = r
  BY DEF rt_thread_resume
<1> HIDE DEF u
<1>4. Queue(u, {}) /\ u.mask[t] = {u.prio[t]}
  BY <1>2 DEF Queue, Sound
<1>5. \A p \in Priority : ~In(t, u.ready[p])
  BY <1>1, <1>2 DEF OffLists
<1>6. Queue(r, {})
  <2>1. Queue(r, {} \ {t})
    BY <1>2, <1>4, <1>5, InsertQueue
  <2>2. {} \ {t} = {}
    OBVIOUS
  <2> QED
    BY <2>1, <2>2
<1>7. /\ r \in KernelState /\ r.stat = [u.stat EXCEPT ![t] = "READY"]
      /\ r.wait = u.wait /\ r.defunct = u.defunct
      /\ r.prio = u.prio /\ r.mask = u.mask /\ r.error = u.error
      /\ r.timer = u.timer /\ r.current = u.current
      /\ r.nest = u.nest /\ r.isr = u.isr
  BY <1>2, InsertFields
<1> HIDE DEF r
<1>8. /\ r \in KernelState /\ r.stat = [x.stat EXCEPT ![t] = "READY"]
      /\ r.wait = Unwait(x, t) /\ r.defunct = x.defunct
      /\ r.prio = x.prio /\ r.mask = x.mask /\ r.error = x.error
      /\ r.timer = x.timer \ {t} /\ r.current = x.current
      /\ r.nest = x.nest /\ r.isr = x.isr
  BY <1>2, <1>7 DEF SameRest
<1>9. Sound(r)
  BY <1>0, <1>6, <1>8, ReadiedSound
<1> QED
  BY <1>3, <1>8, <1>9

(* rt_schedule gives the processor to a best thread, and changes nothing   *)
(* else.                                                                   *)
LEMMA ScheduleSound ==
  ASSUME NEW x, Sound(x)
  PROVE  LET r == rt_schedule(x)
         IN  /\ Sound(r) /\ Best(r, {}, r.current)
             /\ r.stat = x.stat /\ r.wait = x.wait /\ r.timer = x.timer
             /\ r.error = x.error /\ r.prio = x.prio /\ r.mask = x.mask /\ r.isr = x.isr
<1> DEFINE r == rt_schedule(x)
<1>1. /\ r \in KernelState /\ Queue(r, {})
      /\ x.nest = 0 => Best(r, {}, r.current)
      /\ r.defunct = x.defunct
      /\ r.stat = x.stat /\ r.prio = x.prio /\ r.mask = x.mask
      /\ r.timer = x.timer /\ r.nest = x.nest /\ r.isr = x.isr
      /\ r.wait = x.wait /\ r.error = x.error
  <2>1. x \in KernelState /\ Queue(x, {}) /\ Idle \in Thread \ {} /\ x.stat[Idle] = "READY"
    BY IdleThread DEF Sound
  <2> QED
    BY <2>1, ScheduleSwitch
<1> HIDE DEF r
<1>2. Best(r, {}, r.current) /\ r.current \in Thread
  BY <1>1 DEF Sound, Best
<1>3. Sound(r)
  BY <1>1, <1>2 DEF Sound
<1> QED
  BY <1>1, <1>2, <1>3 DEF r

(* rt_thread_timeout: a suspended thread becomes ready with the error      *)
(* -RT_ETIMEOUT, on no suspend list, and a best thread gets the processor. *)
LEMMA TimeoutSound ==
  ASSUME NEW x, Sound(x), NEW t \in Thread, x.stat[t] = "SUSPEND"
  PROVE  LET r == rt_thread_timeout(x, t)
         IN  /\ Sound(r) /\ r.stat = [x.stat EXCEPT ![t] = "READY"]
             /\ Best(r, {}, r.current)
             /\ r.wait = Unwait(x, t) /\ r.timer = x.timer \ {t}
             /\ r.error = [x.error EXCEPT ![t] = "ETIMEOUT"]
             /\ r.prio = x.prio /\ r.mask = x.mask /\ r.isr = x.isr
<1> DEFINE r == rt_thread_timeout(x, t)
<1>0. /\ x \in KernelState /\ Queue(x, {}) /\ x.mask[t] = {x.prio[t]} /\ ~In(t, x.defunct)
      /\ Idle \in Thread \ {} /\ x.stat[Idle] = "READY" /\ x.nest = 0
  BY SoundOff, IdleThread DEF Sound
<1>1. /\ r \in KernelState /\ Queue(r, {})
      /\ r.stat = [x.stat EXCEPT ![t] = "READY"] /\ r.timer = x.timer \ {t}
      /\ r.prio = x.prio /\ r.mask = x.mask /\ r.defunct = x.defunct
      /\ r.nest = x.nest /\ r.isr = x.isr /\ r.wait = Unwait(x, t)
      /\ r.error = [x.error EXCEPT ![t] = "ETIMEOUT"]
      /\ Best(r, {}, r.current)
  BY <1>0, TimeoutFields
<1> HIDE DEF r
<1>2. r.current \in Thread
  BY <1>1 DEF Best
<1>3. Sound(r)
  BY <1>1, <1>2, ReadiedSound
<1> QED
  BY <1>1, <1>3 DEF r

(* rt_tick_increase moves at most the running thread in its ready list,    *)
(* and then gives the processor to a best one.                             *)
LEMMA TickSound ==
  ASSUME NEW x, Sound(x)
  PROVE  LET r == rt_tick_increase(x)
         IN  /\ Sound(r) /\ (r.current = x.current \/ Best(r, {}, r.current))
             /\ r.stat = x.stat /\ r.wait = x.wait /\ r.timer = x.timer
             /\ r.error = x.error /\ r.prio = x.prio /\ r.mask = x.mask /\ r.isr = x.isr
<1> DEFINE r == rt_tick_increase(x)
<1>0. /\ x \in KernelState /\ Queue(x, {}) /\ x.current \in Thread
      /\ Idle \in Thread \ {} /\ x.stat[Idle] = "READY" /\ x.nest = 0
      /\ x.mask[x.current] = {x.prio[x.current]} /\ ~In(x.current, x.defunct)
  BY SoundOff, IdleThread DEF Sound
<1>1. /\ r \in KernelState /\ Queue(r, {}) /\ Switch(r, x, {})
      /\ r.stat = x.stat /\ r.timer = x.timer
      /\ r.prio = x.prio /\ r.mask = x.mask /\ r.defunct = x.defunct
      /\ r.nest = x.nest /\ r.isr = x.isr /\ r.error = x.error
      /\ r.wait = x.wait \/ (x.stat[x.current] = "READY" /\ r.wait = Unwait(x, x.current))
  BY <1>0, TickFields
<1> HIDE DEF r
<1>2. r.wait = x.wait
  BY <1>0, <1>1, UnwaitSame
<1>3. r.current = x.current \/ Best(r, {}, r.current)
  BY <1>1 DEF Switch
<1>4. r.current \in Thread
  BY <1>0, <1>3 DEF Best
<1>5. Sound(r)
  BY <1>1, <1>2, <1>4 DEF Sound
<1> QED
  BY <1>1, <1>2, <1>3, <1>5 DEF r

(* Setting thread->error changes nothing else. *)
LEMMA ErrorSound ==
  ASSUME NEW x, Sound(x), NEW t \in Thread, NEW e \in Error
  PROVE  LET r == [x EXCEPT !.error[t] = e]
         IN  /\ Sound(r) /\ r.error = [x.error EXCEPT ![t] = e]
             /\ r.stat = x.stat /\ r.wait = x.wait /\ r.timer = x.timer
             /\ r.prio = x.prio /\ r.mask = x.mask
             /\ r.current = x.current /\ r.isr = x.isr
<1> DEFINE r == [x EXCEPT !.error[t] = e]
<1>0. x \in KernelState
  BY DEF Sound
<1>1. /\ r \in KernelState /\ r.error = [x.error EXCEPT ![t] = e]
      /\ r.ready = x.ready /\ r.group = x.group /\ r.defunct = x.defunct
      /\ r.stat = x.stat /\ r.wait = x.wait /\ r.timer = x.timer
      /\ r.prio = x.prio /\ r.mask = x.mask /\ r.nest = x.nest
      /\ r.current = x.current /\ r.isr = x.isr
  BY <1>0 DEF KernelState
<1> HIDE DEF r
<1>2. Queue(r, {})
  BY <1>1 DEF Sound, Queue
<1>3. Sound(r)
  BY <1>1, <1>2 DEF Sound
<1> QED
  BY <1>1, <1>3 DEF r

(* rt_thread_suspend of a ready thread other than idle. *)
LEMMA SuspendSound ==
  ASSUME NEW x, Sound(x), NEW t \in Thread \ {Idle}, x.stat[t] = "READY"
  PROVE  LET r == rt_thread_suspend(x, t)
         IN  /\ Sound(r) /\ r.stat = [x.stat EXCEPT ![t] = "SUSPEND"]
             /\ r.wait = x.wait /\ r.timer = x.timer
             /\ r.error = x.error /\ r.prio = x.prio /\ r.mask = x.mask
             /\ r.current = x.current /\ r.isr = x.isr
<1> DEFINE r == rt_thread_suspend(x, t)
<1>0. /\ x \in KernelState /\ Queue(x, {}) /\ x.mask[t] = {x.prio[t]} /\ ~In(t, x.defunct)
      /\ x.stat \in [Thread -> Stat] /\ x.timer \subseteq Thread
  BY SoundOff DEF Sound, KernelState
<1>1. /\ r \in KernelState /\ SameRest(r, x) /\ Queue(r, {})
      /\ r.stat = [x.stat EXCEPT ![t] = "SUSPEND"]
      /\ r.prio = x.prio /\ r.mask = x.mask /\ r.timer = x.timer
      /\ r.wait = Unwait(x, t) /\ r.error = x.error
  BY <1>0, SuspendFields
<1>2. r.wait = x.wait
  BY <1>1, UnwaitSame
<1>3. /\ r.defunct = x.defunct /\ r.current = x.current /\ r.nest = x.nest /\ r.isr = x.isr
  BY <1>1 DEF SameRest
<1> HIDE DEF r
<1>4. r.stat[t] = "SUSPEND" /\ \A v \in Thread : v # t => r.stat[v] = x.stat[v]
  BY <1>0, <1>1
<1>5. \A v \in Thread : x.stat[v] = "SUSPEND" => r.stat[v] = "SUSPEND"
  BY <1>4
<1>6. \A v \in Thread : r.mask[v] = {r.prio[v]} /\ r.stat[v] \in {"READY", "SUSPEND"}
  BY <1>1, <1>4 DEF Sound
<1>7. r.stat[Idle] = "READY"
  BY <1>4, IdleThread DEF Sound
<1>8. Sound(r)
  BY <1>0, <1>1, <1>2, <1>3, <1>5, <1>6, <1>7 DEF Sound
<1> QED
  BY <1>1, <1>2, <1>3, <1>8 DEF r

(* Linking a suspended thread in a suspend list. *)
LEMMA QueuedSound ==
  ASSUME NEW x, Sound(x), NEW t \in Thread, NEW w \in WaitList, x.stat[t] = "SUSPEND",
         \A v \in WaitList : ~In(t, x.wait[v]),
         NEW l \in Seq(Thread), Once(l), \A u \in Thread : In(u, l) <=> In(u, x.wait[w]) \/ u = t
  PROVE  LET r == [x EXCEPT !.wait[w] = l]
         IN  /\ Sound(r) /\ r.wait = [x.wait EXCEPT ![w] = l]
             /\ \A u \in Thread, v \in WaitList :
                  In(u, r.wait[v]) <=> In(u, x.wait[v]) \/ (u = t /\ v = w)
             /\ r.stat = x.stat /\ r.timer = x.timer
             /\ r.error = x.error /\ r.prio = x.prio /\ r.mask = x.mask
             /\ r.current = x.current /\ r.isr = x.isr
<1> DEFINE r == [x EXCEPT !.wait[w] = l]
<1>0. x \in KernelState /\ x.wait \in [WaitList -> Seq(Thread)]
  BY DEF Sound, KernelState
<1>1. /\ r \in KernelState /\ r.wait = [x.wait EXCEPT ![w] = l]
      /\ r.ready = x.ready /\ r.group = x.group /\ r.defunct = x.defunct
      /\ r.stat = x.stat /\ r.error = x.error /\ r.timer = x.timer
      /\ r.prio = x.prio /\ r.mask = x.mask /\ r.nest = x.nest
      /\ r.current = x.current /\ r.isr = x.isr
  BY <1>0 DEF KernelState
<1> HIDE DEF r
<1>2. Queue(r, {})
  BY <1>1 DEF Sound, Queue
<1>3. r.wait[w] = l /\ \A v \in WaitList : v # w => r.wait[v] = x.wait[v]
  BY <1>0, <1>1
<1>4. \A u \in Thread, v \in WaitList :
        In(u, r.wait[v]) <=> In(u, x.wait[v]) \/ (u = t /\ v = w)
  BY <1>3
<1>5. \A v \in WaitList : Once(r.wait[v])
  BY <1>3 DEF Sound
<1>6. ASSUME NEW u \in Thread, NEW v \in WaitList, In(u, r.wait[v])
      PROVE  r.stat[u] = "SUSPEND" /\ \A z \in WaitList : In(u, r.wait[z]) => z = v
  <2>1. CASE u = t
    BY <1>1, <1>4, <1>6, <2>1
  <2>2. CASE u # t
    <3>1. \A z \in WaitList : In(u, r.wait[z]) <=> In(u, x.wait[z])
      BY <1>4, <2>2
    <3> QED
      BY <1>1, <1>6, <3>1 DEF Sound
  <2> QED
    BY <2>1, <2>2
<1>7. Sound(r)
  BY <1>1, <1>2, <1>5, <1>6 DEF Sound
<1> QED
  BY <1>1, <1>4, <1>7 DEF r

(* The suspend list w of x with t in the place that rt_ipc_list_suspend    *)
(* gives it.                                                               *)
Enqueued(x, w, t, flag) ==
  IF flag = "FIFO" THEN Append(x.wait[w], t) ELSE InsertByPriority(x.wait[w], t, x.prio)

(* rt_ipc_list_suspend of a ready thread other than idle. *)
LEMMA IpcSuspendSound ==
  ASSUME NEW x, Sound(x), NEW t \in Thread \ {Idle}, x.stat[t] = "READY",
         NEW w \in WaitList, NEW flag
  PROVE  LET r == rt_ipc_list_suspend(x, w, t, flag)
         IN  /\ Sound(r) /\ r.stat = [x.stat EXCEPT ![t] = "SUSPEND"]
             /\ r.wait = [x.wait EXCEPT ![w] = Enqueued(x, w, t, flag)]
             /\ \A u \in Thread, v \in WaitList :
                  In(u, r.wait[v]) <=> In(u, x.wait[v]) \/ (u = t /\ v = w)
             /\ r.timer = x.timer /\ r.error = x.error /\ r.prio = x.prio /\ r.mask = x.mask
             /\ r.current = x.current /\ r.isr = x.isr
<1> DEFINE s == rt_thread_suspend(x, t)
           l == Enqueued(x, w, t, flag)
           r == [s EXCEPT !.wait[w] = l]
<1>1. /\ Sound(s) /\ s.stat = [x.stat EXCEPT ![t] = "SUSPEND"]
      /\ s.wait = x.wait /\ s.timer = x.timer
      /\ s.error = x.error /\ s.prio = x.prio /\ s.mask = x.mask
      /\ s.current = x.current /\ s.isr = x.isr
  BY SuspendSound
<1>2. rt_ipc_list_suspend(x, w, t, flag) = r
  BY <1>1 DEF rt_ipc_list_suspend, Enqueued
<1> HIDE DEF s
<1>3. /\ x.wait[w] \in Seq(Thread) /\ x.prio \in [Thread -> Priority]
      /\ Once(x.wait[w]) /\ \A v \in WaitList : ~In(t, x.wait[v])
      /\ x.stat \in [Thread -> Stat]
  BY DEF Sound, KernelState
<1>4. s.stat[t] = "SUSPEND"
  BY <1>1, <1>3
<1>5. l \in Seq(Thread) /\ Once(l) /\ \A u \in Thread : In(u, l) <=> In(u, x.wait[w]) \/ u = t
  <2>1. CASE flag = "FIFO"
    BY <1>3, <2>1, AppendElements DEF Enqueued
  <2>2. CASE flag # "FIFO"
    BY <1>3, <2>2, InsertElements DEF Enqueued
  <2> QED
    BY <2>1, <2>2
<1> HIDE DEF l
<1>6. /\ Sound(r) /\ r.wait = [s.wait EXCEPT ![w] = l]
      /\ \A u \in Thread, v \in WaitList :
           In(u, r.wait[v]) <=> In(u, s.wait[v]) \/ (u = t /\ v = w)
      /\ r.stat = s.stat /\ r.timer = s.timer
      /\ r.error = s.error /\ r.prio = s.prio /\ r.mask = s.mask
      /\ r.current = s.current /\ r.isr = s.isr
  BY <1>1, <1>3, <1>4, <1>5, QueuedSound
<1> HIDE DEF r
<1> QED
  BY <1>1, <1>2, <1>6 DEF l

(* Starting the timer of a suspended thread. *)
LEMMA TimerSound ==
  ASSUME NEW x, Sound(x), NEW t \in Thread, x.stat[t] = "SUSPEND"
  PROVE  LET r == [x EXCEPT !.timer = @ \cup {t}]
         IN  /\ Sound(r) /\ r.timer = x.timer \cup {t}
             /\ r.stat = x.stat /\ r.wait = x.wait /\ r.error = x.error
             /\ r.prio = x.prio /\ r.mask = x.mask
             /\ r.current = x.current /\ r.isr = x.isr
<1> DEFINE r == [x EXCEPT !.timer = @ \cup {t}]
<1>0. x \in KernelState
  BY DEF Sound
<1>1. /\ r \in KernelState /\ r.timer = x.timer \cup {t}
      /\ r.ready = x.ready /\ r.group = x.group /\ r.defunct = x.defunct
      /\ r.stat = x.stat /\ r.wait = x.wait /\ r.error = x.error
      /\ r.prio = x.prio /\ r.mask = x.mask /\ r.nest = x.nest
      /\ r.current = x.current /\ r.isr = x.isr
  BY <1>0 DEF KernelState
<1> HIDE DEF r
<1>2. Queue(r, {})
  BY <1>1 DEF Sound, Queue
<1>3. \A u \in r.timer : r.stat[u] = "SUSPEND"
  BY <1>1 DEF Sound
<1>4. Sound(r)
  BY <1>1, <1>2, <1>3 DEF Sound
<1> QED
  BY <1>1, <1>4 DEF r

(* x after the thread t was suspended on w with its error cleared, and its *)
(* timer started if it waits for a number of ticks.                        *)
Blocked(r, x, w, t, flag, time) ==
  /\ Sound(r) /\ r.stat = [x.stat EXCEPT ![t] = "SUSPEND"]
  /\ r.wait = [x.wait EXCEPT ![w] = Enqueued(x, w, t, flag)]
  /\ \A u \in Thread, v \in WaitList :
       In(u, r.wait[v]) <=> In(u, x.wait[v]) \/ (u = t /\ v = w)
  /\ r.timer = (IF time = "ticks" THEN x.timer \cup {t} ELSE x.timer)
  /\ r.error = [x.error EXCEPT ![t] = "EOK"]
  /\ r.prio = x.prio /\ r.mask = x.mask
  /\ r.current = x.current /\ r.isr = x.isr

(* The blocking part of a call. *)
LEMMA BlockSound ==
  ASSUME NEW x, Sound(x), me \in Thread \ {Idle}, x.stat[me] = "READY",
         NEW w \in WaitList, NEW flag, NEW time
  PROVE  Blocked(Block(x, w, flag, time), x, w, me, flag, time)
<1> DEFINE e == [x EXCEPT !.error[me] = "EOK"]
           s == rt_ipc_list_suspend(e, w, me, flag)
           r == Block(x, w, flag, time)
           l == Enqueued(x, w, me, flag)
<1>1. /\ Sound(e) /\ e.error = [x.error EXCEPT ![me] = "EOK"]
      /\ e.stat = x.stat /\ e.wait = x.wait /\ e.timer = x.timer
      /\ e.prio = x.prio /\ e.mask = x.mask
      /\ e.current = x.current /\ e.isr = x.isr
  BY ErrorSound DEF Error
<1>2. r = IF time = "ticks" THEN [s EXCEPT !.timer = @ \cup {me}] ELSE s
  BY DEF Block
<1> HIDE DEF e, r
<1>3. /\ Sound(s) /\ s.stat = [x.stat EXCEPT ![me] = "SUSPEND"]
      /\ s.wait = [x.wait EXCEPT ![w] = l]
      /\ \A u \in Thread, v \in WaitList :
           In(u, s.wait[v]) <=> In(u, x.wait[v]) \/ (u = me /\ v = w)
      /\ s.timer = x.timer /\ s.error = e.error /\ s.prio = x.prio /\ s.mask = x.mask
      /\ s.current = x.current /\ s.isr = x.isr
  <2> DEFINE m == Enqueued(e, w, me, flag)
  <2>1. /\ Sound(s) /\ s.stat = [e.stat EXCEPT ![me] = "SUSPEND"]
        /\ s.wait = [e.wait EXCEPT ![w] = m]
        /\ \A u \in Thread, v \in WaitList :
             In(u, s.wait[v]) <=> In(u, e.wait[v]) \/ (u = me /\ v = w)
        /\ s.timer = e.timer /\ s.error = e.error /\ s.prio = e.prio /\ s.mask = e.mask
        /\ s.current = e.current /\ s.isr = e.isr
    <3>1. e.stat[me] = "READY"
      BY <1>1
    <3> QED
      BY <1>1, <3>1, IpcSuspendSound
  <2>2. m = l
    BY <1>1 DEF Enqueued
  <2> HIDE DEF s, l, m
  <2> QED
    BY <1>1, <2>1, <2>2
<1>4. s.stat[me] = "SUSPEND"
  <2>1. x.stat \in [Thread -> Stat]
    BY DEF Sound, KernelState
  <2> QED
    BY <1>3, <2>1
<1> HIDE DEF s, l
<1>5. CASE time = "ticks"
  <2>1. /\ Sound(r) /\ r.timer = s.timer \cup {me}
        /\ r.stat = s.stat /\ r.wait = s.wait /\ r.error = s.error
        /\ r.prio = s.prio /\ r.mask = s.mask
        /\ r.current = s.current /\ r.isr = s.isr
    BY <1>2, <1>3, <1>4, <1>5, TimerSound
  <2> QED
    BY <1>1, <1>3, <1>5, <2>1 DEF r, l, Blocked
<1>6. CASE time # "ticks"
  <2>1. r = s
    BY <1>2, <1>6
  <2> QED
    BY <1>1, <1>3, <1>6, <2>1 DEF r, l, Blocked
<1> QED
  BY <1>5, <1>6

(* One pass of rt_ipc_list_resume_all. *)
Rouse(x, t) == rt_thread_resume([x EXCEPT !.error[t] = "ERROR"], t)

(* The loop of rt_ipc_list_resume_all, one waiter at a time: the state     *)
(* after n passes is a function of n.                                      *)
LEMMA ResumeAllSteps ==
  ASSUME NEW x, NEW w, x.wait[w] \in Seq(Thread)
  PROVE  \E F : /\ rt_ipc_list_resume_all(x, w) = F[Len(x.wait[w])]
                /\ F[0] = x
                /\ \A n \in 1 .. Len(x.wait[w]) : F[n] = Rouse(F[n - 1], x.wait[w][n])
<1> DEFINE N == Len(x.wait[w])
           Pass(y, n) == Rouse(y, x.wait[w][n])
           Loop(f, m) == f = [n \in 0 .. m |-> IF n = 0 THEN x ELSE Pass(f[n - 1], n)]
           Bad == {m \in 0 .. N : ~ \E f : Loop(f, m)}
           G == CHOOSE f : Loop(f, N)
<1>1. N \in Nat
  OBVIOUS
<1>2. rt_ipc_list_resume_all(x, w) = G[N]
  BY DEF rt_ipc_list_resume_all, Rouse
<1> HIDE DEF N, Pass
<1>3. Bad = {}
  <2> SUFFICES ASSUME Bad # {} PROVE FALSE
    OBVIOUS
  <2>1. Bad \in SUBSET Nat
    BY <1>1
  <2>2. PICK m \in Bad : \A n \in Bad : m <= n
    BY <2>1, LeastNatural
  <2>3. m \in 0 .. N /\ ~ \E f : Loop(f, m)
    BY <2>2
  <2>4. CASE m = 0
    <3> DEFINE g == [n \in 0 .. 0 |-> x]
    <3>1. Loop(g, 0)
      OBVIOUS
    <3> QED
      BY <2>3, <2>4, <3>1
  <2>5. CASE m # 0
    <3>1. m - 1 \in 0 .. N /\ ~(m <= m - 1)
      BY <1>1, <2>3, <2>5
    <3>2. m - 1 \notin Bad
      BY <2>2, <3>1
    <3>3. PICK f : Loop(f, m - 1)
      BY <3>1, <3>2
    <3> DEFINE g == [n \in 0 .. m |-> IF n = m THEN Pass(f[m - 1], m) ELSE f[n]]
    <3>4. \A n \in 0 .. m - 1 : g[n] = f[n] /\ f[n] = IF n = 0 THEN x ELSE Pass(f[n - 1], n)
      <4>1. \A n \in 0 .. m - 1 : f[n] = IF n = 0 THEN x ELSE Pass(f[n - 1], n)
        BY <3>3
      <4>2. \A n \in 0 .. m - 1 : n \in 0 .. m /\ n # m
        BY <1>1, <2>3
      <4> QED
        BY <4>1, <4>2
    <3>5. ASSUME NEW n \in 0 .. m PROVE g[n] = IF n = 0 THEN x ELSE Pass(g[n - 1], n)
      <4>1. CASE n = m
        <5>1. m - 1 \in 0 .. m - 1 /\ m \in 0 .. m
          BY <1>1, <2>3, <2>5
        <5>2. g[m] = Pass(f[m - 1], m)
          BY <5>1
        <5>3. g[m - 1] = f[m - 1]
          BY <3>4, <5>1
        <5> HIDE DEF g
        <5> QED
          BY <2>5, <4>1, <5>2, <5>3
      <4>2. CASE n # m /\ n # 0
        <5>1. n \in 0 .. m - 1 /\ n - 1 \in 0 .. m - 1
          BY <1>1, <2>3, <4>2
        <5> HIDE DEF g
        <5> QED
          BY <3>4, <4>2, <5>1
      <4>3. CASE n # m /\ n = 0
        <5>1. n \in 0 .. m - 1
          BY <1>1, <2>3, <4>3
        <5> HIDE DEF g
        <5> QED
          BY <3>4, <4>3, <5>1
      <4> QED
        BY <4>1, <4>2, <4>3
    <3>6. Loop(g, m)
      <4> DEFINE h == [n \in 0 .. m |-> IF n = 0 THEN x ELSE Pass(g[n - 1], n)]
      <4>1. \A n \in 0 .. m : g[n] = h[n]
        BY <3>5
      <4>2. DOMAIN g = 0 .. m /\ DOMAIN h = 0 .. m
        OBVIOUS
      <4>3. g = [n \in 0 .. m |-> g[n]] /\ h = [n \in 0 .. m |-> h[n]]
        OBVIOUS
      <4> HIDE DEF g
      <4> QED
        BY <4>1, <4>2, <4>3
    <3> QED
      BY <2>3, <3>6
  <2> QED
    BY <2>4, <2>5
<1>4. \E f : Loop(f, N)
  BY <1>1, <1>3
<1>5. Loop(G, N)
  BY <1>4
<1> HIDE DEF G
<1>6. 0 \in 0 .. N /\ \A n \in 1 .. N : n \in 0 .. N /\ n # 0
  BY <1>1
<1>7. G[0] = x /\ \A n \in 1 .. N : G[n] = Pass(G[n - 1], n)
  BY <1>5, <1>6
<1> QED
  BY <1>2, <1>7 DEF N, Pass

(* Changing thread->error and waking the thread, as one pass of            *)
(* rt_ipc_list_resume_all does.                                            *)
LEMMA RouseSound ==
  ASSUME NEW x, Sound(x), NEW t \in Thread, x.stat[t] = "SUSPEND", NEW e \in Error
  PROVE  LET r == rt_thread_resume([x EXCEPT !.error[t] = e], t)
         IN  /\ Sound(r) /\ r.stat = [x.stat EXCEPT ![t] = "READY"]
             /\ r.wait = Unwait(x, t) /\ r.timer = x.timer \ {t}
             /\ r.error = [x.error EXCEPT ![t] = e] /\ r.prio = x.prio /\ r.mask = x.mask
             /\ r.current = x.current /\ r.isr = x.isr
<1> DEFINE y == [x EXCEPT !.error[t] = e]
           r == rt_thread_resume(y, t)
<1>1. /\ Sound(y) /\ y.error = [x.error EXCEPT ![t] = e]
      /\ y.stat = x.stat /\ y.wait = x.wait /\ y.timer = x.timer
      /\ y.prio = x.prio /\ y.mask = x.mask
      /\ y.current = x.current /\ y.isr = x.isr
  BY ErrorSound
<1> HIDE DEF y
<1>2. /\ Sound(r) /\ r.stat = [y.stat EXCEPT ![t] = "READY"]
      /\ r.wait = Unwait(y, t) /\ r.timer = y.timer \ {t}
      /\ r.error = y.error /\ r.prio = y.prio /\ r.mask = y.mask
      /\ r.current = y.current /\ r.isr = y.isr
  BY <1>1, ResumeSound
<1>3. Unwait(y, t) = Unwait(x, t)
  BY <1>1 DEF Unwait
<1> HIDE DEF r
<1> QED
  BY <1>1, <1>2, <1>3 DEF r, y

(* x after the threads of R, all of them on the list w, were woken with    *)
(* the error -RT_ERROR.                                                    *)
Roused(r, x, w, R) ==
  /\ Sound(r)
  /\ \A v \in WaitList : v # w => r.wait[v] = x.wait[v]
  /\ \A t \in Thread : In(t, r.wait[w]) <=> In(t, x.wait[w]) /\ t \notin R
  /\ \A t \in Thread : r.stat[t] = IF t \in R THEN "READY" ELSE x.stat[t]
  /\ \A t \in Thread : r.error[t] = IF t \in R THEN "ERROR" ELSE x.error[t]
  /\ r.timer = x.timer \ R /\ r.prio = x.prio /\ r.mask = x.mask
  /\ r.current = x.current /\ r.isr = x.isr

(* One pass of the loop. *)
LEMMA RousedPass ==
  ASSUME NEW x, Sound(x), NEW w \in WaitList, NEW R, NEW y, Roused(y, x, w, R),
         NEW t \in Thread, In(t, x.wait[w]), t \notin R
  PROVE  Roused(Rouse(y, t), x, w, R \cup {t})
<1> DEFINE r == Rouse(y, t)
<1>1. Sound(y) /\ In(t, y.wait[w]) /\ y.stat[t] = "SUSPEND"
  BY DEF Roused, Sound
<1>2. /\ Sound(r) /\ r.stat = [y.stat EXCEPT ![t] = "READY"]
      /\ r.wait = Unwait(y, t) /\ r.timer = y.timer \ {t}
      /\ r.error = [y.error EXCEPT ![t] = "ERROR"] /\ r.prio = y.prio /\ r.mask = y.mask
      /\ r.current = y.current /\ r.isr = y.isr
  BY <1>1, RouseSound DEF Error, Rouse
<1> HIDE DEF r
<1>3. y.stat \in [Thread -> Stat] /\ y.error \in [Thread -> Error]
  BY <1>1 DEF Sound, KernelState
<1>4. ASSUME NEW v \in WaitList, v # w PROVE r.wait[v] = x.wait[v]
  <2>1. ~In(t, y.wait[v])
    BY <1>1, <1>4 DEF Sound
  <2>2. r.wait[v] = Without(y.wait[v], t)
    BY <1>2 DEF Unwait
  <2> QED
    BY <1>4, <2>1, <2>2, WithoutAbsent DEF Roused
<1>5. ASSUME NEW u \in Thread PROVE In(u, r.wait[w]) <=> In(u, x.wait[w]) /\ u \notin R \cup {t}
  <2>1. In(u, r.wait[w]) <=> In(u, y.wait[w]) /\ u # t
    BY <1>1, <1>2, UnwaitIn
  <2> QED
    BY <2>1 DEF Roused
<1>6. ASSUME NEW u \in Thread
      PROVE  /\ r.stat[u] = IF u \in R \cup {t} THEN "READY" ELSE x.stat[u]
             /\ r.error[u] = IF u \in R \cup {t} THEN "ERROR" ELSE x.error[u]
  <2>1. CASE u = t
    BY <1>2, <1>3, <2>1
  <2>2. CASE u # t
    BY <1>2, <1>3, <2>2 DEF Roused
  <2> QED
    BY <2>1, <2>2
<1>7. /\ r.timer = x.timer \ (R \cup {t}) /\ r.prio = x.prio /\ r.mask = x.mask
      /\ r.current = x.current /\ r.isr = x.isr
  BY <1>2 DEF Roused
<1>8. Roused(r, x, w, R \cup {t})
  BY <1>2, <1>4, <1>5, <1>6, <1>7 DEF Roused
<1> QED
  BY <1>8 DEF r

(* rt_ipc_list_resume_all empties the list: every waiter, and nobody else, *)
(* is woken with the error -RT_ERROR.                                      *)
LEMMA ResumeAllSound ==
  ASSUME NEW x, Sound(x), NEW w \in WaitList
  PROVE  LET r == rt_ipc_list_resume_all(x, w)
         IN  /\ Roused(r, x, w, {t \in Thread : In(t, x.wait[w])})
             /\ r.wait[w] = <<>>
<1> DEFINE s == x.wait[w]
           R(n) == {s[j] : j \in 1 .. n}
<1>1. s \in Seq(Thread) /\ Len(s) \in Nat /\ DOMAIN s = 1 .. Len(s) /\ Once(s)
  BY DEF Sound, KernelState
<1>2. PICK F : /\ rt_ipc_list_resume_all(x, w) = F[Len(s)]
               /\ F[0] = x
               /\ \A n \in 1 .. Len(s) : F[n] = Rouse(F[n - 1], s[n])
  BY <1>1, ResumeAllSteps
<1> DEFINE Bad == {n \in 0 .. Len(s) : ~Roused(F[n], x, w, R(n))}
<1>3. Bad = {}
  <2> SUFFICES ASSUME Bad # {} PROVE FALSE
    OBVIOUS
  <2>1. Bad \in SUBSET Nat
    BY <1>1
  <2>2. PICK m \in Bad : \A n \in Bad : m <= n
    BY <2>1, LeastNatural
  <2>3. m \in 0 .. Len(s) /\ ~Roused(F[m], x, w, R(m))
    BY <2>2
  <2>4. CASE m = 0
    <3>1. R(0) = {}
      OBVIOUS
    <3>2. x.timer \ {} = x.timer
      OBVIOUS
    <3>3. Roused(x, x, w, {})
      BY <3>2 DEF Roused
    <3> QED
      BY <1>2, <2>3, <2>4, <3>1, <3>3
  <2>5. CASE m # 0
    <3>1. m - 1 \in 0 .. Len(s) /\ ~(m <= m - 1) /\ m \in 1 .. Len(s)
      BY <1>1, <2>3, <2>5
    <3>2. Roused(F[m - 1], x, w, R(m - 1))
      BY <2>2, <3>1
    <3>3. s[m] \in Thread /\ In(s[m], s)
      BY <1>1, <3>1 DEF In
    <3>4. ASSUME NEW j \in 1 .. m - 1 PROVE s[m] # s[j]
      <4>1. j \in DOMAIN s /\ m \in DOMAIN s /\ j # m
        BY <1>1, <3>1
      <4> QED
        BY <1>1, <4>1 DEF Once
    <3>5. R(m) = R(m - 1) \cup {s[m]}
      BY <1>1, <3>1
    <3>6. F[m] = Rouse(F[m - 1], s[m])
      BY <1>2, <3>1
    <3> HIDE DEF R
    <3>7. Roused(F[m], x, w, R(m - 1) \cup {s[m]})
      <4>1. s[m] \notin R(m - 1)
        BY <3>4 DEF R
      <4> QED
        BY <3>2, <3>3, <3>6, <4>1, RousedPass
    <3> QED
      BY <2>3, <3>5, <3>7
  <2> QED
    BY <2>4, <2>5
<1>4. Roused(F[Len(s)], x, w, R(Len(s)))
  <2> HIDE DEF Bad, R
  <2>1. Len(s) \in 0 .. Len(s)
    BY <1>1
  <2>2. Len(s) \notin Bad
    BY <1>3
  <2> QED
    BY <2>1, <2>2 DEF Bad
<1>5. R(Len(s)) = {t \in Thread : In(t, s)}
  BY <1>1 DEF In
<1> DEFINE r == rt_ipc_list_resume_all(x, w)
<1>6. Roused(r, x, w, {t \in Thread : In(t, s)})
  BY <1>2, <1>4, <1>5
<1> HIDE DEF r
<1>7. r.wait[w] \in Seq(Thread) /\ \A t \in Thread : ~In(t, r.wait[w])
  BY <1>6 DEF Roused, Sound, KernelState
<1>8. r.wait[w] = <<>>
  BY <1>7, EmptyIn
<1> QED
  BY <1>6, <1>8 DEF r

(* rt_thread_control gives the thread its new priority and leaves it where *)
(* it waits.                                                               *)
LEMMA ControlSound ==
  ASSUME NEW x, Sound(x), NEW t \in Thread, NEW p \in Priority
  PROVE  LET r == rt_thread_control(x, t, p)
         IN  /\ Sound(r) /\ r.prio = [x.prio EXCEPT ![t] = p]
             /\ r.stat = x.stat /\ r.wait = x.wait /\ r.timer = x.timer /\ r.error = x.error
             /\ r.current = x.current /\ r.isr = x.isr
<1> DEFINE r == rt_thread_control(x, t, p)
<1>0. /\ x \in KernelState /\ Queue(x, {}) /\ x.mask[t] = {x.prio[t]} /\ ~In(t, x.defunct)
      /\ x.prio \in [Thread -> Priority] /\ x.mask \in [Thread -> SUBSET Priority]
  BY SoundOff DEF Sound, KernelState
<1>1. /\ r \in KernelState /\ SameRest(r, x) /\ Queue(r, {})
      /\ r.stat = x.stat /\ r.timer = x.timer
      /\ r.prio = [x.prio EXCEPT ![t] = p] /\ r.mask = [x.mask EXCEPT ![t] = {p}]
      /\ r.wait = (IF x.stat[t] = "READY" THEN Unwait(x, t) ELSE x.wait)
      /\ r.error = x.error
  BY <1>0, ControlFields
<1> HIDE DEF r
<1>2. r.wait = x.wait
  BY <1>1, UnwaitSame
<1>3. /\ r.defunct = x.defunct /\ r.current = x.current /\ r.nest = x.nest /\ r.isr = x.isr
  BY <1>1 DEF SameRest
<1>4. \A v \in Thread : r.mask[v] = {r.prio[v]} /\ r.stat[v] \in {"READY", "SUSPEND"}
  BY <1>0, <1>1 DEF Sound
<1>5. Sound(r)
  BY <1>1, <1>2, <1>3, <1>4 DEF Sound
<1> QED
  BY <1>1, <1>2, <1>3, <1>5 DEF r

-----------------------------------------------------------------------------
(* From x to r no thread is suspended, and whoever stays suspended stays   *)
(* on its list.                                                            *)
Wakes(r, x) ==
  \A t \in Thread : r.stat[t] = "SUSPEND" =>
    x.stat[t] = "SUSPEND" /\ \A w \in WaitList : In(t, r.wait[w]) <=> In(t, x.wait[w])

(* Waking one thread is one way to do so, *)
LEMMA ResumeWakes ==
  ASSUME NEW x, Sound(x), NEW t \in Thread, NEW r, r.wait = Unwait(x, t),
         r.stat = [x.stat EXCEPT ![t] = "READY"]
  PROVE  Wakes(r, x)
<1>1. \A u \in Thread, w \in WaitList : In(u, r.wait[w]) <=> In(u, x.wait[w]) /\ u # t
  BY UnwaitIn
<1>2. x.stat \in [Thread -> Stat]
  BY DEF Sound, KernelState
<1>3. r.stat[t] = "READY" /\ \A v \in Thread : v # t => r.stat[v] = x.stat[v]
  BY <1>2
<1> QED
  BY <1>1, <1>3 DEF Wakes

(* waking all the waiters of a list another, *)
LEMMA ResumeAllWakes ==
  ASSUME NEW x, Sound(x), NEW w \in WaitList, NEW r,
         Roused(r, x, w, {t \in Thread : In(t, x.wait[w])})
  PROVE  Wakes(r, x)
<1> SUFFICES ASSUME NEW t \in Thread, r.stat[t] = "SUSPEND"
             PROVE  /\ x.stat[t] = "SUSPEND"
                    /\ \A v \in WaitList : In(t, r.wait[v]) <=> In(t, x.wait[v])
  BY DEF Wakes
<1>1. ~In(t, x.wait[w]) /\ x.stat[t] = "SUSPEND"
  BY DEF Roused
<1> QED
  BY <1>1 DEF Roused

(* waking nobody a third. *)
LEMMA SameWakes ==
  ASSUME NEW x, NEW r, r.stat = x.stat, r.wait = x.wait
  PROVE  Wakes(r, x)
BY DEF Wakes

(* Two such steps in a row are one. *)
LEMMA WakesTransitive ==
  ASSUME NEW x, NEW y, NEW z, Wakes(z, y), Wakes(y, x)
  PROVE  Wakes(z, x)
BY DEF Wakes

(* The operations a thread can be in. *)
Op == {"run", "block", "woken", "sched", "detach", "rouse", "fill", "urge", "leave"}

(* A thread inside a call is READY while it runs, but between its suspension *)
(* and its rt_schedule.                                                      *)
LEMMA SelfReady ==
  ASSUME IpcInv, NEW o, At(o), o # "block"
  PROVE  me \in Thread /\ k.stat[me] = "READY"
BY DEF IpcInv, Located, At, me

(* The places of the threads after an interrupt, which moves no program    *)
(* counter and suspends nobody.                                            *)
LEMMA InterruptPlaces ==
  ASSUME IpcInv, Sound(k'), Wakes(k', k), pc' = pc,
         k'.current = k.current \/ Best(k', {}, k'.current)
  PROVE  IpcInv'
<1>1. IpcTypeOK /\ Sound(k) /\ Located(k, pc) /\ k' \in KernelState
  BY DEF IpcInv, Sound
<1>2. k'.current \in Thread /\ \A t \in Thread : k'.stat[t] \in {"READY", "SUSPEND"}
  BY DEF Sound
<1>3. k'.stat[k'.current] = "READY" \/ pc[k'.current].op = "block"
  <2>1. CASE k'.current = k.current
    BY <1>1, <1>2, <2>1 DEF Located, Wakes
  <2>2. CASE Best(k', {}, k'.current)
    BY <2>2 DEF Best
  <2> QED
    BY <2>1, <2>2
<1>4. Located(k', pc)
  <2>1. \A t \in Thread : k'.stat[t] = "SUSPEND" =>
          pc[t].op \in {"block", "woken"} /\ pc[t].on = {w \in WaitList : In(t, k'.wait[w])}
    BY <1>1 DEF Located, Wakes
  <2> QED
    BY <1>1, <1>3, <2>1 DEF Located
<1> QED
  BY <1>1, <1>4 DEF IpcInv, IpcTypeOK

(* The places of the threads after a step of the running thread that does  *)
(* not suspend it.                                                         *)
LEMMA CallPlaces ==
  ASSUME IpcInv, k.stat[me] = "READY", Sound(k'), Wakes(k', k),
         NEW o \in Op, NEW S \in SUBSET WaitList, o = "run" => S = {}, me # Idle \/ o = "run",
         pc' = [pc EXCEPT ![me] = [op |-> o, on |-> S]],
         k'.current = k.current \/ Best(k', {}, k'.current)
  PROVE  IpcInv'
<1>1. IpcTypeOK /\ Sound(k) /\ Located(k, pc) /\ k' \in KernelState /\ me \in Thread
  BY DEF IpcInv, Sound, me
<1>2. pc' \in [Thread -> [op : Op, on : SUBSET WaitList]]
  BY <1>1 DEF IpcTypeOK, Op
<1>3. /\ pc'[me].op = o /\ pc'[me].on = S
      /\ \A t \in Thread : t # me => pc'[t] = pc[t]
  BY <1>1 DEF IpcTypeOK
<1>4. k'.current \in Thread /\ \A t \in Thread : k'.stat[t] \in {"READY", "SUSPEND"}
  BY DEF Sound
<1>5. k'.stat[k'.current] = "READY"
  <2>1. CASE k'.current = k.current
    BY <1>4, <2>1 DEF Wakes, me
  <2>2. CASE Best(k', {}, k'.current)
    BY <2>2 DEF Best
  <2> QED
    BY <2>1, <2>2
<1>6. ASSUME NEW t \in Thread, k'.stat[t] = "SUSPEND"
      PROVE  /\ pc'[t].op \in {"block", "woken"}
             /\ pc'[t].on = {w \in WaitList : In(t, k'.wait[w])}
  <2>1. k.stat[t] = "SUSPEND" /\ \A w \in WaitList : In(t, k'.wait[w]) <=> In(t, k.wait[w])
    BY <1>6 DEF Wakes
  <2>2. t # me
    BY <2>1
  <2> QED
    BY <1>1, <1>3, <2>1, <2>2 DEF Located
<1>7. \A t \in Thread : pc'[t].op = "run" => pc'[t].on = {}
  BY <1>1, <1>3 DEF Located
<1>8. pc'[Idle].op = "run"
  BY <1>1, <1>3, IdleThread DEF Located
<1>9. Located(k', pc')
  BY <1>5, <1>6, <1>7, <1>8 DEF Located
<1> QED
  BY <1>1, <1>2, <1>9 DEF IpcInv, IpcTypeOK, Op

(* ... and after a step that suspends it on the lists W. *)
LEMMA SuspendPlaces ==
  ASSUME IpcInv, me # Idle, Sound(k'), NEW W \in SUBSET WaitList,
         pc' = [pc EXCEPT ![me] = [op |-> "block", on |-> W]],
         k'.stat = [k.stat EXCEPT ![me] = "SUSPEND"], k'.current = k.current,
         \A t \in Thread, v \in WaitList :
           In(t, k'.wait[v]) <=> In(t, k.wait[v]) \/ (t = me /\ v \in W),
         k.stat[me] = "READY"
  PROVE  IpcInv'
<1>1. IpcTypeOK /\ Sound(k) /\ Located(k, pc) /\ k' \in KernelState /\ me \in Thread
  BY DEF IpcInv, Sound, me
<1>2. pc' \in [Thread -> [op : Op, on : SUBSET WaitList]]
  BY <1>1 DEF IpcTypeOK, Op
<1>3. /\ pc'[me].op = "block" /\ pc'[me].on = W
      /\ \A t \in Thread : t # me => pc'[t] = pc[t]
  BY <1>1 DEF IpcTypeOK
<1>4. /\ k.stat \in [Thread -> Stat] /\ \A v \in WaitList : ~In(me, k.wait[v])
  BY <1>1 DEF Sound, KernelState
<1>5. \A t \in Thread : t # me => k'.stat[t] = k.stat[t]
  BY <1>4
<1>6. ASSUME NEW t \in Thread, k'.stat[t] = "SUSPEND"
      PROVE  /\ pc'[t].op \in {"block", "woken"}
             /\ pc'[t].on = {w \in WaitList : In(t, k'.wait[w])}
  <2>1. CASE t = me
    BY <1>1, <1>3, <1>4, <2>1
  <2>2. CASE t # me
    BY <1>1, <1>3, <1>5, <1>6, <2>2 DEF Located
  <2> QED
    BY <2>1, <2>2
<1>7. \A t \in Thread : pc'[t].op = "run" => pc'[t].on = {}
  BY <1>1, <1>3 DEF Located
<1>8. pc'[Idle].op = "run" /\ pc'[k'.current].op = "block"
  BY <1>1, <1>3, IdleThread DEF Located, me
<1>9. Located(k', pc')
  BY <1>6, <1>7, <1>8 DEF Located
<1> QED
  BY <1>1, <1>2, <1>9 DEF IpcInv, IpcTypeOK, Op

(* At the start every thread is once in the ready list of the priority it  *)
(* was created with.                                                       *)
LEMMA StartReady ==
  /\ \A t \in Thread : init_priority(t) \in Priority
  /\ \A t \in Thread, p \in Priority : In(t, InitReady[p]) <=> p = init_priority(t)
  /\ \A p \in Priority : InitReady[p] \in Seq(Thread) /\ Once(InitReady[p])
  /\ In(Idle, InitReady[PRIORITY_MAX - 1]) /\ PRIORITY_MAX - 1 \in Priority
<1>1. ASSUME NEW t \in Thread
      PROVE  \E p \in Priority : /\ In(t, InitReady[p])
                                 /\ \A q \in Priority \ {p} : ~In(t, InitReady[q])
                                 /\ \A i, j \in DOMAIN InitReady[p] :
                                      InitReady[p][i] = t /\ InitReady[p][j] = t => i = j
  <2>1. \E p \in Priority :
          /\ \E i \in DOMAIN InitReady[p] : InitReady[p][i] = t
          /\ \A q \in Priority \ {p} : \A i \in DOMAIN InitReady[q] : InitReady[q][i] # t
          /\ \A i, j \in DOMAIN InitReady[p] :
               InitReady[p][i] = t /\ InitReady[p][j] = t => i = j
    BY IpcAssumption, Zenon
  <2> QED
    BY <2>1 DEF In
<1>2. ASSUME NEW t \in Thread
      PROVE  /\ init_priority(t) \in Priority
             /\ \A p \in Priority : In(t, InitReady[p]) <=> p = init_priority(t)
             /\ \A i, j \in DOMAIN InitReady[init_priority(t)] :
                  (InitReady[init_priority(t)][i] = t /\ InitReady[init_priority(t)][j] = t)
                    => i = j
  <2>1. PICK p \in Priority : /\ In(t, InitReady[p])
                              /\ \A q \in Priority \ {p} : ~In(t, InitReady[q])
                              /\ \A i, j \in DOMAIN InitReady[p] :
                                   InitReady[p][i] = t /\ InitReady[p][j] = t => i = j
    BY <1>1
  <2>2. init_priority(t) = p
    BY <2>1 DEF init_priority
  <2> QED
    BY <2>1, <2>2
<1>3. \A p \in Priority : InitReady[p] \in Seq(Thread)
  BY IpcAssumption, Zenon
<1>4. ASSUME NEW p \in Priority PROVE Once(InitReady[p])
  <2> SUFFICES ASSUME NEW i \in DOMAIN InitReady[p], NEW j \in DOMAIN InitReady[p],
                      InitReady[p][i] = InitReady[p][j]
               PROVE  i = j
    BY DEF Once
  <2>1. InitReady[p][i] \in Thread
    BY <1>3
  <2>2. p = init_priority(InitReady[p][i])
    BY <1>2, <2>1 DEF In
  <2> QED
    BY <1>2, <2>1, <2>2
<1>5. PRIORITY_MAX - 1 \in Priority
  BY KernelAssumption DEF Priority
<1>6. InitReady[PRIORITY_MAX - 1] = <<Idle>>
  BY IpcAssumption, Zenon
<1>7. In(Idle, InitReady[PRIORITY_MAX - 1])
  BY <1>6 DEF In
<1> QED
  BY <1>2, <1>3, <1>4, <1>5, <1>7

(* rt_system_scheduler_start leaves the kernel sound, with a best thread   *)
(* on the processor and nobody waiting.                                    *)
LEMMA StartSound ==
  ASSUME KernelInit
  PROVE  /\ IpcInv /\ Best(k, {}, k.current)
         /\ \A w \in WaitList : k.wait[w] = <<>>
         /\ pc = [t \in Thread |-> [op |-> "run", on |-> {}]]
         /\ k.prio = [t \in Thread |-> init_priority(t)]
         /\ k.error = [t \in Thread |-> "EOK"] /\ k.timer = {}
<1> DEFINE group == {p \in Priority : InitReady[p] # <<>>}
           h == HighestReady(group)
<1>1. /\ k.ready = InitReady /\ k.group = group
      /\ k.wait = [w \in WaitList |-> <<>>] /\ k.defunct = <<>>
      /\ k.stat = [t \in Thread |-> "READY"]
      /\ k.prio = [t \in Thread |-> init_priority(t)]
      /\ k.mask = [t \in Thread |-> {init_priority(t)}]
      /\ k.error = [t \in Thread |-> "EOK"]
      /\ k.slice = [t \in Thread |-> INIT_TICK] /\ k.timer = {}
      /\ k.current = InitReady[h][1] /\ k.nest = 0 /\ k.isr = FALSE /\ k.astray = FALSE
      /\ pc = [t \in Thread |-> [op |-> "run", on |-> {}]]
  BY DEF KernelInit
<1>r. k = [ ready |-> k.ready, group |-> k.group, wait |-> k.wait, defunct |-> k.defunct,
            stat |-> k.stat, prio |-> k.prio, mask |-> k.mask, error |-> k.error,
            slice |-> k.slice, timer |-> k.timer, current |-> k.current,
            nest |-> k.nest, isr |-> k.isr, astray |-> k.astray ]
  BY DEF KernelInit
<1>2. h \in group /\ \A q \in group : h <= q
  <2>1. group \in SUBSET Nat
    BY KernelAssumption DEF Priority
  <2>2. PRIORITY_MAX - 1 \in group
    BY StartReady DEF In
  <2>3. \E p \in group : \A q \in group : p <= q
    BY <2>1, <2>2, LeastNatural
  <2> HIDE DEF group
  <2> QED
    BY <2>2, <2>3 DEF HighestReady
<1>3. h \in Priority /\ InitReady[h] \in Seq(Thread) /\ InitReady[h] # <<>>
  BY <1>2, StartReady
<1> HIDE DEF h
<1>4. InitReady[h][1] \in Thread /\ In(InitReady[h][1], InitReady[h])
  <2>1. Len(InitReady[h]) \in Nat /\ Len(InitReady[h]) # 0
    BY <1>3
  <2>2. 1 \in DOMAIN InitReady[h]
    BY <1>3, <2>1
  <2> QED
    BY <1>3, <2>2 DEF In
<1>5. k \in KernelState
  <2>1. INIT_TICK \in 1 .. INIT_TICK
    BY KernelAssumption
  <2>2. \A t \in Thread : init_priority(t) \in Priority
    BY StartReady
  <2>3. InitReady \in [Priority -> Seq(Thread)]
    BY IpcAssumption, Zenon
  <2>4. /\ k.ready \in [Priority -> Seq(Thread)] /\ k.group \in SUBSET Priority
        /\ k.wait \in [WaitList -> Seq(Thread)] /\ k.defunct \in Seq(Thread)
        /\ k.stat \in [Thread -> Stat] /\ k.prio \in [Thread -> Priority]
        /\ k.mask \in [Thread -> SUBSET Priority] /\ k.error \in [Thread -> Error]
        /\ k.slice \in [Thread -> 1 .. INIT_TICK] /\ k.timer \in SUBSET Thread
        /\ k.current \in Thread \cup {NoThread} /\ k.nest \in Nat /\ k.isr \in BOOLEAN
        /\ k.astray \in BOOLEAN
    <3>1. k.ready \in [Priority -> Seq(Thread)] /\ k.group \in SUBSET Priority
      BY <1>1, <2>3
    <3>2. k.wait \in [WaitList -> Seq(Thread)] /\ k.defunct \in Seq(Thread)
      BY <1>1
    <3>3. k.stat \in [Thread -> Stat] /\ k.error \in [Thread -> Error]
      BY <1>1 DEF Stat, Error
    <3>4. k.prio \in [Thread -> Priority]
      BY <1>1, <2>2
    <3>5. k.mask \in [Thread -> SUBSET Priority]
      BY <1>1, <2>2
    <3>6. k.slice \in [Thread -> 1 .. INIT_TICK]
      BY <1>1, <2>1
    <3>7. /\ k.timer = {} /\ k.current = InitReady[h][1] /\ k.nest = 0 /\ k.isr = FALSE
          /\ k.astray = FALSE
      BY <1>1
    <3>8. k.timer \in SUBSET Thread /\ k.current \in Thread \cup {NoThread} /\ k.nest \in Nat
      BY <1>4, <3>7
    <3>9. k.isr \in BOOLEAN /\ k.astray \in BOOLEAN
      BY <3>7, Zenon
    <3> QED
      BY <3>1, <3>2, <3>3, <3>4, <3>5, <3>6, <3>8, <3>9
  <2> QED
    BY <1>r, <2>4 DEF KernelState
<1>6. \A t \in Thread : k.stat[t] = "READY" /\ k.prio[t] = init_priority(t)
  BY <1>1
<1>7. Queue(k, {})
  <2>1. \A p \in Priority : Once(k.ready[p])
    BY <1>1, StartReady
  <2>2. \A t \in Thread, p \in Priority :
          In(t, k.ready[p]) <=> k.stat[t] = "READY" /\ k.prio[t] = p /\ t \notin {}
    BY <1>1, <1>6, StartReady
  <2> QED
    BY <1>1, <2>1, <2>2 DEF Queue
<1>8. \A w \in WaitList : k.wait[w] = <<>>
  BY <1>1
<1>9. Sound(k)
  <2>1. \A t \in Thread : k.mask[t] = {k.prio[t]}
    <3>1. \A t \in Thread : k.mask[t] = {init_priority(t)}
      BY <1>1
    <3> QED
      BY <1>6, <3>1
  <2>2. \A w \in WaitList : Once(k.wait[w])
    BY <1>8 DEF Once
  <2>3. \A t \in Thread, w \in WaitList : ~In(t, k.wait[w])
    BY <1>8 DEF In
  <2> QED
    BY <1>1, <1>4, <1>5, <1>6, <1>7, <2>1, <2>2, <2>3, IdleThread DEF Sound
<1>10. Located(k, pc) /\ IpcTypeOK
  BY <1>1, <1>4, <1>5, <1>6, IdleThread DEF Located, IpcTypeOK
<1>11. Best(k, {}, k.current)
  <2>1. init_priority(k.current) = h
    BY <1>1, <1>3, <1>4, StartReady
  <2>2. ASSUME NEW u \in Thread PROVE h <= init_priority(u)
    <3>1. In(u, InitReady[init_priority(u)]) /\ init_priority(u) \in Priority
      BY StartReady
    <3>2. InitReady[init_priority(u)] # <<>>
      BY <3>1 DEF In
    <3> QED
      BY <1>2, <3>1, <3>2
  <2>3. k.current \in Thread
    BY <1>1, <1>4
  <2> QED
    BY <1>6, <2>1, <2>2, <2>3 DEF Best
<1> QED
  BY <1>1, <1>8, <1>9, <1>10, <1>11 DEF IpcInv

(* The invariant of this module says of every thread where it is. *)
LEMMA PlacesKnown == IpcInv => Places
<1> SUFFICES ASSUME IpcInv PROVE Places
  OBVIOUS
<1>1. Sound(k) /\ Located(k, pc)
  BY DEF IpcInv
<1>2. ASSUME NEW t \in Thread
      PROVE  LET ready == {p \in Priority : In(t, k.ready[p])}
                 wait == {w \in WaitList : In(t, k.wait[w])}
             IN  IF k.stat[t] = "READY" THEN ready = {k.prio[t]} /\ wait = {}
                 ELSE /\ ready = {} /\ wait = pc[t].on
                      /\ pc[t].op \in {"block", "woken"}
  <2>1. k.prio[t] \in Priority
    BY <1>1 DEF Sound, KernelState
  <2>2. \A p \in Priority : In(t, k.ready[p]) <=> k.stat[t] = "READY" /\ k.prio[t] = p
    BY <1>1 DEF Sound, Queue
  <2>3. CASE k.stat[t] = "READY"
    <3>1. \A w \in WaitList : ~In(t, k.wait[w])
      BY <1>1, <2>3 DEF Sound
    <3> QED
      BY <2>1, <2>2, <2>3, <3>1
  <2>4. CASE k.stat[t] # "READY"
    <3>1. k.stat[t] = "SUSPEND"
      BY <1>1, <2>4 DEF Sound
    <3> QED
      BY <1>1, <2>2, <2>4, <3>1 DEF Located
  <2> QED
    BY <2>3, <2>4
<1>3. ASSUME NEW s \in {k.ready[p] : p \in Priority} \cup {k.wait[w] : w \in WaitList}
      PROVE  \A i, j \in DOMAIN s : s[i] = s[j] => i = j
  BY <1>1 DEF Sound, Queue, Once
<1>4. k.group = {p \in Priority : k.ready[p] # <<>>} /\ \A t \in k.timer : k.stat[t] = "SUSPEND"
  BY <1>1 DEF Sound, Queue
<1> QED
  BY <1>2, <1>3, <1>4 DEF Places

(* Entering or leaving the interrupt changes nothing else. *)
LEMMA IsrSound ==
  ASSUME NEW x, Sound(x), NEW b \in BOOLEAN
  PROVE  LET r == [x EXCEPT !.isr = b]
         IN  /\ Sound(r) /\ r.stat = x.stat /\ r.wait = x.wait /\ r.timer = x.timer
             /\ r.error = x.error /\ r.prio = x.prio /\ r.current = x.current
<1> DEFINE r == [x EXCEPT !.isr = b]
<1>0. x \in KernelState
  BY DEF Sound
<1>1. /\ r \in KernelState
      /\ r.ready = x.ready /\ r.group = x.group /\ r.defunct = x.defunct
      /\ r.stat = x.stat /\ r.wait = x.wait /\ r.timer = x.timer /\ r.error = x.error
      /\ r.prio = x.prio /\ r.mask = x.mask /\ r.nest = x.nest
      /\ r.current = x.current
  BY <1>0 DEF KernelState
<1> HIDE DEF r
<1>2. Queue(r, {})
  BY <1>1 DEF Sound, Queue
<1>3. Sound(r)
  BY <1>1, <1>2 DEF Sound
<1> QED
  BY <1>1, <1>3 DEF r

(* Going astray changes nothing else either: nothing happens afterwards.   *)
LEMMA AstraySound ==
  ASSUME NEW x, Sound(x)
  PROVE  LET r == Astray(x)
         IN  /\ Sound(r) /\ r.stat = x.stat /\ r.wait = x.wait /\ r.timer = x.timer
             /\ r.error = x.error /\ r.prio = x.prio /\ r.current = x.current
<1> DEFINE r == Astray(x)
<1>0. x \in KernelState
  BY DEF Sound
<1>1. /\ r \in KernelState
      /\ r.ready = x.ready /\ r.group = x.group /\ r.defunct = x.defunct
      /\ r.stat = x.stat /\ r.wait = x.wait /\ r.timer = x.timer /\ r.error = x.error
      /\ r.prio = x.prio /\ r.mask = x.mask /\ r.nest = x.nest
      /\ r.current = x.current
  BY <1>0 DEF KernelState, Astray
<1> HIDE DEF r
<1>2. Queue(r, {})
  BY <1>1 DEF Sound, Queue
<1>3. Sound(r)
  BY <1>1, <1>2 DEF Sound
<1> QED
  BY <1>1, <1>3 DEF r

-----------------------------------------------------------------------------
(* The steps of IpcThreads: each keeps the invariant and changes of the    *)
(* threads what its lemma says.                                            *)

(* Nothing that a call looks at changes but the thread on the processor. *)
Quiet ==
  /\ k'.stat = k.stat /\ k'.wait = k.wait /\ k'.timer = k.timer
  /\ k'.error = k.error /\ k'.prio = k.prio

(* Only the program counter of the running thread moves. *)
Moves(o, S) ==
  /\ pc'[me].op = o /\ pc'[me].on = S
  /\ \A t \in Thread : t # me => pc'[t] = pc[t]

(* Goto and Return are such moves. *)
LEMMA MovesIntro ==
  ASSUME IpcInv, NEW o, NEW S, pc' = [pc EXCEPT ![me] = [op |-> o, on |-> S]]
  PROVE  Moves(o, S)
BY DEF IpcInv, IpcTypeOK, Sound, Moves, me

(* The rt_schedule of a blocking call. *)
LEMMA BlockScheduleStep ==
  ASSUME IpcInv, BlockSchedule
  PROVE  /\ IpcInv' /\ Quiet /\ Best(k', {}, k'.current) /\ Moves("woken", pc[me].on)
         /\ pc[me].op = "block" /\ me \in Thread
<1>1. /\ IpcTypeOK /\ Sound(k) /\ Located(k, pc) /\ me \in Thread
      /\ pc[me].op = "block" /\ k' = rt_schedule(k) /\ pc' = [pc EXCEPT ![me].op = "woken"]
  BY DEF IpcInv, BlockSchedule, At
<1>2. Sound(k') /\ Best(k', {}, k'.current) /\ Quiet
  BY <1>1, ScheduleSound DEF Quiet
<1>3. pc' \in [Thread -> [op : Op, on : SUBSET WaitList]]
  BY <1>1 DEF IpcTypeOK, Op
<1>4. Moves("woken", pc[me].on)
  BY <1>1 DEF IpcTypeOK, Moves
<1>5. k' \in KernelState /\ k'.stat[k'.current] = "READY"
  BY <1>2 DEF Sound, Best
<1>6. Idle # me
  BY <1>1 DEF Located
<1>7. Located(k', pc')
  <2>1. \A t \in Thread : k'.stat[t] = "SUSPEND" =>
          pc'[t].op \in {"block", "woken"} /\ pc'[t].on = {w \in WaitList : In(t, k'.wait[w])}
    BY <1>1, <1>2, <1>4 DEF Located, Quiet, Moves
  <2>2. \A t \in Thread : pc'[t].op = "run" => pc'[t].on = {}
    BY <1>1, <1>4 DEF Located, Moves
  <2>3. pc'[Idle].op = "run"
    BY <1>1, <1>4, <1>6, IdleThread DEF Located, Moves
  <2> QED
    BY <1>5, <2>1, <2>2, <2>3 DEF Located
<1> QED
  BY <1>1, <1>2, <1>3, <1>4, <1>5, <1>7 DEF IpcInv, IpcTypeOK, Op

(* The rt_schedule at the end of a call. *)
LEMMA ScheduleStep ==
  ASSUME IpcInv, Schedule
  PROVE  /\ IpcInv' /\ Quiet /\ Best(k', {}, k'.current) /\ Moves("run", {})
         /\ pc[me].op = "sched" /\ me \in Thread
<1>1. /\ Sound(k) /\ me \in Thread /\ pc[me].op = "sched" /\ k' = rt_schedule(k)
      /\ pc' = [pc EXCEPT ![me] = [op |-> "run", on |-> {}]] /\ k.stat[me] = "READY"
  BY SelfReady DEF IpcInv, Schedule, At, Return
<1>2. Sound(k') /\ Best(k', {}, k'.current) /\ Quiet
  BY <1>1, ScheduleSound DEF Quiet
<1>3. Wakes(k', k)
  BY <1>2, SameWakes DEF Quiet
<1>4. IpcInv'
  <2>1. "run" \in Op /\ {} \in SUBSET WaitList
    BY DEF Op
  <2> QED
    BY <1>1, <1>2, <1>3, <2>1, CallPlaces
<1> QED
  BY <1>1, <1>2, <1>4, MovesIntro

(* The end of rt_thread_delay. *)
LEMMA SleepReturnStep ==
  ASSUME IpcInv, SleepReturn
  PROVE  /\ IpcInv' /\ Moves("run", {}) /\ pc[me].op = "woken" /\ pc[me].on = {}
         /\ k'.stat = k.stat /\ k'.wait = k.wait /\ k'.timer = k.timer /\ k'.prio = k.prio
         /\ k'.current = k.current /\ me \in Thread /\ k.stat[me] = "READY"
         /\ \A t \in Thread : t # me => k'.error[t] = k.error[t]
         /\ k.error[me] = "ERROR" <=> k'.error[me] = "ERROR"
<1> DEFINE e == IF k.error[me] = "ETIMEOUT" THEN "EOK" ELSE k.error[me]
<1>1. /\ Sound(k) /\ me \in Thread /\ pc[me].op = "woken" /\ pc[me].on = {}
      /\ pc' = [pc EXCEPT ![me] = [op |-> "run", on |-> {}]] /\ k.stat[me] = "READY"
  BY SelfReady DEF IpcInv, SleepReturn, At, Return
<1>2. k.error \in [Thread -> Error]
  BY <1>1 DEF Sound, KernelState
<1>3. k' = [k EXCEPT !.error[me] = e] /\ e \in Error /\ (e = "ERROR" <=> k.error[me] = "ERROR")
  <2>1. k' = [k EXCEPT !.error[me] = e]
    BY Zenon DEF SleepReturn
  <2> QED
    BY <1>1, <1>2, <2>1 DEF Error
<1> HIDE DEF e
<1>4. /\ Sound(k') /\ k'.error = [k.error EXCEPT ![me] = e]
      /\ k'.stat = k.stat /\ k'.wait = k.wait /\ k'.timer = k.timer /\ k'.prio = k.prio
      /\ k'.current = k.current
  BY <1>1, <1>3, ErrorSound
<1>5. Wakes(k', k)
  BY <1>4, SameWakes
<1>6. IpcInv'
  <2>1. "run" \in Op /\ {} \in SUBSET WaitList
    BY DEF Op
  <2> QED
    BY <1>1, <1>4, <1>5, <2>1, CallPlaces
<1>7. /\ \A t \in Thread : t # me => k'.error[t] = k.error[t]
      /\ k.error[me] = "ERROR" <=> k'.error[me] = "ERROR"
  BY <1>1, <1>2, <1>3, <1>4
<1> QED
  BY <1>1, <1>4, <1>6, <1>7, MovesIntro

(* rt_thread_delay up to its rt_schedule. *)
LEMMA SleepStep ==
  ASSUME IpcInv, rt_thread_sleep
  PROVE  /\ IpcInv' /\ Moves("block", {}) /\ pc[me].op = "run" /\ me \in Thread
         /\ k'.stat = [k.stat EXCEPT ![me] = "SUSPEND"] /\ k'.wait = k.wait
         /\ k'.timer = k.timer \cup {me} /\ k'.error = k.error /\ k'.prio = k.prio
         /\ k'.current = k.current /\ k.stat[me] = "READY"
<1> DEFINE s == rt_thread_suspend(k, me)
<1>1. /\ IpcTypeOK /\ Sound(k) /\ me \in Thread \ {Idle} /\ pc[me].op = "run"
      /\ k' = [s EXCEPT !.timer = @ \cup {me}] /\ pc[me].on = {}
      /\ pc' = [pc EXCEPT ![me].op = "block"] /\ k.stat[me] = "READY"
  BY SelfReady DEF IpcInv, rt_thread_sleep, Calls, At, Located
<1>2. pc' = [pc EXCEPT ![me] = [op |-> "block", on |-> {}]]
  <2>1. pc[me] \in [op : Op, on : SUBSET WaitList]
    BY <1>1 DEF IpcTypeOK, Op
  <2>2. [pc[me] EXCEPT !.op = "block"] = [op |-> "block", on |-> {}]
    <3>1. PICK a, b : pc[me] = [op |-> a, on |-> b]
      BY <2>1
    <3>2. b = {}
      BY <1>1, <3>1
    <3> QED
      BY <3>1, <3>2
  <2>3. pc' = [pc EXCEPT ![me] = [pc[me] EXCEPT !.op = "block"]]
    BY <1>1
  <2> QED
    BY <2>2, <2>3
<1>3. /\ Sound(s) /\ s.stat = [k.stat EXCEPT ![me] = "SUSPEND"]
      /\ s.wait = k.wait /\ s.timer = k.timer
      /\ s.error = k.error /\ s.prio = k.prio /\ s.current = k.current
  BY <1>1, SuspendSound
<1> HIDE DEF s
<1>4. s.stat[me] = "SUSPEND"
  BY <1>1, <1>3 DEF Sound, KernelState
<1>5. /\ Sound(k') /\ k'.timer = s.timer \cup {me} /\ k'.stat = s.stat /\ k'.wait = s.wait
      /\ k'.error = s.error /\ k'.prio = s.prio /\ k'.current = s.current
  BY <1>1, <1>3, <1>4, TimerSound
<1>6. /\ k'.stat = [k.stat EXCEPT ![me] = "SUSPEND"] /\ k'.wait = k.wait
      /\ k'.timer = k.timer \cup {me} /\ k'.error = k.error /\ k'.prio = k.prio
      /\ k'.current = k.current
  BY <1>3, <1>5
<1>7. IpcInv'
  <2>1. {} \in SUBSET WaitList
    OBVIOUS
  <2>2. \A t \in Thread, v \in WaitList :
          In(t, k'.wait[v]) <=> In(t, k.wait[v]) \/ (t = me /\ v \in {})
    BY <1>6
  <2> QED
    BY <1>1, <1>2, <1>5, <1>6, <2>1, <2>2, SuspendPlaces
<1> QED
  BY <1>1, <1>2, <1>6, <1>7, MovesIntro

(* The first thread of a list that is not empty is suspended on it. *)
LEMMA FirstWaits ==
  ASSUME NEW x, Sound(x), NEW w \in WaitList, x.wait[w] # <<>>
  PROVE  /\ x.wait[w][1] \in Thread /\ In(x.wait[w][1], x.wait[w])
         /\ x.stat[x.wait[w][1]] = "SUSPEND" /\ FirstThread(x.wait[w]) = x.wait[w][1]
<1>1. x.wait[w] \in Seq(Thread)
  BY DEF Sound, KernelState
<1>2. Len(x.wait[w]) \in Nat /\ Len(x.wait[w]) # 0 /\ DOMAIN x.wait[w] = 1 .. Len(x.wait[w])
  BY <1>1
<1>3. x.wait[w][1] \in Thread /\ In(x.wait[w][1], x.wait[w])
  BY <1>1, <1>2 DEF In
<1> QED
  BY <1>3 DEF Sound, FirstThread

(* A step that changes no kernel state. *)
LEMMA GotoStep ==
  ASSUME IpcInv, NEW p, At(p), p # "block", me # Idle \/ p = "run", k' = k,
         NEW o \in Op, NEW S \in SUBSET WaitList, o = "run" => S = {}, me # Idle \/ o = "run",
         pc' = [pc EXCEPT ![me] = [op |-> o, on |-> S]]
  PROVE  IpcInv' /\ Quiet /\ Moves(o, S) /\ me \in Thread /\ k.stat[me] = "READY"
<1>1. Sound(k) /\ me \in Thread /\ k.stat[me] = "READY"
  BY SelfReady DEF IpcInv
<1>2. Wakes(k', k) /\ Sound(k') /\ k'.current = k.current /\ Quiet
  BY <1>1, SameWakes DEF Quiet
<1> QED
  BY <1>1, <1>2, CallPlaces, MovesIntro

(* The kernel goes astray. *)
LEMMA AstrayStep ==
  ASSUME IpcInv, k' = Astray(k), pc' = pc
  PROVE  IpcInv' /\ Quiet /\ k'.current = k.current
<1>1. Sound(k)
  BY DEF IpcInv
<1>2. /\ Sound(k') /\ k'.stat = k.stat /\ k'.wait = k.wait /\ k'.timer = k.timer
      /\ k'.error = k.error /\ k'.prio = k.prio /\ k'.current = k.current
  BY <1>1, AstraySound
<1>3. Wakes(k', k)
  BY <1>2, SameWakes
<1> QED
  BY <1>1, <1>2, <1>3, InterruptPlaces DEF Quiet

(* The pass of the detach loop that finds nobody any more: whatever it     *)
(* takes the head of the list for, no thread moves.                        *)
LEMMA DetachHeadStep ==
  ASSUME IpcInv, NEW w \in WaitList, DetachBody(w), k.wait[w] = <<>>
  PROVE  /\ IpcInv' /\ Quiet /\ k'.current = k.current /\ k.stat[me] = "READY"
         /\ pc[me].op = "rouse" /\ me \in Thread
         /\ \E o \in {"detach", "rouse"} : Moves(o, {w})
<1>1. /\ At("rouse") /\ me \in Thread /\ k.stat[me] = "READY" /\ pc[me].op = "rouse"
      /\ pc[me].on = {w} /\ me # Idle
  BY SelfReady DEF IpcInv, DetachBody, At, Located
<1>2. CASE k' = ResumeFirst(w, "ERROR") /\ Goto("detach", w)
  <2>1. k' = k /\ pc' = [pc EXCEPT ![me] = [op |-> "detach", on |-> {w}]]
    BY <1>2 DEF ResumeFirst, Goto
  <2>2. "detach" \in Op /\ "detach" # "run" /\ {w} \in SUBSET WaitList
    BY DEF Op
  <2>3. IpcInv' /\ Quiet /\ Moves("detach", {w})
    BY <1>1, <2>1, <2>2, GotoStep
  <2> QED
    BY <1>1, <2>1, <2>3
<1>3. CASE k' = Astray(k) /\ pc' = pc
  <2>1. IpcInv' /\ Quiet /\ k'.current = k.current
    BY <1>3, AstrayStep
  <2>2. Moves("rouse", {w})
    BY <1>1, <1>3 DEF Moves
  <2> QED
    BY <1>1, <2>1, <2>2
<1> QED
  BY <1>2, <1>3 DEF DetachBody, FollowsHead

(* The pass of the detach loop that wakes the first waiter. *)
LEMMA DetachBodyStep ==
  ASSUME IpcInv, NEW w \in WaitList, DetachBody(w), k.wait[w] # <<>>
  PROVE  LET t == k.wait[w][1]
         IN  /\ IpcInv' /\ Moves("detach", {w}) /\ pc[me].op = "rouse" /\ me \in Thread
             /\ t \in Thread /\ In(t, k.wait[w]) /\ k.stat[me] = "READY"
             /\ k'.stat = [k.stat EXCEPT ![t] = "READY"] /\ k'.wait = Unwait(k, t)
             /\ k'.timer = k.timer \ {t} /\ k'.error = [k.error EXCEPT ![t] = "ERROR"]
             /\ k'.prio = k.prio /\ k'.current = k.current
<1> DEFINE t == k.wait[w][1]
<1>1. /\ Sound(k) /\ Located(k, pc) /\ me \in Thread /\ k.stat[me] = "READY" /\ pc[me].op = "rouse"
      /\ k.wait[w] # <<>> /\ pc' = [pc EXCEPT ![me] = [op |-> "detach", on |-> {w}]]
  BY SelfReady DEF IpcInv, DetachBody, FollowsHead, At, Goto
<1>2. /\ t \in Thread /\ In(t, k.wait[w]) /\ k.stat[t] = "SUSPEND" /\ FirstThread(k.wait[w]) = t
  BY <1>1, FirstWaits
<1>3. k' = rt_thread_resume([k EXCEPT !.error[t] = "ERROR"], t)
  BY <1>2, Zenon DEF DetachBody, FollowsHead, ResumeFirst
<1> HIDE DEF t
<1>4. /\ Sound(k') /\ k'.stat = [k.stat EXCEPT ![t] = "READY"] /\ k'.wait = Unwait(k, t)
      /\ k'.timer = k.timer \ {t} /\ k'.error = [k.error EXCEPT ![t] = "ERROR"]
      /\ k'.prio = k.prio /\ k'.current = k.current
  <2> DEFINE r == rt_thread_resume([k EXCEPT !.error[t] = "ERROR"], t)
  <2>1. "ERROR" \in Error
    BY DEF Error
  <2>2. /\ Sound(r) /\ r.stat = [k.stat EXCEPT ![t] = "READY"] /\ r.wait = Unwait(k, t)
        /\ r.timer = k.timer \ {t} /\ r.error = [k.error EXCEPT ![t] = "ERROR"]
        /\ r.prio = k.prio /\ r.current = k.current
    BY <1>1, <1>2, <2>1, RouseSound
  <2> HIDE DEF r
  <2> QED
    BY <1>3, <2>2 DEF r
<1>5. Wakes(k', k)
  BY <1>1, <1>2, <1>4, ResumeWakes
<1>6. IpcInv'
  <2>1. "detach" \in Op /\ "detach" # "run" /\ {w} \in SUBSET WaitList /\ me # Idle
    BY <1>1 DEF Op, Located
  <2> QED
    BY <1>1, <1>4, <1>5, <2>1, CallPlaces
<1> QED
  BY <1>1, <1>2, <1>4, <1>6, MovesIntro DEF t

(* The tick interrupt begins. *)
LEMMA TickStep ==
  ASSUME IpcInv, Tick
  PROVE  /\ IpcInv' /\ Quiet /\ pc' = pc
         /\ k'.current = k.current \/ Best(k', {}, k'.current)
<1> DEFINE s == rt_tick_increase(k)
<1>1. Sound(k) /\ pc' = pc /\ k' = [s EXCEPT !.isr = TRUE]
  BY DEF IpcInv, Tick
<1>2. /\ Sound(s) /\ (s.current = k.current \/ Best(s, {}, s.current))
      /\ s.stat = k.stat /\ s.wait = k.wait /\ s.timer = k.timer
      /\ s.error = k.error /\ s.prio = k.prio
  BY <1>1, TickSound
<1> HIDE DEF s
<1>3. /\ Sound(k') /\ k'.stat = s.stat /\ k'.wait = s.wait /\ k'.timer = s.timer
      /\ k'.error = s.error /\ k'.prio = s.prio /\ k'.current = s.current
  BY <1>1, <1>2, IsrSound
<1>4. Quiet /\ (k'.current = k.current \/ Best(k', {}, k'.current))
  BY <1>2, <1>3 DEF Quiet, Best
<1>5. Wakes(k', k)
  BY <1>4, SameWakes DEF Quiet
<1> QED
  BY <1>1, <1>3, <1>4, <1>5, InterruptPlaces

(* ... and ends. *)
LEMMA TickEndStep ==
  ASSUME IpcInv, TickEnd
  PROVE  IpcInv' /\ Quiet /\ pc' = pc /\ k'.current = k.current
<1>1. Sound(k) /\ pc' = pc /\ k' = [k EXCEPT !.isr = FALSE]
  BY DEF IpcInv, TickEnd
<1>2. /\ Sound(k') /\ k'.stat = k.stat /\ k'.wait = k.wait /\ k'.timer = k.timer
      /\ k'.error = k.error /\ k'.prio = k.prio /\ k'.current = k.current
  BY <1>1, IsrSound
<1>3. Wakes(k', k)
  BY <1>2, SameWakes
<1> QED
  BY <1>1, <1>2, <1>3, InterruptPlaces DEF Quiet

(* The timer of a waiting thread expires. *)
LEMMA TimeoutStep ==
  ASSUME IpcInv, NEW t \in Thread, Timeout(t)
  PROVE  /\ IpcInv' /\ pc' = pc /\ Best(k', {}, k'.current)
         /\ t \in k.timer /\ k.stat[t] = "SUSPEND"
         /\ k'.stat = [k.stat EXCEPT ![t] = "READY"] /\ k'.wait = Unwait(k, t)
         /\ k'.timer = k.timer \ {t} /\ k'.error = [k.error EXCEPT ![t] = "ETIMEOUT"]
         /\ k'.prio = k.prio
<1>1. Sound(k) /\ pc' = pc /\ k' = rt_thread_timeout(k, t) /\ t \in k.timer
  BY DEF IpcInv, Timeout
<1>2. k.stat[t] = "SUSPEND"
  BY <1>1 DEF Sound
<1>3. /\ Sound(k') /\ Best(k', {}, k'.current)
      /\ k'.stat = [k.stat EXCEPT ![t] = "READY"] /\ k'.wait = Unwait(k, t)
      /\ k'.timer = k.timer \ {t} /\ k'.error = [k.error EXCEPT ![t] = "ETIMEOUT"]
      /\ k'.prio = k.prio
  BY <1>1, <1>2, TimeoutSound
<1>4. Wakes(k', k)
  BY <1>1, <1>3, ResumeWakes
<1> QED
  BY <1>1, <1>2, <1>3, <1>4, InterruptPlaces

(* x differs from k at most in the priorities of threads. *)
Alike(x, y) ==
  /\ x.stat = y.stat /\ x.wait = y.wait /\ x.timer = y.timer /\ x.error = y.error
  /\ x.current = y.current

(* A call blocks on w, after it may have changed priorities. *)
LEMMA BlockFromStep ==
  ASSUME IpcInv, NEW p, At(p), p # "block", me # Idle, NEW w \in WaitList, NEW flag, NEW time,
         NEW x, Sound(x), Alike(x, k), k' = Block(x, w, flag, time), Goto("block", w)
  PROVE  /\ IpcInv' /\ Moves("block", {w}) /\ me \in Thread /\ k.stat[me] = "READY"
         /\ Blocked(k', x, w, me, flag, time)
<1>1. /\ me \in Thread \ {Idle} /\ k.stat[me] = "READY"
      /\ pc' = [pc EXCEPT ![me] = [op |-> "block", on |-> {w}]] /\ x.stat[me] = "READY"
  BY SelfReady DEF Goto, Alike
<1>2. Blocked(k', x, w, me, flag, time)
  BY <1>1, BlockSound
<1>3. IpcInv'
  <2>1. {w} \in SUBSET WaitList
    OBVIOUS
  <2>2. \A t \in Thread, v \in WaitList :
          In(t, k'.wait[v]) <=> In(t, k.wait[v]) \/ (t = me /\ v \in {w})
    BY <1>2 DEF Blocked, Alike
  <2>3. /\ Sound(k') /\ k'.stat = [k.stat EXCEPT ![me] = "SUSPEND"] /\ k'.current = k.current
    BY <1>2 DEF Blocked, Alike
  <2> QED
    BY <1>1, <2>1, <2>2, <2>3, SuspendPlaces
<1> QED
  BY <1>1, <1>2, <1>3, MovesIntro

(* A call blocks on w. *)
LEMMA BlockStep ==
  ASSUME IpcInv, NEW p, At(p), p # "block", me # Idle, NEW w \in WaitList, NEW flag, NEW time,
         k' = Block(k, w, flag, time), Goto("block", w)
  PROVE  /\ IpcInv' /\ Moves("block", {w}) /\ me \in Thread /\ k.stat[me] = "READY"
         /\ Blocked(k', k, w, me, flag, time)
<1>1. Sound(k) /\ Alike(k, k)
  BY DEF IpcInv, Alike
<1> QED
  BY <1>1, BlockFromStep

(* A call wakes the first waiter of w, after it may have changed priorities. *)
LEMMA ResumeFromStep ==
  ASSUME IpcInv, NEW p, At(p), p # "block", me # Idle, NEW w \in WaitList, k.wait[w] # <<>>,
         NEW x, Sound(x), Alike(x, k), k' = rt_ipc_list_resume(x, w), Goto("sched", w)
  PROVE  LET t == k.wait[w][1]
         IN  /\ IpcInv' /\ Moves("sched", {w}) /\ me \in Thread /\ k.stat[me] = "READY"
             /\ t \in Thread /\ In(t, k.wait[w]) /\ FirstThread(k.wait[w]) = t
             /\ k'.stat = [k.stat EXCEPT ![t] = "READY"] /\ k'.wait = Unwait(k, t)
             /\ k'.timer = k.timer \ {t} /\ k'.error = k.error
             /\ k'.prio = x.prio /\ k'.current = k.current
<1> DEFINE t == k.wait[w][1]
<1>1. /\ Sound(k) /\ me \in Thread /\ k.stat[me] = "READY"
      /\ pc' = [pc EXCEPT ![me] = [op |-> "sched", on |-> {w}]]
  BY SelfReady DEF IpcInv, Goto
<1>2. /\ t \in Thread /\ In(t, k.wait[w]) /\ k.stat[t] = "SUSPEND" /\ FirstThread(k.wait[w]) = t
  BY <1>1, FirstWaits
<1>3. k' = rt_thread_resume(x, t) /\ x.stat[t] = "SUSPEND"
  BY <1>2 DEF rt_ipc_list_resume, Alike
<1> HIDE DEF t
<1>4. /\ Sound(k') /\ k'.stat = [x.stat EXCEPT ![t] = "READY"] /\ k'.wait = Unwait(x, t)
      /\ k'.timer = x.timer \ {t} /\ k'.error = x.error
      /\ k'.prio = x.prio /\ k'.current = x.current
  BY <1>2, <1>3, ResumeSound
<1>5. /\ k'.stat = [k.stat EXCEPT ![t] = "READY"] /\ k'.wait = Unwait(k, t)
      /\ k'.timer = k.timer \ {t} /\ k'.error = k.error /\ k'.current = k.current
  BY <1>4 DEF Alike, Unwait
<1>6. Wakes(k', k)
  BY <1>1, <1>2, <1>5, ResumeWakes
<1>7. IpcInv'
  <2>1. "sched" \in Op /\ "sched" # "run" /\ {w} \in SUBSET WaitList
    BY DEF Op
  <2> QED
    BY <1>1, <1>4, <1>5, <1>6, <2>1, CallPlaces
<1> QED
  BY <1>1, <1>2, <1>4, <1>5, <1>7, MovesIntro DEF t

(* A call wakes the first waiter of w. *)
LEMMA ResumeStep ==
  ASSUME IpcInv, NEW p, At(p), p # "block", me # Idle, NEW w \in WaitList, k.wait[w] # <<>>,
         k' = rt_ipc_list_resume(k, w), Goto("sched", w)
  PROVE  LET t == k.wait[w][1]
         IN  /\ IpcInv' /\ Moves("sched", {w}) /\ me \in Thread /\ k.stat[me] = "READY"
             /\ t \in Thread /\ In(t, k.wait[w]) /\ FirstThread(k.wait[w]) = t
             /\ k'.stat = [k.stat EXCEPT ![t] = "READY"] /\ k'.wait = Unwait(k, t)
             /\ k'.timer = k.timer \ {t} /\ k'.error = k.error
             /\ k'.prio = k.prio /\ k'.current = k.current
<1>1. Sound(k) /\ Alike(k, k)
  BY DEF IpcInv, Alike
<1> QED
  BY <1>1, ResumeFromStep

(* An interrupt handler does, and schedules. *)
LEMMA ResumeInHandlerStep ==
  ASSUME IpcInv, NEW w \in WaitList, k.wait[w] # <<>>, pc' = pc,
         k' = rt_schedule(rt_ipc_list_resume(k, w))
  PROVE  LET t == k.wait[w][1]
         IN  /\ IpcInv' /\ Best(k', {}, k'.current)
             /\ t \in Thread /\ In(t, k.wait[w]) /\ FirstThread(k.wait[w]) = t
             /\ k'.stat = [k.stat EXCEPT ![t] = "READY"] /\ k'.wait = Unwait(k, t)
             /\ k'.timer = k.timer \ {t} /\ k'.error = k.error /\ k'.prio = k.prio
<1> DEFINE t == k.wait[w][1]
           s == rt_thread_resume(k, t)
<1>1. Sound(k)
  BY DEF IpcInv
<1>2. /\ t \in Thread /\ In(t, k.wait[w]) /\ k.stat[t] = "SUSPEND" /\ FirstThread(k.wait[w]) = t
  BY <1>1, FirstWaits
<1>3. k' = rt_schedule(s)
  BY DEF rt_ipc_list_resume
<1> HIDE DEF t
<1>4. /\ Sound(s) /\ s.stat = [k.stat EXCEPT ![t] = "READY"] /\ s.wait = Unwait(k, t)
      /\ s.timer = k.timer \ {t} /\ s.error = k.error
      /\ s.prio = k.prio /\ s.current = k.current
  BY <1>1, <1>2, ResumeSound
<1> HIDE DEF s
<1>5. /\ Sound(k') /\ Best(k', {}, k'.current)
      /\ k'.stat = s.stat /\ k'.wait = s.wait /\ k'.timer = s.timer
      /\ k'.error = s.error /\ k'.prio = s.prio
  BY <1>3, <1>4, ScheduleSound
<1>6. /\ k'.stat = [k.stat EXCEPT ![t] = "READY"] /\ k'.wait = Unwait(k, t)
      /\ k'.timer = k.timer \ {t} /\ k'.error = k.error /\ k'.prio = k.prio
  BY <1>4, <1>5
<1>7. Wakes(k', k)
  BY <1>1, <1>2, <1>6, ResumeWakes
<1>8. IpcInv'
  BY <1>5, <1>7, InterruptPlaces
<1> QED
  BY <1>2, <1>5, <1>6, <1>8 DEF t

(* A reset wakes every waiter of w with the error -RT_ERROR. *)
LEMMA ResetStep ==
  ASSUME IpcInv, NEW p, At(p), p # "block", me # Idle, NEW w \in WaitList,
         k' = rt_ipc_list_resume_all(k, w), Goto("sched", w)
  PROVE  /\ IpcInv' /\ Moves("sched", {w}) /\ me \in Thread /\ k.stat[me] = "READY"
         /\ Roused(k', k, w, {t \in Thread : In(t, k.wait[w])}) /\ k'.wait[w] = <<>>
<1>1. /\ Sound(k) /\ me \in Thread /\ k.stat[me] = "READY"
      /\ pc' = [pc EXCEPT ![me] = [op |-> "sched", on |-> {w}]]
  BY SelfReady DEF IpcInv, Goto
<1>2. Roused(k', k, w, {t \in Thread : In(t, k.wait[w])}) /\ k'.wait[w] = <<>>
  BY <1>1, ResumeAllSound
<1>3. Sound(k') /\ k'.current = k.current
  BY <1>2 DEF Roused
<1>4. Wakes(k', k)
  BY <1>1, <1>2, ResumeAllWakes
<1>5. IpcInv'
  <2>1. "sched" \in Op /\ "sched" # "run" /\ {w} \in SUBSET WaitList
    BY DEF Op
  <2> QED
    BY <1>1, <1>3, <1>4, <2>1, CallPlaces
<1> QED
  BY <1>1, <1>2, <1>5, MovesIntro

=============================================================================
