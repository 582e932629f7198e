-------------------------- MODULE SemaphoreProofs ---------------------------
(***************************************************************************)
(* Proofs about the semaphore, for any threads, priorities and width of    *)
(* sem->value, and about the console input, which uses it.                 *)
(*                                                                         *)
(* SemInv is the inductive invariant of the semaphore: to what the runs    *)
(* check it adds that a semaphore is detached by one thread at a time and  *)
(* before it is gone, and that nobody waits with an error already set.     *)
(*                                                                         *)
(* The receive ring of serial.c is a queue that forgets its oldest         *)
(* character, and finsh does not sleep on characters.  Every step of the   *)
(* console is one of the semaphore, so SemInv holds there too.             *)
(***************************************************************************)
EXTENDS Console, IpcProofs

(* thread t is in the loop of rt_ipc_list_resume_all *)
Detaches(t) == pc[t].op \in {"detach", "rouse"}

(* The variables of the semaphore have their types. *)
SemTypes ==
  /\ value \in 0 .. 2 ^ VALUE_WIDTH - 1 /\ flag \in {"FIFO", "PRIO"}
  /\ live \in BOOLEAN /\ handed \subseteq Thread

(* One thread at a time detaches a semaphore, which is not gone yet. *)
OneDetacher ==
  /\ Detaching => live
  /\ \A t, u \in Thread : Detaches(t) /\ Detaches(u) => t = u

(* A waiter has no error yet. *)
WaitersClear == \A t \in Thread : In(t, k.wait[sem]) => k.error[t] = "EOK"

SemInv ==
  SemTypes /\ OneDetacher /\ WaitersClear /\ NoLostWakeup /\ PermitDelivered /\ PriorityOrder

(* sem is the only suspend list. *)
LEMMA SemList == sem \in WaitList
BY SemaphoreAssumption

(* What sem->value can hold. *)
LEMMA StoredType ==
  ASSUME NEW v \in Nat
  PROVE  Stored(v) \in 0 .. 2 ^ VALUE_WIDTH - 1
<1> DEFINE M == 2 ^ VALUE_WIDTH
<1>1. M \in Nat \ {0}
  BY SemaphoreAssumption
<1> HIDE DEF M
<1>2. v % M \in 0 .. M - 1
  BY <1>1
<1> QED
  BY <1>2 DEF M, Stored

(* PriorityOrder in the words of the list lemmas. *)
LEMMA OrderDef == PriorityOrder <=> (flag = "PRIO" => Ordered(k.wait[sem], k.prio))
BY DEF PriorityOrder, Ordered

(* Steps that move no waiter: nobody enters or leaves the list, a call of  *)
(* rt_sem_take or a detach loop.                                           *)
LEMMA StillStep ==
  ASSUME SemInv, UNCHANGED own, k'.wait[sem] = k.wait[sem], k'.prio = k.prio,
         \A t \in Thread : In(t, k.wait[sem]) \/ Inside(t, sem) => k'.error[t] = k.error[t],
         \A t \in Thread : Inside(t, sem)' <=> Inside(t, sem),
         \A t \in Thread : Detaches(t)' <=> Detaches(t)
  PROVE  SemInv'
<1>1. Detaching' <=> Detaching
  BY DEF Detaching, Detaches
<1>2. SemTypes' /\ OneDetacher' /\ WaitersClear' /\ NoLostWakeup'
  BY <1>1 DEF SemInv, SemTypes, OneDetacher, WaitersClear, NoLostWakeup, own
<1>3. PermitDelivered'
  BY DEF SemInv, PermitDelivered, SemTypes, own
<1>4. PriorityOrder'
  BY DEF SemInv, PriorityOrder, own
<1> QED
  BY <1>2, <1>3, <1>4 DEF SemInv

(* Steps that take a waiter off the list with an error: a timeout, and a   *)
(* pass of the detach loop.                                                *)
LEMMA FailStep ==
  ASSUME IpcInv, SemInv, UNCHANGED own, NEW t \in Thread, k.stat[t] = "SUSPEND",
         NEW e \in Error, e # "EOK", k'.wait = Unwait(k, t), k'.prio = k.prio,
         k'.error = [k.error EXCEPT ![t] = e],
         \A u \in Thread : Inside(u, sem)' <=> Inside(u, sem),
         \A u \in Thread : Detaches(u)' <=> Detaches(u)
  PROVE  SemInv'
<1>1. Sound(k) /\ Located(k, pc) /\ k.error \in [Thread -> Error] /\ k.wait[sem] \in Seq(Thread)
  BY SemList DEF IpcInv, Sound, KernelState
<1>2. \A u \in Thread : In(u, k'.wait[sem]) <=> In(u, k.wait[sem]) /\ u # t
  BY <1>1, UnwaitIn, SemList
<1>3. k'.error[t] = e /\ \A u \in Thread : u # t => k'.error[u] = k.error[u]
  BY <1>1
<1>4. Inside(t, sem) => In(t, k.wait[sem])
  BY <1>1 DEF Located, Inside
<1>5. Detaching' <=> Detaching
  BY DEF Detaching, Detaches
<1>6. k.wait[sem] = <<>> => k'.wait[sem] = <<>>
  <2>1. k'.wait[sem] = Without(k.wait[sem], t)
    BY SemList DEF Unwait
  <2> QED
    BY <2>1, WithoutAbsent DEF In
<1>7. SemTypes' /\ OneDetacher' /\ NoLostWakeup'
  BY <1>5, <1>6 DEF SemInv, SemTypes, OneDetacher, NoLostWakeup, own
<1>8. WaitersClear'
  BY <1>2, <1>3 DEF SemInv, WaitersClear
<1>9. PermitDelivered'
  <2>1. ASSUME NEW u \in Thread, Inside(u, sem)'
        PROVE  IF In(u, k'.wait[sem]) THEN u \notin handed'
               ELSE u \in handed' <=> k'.error[u] = "EOK"
    <3>1. Inside(u, sem) /\ handed' = handed
      BY <2>1 DEF own
    <3>2. CASE u = t
      BY <1>2, <1>3, <1>4, <3>1, <3>2 DEF SemInv, PermitDelivered
    <3>3. CASE u # t
      BY <1>2, <1>3, <3>1, <3>3 DEF SemInv, PermitDelivered
    <3> QED
      BY <3>2, <3>3
  <2>2. \A u \in handed' : Inside(u, sem)'
    BY DEF SemInv, PermitDelivered, SemTypes, own
  <2> QED
    BY <2>1, <2>2 DEF PermitDelivered
<1>10. PriorityOrder'
  <2>1. k'.wait[sem] = Without(k.wait[sem], t)
    BY SemList DEF Unwait
  <2>2. Ordered(k.wait[sem], k.prio) => Ordered(k'.wait[sem], k'.prio)
    BY <1>1, <2>1, WithoutOrdered
  <2> QED
    BY <2>2, OrderDef DEF SemInv, PriorityOrder, Ordered, own
<1> QED
  BY <1>7, <1>8, <1>9, <1>10 DEF SemInv

(* rt_sem_take, with a permit or without. *)
LEMMA TakeKeeps ==
  ASSUME IpcInv, SemInv, NEW time, rt_sem_take(time)
  PROVE  IpcInv' /\ SemInv'
<1>1. Calls /\ Usable /\ UNCHANGED <<flag, live, handed>>
  BY DEF rt_sem_take
<1>2. At("run") /\ me # Idle /\ live /\ ~Detaching
  BY <1>1 DEF Calls, Usable
<1>3. CASE value > 0 /\ value' = value - 1 /\ UNCHANGED <<k, pc>>
  <2>1. IpcInv'
    BY <1>3 DEF IpcInv, IpcTypeOK
  <2>2. k.wait[sem] = <<>>
    BY <1>2, <1>3 DEF SemInv, NoLostWakeup
  <2>3. value - 1 \in 0 .. 2 ^ VALUE_WIDTH - 1
    <3> DEFINE M == 2 ^ VALUE_WIDTH
    <3>1. M \in Nat /\ value \in 0 .. M - 1
      BY SemaphoreAssumption DEF SemInv, SemTypes
    <3> HIDE DEF M
    <3>2. value - 1 \in 0 .. M - 1
      BY <1>3, <3>1
    <3> QED
      BY <3>2 DEF M
  <2>4. SemTypes' /\ OneDetacher' /\ WaitersClear' /\ PermitDelivered' /\ PriorityOrder'
    BY <1>1, <1>3, <2>3
       DEF SemInv, SemTypes, OneDetacher, Detaching, Detaches, WaitersClear, PermitDelivered,
           Inside, PriorityOrder
  <2>5. NoLostWakeup'
    BY <1>3, <2>2 DEF NoLostWakeup
  <2> QED
    BY <2>1, <2>4, <2>5 DEF SemInv
<1>4. CASE value = 0 /\ k' = Block(k, sem, flag, time) /\ Goto("block", sem) /\ UNCHANGED value
  <2>1. /\ IpcInv' /\ Moves("block", {sem}) /\ me \in Thread /\ k.stat[me] = "READY"
        /\ Blocked(k', k, sem, me, flag, time)
    BY <1>2, <1>4, BlockStep, SemList
  <2>2. /\ \A u \in Thread : In(u, k'.wait[sem]) <=> In(u, k.wait[sem]) \/ u = me
        /\ k'.wait = [k.wait EXCEPT ![sem] = Enqueued(k, sem, me, flag)]
        /\ k'.error = [k.error EXCEPT ![me] = "EOK"] /\ k'.prio = k.prio
    BY <2>1, SemList DEF Blocked
  <2>3. /\ Sound(k) /\ k.error \in [Thread -> Error] /\ k.wait \in [WaitList -> Seq(Thread)]
        /\ k.prio \in [Thread -> Priority] /\ pc[me].op = "run"
    BY <1>2 DEF IpcInv, Sound, KernelState, At
  <2>4. k'.error[me] = "EOK" /\ \A u \in Thread : u # me => k'.error[u] = k.error[u]
    BY <2>1, <2>2, <2>3
  <2>5. /\ ~Inside(me, sem) /\ \A u \in Thread : u # me => (Inside(u, sem)' <=> Inside(u, sem))
        /\ \A u \in Thread : Detaches(u)' <=> Detaches(u)
    BY <2>1, <2>3 DEF Inside, Moves, Detaches
  <2>6. me \notin handed
    BY <2>1, <2>5 DEF SemInv, PermitDelivered
  <2>7. ~Detaching'
    BY <1>2, <2>5 DEF Detaching, Detaches
  <2>8. SemTypes' /\ OneDetacher' /\ NoLostWakeup'
    BY <1>1, <1>2, <1>4, <2>7
       DEF SemInv, SemTypes, OneDetacher, NoLostWakeup, Detaches, Detaching
  <2>9. WaitersClear'
    BY <2>2, <2>4 DEF SemInv, WaitersClear
  <2>10. PermitDelivered'
    <3>1. ASSUME NEW u \in Thread, Inside(u, sem)'
          PROVE  IF In(u, k'.wait[sem]) THEN u \notin handed'
                 ELSE u \in handed' <=> k'.error[u] = "EOK"
      <4>1. CASE u = me
        BY <1>1, <2>2, <2>6, <4>1
      <4>2. CASE u # me
        BY <1>1, <2>2, <2>4, <2>5, <3>1, <4>2 DEF SemInv, PermitDelivered
      <4> QED
        BY <4>1, <4>2
    <3>2. \A u \in handed' : Inside(u, sem)'
      BY <1>1, <2>5, <2>6 DEF SemInv, PermitDelivered, SemTypes
    <3> QED
      BY <3>1, <3>2 DEF PermitDelivered
  <2>11. PriorityOrder'
    <3>1. k'.wait[sem] = Enqueued(k, sem, me, flag)
      BY <2>2, <2>3, SemList
    <3>2. flag = "PRIO" => Ordered(k.wait[sem], k.prio)
      BY OrderDef DEF SemInv
    <3>3. flag = "PRIO" => Ordered(k'.wait[sem], k.prio)
      BY <2>1, <2>3, <3>1, <3>2, InsertElements, SemList DEF Enqueued
    <3> QED
      BY <1>1, <2>2, <3>3 DEF PriorityOrder, Ordered
  <2> QED
    BY <2>1, <2>8, <2>9, <2>10, <2>11 DEF SemInv
<1> QED
  BY <1>3, <1>4 DEF rt_sem_take

(* The return of rt_sem_take after a wait. *)
LEMMA TakeReturnKeeps ==
  ASSUME IpcInv, SemInv, TakeReturn
  PROVE  IpcInv' /\ SemInv'
<1>1. /\ At("woken") /\ pc[me].op = "woken" /\ handed' = handed \ {me} /\ k' = k
      /\ pc' = [pc EXCEPT ![me] = [op |-> "run", on |-> {}]] /\ UNCHANGED <<value, flag, live>>
  BY DEF TakeReturn, Return, At
<1>2. me # Idle
  BY <1>1 DEF IpcInv, Located
<1>3. IpcInv' /\ Moves("run", {}) /\ me \in Thread /\ k.stat[me] = "READY"
  <2>1. "run" \in Op /\ {} \in SUBSET WaitList
    BY DEF Op
  <2> QED
    BY <1>1, <1>2, <2>1, GotoStep
<1>4. /\ \A u \in Thread : Inside(u, sem)' <=> Inside(u, sem) /\ u # me
      /\ \A u \in Thread : Detaches(u)' <=> Detaches(u)
  BY <1>1, <1>3 DEF Inside, Moves, Detaches
<1>5. Detaching' <=> Detaching
  BY <1>4 DEF Detaching, Detaches
<1>6. SemTypes' /\ OneDetacher' /\ NoLostWakeup' /\ WaitersClear' /\ PriorityOrder'
  BY <1>1, <1>4, <1>5
     DEF SemInv, SemTypes, OneDetacher, NoLostWakeup, WaitersClear, PriorityOrder
<1>7. PermitDelivered'
  BY <1>1, <1>4 DEF SemInv, PermitDelivered, SemTypes
<1> QED
  BY <1>3, <1>6, <1>7 DEF SemInv

(* A release that hands its permit to the first waiter. *)
LEMMA HandOver ==
  ASSUME IpcInv, SemInv, Usable, k.wait[sem] # <<>>, UNCHANGED <<value, flag, live>>,
         NEW t \in Thread, In(t, k.wait[sem]), handed' = handed \cup {t},
         k'.wait = Unwait(k, t), k'.error = k.error, k'.prio = k.prio,
         \A u \in Thread : Inside(u, sem)' <=> Inside(u, sem),
         \A u \in Thread : Detaches(u)' <=> Detaches(u)
  PROVE  SemInv'
<1>1. Sound(k) /\ Located(k, pc) /\ k.wait[sem] \in Seq(Thread)
  BY SemList DEF IpcInv, Sound, KernelState
<1>2. \A u \in Thread : In(u, k'.wait[sem]) <=> In(u, k.wait[sem]) /\ u # t
  BY <1>1, UnwaitIn, SemList
<1>3. Inside(t, sem) /\ k.error[t] = "EOK"
  <2>1. k.stat[t] = "SUSPEND"
    BY <1>1, SemList DEF Sound
  <2> QED
    BY <1>1, <2>1, SemList DEF Located, Inside, SemInv, WaitersClear
<1>4. (Detaching' <=> Detaching) /\ live /\ ~Detaching
  BY DEF Detaching, Detaches, Usable
<1>5. SemTypes' /\ OneDetacher' /\ NoLostWakeup'
  BY <1>4 DEF SemInv, SemTypes, OneDetacher, NoLostWakeup
<1>6. WaitersClear'
  BY <1>2 DEF SemInv, WaitersClear
<1>7. PermitDelivered'
  <2>1. ASSUME NEW u \in Thread, Inside(u, sem)'
        PROVE  IF In(u, k'.wait[sem]) THEN u \notin handed'
               ELSE u \in handed' <=> k'.error[u] = "EOK"
    <3>1. CASE u = t
      BY <1>2, <1>3, <3>1
    <3>2. CASE u # t
      BY <1>2, <2>1, <3>2 DEF SemInv, PermitDelivered
    <3> QED
      BY <3>1, <3>2
  <2>2. \A u \in handed' : Inside(u, sem)'
    BY <1>3 DEF SemInv, PermitDelivered, SemTypes
  <2> QED
    BY <2>1, <2>2 DEF PermitDelivered
<1>8. PriorityOrder'
  <2>1. k'.wait[sem] = Without(k.wait[sem], t)
    BY SemList DEF Unwait
  <2>2. Ordered(k.wait[sem], k.prio) => Ordered(k'.wait[sem], k'.prio)
    BY <1>1, <2>1, WithoutOrdered
  <2> QED
    BY <2>2, OrderDef DEF SemInv, PriorityOrder, Ordered
<1> QED
  BY <1>5, <1>6, <1>7, <1>8 DEF SemInv

(* A release that finds nobody waiting: the value goes up, or around. *)
LEMMA CountUp ==
  ASSUME IpcInv, SemInv, k.wait[sem] = <<>>, value' = Stored(value + 1),
         UNCHANGED <<k, pc, flag, live, handed>>
  PROVE  IpcInv' /\ SemInv'
<1>1. IpcInv'
  BY DEF IpcInv, IpcTypeOK
<1>2. value + 1 \in Nat
  <2> DEFINE M == 2 ^ VALUE_WIDTH
  <2>1. M \in Nat /\ value \in 0 .. M - 1
    BY SemaphoreAssumption DEF SemInv, SemTypes
  <2> HIDE DEF M
  <2> QED
    BY <2>1
<1>3. value' \in 0 .. 2 ^ VALUE_WIDTH - 1
  BY <1>2, StoredType
<1>4. SemTypes' /\ OneDetacher' /\ WaitersClear' /\ PermitDelivered' /\ PriorityOrder'
  BY <1>3
     DEF SemInv, SemTypes, OneDetacher, Detaching, Detaches, WaitersClear, PermitDelivered,
         Inside, PriorityOrder
<1>5. NoLostWakeup'
  BY DEF NoLostWakeup
<1> QED
  BY <1>1, <1>4, <1>5 DEF SemInv

(* rt_sem_release by a thread. *)
LEMMA ReleaseKeeps ==
  ASSUME IpcInv, SemInv, rt_sem_release
  PROVE  IpcInv' /\ SemInv'
<1>1. /\ At("run") /\ me # Idle /\ Usable /\ ReleasePermit(rt_ipc_list_resume(k, sem))
      /\ (IF k.wait[sem] # <<>> THEN Goto("sched", sem) ELSE UNCHANGED pc)
      /\ UNCHANGED <<flag, live>>
  BY DEF rt_sem_release, Calls
<1>2. CASE k.wait[sem] # <<>>
  <2> DEFINE t == k.wait[sem][1]
  <2>1. /\ k' = rt_ipc_list_resume(k, sem) /\ handed' = handed \cup {FirstThread(k.wait[sem])}
        /\ UNCHANGED value /\ Goto("sched", sem)
    BY <1>1, <1>2 DEF ReleasePermit
  <2>2. /\ IpcInv' /\ Moves("sched", {sem}) /\ me \in Thread
        /\ t \in Thread /\ In(t, k.wait[sem]) /\ FirstThread(k.wait[sem]) = t
        /\ k'.wait = Unwait(k, t) /\ k'.error = k.error /\ k'.prio = k.prio
    BY <1>1, <1>2, <2>1, ResumeStep, SemList
  <2> HIDE DEF t
  <2>3. /\ \A u \in Thread : Inside(u, sem)' <=> Inside(u, sem)
        /\ \A u \in Thread : Detaches(u)' <=> Detaches(u)
    BY <1>1, <2>2 DEF Moves, Inside, Detaches, At
  <2>4. SemInv'
    BY <1>1, <1>2, <2>1, <2>2, <2>3, HandOver
  <2> QED
    BY <2>2, <2>4
<1>3. CASE k.wait[sem] = <<>>
  <2>1. value' = Stored(value + 1) /\ UNCHANGED <<k, pc, flag, live, handed>>
    BY <1>1, <1>3 DEF ReleasePermit
  <2> QED
    BY <1>3, <2>1, CountUp
<1> QED
  BY <1>2, <1>3

(* rt_sem_release by an interrupt handler. *)
LEMMA HandlerKeeps ==
  ASSUME IpcInv, SemInv, ReleaseInHandler
  PROVE  IpcInv' /\ SemInv'
<1>1. /\ Usable /\ ReleasePermit(rt_schedule(rt_ipc_list_resume(k, sem)))
      /\ pc' = pc /\ UNCHANGED <<flag, live>>
  BY DEF ReleaseInHandler
<1>2. CASE k.wait[sem] # <<>>
  <2> DEFINE t == k.wait[sem][1]
  <2>1. /\ k' = rt_schedule(rt_ipc_list_resume(k, sem))
        /\ handed' = handed \cup {FirstThread(k.wait[sem])} /\ UNCHANGED value
    BY <1>1, <1>2 DEF ReleasePermit
  <2>2. /\ IpcInv'
        /\ t \in Thread /\ In(t, k.wait[sem]) /\ FirstThread(k.wait[sem]) = t
        /\ k'.wait = Unwait(k, t) /\ k'.error = k.error /\ k'.prio = k.prio
    BY <1>1, <1>2, <2>1, ResumeInHandlerStep, SemList
  <2> HIDE DEF t
  <2>3. /\ \A u \in Thread : Inside(u, sem)' <=> Inside(u, sem)
        /\ \A u \in Thread : Detaches(u)' <=> Detaches(u)
    BY <1>1 DEF Inside, Detaches
  <2>4. SemInv'
    BY <1>1, <1>2, <2>1, <2>2, <2>3, HandOver
  <2> QED
    BY <2>2, <2>4
<1>3. CASE k.wait[sem] = <<>>
  <2>1. value' = Stored(value + 1) /\ UNCHANGED <<k, pc, flag, live, handed>>
    BY <1>1, <1>3 DEF ReleasePermit
  <2> QED
    BY <1>3, <2>1, CountUp
<1> QED
  BY <1>2, <1>3

(* rt_sem_control: every waiter leaves with an error before the value is   *)
(* set.                                                                    *)
LEMMA ControlKeeps ==
  ASSUME IpcInv, SemInv, NEW v \in 0 .. MaxValue, rt_sem_control(v)
  PROVE  IpcInv' /\ SemInv'
<1>1. /\ At("run") /\ me # Idle /\ Usable /\ k' = rt_ipc_list_resume_all(k, sem)
      /\ value' = Stored(v) /\ Goto("sched", sem) /\ UNCHANGED <<flag, live, handed>>
  BY DEF rt_sem_control, Calls
<1>2. /\ IpcInv' /\ Moves("sched", {sem}) /\ me \in Thread
      /\ Roused(k', k, sem, {t \in Thread : In(t, k.wait[sem])}) /\ k'.wait[sem] = <<>>
  BY <1>1, ResetStep, SemList
<1>3. /\ \A u \in Thread : Inside(u, sem)' <=> Inside(u, sem)
      /\ \A u \in Thread : Detaches(u)' <=> Detaches(u)
  BY <1>1, <1>2 DEF Moves, Inside, Detaches, At
<1>4. /\ \A u \in Thread : k'.error[u] = IF In(u, k.wait[sem]) THEN "ERROR" ELSE k.error[u]
      /\ \A u \in Thread : ~In(u, k'.wait[sem])
  BY <1>2 DEF Roused, In
<1>5. (Detaching' <=> Detaching) /\ ~Detaching
  BY <1>1, <1>3 DEF Detaching, Detaches, Usable
<1>6. value' \in 0 .. 2 ^ VALUE_WIDTH - 1
  BY <1>1, StoredType, SemaphoreAssumption
<1>7. SemTypes' /\ OneDetacher' /\ NoLostWakeup' /\ WaitersClear'
  BY <1>1, <1>2, <1>3, <1>4, <1>5, <1>6
     DEF SemInv, SemTypes, OneDetacher, NoLostWakeup, WaitersClear
<1>8. PermitDelivered'
  BY <1>1, <1>3, <1>4 DEF SemInv, PermitDelivered, SemTypes
<1>9. PriorityOrder'
  BY <1>2 DEF PriorityOrder
<1> QED
  BY <1>2, <1>7, <1>8, <1>9 DEF SemInv

(* rt_sem_detach begins. *)
LEMMA DetachKeeps ==
  ASSUME IpcInv, SemInv, rt_sem_detach
  PROVE  IpcInv' /\ SemInv'
<1>1. /\ At("run") /\ me # Idle /\ Usable /\ k' = k /\ UNCHANGED own
      /\ pc' = [pc EXCEPT ![me] = [op |-> "detach", on |-> {sem}]]
  BY DEF rt_sem_detach, Calls, Goto
<1>2. IpcInv' /\ Moves("detach", {sem}) /\ me \in Thread
  <2>1. "detach" \in Op /\ {sem} \in SUBSET WaitList
    BY SemList DEF Op
  <2> QED
    BY <1>1, <2>1, GotoStep
<1>3. /\ \A u \in Thread : Inside(u, sem)' <=> Inside(u, sem)
      /\ \A u \in Thread : Detaches(u)' <=> u = me
  BY <1>1, <1>2 DEF Moves, Inside, Detaches, At, Usable, Detaching
<1>4. Detaching' /\ live
  BY <1>1, <1>2, <1>3 DEF Detaching, Detaches, Usable
<1>5. SemTypes' /\ OneDetacher' /\ NoLostWakeup' /\ WaitersClear' /\ PriorityOrder'
  BY <1>1, <1>3, <1>4
     DEF SemInv, SemTypes, OneDetacher, NoLostWakeup, WaitersClear, PriorityOrder, own
<1>6. PermitDelivered'
  BY <1>1, <1>3 DEF SemInv, PermitDelivered, SemTypes, own
<1> QED
  BY <1>2, <1>5, <1>6 DEF SemInv

(* Its loop, and rt_sem_delete's. *)
LEMMA DetachLoopKeeps ==
  ASSUME IpcInv, SemInv, DetachLoop
  PROVE  IpcInv' /\ SemInv'
<1>1. CASE DetachTest(sem)
  <2>1. /\ At("detach") /\ k' = k /\ UNCHANGED own /\ me # Idle
        /\ pc' = [pc EXCEPT ![me] = [op |-> "rouse", on |-> {sem}]]
    BY <1>1 DEF DetachTest, DetachLoop, Goto, At, IpcInv, Located
  <2>2. IpcInv' /\ Moves("rouse", {sem}) /\ me \in Thread
    <3>1. "rouse" \in Op /\ {sem} \in SUBSET WaitList
      BY SemList DEF Op
    <3> QED
      BY <2>1, <3>1, GotoStep
  <2>3. /\ \A u \in Thread : Inside(u, sem)' <=> Inside(u, sem)
        /\ \A u \in Thread : Detaches(u)' <=> Detaches(u)
    BY <2>1, <2>2 DEF Moves, Inside, Detaches, At
  <2> QED
    BY <2>1, <2>2, <2>3, StillStep
<1>2. CASE DetachBody(sem) /\ k.wait[sem] = <<>>
  <2>1. /\ IpcInv' /\ Quiet /\ pc[me].op = "rouse" /\ me \in Thread /\ UNCHANGED own
        /\ \E o \in {"detach", "rouse"} : Moves(o, {sem})
    BY <1>2, DetachHeadStep, SemList DEF DetachLoop
  <2>2. /\ \A u \in Thread : Inside(u, sem)' <=> Inside(u, sem)
        /\ \A u \in Thread : Detaches(u)' <=> Detaches(u)
    BY <2>1 DEF Moves, Inside, Detaches
  <2> QED
    BY <2>1, <2>2, StillStep DEF Quiet
<1>3. CASE DetachBody(sem) /\ k.wait[sem] # <<>>
  <2> DEFINE t == k.wait[sem][1]
  <2>1. /\ IpcInv' /\ Moves("detach", {sem}) /\ pc[me].op = "rouse" /\ me \in Thread
        /\ t \in Thread /\ In(t, k.wait[sem]) /\ k'.wait = Unwait(k, t)
        /\ k'.error = [k.error EXCEPT ![t] = "ERROR"] /\ k'.prio = k.prio
    BY <1>3, DetachBodyStep, SemList
  <2> HIDE DEF t
  <2>2. /\ \A u \in Thread : Inside(u, sem)' <=> Inside(u, sem)
        /\ \A u \in Thread : Detaches(u)' <=> Detaches(u)
    BY <2>1 DEF Moves, Inside, Detaches
  <2>3. k.stat[t] = "SUSPEND" /\ "ERROR" \in Error /\ UNCHANGED own
    BY <2>1, SemList DEF IpcInv, Sound, Error, DetachLoop
  <2> QED
    BY <2>1, <2>2, <2>3, FailStep
<1> QED
  BY <1>1, <1>2, <1>3 DEF DetachLoop

(* The object is gone. *)
LEMMA DetachObjectKeeps ==
  ASSUME IpcInv, SemInv, DetachObject
  PROVE  IpcInv' /\ SemInv'
<1>1. /\ At("detach") /\ k.wait[sem] = <<>> /\ k' = k /\ me # Idle /\ pc[me].op = "detach"
      /\ pc' = [pc EXCEPT ![me] = [op |-> "run", on |-> {}]]
      /\ live' = FALSE /\ UNCHANGED <<value, flag, handed>>
  BY DEF DetachObject, DetachEnd, Return, At, IpcInv, Located
<1>2. IpcInv' /\ Moves("run", {}) /\ me \in Thread
  <2>1. "run" \in Op /\ {} \in SUBSET WaitList
    BY DEF Op
  <2> QED
    BY <1>1, <2>1, GotoStep
<1>3. \A u \in Thread : Inside(u, sem)' <=> Inside(u, sem)
  BY <1>1, <1>2 DEF Moves, Inside
<1>4. \A u \in Thread : ~Detaches(u)'
  <2>1. \A u \in Thread : Detaches(u) => u = me
    BY <1>1, <1>2 DEF SemInv, OneDetacher, Detaches
  <2> QED
    BY <1>2, <2>1 DEF Moves, Detaches
<1>5. ~Detaching'
  BY <1>4 DEF Detaching, Detaches
<1>6. live' \in BOOLEAN
  BY <1>1, Zenon
<1>7. SemTypes' /\ OneDetacher' /\ NoLostWakeup' /\ WaitersClear' /\ PriorityOrder'
  BY <1>1, <1>4, <1>5, <1>6
     DEF SemInv, SemTypes, OneDetacher, NoLostWakeup, WaitersClear, PriorityOrder
<1>8. PermitDelivered'
  BY <1>1, <1>3 DEF SemInv, PermitDelivered, SemTypes
<1> QED
  BY <1>2, <1>7, <1>8 DEF SemInv

(* rt_sem_init of a semaphore that nobody is left on. *)
LEMMA InitKeeps ==
  ASSUME IpcInv, SemInv, NEW v \in 0 .. MaxValue, NEW f \in {"FIFO", "PRIO"}, rt_sem_init(v, f)
  PROVE  IpcInv' /\ SemInv'
<1>1. /\ ~live /\ value' = Stored(v) /\ flag' = f /\ live' = TRUE
      /\ k' = k /\ pc' = pc /\ handed' = handed
  BY DEF rt_sem_init
<1>2. ~Detaching /\ k.wait[sem] = <<>>
  BY <1>1 DEF SemInv, OneDetacher, NoLostWakeup
<1>3. IpcInv'
  BY <1>1 DEF IpcInv, IpcTypeOK
<1>4. value' \in 0 .. 2 ^ VALUE_WIDTH - 1
  BY <1>1, StoredType, SemaphoreAssumption
<1>5. live' \in BOOLEAN /\ live'
  BY <1>1, Zenon
<1>6. SemTypes' /\ OneDetacher' /\ WaitersClear'
  BY <1>1, <1>4, <1>5 DEF SemInv, SemTypes, OneDetacher, Detaching, Detaches, WaitersClear
<1>7. NoLostWakeup' /\ PriorityOrder'
  BY <1>1, <1>2 DEF NoLostWakeup, PriorityOrder
<1>8. PermitDelivered'
  BY <1>1 DEF SemInv, PermitDelivered, Inside
<1> QED
  BY <1>3, <1>6, <1>7, <1>8 DEF SemInv

(* The other steps of a call. *)
LEMMA CallEndKeeps ==
  ASSUME IpcInv, SemInv, CallEnd \/ Sleep
  PROVE  IpcInv' /\ SemInv'
<1>0. UNCHANGED own
  BY DEF CallEnd, Sleep
<1>1. CASE BlockSchedule
  <2>1. /\ IpcInv' /\ Quiet /\ Moves("woken", pc[me].on) /\ pc[me].op = "block" /\ me \in Thread
    BY <1>1, BlockScheduleStep
  <2>2. /\ \A u \in Thread : Inside(u, sem)' <=> Inside(u, sem)
        /\ \A u \in Thread : Detaches(u)' <=> Detaches(u)
    BY <2>1 DEF Moves, Inside, Detaches
  <2> QED
    BY <1>0, <2>1, <2>2, StillStep DEF Quiet
<1>2. CASE Schedule
  <2>1. /\ IpcInv' /\ Quiet /\ Moves("run", {}) /\ pc[me].op = "sched" /\ me \in Thread
    BY <1>2, ScheduleStep
  <2>2. /\ \A u \in Thread : Inside(u, sem)' <=> Inside(u, sem)
        /\ \A u \in Thread : Detaches(u)' <=> Detaches(u)
    BY <2>1 DEF Moves, Inside, Detaches
  <2> QED
    BY <1>0, <2>1, <2>2, StillStep DEF Quiet
<1>3. CASE SleepReturn
  <2>1. /\ IpcInv' /\ Moves("run", {}) /\ pc[me].op = "woken" /\ pc[me].on = {}
        /\ k'.wait = k.wait /\ k'.prio = k.prio /\ me \in Thread /\ k.stat[me] = "READY"
        /\ \A t \in Thread : t # me => k'.error[t] = k.error[t]
    BY <1>3, SleepReturnStep
  <2>2. /\ \A u \in Thread : Inside(u, sem)' <=> Inside(u, sem)
        /\ \A u \in Thread : Detaches(u)' <=> Detaches(u)
        /\ ~Inside(me, sem)
    BY <2>1 DEF Moves, Inside, Detaches
  <2>3. ~In(me, k.wait[sem])
    BY <2>1, SemList DEF IpcInv, Sound
  <2> QED
    BY <1>0, <2>1, <2>2, <2>3, StillStep
<1>4. CASE rt_thread_sleep
  <2>1. /\ IpcInv' /\ Moves("block", {}) /\ pc[me].op = "run" /\ me \in Thread
        /\ k'.wait = k.wait /\ k'.error = k.error /\ k'.prio = k.prio
    BY <1>4, SleepStep
  <2>2. /\ \A u \in Thread : Inside(u, sem)' <=> Inside(u, sem)
        /\ \A u \in Thread : Detaches(u)' <=> Detaches(u)
    BY <2>1 DEF Moves, Inside, Detaches
  <2> QED
    BY <1>0, <2>1, <2>2, StillStep
<1> QED
  BY <1>1, <1>2, <1>3, <1>4 DEF CallEnd, Sleep

(* The tick interrupt, the release it may make, and the timeouts. *)
LEMMA InterruptKeeps ==
  ASSUME IpcInv, SemInv, Interrupt \/ \E t \in Thread : Expire(t)
  PROVE  IpcInv' /\ SemInv'
<1>1. CASE (Tick \/ TickEnd) /\ UNCHANGED own
  <2>1. IpcInv' /\ Quiet /\ pc' = pc
    BY <1>1, TickStep, TickEndStep
  <2>2. /\ \A u \in Thread : Inside(u, sem)' <=> Inside(u, sem)
        /\ \A u \in Thread : Detaches(u)' <=> Detaches(u)
    BY <2>1 DEF Inside, Detaches
  <2> QED
    BY <1>1, <2>1, <2>2, StillStep DEF Quiet
<1>2. CASE ReleaseInHandler
  BY <1>2, HandlerKeeps
<1>3. ASSUME NEW t \in Thread, Expire(t) PROVE IpcInv' /\ SemInv'
  <2>1. Timeout(t) /\ UNCHANGED own
    BY <1>3 DEF Expire
  <2>2. /\ IpcInv' /\ pc' = pc /\ k.stat[t] = "SUSPEND" /\ k'.wait = Unwait(k, t)
        /\ k'.error = [k.error EXCEPT ![t] = "ETIMEOUT"] /\ k'.prio = k.prio
    BY <2>1, TimeoutStep
  <2>3. /\ \A u \in Thread : Inside(u, sem)' <=> Inside(u, sem)
        /\ \A u \in Thread : Detaches(u)' <=> Detaches(u)
        /\ "ETIMEOUT" \in Error
    BY <2>2 DEF Inside, Detaches, Error
  <2> QED
    BY <2>1, <2>2, <2>3, FailStep
<1> QED
  BY <1>1, <1>2, <1>3 DEF Interrupt

(* The invariant holds when the scheduler starts ... *)
LEMMA SemStart == Init => IpcInv /\ SemInv
<1> SUFFICES ASSUME Init PROVE IpcInv /\ SemInv
  OBVIOUS
<1>1. /\ IpcInv /\ k.wait[sem] = <<>> /\ pc = [t \in Thread |-> [op |-> "run", on |-> {}]]
  BY StartSound, SemList DEF Init
<1>2. /\ value \in 0 .. 2 ^ VALUE_WIDTH - 1 /\ flag \in {"FIFO", "PRIO"} /\ handed = {}
  <2>1. PICK v \in 0 .. MaxValue : value = Stored(v)
    BY DEF Init
  <2> QED
    BY <2>1, StoredType, SemaphoreAssumption DEF Init
<1>3. live \in BOOLEAN /\ live
  BY Zenon DEF Init
<1>4. \A t \in Thread : pc[t].op = "run" /\ ~Inside(t, sem) /\ ~Detaches(t)
  BY <1>1 DEF Inside, Detaches
<1>5. ~Detaching
  BY <1>4 DEF Detaching
<1>6. SemTypes /\ OneDetacher /\ WaitersClear /\ NoLostWakeup /\ PriorityOrder
  BY <1>1, <1>2, <1>3, <1>4, <1>5
     DEF SemTypes, OneDetacher, WaitersClear, NoLostWakeup, PriorityOrder, In
<1>7. PermitDelivered
  BY <1>2, <1>4 DEF PermitDelivered
<1> QED
  BY <1>1, <1>6, <1>7 DEF SemInv

(* ... and every step keeps it. *)
LEMMA SemKept == IpcInv /\ SemInv /\ [Next]_vars => IpcInv' /\ SemInv'
<1> SUFFICES ASSUME IpcInv, SemInv, [Next]_vars PROVE IpcInv' /\ SemInv'
  OBVIOUS
<1>1. CASE Next /\ ~UNCHANGED vars
  BY <1>1, TakeKeeps, TakeReturnKeeps, ReleaseKeeps, CallEndKeeps, ControlKeeps, InitKeeps,
     DetachKeeps, DetachLoopKeeps, DetachObjectKeeps, InterruptKeeps DEF Next
<1>2. CASE UNCHANGED vars
  BY <1>2
     DEF vars, IpcInv, IpcTypeOK, SemInv, SemTypes, OneDetacher, Detaching, Detaches,
         WaitersClear, NoLostWakeup, PermitDelivered, Inside, PriorityOrder
<1> QED
  BY <1>1, <1>2

-----------------------------------------------------------------------------
(* The theorems about the semaphore *)

(* The inductive invariant holds in every reachable state. *)
LEMMA SemSafe == Spec => [](IpcInv /\ SemInv)
BY SemStart, SemKept, PTL DEF Spec

(* Every variable keeps its type; in particular sem->value stays within    *)
(* its width, although no call checks it, and rt_sem_take never takes it   *)
(* below 0.                                                                *)
THEOREM SemTypeCorrect == Spec => []TypeOK
<1>1. IpcInv /\ SemInv => TypeOK
  BY DEF IpcInv, SemInv, SemTypes, TypeOK
<1> QED
  BY <1>1, SemSafe, PTL

(* Each thread is once on the list where its call left it, up to a detach  *)
(* loop that takes the list head for a thread.                             *)
THEOREM SemPlaces == Spec => []Places
BY SemSafe, PlacesKnown, PTL

(* No release and no reset of a semaphore leaves a waiter behind.          *)
THEOREM SemNoLostWakeup == Spec => []NoLostWakeup
<1>1. SemInv => NoLostWakeup
  BY DEF SemInv
<1> QED
  BY <1>1, SemSafe, PTL

(* rt_sem_take returns RT_EOK after a wait exactly when a release chose    *)
(* the thread.                                                             *)
THEOREM SemPermitDelivered == Spec => []PermitDelivered
<1>1. SemInv => PermitDelivered
  BY DEF SemInv
<1> QED
  BY <1>1, SemSafe, PTL

(* The waiters of a RT_IPC_FLAG_PRIO semaphore stay in priority order.     *)
THEOREM SemPriorityOrder == Spec => []PriorityOrder
<1>1. SemInv => PriorityOrder
  BY DEF SemInv
<1> QED
  BY <1>1, SemSafe, PTL

-----------------------------------------------------------------------------
(* Full preemption *)

(* The running thread is a best one, but for the threads that a detach has *)
(* woken, at every point of its calls except between the section that      *)
(* wakes or suspends a thread and the rt_schedule that ends the call.      *)
PreemptInv ==
  k.stat[me] = "READY" /\ pc[me].op \notin {"sched", "block"} =>
    \A u \in Thread : k.stat[u] = "READY" /\ k.error[u] # "ERROR" => k.prio[me] <= k.prio[u]

(* After an rt_schedule it holds whatever was before. *)
LEMMA PreemptBest ==
  ASSUME Best(k', {}, k'.current)
  PROVE  PreemptInv'
BY DEF PreemptInv, Best, me

(* It holds where the thread goes on to an rt_schedule. *)
LEMMA PreemptLater ==
  ASSUME IpcInv, NEW o \in {"sched", "block"}, NEW S, Moves(o, S), k'.current = k.current
  PROVE  PreemptInv'
BY DEF PreemptInv, Moves, me

(* A step that changes no other thread keeps it. *)
LEMMA PreemptSame ==
  ASSUME IpcInv, PreemptInv, k'.stat = k.stat, k'.prio = k.prio, k'.current = k.current,
         \A t \in Thread : t # me /\ k.error[t] = "ERROR" => k'.error[t] = "ERROR",
         pc' = pc \/ (k.stat[me] = "READY" /\ pc[me].op \notin {"sched", "block"})
  PROVE  PreemptInv'
<1> SUFFICES ASSUME k'.stat[me'] = "READY", pc'[me'].op \notin {"sched", "block"},
                    NEW u \in Thread, k'.stat[u] = "READY", k'.error[u] # "ERROR"
             PROVE  k'.prio[me'] <= k'.prio[u]
  BY DEF PreemptInv
<1>1. me' = me /\ k.stat[me] = "READY" /\ pc[me].op \notin {"sched", "block"}
  BY DEF me
<1>2. CASE u = me
  <2>1. k.prio[me] \in Priority /\ PRIORITY_MAX \in Nat
    BY <1>2, KernelAssumption DEF IpcInv, Sound, KernelState
  <2> QED
    BY <1>1, <1>2, <2>1 DEF Priority
<1>3. CASE u # me
  BY <1>1, <1>3 DEF PreemptInv
<1> QED
  BY <1>2, <1>3

(* Every step keeps it. *)
LEMMA PreemptKept == IpcInv /\ PreemptInv /\ [Next]_vars => PreemptInv'
<1> SUFFICES ASSUME IpcInv, PreemptInv, [Next]_vars PROVE PreemptInv'
  OBVIOUS
<1>0. Sound(k) /\ me \in Thread
  BY DEF IpcInv, Sound, me
<1>1. ASSUME NEW time, rt_sem_take(time) PROVE PreemptInv'
  <2>1. CASE UNCHANGED <<k, pc>>
    BY <2>1, PreemptSame
  <2>2. CASE k' = Block(k, sem, flag, time) /\ Goto("block", sem)
    <3>1. At("run") /\ me # Idle
      BY <1>1 DEF rt_sem_take, Calls
    <3>2. Moves("block", {sem}) /\ Blocked(k', k, sem, me, flag, time)
      BY <2>2, <3>1, BlockStep, SemList
    <3> QED
      BY <3>2, PreemptLater DEF Blocked
  <2> QED
    BY <1>1, <2>1, <2>2 DEF rt_sem_take
<1>2. CASE TakeReturn
  <2>1. At("woken") /\ k' = k
    BY <1>2 DEF TakeReturn
  <2> QED
    BY <2>1, SelfReady, PreemptSame DEF At
<1>3. CASE rt_sem_release
  <2>1. /\ At("run") /\ me # Idle /\ ReleasePermit(rt_ipc_list_resume(k, sem))
        /\ (IF k.wait[sem] # <<>> THEN Goto("sched", sem) ELSE UNCHANGED pc)
    BY <1>3 DEF rt_sem_release, Calls
  <2>2. CASE k.wait[sem] # <<>>
    <3>1. Moves("sched", {sem}) /\ k'.current = k.current
      BY <2>1, <2>2, ResumeStep, SemList DEF ReleasePermit
    <3> QED
      BY <3>1, PreemptLater
  <2>3. CASE k.wait[sem] = <<>>
    BY <2>1, <2>3, PreemptSame DEF ReleasePermit
  <2> QED
    BY <2>2, <2>3
<1>4. CASE BlockSchedule \/ Schedule
  BY <1>4, BlockScheduleStep, ScheduleStep, PreemptBest
<1>5. CASE SleepReturn
  <2>1. /\ k'.stat = k.stat /\ k'.prio = k.prio /\ k'.current = k.current
        /\ k.stat[me] = "READY" /\ pc[me].op = "woken"
        /\ \A t \in Thread : t # me => k'.error[t] = k.error[t]
    BY <1>5, SleepReturnStep
  <2> QED
    BY <2>1, PreemptSame
<1>6. CASE rt_thread_sleep
  BY <1>6, SleepStep, PreemptLater
<1>7. ASSUME NEW v \in 0 .. MaxValue, rt_sem_control(v) PROVE PreemptInv'
  <2>1. /\ At("run") /\ me # Idle /\ k' = rt_ipc_list_resume_all(k, sem) /\ Goto("sched", sem)
    BY <1>7 DEF rt_sem_control, Calls
  <2>2. Moves("sched", {sem}) /\ k'.current = k.current
    BY <2>1, ResetStep, SemList DEF Roused
  <2> QED
    BY <2>2, PreemptLater
<1>8. ASSUME NEW v, NEW f, rt_sem_init(v, f) PROVE PreemptInv'
  BY <1>8, PreemptSame DEF rt_sem_init
<1>9. CASE rt_sem_detach
  <2>1. At("run") /\ k' = k
    BY <1>9 DEF rt_sem_detach, Calls
  <2> QED
    BY <2>1, SelfReady, PreemptSame DEF At
<1>10. CASE DetachLoop \/ DetachObject
  <2>1. CASE DetachTest(sem) \/ DetachEnd(sem)
    <3>1. At("detach") /\ k' = k
      BY <2>1 DEF DetachTest, DetachEnd
    <3> QED
      BY <3>1, SelfReady, PreemptSame DEF At
  <2>2. CASE DetachBody(sem) /\ k.wait[sem] = <<>>
    <3>1. Quiet /\ k'.current = k.current /\ k.stat[me] = "READY" /\ pc[me].op = "rouse"
      BY <2>2, DetachHeadStep, SemList
    <3> QED
      BY <3>1, PreemptSame DEF Quiet
  <2>3. CASE DetachBody(sem) /\ k.wait[sem] # <<>>
    <3> DEFINE t == k.wait[sem][1]
    <3>1. /\ pc[me].op = "rouse" /\ k.stat[me] = "READY" /\ Moves("detach", {sem})
          /\ t \in Thread /\ In(t, k.wait[sem])
          /\ k'.stat = [k.stat EXCEPT ![t] = "READY"]
          /\ k'.error = [k.error EXCEPT ![t] = "ERROR"]
          /\ k'.prio = k.prio /\ k'.current = k.current
      BY <2>3, DetachBodyStep, SemList
    <3> HIDE DEF t
    <3>2. k.stat \in [Thread -> Stat] /\ k.error \in [Thread -> Error]
      BY <1>0 DEF Sound, KernelState
    <3>3. /\ k'.error[t] = "ERROR"
          /\ \A u \in Thread : u # t => k'.stat[u] = k.stat[u] /\ k'.error[u] = k.error[u]
      BY <3>1, <3>2
    <3> SUFFICES ASSUME NEW u \in Thread, k'.stat[u] = "READY", k'.error[u] # "ERROR"
                 PROVE  k'.prio[me'] <= k'.prio[u]
      BY DEF PreemptInv
    <3>4. u # t /\ k.stat[u] = "READY" /\ k.error[u] # "ERROR"
      BY <3>3
    <3> QED
      BY <3>1, <3>4 DEF PreemptInv, me
  <2> QED
    BY <1>10, <2>1, <2>2, <2>3 DEF DetachLoop, DetachObject
<1>11. CASE Tick \/ TickEnd
  <2>1. Quiet /\ pc' = pc /\ (k'.current = k.current \/ Best(k', {}, k'.current))
    BY <1>11, TickStep, TickEndStep
  <2> QED
    BY <2>1, PreemptSame, PreemptBest DEF Quiet
<1>12. CASE ReleaseInHandler
  <2>1. pc' = pc /\ ReleasePermit(rt_schedule(rt_ipc_list_resume(k, sem)))
    BY <1>12 DEF ReleaseInHandler
  <2>2. CASE k.wait[sem] # <<>>
    <3>1. Best(k', {}, k'.current)
      BY <2>1, <2>2, ResumeInHandlerStep, SemList DEF ReleasePermit
    <3> QED
      BY <3>1, PreemptBest
  <2>3. CASE k.wait[sem] = <<>>
    BY <2>1, <2>3, PreemptSame DEF ReleasePermit
  <2> QED
    BY <2>2, <2>3
<1>13. ASSUME NEW t \in Thread, Expire(t) PROVE PreemptInv'
  BY <1>13, TimeoutStep, PreemptBest DEF Expire
<1>14. CASE UNCHANGED vars
  BY <1>14, PreemptSame DEF vars
<1> QED
  BY <1>1, <1>2, <1>3, <1>4, <1>5, <1>6, <1>7, <1>8, <1>9, <1>10, <1>11, <1>12, <1>13, <1>14
     DEF Next, CallEnd, Sleep, Interrupt

(* Application code never runs while a thread of higher priority is READY, *)
(* unless a detach has woken it: rt_sem_take, rt_sem_release in a thread   *)
(* or a handler, a reset, a timeout and the tick all schedule in time.     *)
THEOREM SemPreemptive == Spec => []Preemptive
<1>1. Init => PreemptInv
  <2> SUFFICES ASSUME Init PROVE PreemptInv
    OBVIOUS
  <2>1. Best(k, {}, k.current)
    BY StartSound DEF Init
  <2> QED
    BY <2>1 DEF PreemptInv, Best, me
<1>2. IpcInv /\ PreemptInv => Preemptive
  <2> SUFFICES ASSUME IpcInv, PreemptInv, At("run"), NEW u \in Thread, k.error[u] # "ERROR",
                      k.stat[u] = "READY"
               PROVE  k.prio[me] <= k.prio[u]
    BY DEF Preemptive, Preempts
  <2>1. k.stat[me] = "READY" /\ pc[me].op = "run"
    BY SelfReady DEF At
  <2> QED
    BY <2>1 DEF PreemptInv
<1>3. Spec => []IpcInv
  BY SemSafe, PTL
<1>4. Spec => []PreemptInv
  BY <1>1, <1>3, PreemptKept, PTL DEF Spec
<1> QED
  BY <1>2, <1>3, <1>4, PTL

-----------------------------------------------------------------------------
(* The console *)

S == UART_RX_BUFFER_SIZE

(* What a place of the ring holds, before and after its first character. *)
Cell == Char \cup {NoChar}

(* uart->int_rx *)
RxOK ==
  rx \in [buffer : [Index -> Cell], read : Index, save : Index, burst : Nat]

(* The number of characters in the ring. *)
Count == Wrap(rx.save - rx.read, S)

(* The size of the ring. *)
LEMMA SizeKnown == S \in Nat /\ S >= 2 /\ S \in Nat \ {0} /\ Index = 0 .. S - 1
BY ConsoleAssumption DEF S, Index

(* The fields of the ring. *)
LEMMA RxFields ==
  ASSUME RxOK
  PROVE  /\ rx.buffer \in [Index -> Cell] /\ rx.read \in Index /\ rx.save \in Index
         /\ rx.burst \in Nat
BY DEF RxOK

(* One index further. *)
LEMMA FollowingKnown ==
  ASSUME NEW i \in Index
  PROVE  /\ Following(i) \in Index /\ Following(i) = Wrap(i + 1, S)
         /\ Following(i) = IF i + 1 = S THEN 0 ELSE i + 1
<1>1. S \in Nat /\ S >= 2 /\ S \in Nat \ {0} /\ i \in 0 .. S - 1 /\ Index = 0 .. S - 1
  BY SizeKnown
<1>2. Following(i) = IF i + 1 >= S THEN 0 ELSE i + 1
  BY DEF Following, S
<1>3. Wrap(i + 1, S) = IF i + 1 >= S THEN i + 1 - S ELSE i + 1
  <2>1. i + 1 \in 0 .. 2 * S - 1
    BY <1>1
  <2> QED
    BY <1>1, <2>1, RingIndex
<1> QED
  BY <1>1, <1>2, <1>3

(* The distance of two indices. *)
LEMMA DistanceKnown ==
  ASSUME NEW r \in Index, NEW s \in Index
  PROVE  /\ Wrap(s - r, S) \in 0 .. S - 1
         /\ Wrap(s - r, S) = IF s >= r THEN s - r ELSE s - r + S
         /\ s = Wrap(r + Wrap(s - r, S), S)
<1>1. S \in Nat \ {0} /\ r \in 0 .. S - 1 /\ s \in 0 .. S - 1
  BY SizeKnown
<1> DEFINE n == Wrap(s - r, S)
<1>2. n = IF s >= r THEN s - r ELSE s - r + S
  <2>1. CASE s >= r
    <3>1. s - r \in 0 .. 2 * S - 1 /\ ~(s - r >= S)
      BY <1>1, <2>1
    <3> QED
      BY <1>1, <2>1, <3>1, RingIndex
  <2>2. CASE ~(s >= r)
    <3>1. s - r \in 1 - S .. -1
      BY <1>1, <2>2
    <3> QED
      BY <1>1, <2>2, <3>1, RingIndex
  <2> QED
    BY <2>1, <2>2
<1> HIDE DEF n
<1>3. n \in 0 .. S - 1
  BY <1>1, <1>2
<1>4. s = Wrap(r + n, S)
  <2> DEFINE a == r + n
  <2>1. a \in 0 .. 2 * S - 1 /\ s = IF a >= S THEN a - S ELSE a
    BY <1>1, <1>2, <1>3
  <2> HIDE DEF a
  <2>2. s = Wrap(a, S)
    BY <1>1, <2>1, RingIndex
  <2> QED
    BY <2>2 DEF a
<1> QED
  BY <1>2, <1>3, <1>4 DEF n

(* The ring lemmas for this ring: its contents, *)
LEMMA RxSeq ==
  ASSUME NEW b \in [Index -> Cell], NEW r \in Index, NEW n \in 0 .. S
  PROVE  Ring(b, r, n, S) \in Seq(Cell) /\ Len(Ring(b, r, n, S)) = n
<1>1. ASSUME NEW T \in Nat \ {0}, NEW p \in [0 .. T - 1 -> Cell], NEW o \in 0 .. T - 1,
             NEW e \in 0 .. T
      PROVE  Ring(p, o, e, T) \in Seq(Cell) /\ Len(Ring(p, o, e, T)) = e
  BY RingSeq
<1>2. S \in Nat \ {0} /\ b \in [0 .. S - 1 -> Cell] /\ r \in 0 .. S - 1
  BY SizeKnown
<1> QED
  BY <1>1, <1>2

(* a store, *)
LEMMA RxAppend ==
  ASSUME NEW b \in [Index -> Cell], NEW r \in Index, NEW n \in 0 .. S - 1, NEW c \in Cell
  PROVE  Appends(b, r, n, S, c)
<1>1. S \in Nat \ {0} /\ b \in [0 .. S - 1 -> Cell] /\ r \in 0 .. S - 1
  BY SizeKnown
<1> QED
  BY <1>1, RingAppend

(* and a read. *)
LEMMA RxTail ==
  ASSUME NEW b \in [Index -> Cell], NEW r \in Index, NEW n \in 1 .. S
  PROVE  /\ Ring(b, r, n, S) # <<>> /\ Head(Ring(b, r, n, S)) = b[r]
         /\ Ring(b, Following(r), n - 1, S) = Tail(Ring(b, r, n, S))
<1>1. ASSUME NEW T \in Nat \ {0}, NEW p \in [0 .. T - 1 -> Cell], NEW o \in 0 .. T - 1,
             NEW e \in 1 .. T
      PROVE  /\ Ring(p, o, e, T) # <<>> /\ Head(Ring(p, o, e, T)) = p[o]
             /\ Ring(p, Wrap(o + 1, T), e - 1, T) = Tail(Ring(p, o, e, T))
  BY RingTail
<1>2. S \in Nat \ {0} /\ b \in [0 .. S - 1 -> Cell] /\ r \in 0 .. S - 1
  BY SizeKnown
<1>3. /\ Ring(b, r, n, S) # <<>> /\ Head(Ring(b, r, n, S)) = b[r]
      /\ Ring(b, Wrap(r + 1, S), n - 1, S) = Tail(Ring(b, r, n, S))
  BY <1>1, <1>2
<1> QED
  BY <1>3, FollowingKnown

(* The characters in the ring, in the words of the ring lemmas. *)
LEMMA UnreadIsRing ==
  /\ Unread = Ring(rx.buffer, rx.read, Count, S)
  /\ Unread' = Ring(rx'.buffer, rx'.read, Count', S)
BY DEF Unread, Ring, Count, Wrap, S

(* Their number. *)
LEMMA CountKnown ==
  ASSUME RxOK
  PROVE  /\ Count \in 0 .. S - 1 /\ Count \in Nat
         /\ Unread \in Seq(Cell) /\ Len(Unread) = Count /\ (Unread = <<>> <=> Count = 0)
         /\ rx.read = rx.save <=> Count = 0
         /\ rx.save = Wrap(rx.read + Count, S)
<1> DEFINE b == rx.buffer
           r == rx.read
           s == rx.save
           n == Wrap(s - r, S)
<1>1. /\ b \in [Index -> Cell] /\ r \in 0 .. S - 1 /\ s \in 0 .. S - 1 /\ S \in Nat \ {0}
      /\ r \in Index /\ s \in Index
  BY RxFields, SizeKnown
<1>2. Unread = Ring(b, r, n, S) /\ Count = n
  BY UnreadIsRing DEF Count
<1> HIDE DEF b, r, s
<1>3. /\ n \in 0 .. S - 1 /\ n = (IF s >= r THEN s - r ELSE s - r + S)
      /\ s = Wrap(r + n, S)
  BY <1>1, DistanceKnown
<1> HIDE DEF n
<1>4. n \in 0 .. S
  BY <1>1, <1>3
<1>5. Ring(b, r, n, S) \in Seq(Cell) /\ Len(Ring(b, r, n, S)) = n
  BY <1>1, <1>4, RxSeq
<1>6. Unread \in Seq(Cell) /\ Len(Unread) = n
  BY <1>2, <1>5
<1>7. Unread = <<>> <=> n = 0
  BY <1>6, EmptySeq
<1>8. r = s <=> n = 0
  BY <1>1, <1>3
<1> QED
  BY <1>1, <1>2, <1>3, <1>6, <1>7, <1>8 DEF r, s

-----------------------------------------------------------------------------
(* The ring as a queue *)

(* The fields after the interrupt has stored a character, *)
LEMMA StoreFields ==
  ASSUME RxOK, NEW c \in Char, rx' = Store(c)
  PROVE  /\ RxOK' /\ rx'.buffer = [rx.buffer EXCEPT ![rx.save] = c]
         /\ rx'.save = Following(rx.save) /\ rx'.burst = rx.burst + 1
         /\ rx'.read = IF Following(rx.save) = rx.read THEN Following(rx.read) ELSE rx.read
<1> DEFINE b == [rx.buffer EXCEPT ![rx.save] = c]
           s == Following(rx.save)
           r == IF s = rx.read THEN Following(rx.read) ELSE rx.read
           n == rx.burst + 1
<1>1. rx' = [buffer |-> b, read |-> r, save |-> s, burst |-> n]
  BY DEF RxOK, Store
<1>2. b \in [Index -> Cell] /\ s \in Index /\ r \in Index /\ n \in Nat
  BY RxFields, FollowingKnown DEF Cell
<1> HIDE DEF b, s, r, n
<1>3. rx'.buffer = b /\ rx'.read = r /\ rx'.save = s /\ rx'.burst = n /\ RxOK'
  BY <1>1, <1>2 DEF RxOK
<1> QED
  BY <1>3 DEF b, s, r, n

(* and after finsh has read one. *)
LEMMA ReadFields ==
  ASSUME RxOK, rx' = [rx EXCEPT !.read = Following(@)]
  PROVE  /\ RxOK' /\ rx'.buffer = rx.buffer /\ rx'.save = rx.save /\ rx'.burst = rx.burst
         /\ rx'.read = Following(rx.read)
<1>1. Following(rx.read) \in Index
  BY RxFields, FollowingKnown
<1> QED
  BY <1>1 DEF RxOK

(* A character is stored behind the others; if there is no place left, the *)
(* oldest one is forgotten.                                                *)
LEMMA StoreAppends ==
  ASSUME RxOK, NEW c \in Char, rx' = Store(c)
  PROVE  /\ RxOK' /\ rx'.burst = rx.burst + 1 /\ Count' <= Count + 1 /\ Count' \in Nat
         /\ Unread' = Append(IF Len(Unread) < S - 1 THEN Unread ELSE Tail(Unread), c)
<1> DEFINE b == rx.buffer
           r == rx.read
           s == rx.save
           n == Count
           d == [b EXCEPT ![s] = c]
<1>1. /\ RxOK' /\ rx'.buffer = d /\ rx'.save = Following(s) /\ rx'.burst = rx.burst + 1
      /\ rx'.read = IF Following(s) = r THEN Following(r) ELSE r
  BY StoreFields
<1>2. /\ b \in [Index -> Cell] /\ r \in Index /\ s \in Index /\ S \in Nat /\ S >= 2
      /\ Index = 0 .. S - 1 /\ c \in Cell
  BY RxFields, SizeKnown DEF Cell
<1>3. n \in 0 .. S - 1 /\ s = Wrap(r + n, S) /\ Len(Unread) = n /\ Unread = Ring(b, r, n, S)
  BY CountKnown, UnreadIsRing
<1>4. n = IF s >= r THEN s - r ELSE s - r + S
  BY <1>2, DistanceKnown DEF Count
<1>0. S \in Nat /\ S >= 2 /\ r \in Int /\ 0 <= r /\ r < S /\ s \in Int /\ 0 <= s /\ s < S
  BY <1>2
<1>5. Count' = Wrap(rx'.save - rx'.read, S) /\ Unread' = Ring(rx'.buffer, rx'.read, Count', S)
  BY UnreadIsRing DEF Count
<1>6. Count' \in 0 .. S - 1
  <2>1. rx'.read \in Index /\ rx'.save \in Index
    BY <1>1 DEF RxOK
  <2> QED
    BY <1>5, <2>1, DistanceKnown
<1> HIDE DEF b, r, s, n, d
<1>7. /\ Following(s) \in Index /\ Following(s) = IF s + 1 = S THEN 0 ELSE s + 1
      /\ Following(r) \in Index /\ Following(r) = IF r + 1 = S THEN 0 ELSE r + 1
  BY <1>2, FollowingKnown
<1>8. CASE n < S - 1
  <2> DEFINE t == Following(s)
  <2>1. t # r
    BY <1>2, <1>3, <1>4, <1>7, <1>8
  <2>2. Count' = n + 1
    <3>1. Count' = Wrap(t - r, S)
      BY <1>1, <1>5, <2>1
    <3>2. t \in Index /\ t = IF s + 1 = S THEN 0 ELSE s + 1
      BY <1>7
    <3> HIDE DEF t
    <3>3. Wrap(t - r, S) = IF t >= r THEN t - r ELSE t - r + S
      BY <1>2, <3>2, DistanceKnown
    <3> QED
      BY <1>0, <1>4, <1>8, <3>1, <3>2, <3>3
  <2>3. Appends(b, r, n, S, c)
    BY <1>2, <1>3, RxAppend
  <2>4. Ring(d, r, n + 1, S) = Append(Ring(b, r, n, S), c)
    BY <1>3, <2>3 DEF Appends, RingPut, d
  <2>5. Unread' = Append(Unread, c)
    BY <1>1, <1>3, <1>5, <2>1, <2>2, <2>4
  <2> QED
    BY <1>1, <1>3, <1>6, <1>8, <2>2, <2>5 DEF n
<1>9. CASE n = S - 1
  <2> DEFINE t == Following(r)
             l == n - 1
  <2>1. Following(s) = r
    BY <1>0, <1>4, <1>7, <1>9
  <2>2. Count' = n
    <3>1. Count' = Wrap(r - t, S)
      BY <1>1, <1>5, <2>1
    <3>2. t = (IF r + 1 = S THEN 0 ELSE r + 1) /\ t \in Index
      BY <1>7
    <3> HIDE DEF t
    <3>3. Wrap(r - t, S) = IF r >= t THEN r - t ELSE r - t + S
      BY <1>2, <3>2, DistanceKnown
    <3> QED
      BY <1>2, <1>9, <3>1, <3>2, <3>3
  <2>3. /\ Ring(b, r, n, S) # <<>>
        /\ Ring(b, t, l, S) = Tail(Ring(b, r, n, S))
    <3>1. n \in 1 .. S
      BY <1>2, <1>9
    <3> QED
      BY <1>2, <3>1, RxTail
  <2>4. l \in 0 .. S - 1 /\ l + 1 = n /\ t \in Index
    BY <1>2, <1>7, <1>9
  <2>5. Wrap(t + l, S) = s
    <3> DEFINE v == t + l
    <3>1. v \in 0 .. 2 * S - 1 /\ s = IF v >= S THEN v - S ELSE v
      BY <1>2, <1>4, <1>7, <1>9
    <3> HIDE DEF v
    <3>2. Wrap(v, S) = IF v >= S THEN v - S ELSE v
      BY <1>2, <3>1, RingIndex
    <3> QED
      BY <3>1, <3>2 DEF v
  <2> HIDE DEF t, l
  <2>6. Appends(b, t, l, S, c)
    BY <1>2, <2>4, RxAppend
  <2>7. Ring(d, t, n, S) = Append(Ring(b, t, l, S), c)
    BY <2>4, <2>5, <2>6 DEF Appends, RingPut, d
  <2>8. Unread' = Append(Tail(Unread), c)
    BY <1>1, <1>3, <1>5, <2>1, <2>2, <2>3, <2>7 DEF t
  <2> QED
    BY <1>1, <1>2, <1>3, <1>6, <1>9, <2>2, <2>8 DEF n
<1> QED
  BY <1>2, <1>3, <1>8, <1>9

(* finsh reads the oldest character. *)
LEMMA ReadTakes ==
  ASSUME RxOK, rx.read # rx.save, rx' = [rx EXCEPT !.read = Following(@)]
  PROVE  /\ RxOK' /\ rx'.burst = rx.burst /\ Count' = Count - 1 /\ Count \in Nat \ {0}
         /\ Unread # <<>> /\ Head(Unread) = rx.buffer[rx.read] /\ Unread' = Tail(Unread)
<1> DEFINE b == rx.buffer
           r == rx.read
           s == rx.save
           n == Count
           t == Following(r)
<1>1. RxOK' /\ rx'.buffer = b /\ rx'.save = s /\ rx'.burst = rx.burst /\ rx'.read = t
  BY ReadFields
<1>2. /\ b \in [Index -> Cell] /\ r \in Index /\ s \in Index /\ S \in Nat /\ S >= 2
      /\ Index = 0 .. S - 1 /\ r # s
  BY RxFields, SizeKnown
<1>3. n \in 0 .. S - 1 /\ n # 0 /\ Unread = Ring(b, r, n, S)
  BY CountKnown, UnreadIsRing
<1>4. n = IF s >= r THEN s - r ELSE s - r + S
  BY <1>2, DistanceKnown DEF Count
<1>0. S \in Nat /\ S >= 2 /\ r \in Int /\ 0 <= r /\ r < S /\ s \in Int /\ 0 <= s /\ s < S
  BY <1>2
<1>5. Count' = Wrap(rx'.save - rx'.read, S) /\ Unread' = Ring(rx'.buffer, rx'.read, Count', S)
  BY UnreadIsRing DEF Count
<1> HIDE DEF b, r, s, n
<1>6. t \in Index /\ t = IF r + 1 = S THEN 0 ELSE r + 1
  BY <1>2, FollowingKnown
<1>7. /\ Ring(b, r, n, S) # <<>> /\ Head(Ring(b, r, n, S)) = b[r]
      /\ Ring(b, t, n - 1, S) = Tail(Ring(b, r, n, S))
  <2>1. n \in 1 .. S
    BY <1>2, <1>3
  <2> QED
    BY <1>2, <2>1, RxTail
<1> HIDE DEF t
<1>8. Count' = n - 1
  <2>1. Count' = Wrap(s - t, S)
    BY <1>1, <1>5
  <2>2. Wrap(s - t, S) = IF s >= t THEN s - t ELSE s - t + S
    BY <1>2, <1>6, DistanceKnown
  <2> QED
    BY <1>0, <1>3, <1>4, <1>6, <2>1, <2>2
<1>9. Unread' = Tail(Unread)
  BY <1>1, <1>3, <1>5, <1>7, <1>8
<1> QED
  BY <1>1, <1>3, <1>7, <1>8, <1>9 DEF n, b, r

-----------------------------------------------------------------------------
(* The invariant *)

FinOK ==
  /\ fin \in [op : {"take", "wait", "read", "got", "next", "last"}, ch : Cell]
  /\ fin.op \notin {"got", "last"} => fin.ch = NoChar

(* Only finsh makes calls, and it waits for rx_sem only. *)
ShellCalls ==
  /\ \A t \in Thread \ {shell} : pc[t].op = "run"
  /\ IF fin.op = "wait" THEN Inside(shell, sem) ELSE pc[shell].op = "run"

(* Characters are stored in the interrupt only. *)
BurstInHandler == rx.burst > 0 => k.isr

ConsoleInv == RxOK /\ FinOK /\ owed \in Nat /\ ShellCalls /\ BurstInHandler

(* A release that is still to come, and a permit finsh has and has not     *)
(* used yet.                                                               *)
Coming == IF rx.burst > 0 THEN 1 ELSE 0
Granted == IF fin.op = "read" \/ shell \in handed THEN 1 ELSE 0

(* Every character in the ring will be looked for. *)
Announced == owed = 0 => Count <= value + Coming + Granted

(* The value of rx_sem does not reach its width. *)
Fits == MaxValue < 2 ^ VALUE_WIDTH

(* The steps of the queue. *)
LineStep ==
  [\/ \E m \in Char : Line!PutOver(m)
   \/ \E t \in {shell} : Line!Take(t) \/ Line!Deliver(t)]_<<Unread, [t \in {shell} |-> fin.ch]>>

(* What is shown of a step. *)
ConsoleGood ==
  /\ ConsoleInv' /\ LineStep
  /\ Fits /\ Announced => Announced'

(* The step leaves the queue alone. *)
LEMMA LineSame ==
  ASSUME rx'.buffer = rx.buffer, rx'.read = rx.read, rx'.save = rx.save, fin'.ch = fin.ch
  PROVE  LineStep /\ Count' = Count
BY DEF LineStep, Unread, Count

(* The counters that Announced compares. *)
LEMMA NumbersKnown ==
  ASSUME SemInv, ConsoleInv
  PROVE  value \in Nat /\ Count \in Nat /\ Coming \in {0, 1} /\ Granted \in {0, 1} /\ owed \in Nat
<1>1. value \in Nat
  BY SemaphoreAssumption DEF SemInv, SemTypes
<1> QED
  BY <1>1, CountKnown DEF ConsoleInv, Coming, Granted

(* finsh outside its wait has not been handed a permit. *)
LEMMA NotHanded ==
  ASSUME SemInv, ConsoleInv, fin.op # "wait"
  PROVE  shell \notin handed
BY DEF SemInv, PermitDelivered, ConsoleInv, ShellCalls, Inside

(* The interrupt stores a character. *)
LEMMA ReceiveGood ==
  ASSUME IpcInv, SemInv, ConsoleInv, NEW c \in Char, ReceiveChar(c)
  PROVE  ConsoleGood
<1>1. /\ RxOK /\ k.isr /\ rx' = Store(c) /\ k' = k /\ pc' = pc /\ fin' = fin /\ value' = value
      /\ handed' = handed
      /\ owed' = IF rx.burst > 0 /\ owed < UART_RX_BUFFER_SIZE THEN owed + 1 ELSE owed
  BY DEF ConsoleInv, ReceiveChar, own
<1>2. /\ RxOK' /\ rx'.burst = rx.burst + 1 /\ Count' <= Count + 1 /\ Count' \in Nat
      /\ Unread' = Append(IF Len(Unread) < S - 1 THEN Unread ELSE Tail(Unread), c)
  BY <1>1, StoreAppends
<1>3. /\ value \in Nat /\ Count \in Nat /\ Coming \in {0, 1} /\ Granted \in {0, 1}
      /\ owed \in Nat /\ rx.burst \in Nat /\ S \in Nat /\ S >= 2
  BY <1>1, NumbersKnown, RxFields, SizeKnown
<1>4. ConsoleInv'
  <2>1. owed' \in Nat
    BY <1>1, <1>3
  <2>2. FinOK' /\ ShellCalls' /\ BurstInHandler'
    BY <1>1 DEF ConsoleInv, FinOK, ShellCalls, Inside, BurstInHandler
  <2> QED
    BY <1>2, <2>1, <2>2 DEF ConsoleInv
<1>5. LineStep
  BY <1>1, <1>2 DEF LineStep, Line!PutOver, S
<1>6. ASSUME Announced PROVE Announced'
  <2> SUFFICES ASSUME owed' = 0
               PROVE  Count' <= value' + Coming' + Granted'
    BY DEF Announced
  <2>1. owed = 0 /\ rx.burst = 0
    BY <1>1, <1>3 DEF S
  <2>2. Coming = 0 /\ Coming' = 1 /\ Granted' = Granted
    BY <1>1, <1>2, <2>1 DEF Coming, Granted
  <2>3. Count <= value + Granted
    BY <1>3, <1>6, <2>1, <2>2 DEF Announced
  <2> QED
    BY <1>1, <1>2, <1>3, <2>2, <2>3
<1> QED
  BY <1>4, <1>5, <1>6 DEF ConsoleGood

(* It indicates them: finsh is woken, or the value goes up. *)
LEMMA IndicateGood ==
  ASSUME IpcInv, SemInv, ConsoleInv, Indicate
  PROVE  ConsoleGood
<1>1. /\ RxOK /\ rx.burst > 0 /\ rx' = [rx EXCEPT !.burst = 0] /\ fin' = fin /\ owed' = owed
      /\ pc' = pc /\ ReleaseInHandler
  BY DEF ConsoleInv, Indicate, ReleaseInHandler
<1>2. /\ RxOK' /\ rx'.buffer = rx.buffer /\ rx'.read = rx.read /\ rx'.save = rx.save
      /\ rx'.burst = 0
  BY <1>1 DEF RxOK
<1>3. LineStep /\ Count' = Count
  BY <1>1, <1>2, LineSame
<1>4. ConsoleInv'
  BY <1>1, <1>2 DEF ConsoleInv, FinOK, ShellCalls, Inside, BurstInHandler
<1>5. value \in Nat /\ Count \in Nat /\ Granted \in {0, 1} /\ Coming = 1 /\ Coming' = 0
  BY <1>1, <1>2, NumbersKnown DEF Coming
<1>6. ASSUME Fits, Announced PROVE Announced'
  <2>1. CASE k.wait[sem] # <<>>
    <3>1. value' = value /\ handed' = handed \cup {FirstThread(k.wait[sem])}
      BY <1>1, <2>1 DEF ReleaseInHandler, ReleasePermit
    <3> DEFINE t == k.wait[sem][1]
    <3>2. /\ t \in Thread /\ In(t, k.wait[sem]) /\ k.stat[t] = "SUSPEND"
          /\ FirstThread(k.wait[sem]) = t
      BY <2>1, FirstWaits, SemList DEF IpcInv
    <3> HIDE DEF t
    <3>3. pc[t].op \in {"block", "woken"}
      BY <3>2 DEF IpcInv, Located
    <3>4. t = shell /\ fin.op = "wait"
      BY <3>2, <3>3 DEF ConsoleInv, ShellCalls
    <3>5. shell \notin handed
      BY <3>2, <3>4 DEF SemInv, PermitDelivered, ConsoleInv, ShellCalls
    <3>6. Granted = 0 /\ Granted' = 1
      BY <1>1, <3>1, <3>2, <3>4, <3>5 DEF Granted
    <3> QED
      BY <1>1, <1>3, <1>5, <1>6, <3>1, <3>6 DEF Announced
  <2>2. CASE k.wait[sem] = <<>>
    <3>1. value < MaxValue /\ value' = Stored(value + 1) /\ handed' = handed
      BY <1>1, <2>2 DEF ReleaseInHandler, ReleasePermit
    <3>2. value' = value + 1
      <4> DEFINE M == 2 ^ VALUE_WIDTH
                 v == value + 1
      <4>1. M \in Nat \ {0} /\ v \in Nat /\ v < M /\ MaxValue \in Nat
        BY <1>5, <1>6, <3>1, SemaphoreAssumption DEF Fits
      <4> HIDE DEF M, v
      <4>2. v % M = v
        BY <4>1
      <4> QED
        BY <3>1, <4>2 DEF Stored, M, v
    <3>3. Granted' = Granted
      BY <1>1, <3>1 DEF Granted
    <3> QED
      BY <1>1, <1>3, <1>5, <1>6, <3>2, <3>3 DEF Announced
  <2> QED
    BY <2>1, <2>2
<1> QED
  BY <1>3, <1>4, <1>6 DEF ConsoleGood

(* A step of a thread: no interrupt runs. *)
LEMMA ThreadStep ==
  ASSUME ConsoleInv, NEW p, At(p), rx'.burst = rx.burst
  PROVE  BurstInHandler' /\ Coming = 0 /\ Coming' = 0 /\ rx.burst = 0
<1>1. rx.burst \in Nat /\ ~(rx.burst > 0)
  BY RxFields DEF ConsoleInv, BurstInHandler, At
<1> QED
  BY <1>1 DEF BurstInHandler, Coming

(* finsh goes on without a system call. *)
LEMMA ShellStays ==
  ASSUME ConsoleInv, pc' = pc, fin.op # "wait", fin'.op # "wait"
  PROVE  ShellCalls'
BY DEF ConsoleInv, ShellCalls

(* rt_sem_take *)
LEMMA TakeGood ==
  ASSUME IpcInv, SemInv, ConsoleInv, ShellTake
  PROVE  ConsoleGood
<1>1. /\ At("run") /\ me # Idle /\ me = shell /\ fin.op = "take" /\ rt_sem_take("forever")
      /\ fin' = [fin EXCEPT !.op = IF value > 0 THEN "read" ELSE "wait"]
      /\ rx' = rx /\ owed' = owed /\ RxOK /\ FinOK /\ shell \in Thread /\ handed' = handed
  BY ConsoleAssumption DEF ShellTake, Runs, Calls, ConsoleInv, rt_sem_take
<1>2. /\ fin'.op = (IF value > 0 THEN "read" ELSE "wait") /\ fin'.ch = fin.ch /\ fin.ch = NoChar
      /\ FinOK'
  BY <1>1 DEF FinOK
<1>3. LineStep /\ Count' = Count
  BY <1>1, <1>2, LineSame
<1>4. BurstInHandler' /\ Coming = 0 /\ Coming' = 0
  BY <1>1, ThreadStep
<1>5. value \in Nat /\ Count \in Nat /\ owed \in Nat
  BY NumbersKnown
<1>6. shell \notin handed /\ Granted = 0
  BY <1>1, NotHanded DEF Granted
<1>7. CASE value > 0
  <2>1. value' = value - 1 /\ k' = k /\ pc' = pc /\ fin'.op = "read"
    BY <1>1, <1>2, <1>7 DEF rt_sem_take
  <2>2. ShellCalls'
    BY <1>1, <2>1, ShellStays
  <2>3. ConsoleInv'
    BY <1>1, <1>2, <1>4, <1>5, <2>2 DEF ConsoleInv, RxOK
  <2>4. Granted' = 1
    BY <2>1 DEF Granted
  <2>5. Announced => Announced'
    BY <1>1, <1>3, <1>4, <1>5, <1>6, <2>1, <2>4 DEF Announced
  <2> QED
    BY <1>3, <2>3, <2>5 DEF ConsoleGood
<1>8. CASE ~(value > 0)
  <2>1. k' = Block(k, sem, flag, "forever") /\ Goto("block", sem) /\ value' = value
    BY <1>1, <1>5, <1>8 DEF rt_sem_take
  <2>2. Moves("block", {sem})
    BY <2>1, MovesIntro DEF Goto
  <2>3. fin'.op = "wait"
    BY <1>2, <1>8
  <2>4. ShellCalls'
    BY <1>1, <2>2, <2>3 DEF ConsoleInv, ShellCalls, Moves, Inside
  <2>5. ConsoleInv'
    BY <1>1, <1>2, <1>4, <1>5, <2>4 DEF ConsoleInv, RxOK
  <2>6. Granted' = 0
    BY <1>1, <1>6, <2>3 DEF Granted
  <2>7. Announced => Announced'
    BY <1>1, <1>3, <1>4, <1>5, <1>6, <2>1, <2>6 DEF Announced
  <2> QED
    BY <1>3, <2>5, <2>7 DEF ConsoleGood
<1> QED
  BY <1>7, <1>8

(* The end of rt_sem_take after a wait. *)
LEMMA WokenGood ==
  ASSUME IpcInv, SemInv, ConsoleInv, ShellWoken
  PROVE  ConsoleGood
<1>1. /\ At("woken") /\ me = shell /\ shell \in Thread /\ Return /\ value' = value
      /\ fin' = [fin EXCEPT !.op = IF k.error[shell] = "EOK" THEN "read" ELSE "take"]
      /\ rx' = rx /\ owed' = owed /\ RxOK /\ FinOK /\ pc[shell].op = "woken"
      /\ handed' = handed \ {shell}
  BY DEF ShellWoken, TakeReturn, ConsoleInv, At
<1>2. fin.op = "wait" /\ Inside(shell, sem)
  BY <1>1 DEF ConsoleInv, ShellCalls
<1>3. /\ fin'.op = (IF k.error[shell] = "EOK" THEN "read" ELSE "take") /\ fin'.ch = fin.ch
      /\ fin.ch = NoChar /\ FinOK'
  BY <1>1, <1>2 DEF FinOK
<1>4. LineStep /\ Count' = Count
  BY <1>1, <1>3, LineSame
<1>5. BurstInHandler' /\ Coming = 0 /\ Coming' = 0
  BY <1>1, ThreadStep
<1>6. value \in Nat /\ Count \in Nat /\ owed \in Nat /\ Granted \in {0, 1}
  BY NumbersKnown
<1>7. Moves("run", {})
  BY <1>1, MovesIntro DEF Return
<1>8. ShellCalls'
  BY <1>1, <1>3, <1>7 DEF ConsoleInv, ShellCalls, Moves
<1>9. ConsoleInv'
  BY <1>1, <1>3, <1>5, <1>6, <1>8 DEF ConsoleInv, RxOK
<1>10. Granted' = Granted
  <2>1. k.stat[shell] = "READY"
    BY <1>1, SelfReady
  <2>2. ~In(shell, k.wait[sem])
    BY <1>1, <2>1, SemList DEF IpcInv, Sound
  <2>3. shell \in handed <=> k.error[shell] = "EOK"
    BY <1>1, <1>2, <2>2 DEF SemInv, PermitDelivered
  <2> QED
    BY <1>1, <1>2, <1>3, <2>3 DEF Granted
<1>11. Announced => Announced'
  BY <1>1, <1>4, <1>5, <1>6, <1>10 DEF Announced
<1> QED
  BY <1>4, <1>9, <1>11 DEF ConsoleGood

(* rt_serial_read of one character. *)
LEMMA ReadGood ==
  ASSUME IpcInv, SemInv, ConsoleInv, ShellRead
  PROVE  ConsoleGood
<1>1. PICK op \in {"got", "last"} : rt_serial_read(op) /\ fin.op \in {"read", "next"}
  BY DEF ShellRead, Runs
<1>2. /\ At("run") /\ pc' = pc /\ value' = value /\ handed' = handed
      /\ RxOK /\ FinOK
  BY DEF ShellRead, Runs, Calls, ConsoleInv, own
<1>3. value \in Nat /\ Count \in Nat /\ owed \in Nat /\ Granted \in {0, 1}
  BY NumbersKnown
<1>4. fin.ch = NoChar /\ shell \notin handed
  BY <1>1, <1>2, NotHanded DEF FinOK
<1>5. CASE rx.read # rx.save
  <2>1. /\ fin' = [op |-> op, ch |-> rx.buffer[rx.read]]
        /\ rx' = [rx EXCEPT !.read = Following(@)]
        /\ owed' = IF Len(Unread) = 1 THEN 0 ELSE owed
    BY <1>1, <1>5 DEF rt_serial_read
  <2>2. /\ RxOK' /\ rx'.burst = rx.burst /\ Count' = Count - 1 /\ Count \in Nat \ {0}
        /\ Unread # <<>> /\ Head(Unread) = rx.buffer[rx.read] /\ Unread' = Tail(Unread)
    BY <1>2, <1>5, <2>1, ReadTakes
  <2>3. Len(Unread) = Count
    BY <1>2, CountKnown
  <2>4. FinOK'
    BY <1>2, <2>1, RxFields DEF FinOK
  <2>5. BurstInHandler' /\ Coming = 0 /\ Coming' = 0
    BY <1>2, <2>2, ThreadStep
  <2>6. ShellCalls'
    BY <1>1, <1>2, <2>1, ShellStays
  <2>7. ConsoleInv'
    BY <1>3, <2>1, <2>2, <2>4, <2>5, <2>6 DEF ConsoleInv
  <2>8. LineStep
    <3>1. fin'.ch = Head(Unread)
      BY <2>1, <2>2
    <3> QED
      BY <1>4, <2>2, <3>1 DEF LineStep, Line!Take
  <2>9. Granted' = 0
    BY <1>2, <1>4, <2>1 DEF Granted
  <2>10. ASSUME Announced PROVE Announced'
    <3> SUFFICES ASSUME owed' = 0
                 PROVE  Count' <= value' + Coming' + Granted'
      BY DEF Announced
    <3>1. CASE Count = 1
      BY <1>2, <1>3, <2>2, <2>5, <2>9, <3>1
    <3>2. CASE Count # 1
      <4>1. Count <= value + Granted
        BY <1>3, <2>1, <2>3, <2>5, <2>10, <3>2 DEF Announced
      <4> QED
        BY <1>2, <1>3, <2>2, <2>5, <2>9, <4>1
    <3> QED
      BY <3>1, <3>2
  <2> QED
    BY <2>7, <2>8, <2>10 DEF ConsoleGood
<1>6. CASE rx.read = rx.save
  <2>1. fin' = [op |-> "take", ch |-> NoChar] /\ rx' = rx /\ owed' = owed
    BY <1>1, <1>6 DEF rt_serial_read
  <2>2. fin'.op = "take" /\ fin'.ch = NoChar /\ FinOK'
    BY <2>1 DEF FinOK, Cell
  <2>3. LineStep /\ Count' = Count
    BY <1>4, <2>1, <2>2, LineSame
  <2>4. Count = 0
    BY <1>2, <1>6, CountKnown
  <2>5. BurstInHandler' /\ Coming = 0 /\ Coming' = 0
    BY <1>2, <2>1, ThreadStep
  <2>6. ShellCalls'
    BY <1>1, <1>2, <2>2, ShellStays
  <2>7. ConsoleInv'
    BY <1>2, <1>3, <2>1, <2>2, <2>5, <2>6 DEF ConsoleInv, RxOK
  <2>8. Announced'
    <3>1. Granted' = 0
      BY <1>2, <1>4, <2>2 DEF Granted
    <3> QED
      BY <1>2, <1>3, <2>3, <2>4, <2>5, <3>1 DEF Announced
  <2> QED
    BY <2>3, <2>7, <2>8 DEF ConsoleGood
<1> QED
  BY <1>5, <1>6

(* finsh handles a character. *)
LEMMA CharGood ==
  ASSUME IpcInv, SemInv, ConsoleInv, ShellChar
  PROVE  ConsoleGood
<1>1. /\ At("run") /\ fin.op \in {"got", "last"} /\ rx' = rx /\ owed' = owed /\ pc' = pc
      /\ value' = value /\ handed' = handed /\ RxOK /\ FinOK
  BY DEF ShellChar, Runs, Calls, ConsoleInv, own
<1>2. PICK op \in {"read", "next", "take"} : fin' = [op |-> op, ch |-> NoChar]
  BY DEF ShellChar
<1>3. fin'.op = op /\ fin'.ch = NoChar /\ FinOK'
  BY <1>2 DEF FinOK, Cell
<1>4. Unread' = Unread /\ Count' = Count
  BY <1>1 DEF Unread, Count
<1>5. LineStep
  <2>1. CASE fin.ch = NoChar
    BY <1>1, <1>3, <2>1, LineSame
  <2>2. CASE fin.ch # NoChar
    BY <1>3, <1>4, <2>2 DEF LineStep, Line!Deliver
  <2> QED
    BY <2>1, <2>2
<1>6. BurstInHandler' /\ Coming = 0 /\ Coming' = 0
  BY <1>1, ThreadStep
<1>7. ShellCalls'
  BY <1>1, <1>3, ShellStays
<1>8. value \in Nat /\ Count \in Nat /\ owed \in Nat
  BY NumbersKnown
<1>9. ConsoleInv'
  BY <1>1, <1>3, <1>6, <1>7, <1>8 DEF ConsoleInv, RxOK
<1>10. Granted = 0 /\ Granted' \in {0, 1}
  BY <1>1, NotHanded DEF Granted
<1>11. ASSUME Announced PROVE Announced'
  <2> SUFFICES ASSUME owed = 0
               PROVE  Count <= value + 0 + Granted'
    BY <1>1, <1>4, <1>6 DEF Announced
  <2>1. Count <= value + 0 + 0
    BY <1>6, <1>10, <1>11 DEF Announced
  <2>2. Granted' = 0 \/ Granted' = 1
    BY <1>10
  <2> QED
    BY <1>8, <2>1, <2>2
<1> QED
  BY <1>5, <1>9, <1>11 DEF ConsoleGood

(* The end of a blocking call, and the tick interrupt. *)
LEMMA KernelGood ==
  ASSUME IpcInv, SemInv, ConsoleInv, KernelStep
  PROVE  ConsoleGood
<1>1. /\ rx' = rx /\ fin' = fin /\ owed' = owed /\ value' = value /\ handed' = handed
      /\ RxOK /\ FinOK /\ owed \in Nat
  BY DEF KernelStep, console, own, CallEnd, ConsoleInv
<1>2. LineStep /\ Count' = Count
  BY <1>1, LineSame
<1>3. Announced => Announced'
  BY <1>1, <1>2 DEF Announced, Coming, Granted
<1>4. ASSUME ShellCalls', BurstInHandler' PROVE ConsoleGood
  BY <1>1, <1>2, <1>3, <1>4 DEF ConsoleGood, ConsoleInv, RxOK, FinOK
<1>5. CASE BlockSchedule
  <2>1. Moves("woken", pc[me].on) /\ pc[me].op = "block" /\ me \in Thread /\ At("block")
    BY <1>5, BlockScheduleStep DEF BlockSchedule
  <2>2. me = shell /\ fin.op = "wait" /\ Inside(shell, sem)
    BY <2>1 DEF ConsoleInv, ShellCalls
  <2>3. ShellCalls'
    BY <1>1, <2>1, <2>2 DEF ConsoleInv, ShellCalls, Moves, Inside
  <2>4. BurstInHandler'
    BY <1>1, <2>1, ThreadStep
  <2> QED
    BY <1>4, <2>3, <2>4
<1>6. ~Schedule /\ ~SleepReturn
  BY DEF Schedule, SleepReturn, At, ConsoleInv, ShellCalls, Inside
<1>7. CASE Tick \/ (rx.burst = 0 /\ TickEnd)
  <2>1. pc' = pc
    BY <1>7, TickStep, TickEndStep
  <2>2. ShellCalls'
    BY <1>1, <2>1 DEF ConsoleInv, ShellCalls, Inside
  <2>3. ~(rx.burst > 0)
    BY <1>7 DEF Tick, ConsoleInv, BurstInHandler
  <2>4. BurstInHandler'
    BY <1>1, <2>3 DEF BurstInHandler
  <2> QED
    BY <1>4, <2>2, <2>4
<1> QED
  BY <1>5, <1>6, <1>7 DEF KernelStep, CallEnd

(* Every step of the console. *)
LEMMA ConsoleStepGood ==
  IpcInv /\ SemInv /\ ConsoleInv /\ [ConsoleNext]_consoleVars => ConsoleGood
<1> SUFFICES ASSUME IpcInv, SemInv, ConsoleInv, [ConsoleNext]_consoleVars
             PROVE  ConsoleGood
  OBVIOUS
<1>1. CASE UNCHANGED consoleVars
  <2>1. /\ rx' = rx /\ fin' = fin /\ owed' = owed /\ value' = value /\ handed' = handed
        /\ k' = k /\ pc' = pc
    BY <1>1 DEF consoleVars, console, own
  <2>2. LineStep /\ Count' = Count
    BY <2>1, LineSame
  <2>3. ConsoleInv'
    BY <2>1 DEF ConsoleInv, RxOK, FinOK, ShellCalls, Inside, BurstInHandler
  <2>4. Announced => Announced'
    BY <2>1, <2>2 DEF Announced, Coming, Granted
  <2> QED
    BY <2>2, <2>3, <2>4 DEF ConsoleGood
<1> QED
  BY <1>1, ReceiveGood, IndicateGood, TakeGood, WokenGood, ReadGood, CharGood, KernelGood
     DEF ConsoleNext

(* Every step of the console is a step of the semaphore, or leaves it alone. *)
LEMMA ConsoleIsSemaphore == [ConsoleNext]_consoleVars => [Next]_vars
<1> SUFFICES ASSUME [ConsoleNext]_consoleVars PROVE [Next]_vars
  OBVIOUS
<1>1. CASE UNCHANGED <<k, pc, own>>
  BY <1>1 DEF own, vars
<1>2. CASE ShellTake
  <2>1. "forever" \in Time /\ rt_sem_take("forever")
    BY <1>2 DEF Time, ShellTake
  <2> QED
    BY <2>1 DEF Next
<1>3. CASE ShellWoken
  BY <1>3 DEF ShellWoken, Next
<1>4. CASE Indicate
  BY <1>4 DEF Indicate, Next, Interrupt
<1>5. CASE KernelStep
  BY <1>5 DEF KernelStep, Next, Interrupt
<1> QED
  BY <1>1, <1>2, <1>3, <1>4, <1>5
     DEF ConsoleNext, ReceiveChar, ShellRead, ShellChar, consoleVars

(* The ring starts empty, and finsh about to take rx_sem. *)
LEMMA ConsoleStart ==
  ConsoleInit => /\ ConsoleInv /\ Announced /\ Unread = <<>>
                 /\ [t \in {shell} |-> fin.ch] = [t \in {shell} |-> NoChar]
<1> SUFFICES ASSUME ConsoleInit
             PROVE  /\ ConsoleInv /\ Announced /\ Unread = <<>>
                    /\ [t \in {shell} |-> fin.ch] = [t \in {shell} |-> NoChar]
  OBVIOUS
<1>1. pc = [t \in Thread |-> [op |-> "run", on |-> {}]] /\ shell \in Thread
  BY StartSound, ConsoleAssumption DEF ConsoleInit, Init
<1>2. /\ rx = [buffer |-> [i \in Index |-> NoChar], read |-> 0, save |-> 0, burst |-> 0]
      /\ fin = [op |-> "take", ch |-> NoChar] /\ owed = 0 /\ value = 0
  BY DEF ConsoleInit
<1>3. RxOK
  <2>1. 0 \in Index /\ [i \in Index |-> NoChar] \in [Index -> Cell] /\ 0 \in Nat
    BY SizeKnown DEF Cell
  <2> QED
    BY <1>2, <2>1 DEF RxOK
<1>4. FinOK /\ owed \in Nat /\ BurstInHandler /\ ShellCalls
  BY <1>1, <1>2 DEF FinOK, Cell, BurstInHandler, ShellCalls
<1>5. ConsoleInv
  BY <1>3, <1>4 DEF ConsoleInv
<1>6. Count = 0 /\ Unread = <<>>
  <2>1. rx.read = rx.save
    BY <1>2
  <2> QED
    BY <1>3, <2>1, CountKnown
<1>7. Announced
  BY <1>2, <1>6 DEF Announced, Coming, Granted
<1> QED
  BY <1>2, <1>5, <1>6, <1>7

(* finsh asleep while characters are unread is what Announced excludes. *)
LEMMA AnnouncedReads ==
  IpcInv /\ SemInv /\ ConsoleInv /\ Announced => NothingLeftUnread
<1> SUFFICES ASSUME IpcInv, SemInv, ConsoleInv, Announced, ~k.isr, k.stat[shell] = "SUSPEND",
                    owed = 0
             PROVE  Unread = <<>>
  BY DEF NothingLeftUnread
<1>1. shell \in Thread
  BY ConsoleAssumption
<1>2. /\ pc[shell].op \in {"block", "woken"}
      /\ pc[shell].on = {w \in WaitList : In(shell, k.wait[w])}
  BY <1>1 DEF IpcInv, Located
<1>3. fin.op = "wait" /\ Inside(shell, sem)
  BY <1>2 DEF ConsoleInv, ShellCalls
<1>4. In(shell, k.wait[sem])
  BY <1>2, <1>3 DEF Inside
<1>5. shell \notin handed
  BY <1>1, <1>3, <1>4 DEF SemInv, PermitDelivered
<1>6. ~Detaching
  <2>1. ASSUME NEW t \in Thread PROVE pc[t].op \notin {"detach", "rouse"}
    BY <1>2 DEF ConsoleInv, ShellCalls
  <2> QED
    BY <2>1 DEF Detaching
<1>7. k.wait[sem] # <<>>
  BY <1>4 DEF In
<1>8. value \in Nat /\ Count \in Nat
  BY NumbersKnown
<1>9. value = 0
  BY <1>6, <1>7, <1>8 DEF SemInv, NoLostWakeup
<1>10. Coming = 0 /\ Granted = 0
  BY <1>3, <1>5 DEF Coming, Granted, ConsoleInv, BurstInHandler
<1>11. Count = 0
  BY <1>8, <1>9, <1>10 DEF Announced
<1> QED
  BY <1>11, CountKnown DEF ConsoleInv

-----------------------------------------------------------------------------
(* The theorems *)

(* The invariants of the console and of its semaphore. *)
LEMMA ConsoleSafe == ConsoleSpec => [](IpcInv /\ SemInv /\ ConsoleInv)
<1>1. ConsoleInit => IpcInv /\ SemInv /\ ConsoleInv
  BY SemStart, ConsoleStart DEF ConsoleInit
<1>2. IpcInv /\ SemInv /\ ConsoleInv /\ [ConsoleNext]_consoleVars
        => (IpcInv /\ SemInv /\ ConsoleInv)'
  BY SemKept, ConsoleIsSemaphore, ConsoleStepGood DEF ConsoleGood
<1> QED
  BY <1>1, <1>2, PTL DEF ConsoleSpec

(* The receive ring implements the lossy queue: finsh gets the characters  *)
(* as they came, and only the oldest are forgotten when the ring is full,  *)
(* although the interrupt moves read_index under the reader.               *)
THEOREM RingRefines == ConsoleSpec => RingIsChannel
<1>1. ConsoleInit => Line!Init
  BY ConsoleStart DEF Line!Init
<1>2. IpcInv /\ SemInv /\ ConsoleInv /\ [ConsoleNext]_consoleVars => LineStep
  BY ConsoleStepGood DEF ConsoleGood
<1>3. IpcInv /\ SemInv /\ ConsoleInv /\ [ConsoleNext]_consoleVars
        => [ \/ \E m \in Char : Line!PutOver(m)
             \/ \E t \in {shell} : Line!Take(t) \/ Line!Deliver(t)
           ]_<<Unread, [t \in {shell} |-> fin.ch]>>
  BY <1>2 DEF LineStep
<1> QED
  BY <1>1, <1>3, ConsoleSafe, PTL DEF ConsoleSpec, RingIsChannel, Line!LossySpec

(* finsh never sleeps on a character that was announced by an interrupt of *)
(* its own, as long as the value of rx_sem does not overflow.              *)
THEOREM ConsoleAwake ==
  ASSUME Fits
  PROVE  ConsoleSpec => []NothingLeftUnread
<1>1. ConsoleInit => Announced
  BY ConsoleStart
<1>2. IpcInv /\ SemInv /\ ConsoleInv /\ Announced /\ [ConsoleNext]_consoleVars => Announced'
  BY ConsoleStepGood DEF ConsoleGood
<1> QED
  BY <1>1, <1>2, ConsoleSafe, AnnouncedReads, PTL DEF ConsoleSpec

=============================================================================
