---------------------------- MODULE ObjectProofs ----------------------------
(***************************************************************************)
(* Proofs about the objects that carry data.  The first part is about what *)
(* they share (IpcObject): which threads a step wakes, and who detaches.   *)
(* The second is about the mailbox, the third about the memory pool, the   *)
(* fourth about the event.  The fifth is about the message queue: the      *)
(* chain of queued buffers and the free list, what each section of a send, *)
(* a receive and a reset makes of them, and then its steps: no send is     *)
(* lost on a sleeping receiver, the queue implements the channel, and      *)
(* every buffer is in one place.  The last is about one object of any kind *)
(* (Objects).                                                              *)
(***************************************************************************)
EXTENDS Objects, IpcProofs, FiniteSetTheorems

(* Waiters have no error: the call cleared it when it blocked. *)
WaitersClear ==
  \A t \in Thread, w \in WaitList : In(t, k.wait[w]) => k.error[t] = "EOK"

(* The step takes the threads of R and X off the lists, those of X with an *)
(* error and those of R without, and the errors of the others stay but for *)
(* the threads of L.                                                       *)
Frees(R, X, L) ==
  /\ \A t \in Thread, w \in WaitList : In(t, k'.wait[w]) <=> In(t, k.wait[w]) /\ t \notin R \cup X
  /\ \A t \in Thread : t \notin R \cup X \cup L => k'.error[t] = k.error[t]
  /\ \A t \in X : k'.error[t] # "EOK" /\ \A w \in WaitList : t \notin Woken(w)
  /\ \A t \in R : k'.error[t] = "EOK" /\ \E w \in WaitList : In(t, k.wait[w])
  /\ R \cap X = {}

(* The threads of L leave the call they are in, and nobody else does. *)
Leaves(L) ==
  \A t \in Thread, w \in WaitList :
    IF t \in L THEN ~Inside(t, w)' ELSE Inside(t, w)' <=> Inside(t, w)

(* Whom the step adds to the woken threads, and whom it takes away. *)
Shifts(L, R) ==
  \A w \in WaitList : Woken(w)' = (Woken(w) \ L) \cup {t \in R : In(t, k.wait[w])}

(* No list gets a thread. *)
Shrinks ==
  \A t \in Thread, w \in WaitList : In(t, k'.wait[w]) => In(t, k.wait[w])

(* A thread that waits on w is inside a call on w and on no other list. *)
LEMMA WaiterInside ==
  ASSUME IpcInv, NEW t \in Thread, NEW w \in WaitList, In(t, k.wait[w])
  PROVE  /\ Inside(t, w) /\ k.stat[t] = "SUSPEND" /\ t # Idle
         /\ \A v \in WaitList : Inside(t, v) \/ In(t, k.wait[v]) => v = w
<1>1. k.stat[t] = "SUSPEND" /\ t # Idle
  BY DEF IpcInv, Sound
<1>2. pc[t].op \in {"block", "woken"} /\ pc[t].on = {v \in WaitList : In(t, k.wait[v])}
  BY <1>1 DEF IpcInv, Located
<1>3. \A v \in WaitList : In(t, k.wait[v]) => v = w
  BY DEF IpcInv, Sound
<1> QED
  BY <1>1, <1>2, <1>3 DEF Inside

(* The woken threads after a step that wakes some and lets some leave. *)
LEMMA WokenAfter ==
  ASSUME IpcInv, NEW L, NEW R \in SUBSET Thread, NEW X \in SUBSET Thread,
         Frees(R, X, L), Leaves(L), R \cap L = {},
         \A t \in L, w \in WaitList : ~In(t, k.wait[w])
  PROVE  Shifts(L, R) /\ Shrinks /\ (WaitersClear => WaitersClear')
<1>1. Shrinks
  BY DEF Shrinks, Frees
<1>2. WaitersClear => WaitersClear'
  <2> SUFFICES ASSUME WaitersClear, NEW t \in Thread, NEW w \in WaitList, In(t, k'.wait[w])
               PROVE  k'.error[t] = "EOK"
    BY DEF WaitersClear
  <2>1. In(t, k.wait[w]) /\ t \notin X /\ t \notin R
    BY DEF Frees
  <2>2. t \notin L
    BY <2>1
  <2> QED
    BY <2>1, <2>2 DEF Frees, WaitersClear
<1>3. ASSUME NEW w \in WaitList, NEW t \in Thread
      PROVE  t \in Woken(w)' <=> t \in (Woken(w) \ L) \cup {u \in R : In(u, k.wait[w])}
  <2>1. t \in Woken(w)' <=> Inside(t, w)' /\ ~In(t, k'.wait[w]) /\ k'.error[t] = "EOK"
    BY DEF Woken
  <2>2. t \in Woken(w) <=> Inside(t, w) /\ ~In(t, k.wait[w]) /\ k.error[t] = "EOK"
    BY DEF Woken
  <2>3. CASE t \in L
    BY <2>1, <2>3 DEF Leaves
  <2>4. CASE t \notin L /\ t \in X
    BY <2>1, <2>4 DEF Frees
  <2>5. CASE t \notin L /\ t \in R
    <3>1. PICK v \in WaitList : In(t, k.wait[v])
      BY <2>5 DEF Frees
    <3>2. Inside(t, v) /\ \A z \in WaitList : Inside(t, z) \/ In(t, k.wait[z]) => z = v
      BY <3>1, WaiterInside
    <3>3. k'.error[t] = "EOK"
      BY <2>5 DEF Frees
    <3>4. ~In(t, k'.wait[w]) /\ (Inside(t, w)' <=> Inside(t, w))
      BY <2>5 DEF Frees, Leaves
    <3> QED
      BY <2>1, <2>2, <2>5, <3>1, <3>2, <3>3, <3>4
  <2>6. CASE t \notin L /\ t \notin X /\ t \notin R
    <3>1. In(t, k'.wait[w]) <=> In(t, k.wait[w])
      BY <2>6 DEF Frees
    <3>2. k'.error[t] = k.error[t] /\ (Inside(t, w)' <=> Inside(t, w))
      BY <2>6 DEF Frees, Leaves
    <3> QED
      BY <2>1, <2>2, <2>6, <3>1, <3>2
  <2> QED
    BY <2>3, <2>4, <2>5, <2>6
<1>4. \A w \in WaitList : Woken(w) \subseteq Thread /\ Woken(w)' \subseteq Thread
  BY DEF Woken
<1>5. Shifts(L, R)
  BY <1>3, <1>4 DEF Shifts
<1> QED
  BY <1>1, <1>2, <1>5

(* A step that keeps the shared invariants, and what it does to the woken  *)
(* threads.                                                                *)
Steps(L, R) == IpcInv' /\ (WaitersClear => WaitersClear') /\ Shifts(L, R) /\ Shrinks

(* A thread that is READY waits on no list. *)
LEMMA ReadyOff ==
  ASSUME IpcInv, NEW t \in Thread, k.stat[t] = "READY"
  PROVE  \A w \in WaitList : ~In(t, k.wait[w])
BY DEF IpcInv, Sound

(* The running thread leaves its call: nobody else moves. *)
LEMMA MeLeaves ==
  ASSUME NEW o, NEW S, Moves(o, S), o \notin {"block", "woken"} \/ S = {}, me \in Thread
  PROVE  Leaves({me})
<1> SUFFICES ASSUME NEW t \in Thread, NEW w \in WaitList
             PROVE  IF t \in {me} THEN ~Inside(t, w)' ELSE Inside(t, w)' <=> Inside(t, w)
  BY DEF Leaves
<1>1. CASE t = me
  BY <1>1 DEF Moves, Inside
<1>2. CASE t # me
  <2>1. pc'[t] = pc[t]
    BY <1>2 DEF Moves
  <2> QED
    BY <1>2, <2>1 DEF Inside
<1> QED
  BY <1>1, <1>2

(* An interrupt moves nobody. *)
LEMMA NobodyLeaves ==
  ASSUME pc' = pc
  PROVE  Leaves({})
BY DEF Leaves, Inside

(* The kernel looks the same. *)
LEMMA QuietFrees ==
  ASSUME NEW L, k'.wait = k.wait, \A t \in Thread : t \notin L => k'.error[t] = k.error[t]
  PROVE  Frees({}, {}, L)
BY DEF Frees

(* One thread is woken, without an error, *)
LEMMA OneFrees ==
  ASSUME IpcInv, NEW t \in Thread, NEW w \in WaitList, In(t, k.wait[w]), k'.error[t] = "EOK",
         k'.wait = Unwait(k, t), \A u \in Thread : u # t => k'.error[u] = k.error[u], NEW L
  PROVE  Frees({t}, {}, L)
<1>1. \A u \in Thread, v \in WaitList : In(u, k'.wait[v]) <=> In(u, k.wait[v]) /\ u # t
  BY UnwaitIn DEF IpcInv
<1> QED
  BY <1>1 DEF Frees

(* or with one. *)
LEMMA OneFails ==
  ASSUME IpcInv, NEW t \in Thread, k.stat[t] = "SUSPEND", NEW e \in Error, e # "EOK",
         k'.wait = Unwait(k, t), k'.error = [k.error EXCEPT ![t] = e], NEW L
  PROVE  Frees({}, {t}, L)
<1>1. \A u \in Thread, v \in WaitList : In(u, k'.wait[v]) <=> In(u, k.wait[v]) /\ u # t
  BY UnwaitIn DEF IpcInv
<1>2. k.error \in [Thread -> Error]
  BY DEF IpcInv, Sound, KernelState
<1>3. \A w \in WaitList : t \notin Woken(w)
  BY DEF IpcInv, Located, Woken, Inside
<1> QED
  BY <1>1, <1>2, <1>3 DEF Frees

(* The tick interrupt. *)
LEMMA TickWakes ==
  ASSUME IpcInv, Tick \/ TickEnd
  PROVE  Steps({}, {}) /\ pc' = pc
<1>1. IpcInv' /\ Quiet /\ pc' = pc
  BY TickStep, TickEndStep
<1>2. Frees({}, {}, {}) /\ Leaves({})
  BY <1>1, QuietFrees, NobodyLeaves DEF Quiet
<1> QED
  BY <1>1, <1>2, WokenAfter DEF Steps

(* A timeout. *)
LEMMA TimeoutWakes ==
  ASSUME IpcInv, NEW t \in Thread, Timeout(t)
  PROVE  Steps({}, {}) /\ pc' = pc
<1>1. /\ IpcInv' /\ pc' = pc /\ k.stat[t] = "SUSPEND"
      /\ k'.wait = Unwait(k, t) /\ k'.error = [k.error EXCEPT ![t] = "ETIMEOUT"]
  BY TimeoutStep
<1>2. "ETIMEOUT" \in Error /\ "ETIMEOUT" # "EOK"
  BY DEF Error
<1>3. Frees({}, {t}, {})
  BY <1>1, <1>2, OneFails
<1>4. Leaves({})
  BY <1>1, NobodyLeaves
<1> QED
  BY <1>1, <1>3, <1>4, WokenAfter DEF Steps

(* The rt_schedule of a call that blocked. *)
LEMMA BlockScheduleWakes ==
  ASSUME IpcInv, BlockSchedule
  PROVE  Steps({}, {}) /\ Moves("woken", pc[me].on) /\ me \in Thread /\ pc[me].op = "block"
<1>1. IpcInv' /\ Quiet /\ Moves("woken", pc[me].on) /\ pc[me].op = "block" /\ me \in Thread
  BY BlockScheduleStep
<1>2. Frees({}, {}, {})
  BY <1>1, QuietFrees DEF Quiet
<1>3. Leaves({})
  <2> SUFFICES ASSUME NEW t \in Thread, NEW w \in WaitList
               PROVE  Inside(t, w)' <=> Inside(t, w)
    BY DEF Leaves
  <2>1. CASE t = me
    BY <1>1, <2>1 DEF Moves, Inside
  <2>2. CASE t # me
    BY <1>1, <2>2 DEF Moves, Inside
  <2> QED
    BY <2>1, <2>2
<1> QED
  BY <1>1, <1>2, <1>3, WokenAfter DEF Steps

(* A step of the running thread that ends in Goto or Return, and changes   *)
(* at most its own error.                                                  *)
LEMMA MoveWakes ==
  ASSUME IpcInv, IpcInv', NEW o, NEW S, Moves(o, S), me \in Thread,
         o \notin {"block", "woken"} \/ S = {}, k.stat[me] = "READY", k'.wait = k.wait,
         \A t \in Thread : t # me => k'.error[t] = k.error[t]
  PROVE  Steps({me}, {})
<1>1. Leaves({me})
  BY MeLeaves
<1>2. Frees({}, {}, {me})
  BY QuietFrees
<1>3. {} \in SUBSET Thread /\ {} \cap {me} = {} /\ \A t \in {me}, w \in WaitList : ~In(t, k.wait[w])
  BY ReadyOff
<1>4. Shifts({me}, {}) /\ Shrinks /\ (WaitersClear => WaitersClear')
  BY <1>1, <1>2, <1>3, WokenAfter
<1> QED
  BY <1>4 DEF Steps

(* The end of a call, and of rt_thread_delay; its beginning. *)
LEMMA CallWakes ==
  ASSUME IpcInv, Schedule \/ SleepReturn \/ rt_thread_sleep
  PROVE  /\ Steps({me}, {}) /\ me \in Thread
         /\ \/ Schedule /\ Moves("run", {}) /\ pc[me].op = "sched"
            \/ SleepReturn /\ Moves("run", {}) /\ pc[me].op = "woken"
            \/ rt_thread_sleep /\ Moves("block", {}) /\ pc[me].op = "run"
<1>1. CASE Schedule
  <2>1. IpcInv' /\ Quiet /\ Moves("run", {}) /\ pc[me].op = "sched" /\ me \in Thread
    BY <1>1, ScheduleStep
  <2>2. k.stat[me] = "READY"
    BY <1>1, SelfReady DEF Schedule
  <2>3. Steps({me}, {})
    BY <2>1, <2>2, MoveWakes DEF Quiet
  <2> QED
    BY <1>1, <2>1, <2>3
<1>2. CASE SleepReturn
  <2>1. /\ IpcInv' /\ Moves("run", {}) /\ pc[me].op = "woken" /\ k'.wait = k.wait
        /\ me \in Thread /\ k.stat[me] = "READY"
        /\ \A t \in Thread : t # me => k'.error[t] = k.error[t]
    BY <1>2, SleepReturnStep
  <2>2. Steps({me}, {})
    BY <2>1, MoveWakes
  <2> QED
    BY <1>2, <2>1, <2>2
<1>3. CASE rt_thread_sleep
  <2>1. /\ IpcInv' /\ Moves("block", {}) /\ pc[me].op = "run" /\ me \in Thread
        /\ k'.wait = k.wait /\ k'.error = k.error /\ k.stat[me] = "READY"
    BY <1>3, SleepStep
  <2>2. Steps({me}, {})
    BY <2>1, MoveWakes
  <2> QED
    BY <1>3, <2>1, <2>2
<1> QED
  BY <1>1, <1>2, <1>3

(* A call goes on or returns, and changes no kernel state. *)
LEMMA GotoWakes ==
  ASSUME IpcInv, NEW p, At(p), p # "block", me # Idle, k' = k,
         NEW o \in Op \ {"block", "woken"}, NEW S \in SUBSET WaitList, o = "run" => S = {},
         pc' = [pc EXCEPT ![me] = [op |-> o, on |-> S]]
  PROVE  Steps({me}, {}) /\ Moves(o, S) /\ me \in Thread
<1>1. IpcInv' /\ Quiet /\ Moves(o, S) /\ me \in Thread /\ k.stat[me] = "READY"
  BY GotoStep
<1>2. Steps({me}, {})
  BY <1>1, MoveWakes DEF Quiet
<1> QED
  BY <1>1, <1>2

(* A call returns. *)
LEMMA ReturnWakes ==
  ASSUME IpcInv, NEW p, At(p), p # "block", me # Idle, k' = k, Return
  PROVE  Steps({me}, {}) /\ Moves("run", {}) /\ me \in Thread
<1>1. "run" \in Op \ {"block", "woken"} /\ {} \in SUBSET WaitList
  BY DEF Op
<1>2. pc' = [pc EXCEPT ![me] = [op |-> "run", on |-> {}]]
  BY DEF Return
<1> QED
  BY <1>1, <1>2, GotoWakes

(* A call returns with the error -RT_ETIMEOUT. *)
LEMMA ErrorWakes ==
  ASSUME IpcInv, NEW p, At(p), p # "block", me # Idle,
         k' = [k EXCEPT !.error[me] = "ETIMEOUT"], Return
  PROVE  Steps({me}, {}) /\ Moves("run", {}) /\ me \in Thread
<1>1. Sound(k) /\ me \in Thread /\ k.stat[me] = "READY"
  BY SelfReady DEF IpcInv
<1>2. "ETIMEOUT" \in Error
  BY DEF Error
<1>3. /\ Sound(k') /\ k'.error = [k.error EXCEPT ![me] = "ETIMEOUT"]
      /\ k'.stat = k.stat /\ k'.wait = k.wait /\ k'.current = k.current
  BY <1>1, <1>2, ErrorSound
<1>4. Wakes(k', k)
  BY <1>3, SameWakes
<1>5. "run" \in Op /\ {} \in SUBSET WaitList
  BY DEF Op
<1>6. pc' = [pc EXCEPT ![me] = [op |-> "run", on |-> {}]]
  BY DEF Return
<1>7. IpcInv'
  BY <1>1, <1>3, <1>4, <1>5, <1>6, CallPlaces
<1>8. Moves("run", {})
  BY <1>6, MovesIntro
<1>9. \A t \in Thread : t # me => k'.error[t] = k.error[t]
  <2>1. k.error \in [Thread -> Error]
    BY <1>1 DEF Sound, KernelState
  <2> QED
    BY <1>3, <2>1
<1>10. Steps({me}, {})
  BY <1>1, <1>3, <1>7, <1>8, <1>9, MoveWakes
<1> QED
  BY <1>1, <1>8, <1>10

(* A call wakes the first waiter of w. *)
LEMMA ResumeWakesOne ==
  ASSUME IpcInv, WaitersClear, NEW p, At(p), p # "block", me # Idle, NEW w \in WaitList,
         k.wait[w] # <<>>, k' = rt_ipc_list_resume(k, w), Goto("sched", w)
  PROVE  /\ Steps({me}, {k.wait[w][1]}) /\ Moves("sched", {w}) /\ me \in Thread
         /\ k.wait[w][1] \in Thread /\ In(k.wait[w][1], k.wait[w])
<1> DEFINE t == k.wait[w][1]
<1>1. /\ IpcInv' /\ Moves("sched", {w}) /\ me \in Thread /\ k.stat[me] = "READY"
      /\ t \in Thread /\ In(t, k.wait[w]) /\ k'.wait = Unwait(k, t) /\ k'.error = k.error
  BY ResumeStep
<1> HIDE DEF t
<1>2. Frees({t}, {}, {me})
  BY <1>1, OneFrees DEF WaitersClear
<1>3. Leaves({me})
  BY <1>1, MeLeaves
<1>4. \A v \in WaitList : ~In(me, k.wait[v])
  BY <1>1, ReadyOff
<1>5. /\ {t} \in SUBSET Thread /\ {} \in SUBSET Thread /\ {t} \cap {me} = {}
      /\ \A u \in {me}, v \in WaitList : ~In(u, k.wait[v])
  BY <1>1, <1>4
<1>6. Shifts({me}, {t}) /\ Shrinks /\ (WaitersClear => WaitersClear')
  BY <1>2, <1>3, <1>5, WokenAfter
<1>7. Steps({me}, {t})
  BY <1>1, <1>6 DEF Steps
<1> QED
  BY <1>1, <1>7 DEF t

(* An interrupt handler does. *)
LEMMA HandlerWakesOne ==
  ASSUME IpcInv, WaitersClear, NEW w \in WaitList, k.wait[w] # <<>>, pc' = pc,
         k' = rt_schedule(rt_ipc_list_resume(k, w))
  PROVE  /\ Steps({}, {k.wait[w][1]}) /\ k.wait[w][1] \in Thread /\ In(k.wait[w][1], k.wait[w])
<1> DEFINE t == k.wait[w][1]
<1>1. /\ IpcInv' /\ t \in Thread /\ In(t, k.wait[w]) /\ k'.wait = Unwait(k, t)
      /\ k'.error = k.error
  BY ResumeInHandlerStep
<1> HIDE DEF t
<1>2. Frees({t}, {}, {})
  BY <1>1, OneFrees DEF WaitersClear
<1>3. Leaves({})
  BY NobodyLeaves
<1>4. /\ {t} \in SUBSET Thread /\ {} \in SUBSET Thread /\ {t} \cap {} = {}
      /\ \A u \in {}, v \in WaitList : ~In(u, k.wait[v])
  BY <1>1
<1>5. Shifts({}, {t}) /\ Shrinks /\ (WaitersClear => WaitersClear')
  BY <1>2, <1>3, <1>4, WokenAfter
<1>6. Steps({}, {t})
  BY <1>1, <1>5 DEF Steps
<1> QED
  BY <1>1, <1>6 DEF t

(* A list head, or no block, taken for what it is not. *)
LEMMA AstrayWakes ==
  ASSUME IpcInv, k' = Astray(k), pc' = pc
  PROVE  Steps({}, {}) /\ k'.wait = k.wait
<1>1. IpcInv' /\ Quiet
  BY AstrayStep
<1>2. Frees({}, {}, {}) /\ Leaves({})
  BY <1>1, QuietFrees, NobodyLeaves DEF Quiet
<1>3. Steps({}, {})
  BY <1>1, <1>2, WokenAfter DEF Steps
<1> QED
  BY <1>1, <1>3 DEF Quiet

(* One pass of the detach loop. *)
LEMMA DetachBodyWakes ==
  ASSUME IpcInv, NEW w \in WaitList, DetachBody(w)
  PROVE  /\ Steps({me}, {}) /\ pc[me].op = "rouse" /\ me \in Thread
         /\ \E o \in {"detach", "rouse"} : Moves(o, {w})
<1>1. CASE k.wait[w] = <<>>
  <2>1. IpcInv' /\ Quiet /\ k.stat[me] = "READY" /\ pc[me].op = "rouse" /\ me \in Thread
    BY <1>1, DetachHeadStep
  <2>2. PICK o \in {"detach", "rouse"} : Moves(o, {w})
    BY <1>1, DetachHeadStep
  <2>3. o \notin {"block", "woken"}
    OBVIOUS
  <2>4. Steps({me}, {})
    BY <2>1, <2>2, <2>3, MoveWakes DEF Quiet
  <2> QED
    BY <2>1, <2>2, <2>4
<1>2. CASE k.wait[w] # <<>>
  <2> DEFINE t == k.wait[w][1]
  <2>1. /\ IpcInv' /\ Moves("detach", {w}) /\ pc[me].op = "rouse" /\ me \in Thread
        /\ t \in Thread /\ In(t, k.wait[w]) /\ k.stat[me] = "READY"
        /\ k'.wait = Unwait(k, t) /\ k'.error = [k.error EXCEPT ![t] = "ERROR"]
    BY <1>2, DetachBodyStep
  <2> HIDE DEF t
  <2>2. "ERROR" \in Error /\ "ERROR" # "EOK"
    BY DEF Error
  <2>3. k.stat[t] = "SUSPEND"
    BY <2>1, WaiterInside
  <2>4. Frees({}, {t}, {me})
    BY <2>1, <2>2, <2>3, OneFails
  <2>5. Leaves({me})
    BY <2>1, MeLeaves
  <2>6. /\ {t} \in SUBSET Thread /\ {} \in SUBSET Thread /\ {} \cap {me} = {}
        /\ \A u \in {me}, v \in WaitList : ~In(u, k.wait[v])
    BY <2>1, ReadyOff
  <2>7. Shifts({me}, {}) /\ Shrinks /\ (WaitersClear => WaitersClear')
    BY <2>4, <2>5, <2>6, WokenAfter
  <2> QED
    BY <2>1, <2>7 DEF Steps
<1> QED
  BY <1>1, <1>2

(* A call blocks on w. *)
LEMMA BlockWakes ==
  ASSUME IpcInv, WaitersClear, NEW p, At(p), p # "block", me # Idle, NEW w \in WaitList,
         NEW f, NEW time, k' = Block(k, w, f, time), Goto("block", w)
  PROVE  /\ IpcInv' /\ WaitersClear' /\ Moves("block", {w}) /\ me \in Thread
         /\ \A v \in WaitList : Woken(v)' = Woken(v) \ {me}
         /\ \A v \in WaitList : v # w => k'.wait[v] = k.wait[v]
<1>1. /\ IpcInv' /\ Moves("block", {w}) /\ me \in Thread /\ k.stat[me] = "READY"
      /\ Blocked(k', k, w, me, f, time)
  BY BlockStep
<1>2. \A t \in Thread, v \in WaitList :
        In(t, k'.wait[v]) <=> In(t, k.wait[v]) \/ (t = me /\ v = w)
  BY <1>1 DEF Blocked
<1>3. k.error \in [Thread -> Error] /\ k'.error = [k.error EXCEPT ![me] = "EOK"]
  BY <1>1 DEF IpcInv, Sound, KernelState, Blocked
<1>4. WaitersClear'
  <2> SUFFICES ASSUME NEW t \in Thread, NEW v \in WaitList, In(t, k'.wait[v])
               PROVE  k'.error[t] = "EOK"
    BY DEF WaitersClear
  <2> QED
    BY <1>1, <1>2, <1>3 DEF WaitersClear
<1>5. ASSUME NEW v \in WaitList, NEW t \in Thread
      PROVE  t \in Woken(v)' <=> t \in Woken(v) \ {me}
  <2>1. t \in Woken(v)' <=> Inside(t, v)' /\ ~In(t, k'.wait[v]) /\ k'.error[t] = "EOK"
    BY DEF Woken
  <2>2. t \in Woken(v) <=> Inside(t, v) /\ ~In(t, k.wait[v]) /\ k.error[t] = "EOK"
    BY DEF Woken
  <2>3. CASE t = me
    <3>1. Inside(t, v)' => v = w
      BY <1>1, <2>3 DEF Moves, Inside
    <3>2. v = w => In(t, k'.wait[v])
      BY <1>1, <1>2, <2>3
    <3> QED
      BY <2>1, <2>3, <3>1, <3>2
  <2>4. CASE t # me
    <3>1. Inside(t, v)' <=> Inside(t, v)
      BY <1>1, <2>4 DEF Moves, Inside
    <3>2. k'.error[t] = k.error[t] /\ (In(t, k'.wait[v]) <=> In(t, k.wait[v]))
      BY <1>1, <1>2, <1>3, <2>4
    <3> QED
      BY <2>1, <2>2, <2>4, <3>1, <3>2
  <2> QED
    BY <2>3, <2>4
<1>6. \A v \in WaitList : Woken(v) \subseteq Thread /\ Woken(v)' \subseteq Thread
  BY DEF Woken
<1>7. k.wait \in [WaitList -> Seq(Thread)]
  BY DEF IpcInv, Sound, KernelState
<1>8. \A v \in WaitList : v # w => k'.wait[v] = k.wait[v]
  BY <1>1, <1>7 DEF Blocked
<1>9. \A v \in WaitList : Woken(v)' = Woken(v) \ {me}
  BY <1>5, <1>6
<1> QED
  BY <1>1, <1>4, <1>8, <1>9

(* A reset wakes the waiters of two lists with the error -RT_ERROR. *)
LEMMA ResetBoth ==
  ASSUME IpcInv, Calls, NEW a \in WaitList, NEW b \in WaitList, WaitList = {a, b},
         k' = rt_ipc_list_resume_all(rt_ipc_list_resume_all(k, a), b), Goto("sched", a)
  PROVE  /\ IpcInv' /\ WaitersClear' /\ Moves("sched", {a}) /\ me \in Thread
         /\ \A w \in WaitList : k'.wait[w] = <<>>
<1> DEFINE s == rt_ipc_list_resume_all(k, a)
<1>1. /\ Sound(k) /\ me \in Thread /\ k.stat[me] = "READY" /\ me # Idle
      /\ pc' = [pc EXCEPT ![me] = [op |-> "sched", on |-> {a}]]
  BY SelfReady DEF IpcInv, Goto, Calls
<1>2. Roused(s, k, a, {t \in Thread : In(t, k.wait[a])}) /\ s.wait[a] = <<>>
  BY <1>1, ResumeAllSound
<1> HIDE DEF s
<1>3. Sound(s) /\ s.current = k.current
  BY <1>2 DEF Roused
<1>4. k' = rt_ipc_list_resume_all(s, b)
  BY DEF s
<1>5. Roused(k', s, b, {t \in Thread : In(t, s.wait[b])}) /\ k'.wait[b] = <<>>
  BY <1>3, <1>4, ResumeAllSound
<1>6. Sound(k') /\ k'.current = k.current
  BY <1>3, <1>5 DEF Roused
<1>7. Wakes(s, k) /\ Wakes(k', s)
  BY <1>1, <1>2, <1>3, <1>5, ResumeAllWakes
<1>8. Wakes(k', k)
  BY <1>7, WakesTransitive
<1>9. IpcInv'
  <2>1. "sched" \in Op /\ "sched" # "run" /\ {a} \in SUBSET WaitList
    BY DEF Op
  <2> QED
    BY <1>1, <1>6, <1>8, <2>1, CallPlaces
<1>10. \A w \in WaitList : k'.wait[w] = <<>>
  BY <1>2, <1>5 DEF Roused
<1>11. WaitersClear'
  BY <1>10 DEF WaitersClear, In
<1> QED
  BY <1>1, <1>9, <1>10, <1>11, MovesIntro

-----------------------------------------------------------------------------
(* Counting the woken threads *)

(* There are finitely many. *)
LEMMA WokenFinite ==
  ASSUME NEW w
  PROVE  /\ IsFiniteSet(Woken(w)) /\ Cardinality(Woken(w)) \in Nat
         /\ IsFiniteSet(Woken(w)') /\ Cardinality(Woken(w)') \in Nat
<1>1. Woken(w) \in SUBSET Thread /\ Woken(w)' \in SUBSET Thread
  BY DEF Woken
<1>2. IsFiniteSet(Thread)
  BY IpcObjectAssumption
<1>3. IsFiniteSet(Woken(w)) /\ IsFiniteSet(Woken(w)')
  BY <1>1, <1>2, FS_Subset
<1> QED
  BY <1>3, FS_CardinalityType

(* A list that only shrinks and is not empty after a step was not before. *)
LEMMA NotEmptyBefore ==
  ASSUME IpcInv, IpcInv', Shrinks, NEW w \in WaitList, k'.wait[w] # <<>>
  PROVE  k.wait[w] # <<>>
<1>1. k.wait[w] \in Seq(Thread) /\ k'.wait[w] \in Seq(Thread)
  BY DEF IpcInv, Sound, KernelState
<1>2. PICK t \in Thread : In(t, k'.wait[w])
  BY <1>1, EmptyIn
<1>3. In(t, k.wait[w])
  BY <1>2 DEF Shrinks
<1> QED
  BY <1>1, <1>3, EmptyIn

(* Who waits is still served if none of the woken threads leaves, *)
LEMMA ServedKept ==
  ASSUME IpcInv, NEW L, NEW R, Steps(L, R), NEW w \in WaitList, Woken(w) \cap L = {},
         NEW n \in Int, NEW m \in Int, m <= n, Served(n, w)
  PROVE  k'.wait[w] # <<>> => m <= Cardinality(Woken(w)')
<1> SUFFICES ASSUME k'.wait[w] # <<>>
             PROVE  m <= Cardinality(Woken(w)')
  OBVIOUS
<1>1. k.wait[w] # <<>>
  BY NotEmptyBefore DEF Steps
<1>2. n <= Cardinality(Woken(w))
  BY <1>1 DEF Served
<1>3. Woken(w) \in SUBSET (Woken(w)')
  BY DEF Steps, Shifts
<1>4. Cardinality(Woken(w)) <= Cardinality(Woken(w)')
  BY <1>3, WokenFinite, FS_Subset
<1> QED
  BY <1>2, <1>4, WokenFinite

(* if a waiter is woken for one more message or place, *)
LEMMA ServedMore ==
  ASSUME IpcInv, NEW L, NEW t, Steps(L, {t}), NEW w \in WaitList, Woken(w) \cap L = {},
         t \in Thread, In(t, k.wait[w]), NEW n \in Int, Served(n, w)
  PROVE  k'.wait[w] # <<>> => n + 1 <= Cardinality(Woken(w)')
<1> SUFFICES ASSUME k'.wait[w] # <<>>
             PROVE  n + 1 <= Cardinality(Woken(w)')
  OBVIOUS
<1>1. k.wait[w] # <<>>
  BY NotEmptyBefore DEF Steps
<1>2. n <= Cardinality(Woken(w))
  BY <1>1 DEF Served
<1>3. t \notin Woken(w)
  BY DEF Woken
<1>4. Woken(w)' = Woken(w) \cup {t}
  BY DEF Steps, Shifts
<1>5. Cardinality(Woken(w)') = Cardinality(Woken(w)) + 1
  BY <1>3, <1>4, WokenFinite, FS_AddElement
<1> QED
  BY <1>2, <1>5, WokenFinite

(* and if one woken thread leaves with a message or to a place. *)
LEMMA ServedLess ==
  ASSUME IpcInv, NEW x, NEW R, Steps({x}, R), NEW w \in WaitList, NEW n \in Int, Served(n, w)
  PROVE  k'.wait[w] # <<>> => n - 1 <= Cardinality(Woken(w)')
<1> SUFFICES ASSUME k'.wait[w] # <<>>
             PROVE  n - 1 <= Cardinality(Woken(w)')
  OBVIOUS
<1>1. k.wait[w] # <<>>
  BY NotEmptyBefore DEF Steps
<1>2. n <= Cardinality(Woken(w))
  BY <1>1 DEF Served
<1>3. Woken(w) \ {x} \in SUBSET (Woken(w)')
  BY DEF Steps, Shifts
<1>4. Cardinality(Woken(w) \ {x}) <= Cardinality(Woken(w)')
  BY <1>3, WokenFinite, FS_Subset
<1>5. Cardinality(Woken(w) \ {x}) \in {Cardinality(Woken(w)), Cardinality(Woken(w)) - 1}
  BY WokenFinite, FS_RemoveElement
<1> QED
  BY <1>2, <1>4, <1>5, WokenFinite

-----------------------------------------------------------------------------
(* The mailbox: its ring *)

(* A mailbox by its fields. *)
Box(pool, entry, in, out, hand) ==
  [pool |-> pool, entry |-> entry, in |-> in, out |-> out, hand |-> hand]

Place == 0 .. MB_SIZE - 1

(* The indices of the ring agree with the number of its messages. *)
BoxOK(b) ==
  /\ b \in [ pool : [Place -> Mail], entry : 0 .. MB_SIZE, in : Place, out : Place,
             hand : [Thread -> Mail \cup {NoData}] ]
  /\ b.in = Wrap(b.out + b.entry, MB_SIZE)

(* The messages in it. *)
Letters(b) == Ring(b.pool, b.out, b.entry, MB_SIZE)

(* The size of a mailbox. *)
LEMMA SizeKnown == MB_SIZE \in Nat \ {0} /\ NoData \notin Mail /\ Mail # {}
BY MailboxAssumption

(* MailQueue is what is in the ring. *)
LEMMA QueueIsRing == MailQueue = Letters(mb) /\ MailQueue' = Letters(mb')
BY DEF MailQueue, Letters, Ring, Wrap

(* The fields of a mailbox. *)
LEMMA BoxFields ==
  ASSUME NEW b, BoxOK(b)
  PROVE  \E pool \in [Place -> Mail], entry \in 0 .. MB_SIZE, in \in Place, out \in Place,
            hand \in [Thread -> Mail \cup {NoData}] :
           b = Box(pool, entry, in, out, hand) /\ in = Wrap(out + entry, MB_SIZE)
<1>1. /\ b.pool \in [Place -> Mail] /\ b.entry \in 0 .. MB_SIZE /\ b.in \in Place
      /\ b.out \in Place /\ b.hand \in [Thread -> Mail \cup {NoData}]
      /\ b = Box(b.pool, b.entry, b.in, b.out, b.hand)
      /\ b.in = Wrap(b.out + b.entry, MB_SIZE)
  BY DEF BoxOK, Box
<1> QED
  BY <1>1

(* A mailbox built from its fields. *)
LEMMA BoxIntro ==
  ASSUME NEW pool \in [Place -> Mail], NEW entry \in 0 .. MB_SIZE, NEW in \in Place,
         NEW out \in Place, NEW hand \in [Thread -> Mail \cup {NoData}],
         in = Wrap(out + entry, MB_SIZE)
  PROVE  LET b == Box(pool, entry, in, out, hand)
         IN  /\ BoxOK(b) /\ Letters(b) = Ring(pool, out, entry, MB_SIZE) /\ b.hand = hand
             /\ b.entry = entry /\ b.in = in /\ b.out = out /\ b.pool = pool
BY DEF Box, BoxOK, Letters

(* The assignments of rt_mb_send_wait, rt_mb_recv and a reset, field by    *)
(* field.                                                                  *)
LEMMA BoxExcept ==
  ASSUME NEW pool, NEW entry, NEW in, NEW out, NEW hand, NEW x
  PROVE  LET b == Box(pool, entry, in, out, hand)
         IN  /\ [b EXCEPT !.pool = x] = Box(x, entry, in, out, hand)
             /\ [b EXCEPT !.entry = x] = Box(pool, x, in, out, hand)
             /\ [b EXCEPT !.in = x] = Box(pool, entry, x, out, hand)
             /\ [b EXCEPT !.out = x] = Box(pool, entry, in, x, hand)
             /\ [b EXCEPT !.hand = x] = Box(pool, entry, in, out, x)
             /\ b.pool = pool /\ b.entry = entry /\ b.in = in /\ b.out = out /\ b.hand = hand
<1> DEFINE b == Box(pool, entry, in, out, hand)
<1>1. [b EXCEPT !.pool = x] = Box(x, entry, in, out, hand)
  BY DEF Box
<1>2. [b EXCEPT !.entry = x] = Box(pool, x, in, out, hand)
  BY DEF Box
<1>3. [b EXCEPT !.in = x] = Box(pool, entry, x, out, hand)
  BY DEF Box
<1>4. [b EXCEPT !.out = x] = Box(pool, entry, in, x, hand)
  BY DEF Box
<1>5. [b EXCEPT !.hand = x] = Box(pool, entry, in, out, x)
  BY DEF Box
<1>6. b.pool = pool /\ b.entry = entry /\ b.in = in /\ b.out = out /\ b.hand = hand
  BY DEF Box
<1> QED
  BY <1>1, <1>2, <1>3, <1>4, <1>5, <1>6

(* The place behind another one, in the ring. *)
After(i) == IF i + 1 >= MB_SIZE THEN 0 ELSE i + 1

(* What Store and Fetch leave. *)
Filled(pool, entry, in, out, hand, m) ==
  Box([pool EXCEPT ![in] = m], entry + 1, After(in), out, hand)

Drained(pool, entry, in, out, hand, t) ==
  Box(pool, entry - 1, in, After(out), [hand EXCEPT ![t] = pool[out]])

(* Store, *)
LEMMA StoreBox ==
  ASSUME NEW pool, NEW entry, NEW in, NEW out, NEW hand, NEW m
  PROVE  Store(Box(pool, entry, in, out, hand), m) = Filled(pool, entry, in, out, hand, m)
<1> DEFINE b == Box(pool, entry, in, out, hand)
           x == [pool EXCEPT ![in] = m]
           y == After(in)
           z == entry + 1
<1>1. b.pool = pool /\ b.in = in /\ b.entry = entry
  BY BoxExcept
<1>2. Store(b, m) = [b EXCEPT !.pool = [b.pool EXCEPT ![b.in] = m], !.in = After(b.in),
                              !.entry = b.entry + 1]
  BY DEF Store, After
<1> HIDE DEF b
<1>3. Store(b, m) = [b EXCEPT !.pool = x, !.in = y, !.entry = z]
  BY <1>1, <1>2
<1> HIDE DEF x, y, z
<1>4. [b EXCEPT !.pool = x, !.in = y, !.entry = z]
        = [[[b EXCEPT !.pool = x] EXCEPT !.in = y] EXCEPT !.entry = z]
  OBVIOUS
<1>5. [b EXCEPT !.pool = x] = Box(x, entry, in, out, hand)
  BY BoxExcept DEF b
<1>6. [Box(x, entry, in, out, hand) EXCEPT !.in = y] = Box(x, entry, y, out, hand)
  BY BoxExcept
<1>7. [Box(x, entry, y, out, hand) EXCEPT !.entry = z] = Box(x, z, y, out, hand)
  BY BoxExcept
<1> QED
  BY <1>3, <1>4, <1>5, <1>6, <1>7 DEF b, x, y, z, Filled

(* Fetch *)
LEMMA FetchBox ==
  ASSUME NEW pool, NEW entry, NEW in, NEW out, NEW hand
  PROVE  Fetch(Box(pool, entry, in, out, hand)) = Drained(pool, entry, in, out, hand, me)
<1> DEFINE b == Box(pool, entry, in, out, hand)
           x == [hand EXCEPT ![me] = pool[out]]
           y == After(out)
           z == entry - 1
<1>1. b.pool = pool /\ b.out = out /\ b.entry = entry /\ b.hand = hand
  BY BoxExcept
<1>2. Fetch(b) = [b EXCEPT !.hand = [b.hand EXCEPT ![me] = b.pool[b.out]], !.out = After(b.out),
                           !.entry = b.entry - 1]
  BY DEF Fetch, After
<1> HIDE DEF b
<1>3. Fetch(b) = [b EXCEPT !.hand = x, !.out = y, !.entry = z]
  BY <1>1, <1>2
<1> HIDE DEF x, y, z
<1>4. [b EXCEPT !.hand = x, !.out = y, !.entry = z]
        = [[[b EXCEPT !.hand = x] EXCEPT !.out = y] EXCEPT !.entry = z]
  OBVIOUS
<1>5. [b EXCEPT !.hand = x] = Box(pool, entry, in, out, x)
  BY BoxExcept DEF b
<1>6. [Box(pool, entry, in, out, x) EXCEPT !.out = y] = Box(pool, entry, in, y, x)
  BY BoxExcept
<1>7. [Box(pool, entry, in, y, x) EXCEPT !.entry = z] = Box(pool, z, in, y, x)
  BY BoxExcept
<1> QED
  BY <1>3, <1>4, <1>5, <1>6, <1>7 DEF b, x, y, z, Drained

(* and EmptyMailbox by the fields of the mailbox. *)
LEMMA EmptyBox ==
  ASSUME NEW pool, NEW entry, NEW in, NEW out, NEW hand
  PROVE  EmptyMailbox(Box(pool, entry, in, out, hand)) = Box(pool, 0, 0, 0, hand)
<1> DEFINE b == Box(pool, entry, in, out, hand)
<1>1. [b EXCEPT !.entry = 0] = Box(pool, 0, in, out, hand)
  BY BoxExcept
<1>2. [Box(pool, 0, in, out, hand) EXCEPT !.in = 0] = Box(pool, 0, 0, out, hand)
  BY BoxExcept
<1>3. [Box(pool, 0, 0, out, hand) EXCEPT !.out = 0] = Box(pool, 0, 0, 0, hand)
  BY BoxExcept
<1> HIDE DEF b
<1>4. EmptyMailbox(b) = [[[b EXCEPT !.entry = 0] EXCEPT !.in = 0] EXCEPT !.out = 0]
  BY DEF EmptyMailbox
<1> QED
  BY <1>1, <1>2, <1>3, <1>4 DEF b

(* A message goes behind the last one. *)
LEMMA StoreRing ==
  ASSUME NEW b, BoxOK(b), b.entry # MB_SIZE, NEW m \in Mail
  PROVE  LET c == Store(b, m)
         IN  /\ BoxOK(c) /\ c.hand = b.hand /\ c.entry = b.entry + 1
             /\ Letters(c) = Append(Letters(b), m)
             /\ Letters(b) \in Seq(Mail) /\ Len(Letters(b)) < MB_SIZE
<1> DEFINE S == MB_SIZE
<1>0. S \in Nat \ {0}
  BY SizeKnown
<1>1. PICK pool \in [Place -> Mail], entry \in 0 .. S, in \in Place, out \in Place,
           hand \in [Thread -> Mail \cup {NoData}] :
        b = Box(pool, entry, in, out, hand) /\ in = Wrap(out + entry, S)
  BY BoxFields
<1>2. /\ b.pool = pool /\ b.entry = entry /\ b.in = in /\ b.out = out /\ b.hand = hand
      /\ Letters(b) = Ring(pool, out, entry, S)
  BY <1>1, BoxIntro
<1>3. entry \in 0 .. S - 1
  BY <1>0, <1>2
<1> DEFINE next == After(in)
           q == [pool EXCEPT ![in] = m]
           c == Box(q, entry + 1, next, out, hand)
<1>4. Store(b, m) = c
  <2>1. Store(b, m) = Filled(pool, entry, in, out, hand, m)
    BY <1>1, StoreBox
  <2> QED
    BY <2>1, Zenon DEF Filled
<1>5. next \in Place /\ next = Wrap(out + (entry + 1), S)
  <2> DEFINE u == out + entry
             v == out + (entry + 1)
  <2>1. u \in 0 .. 2 * S - 1 /\ v \in 0 .. 2 * S - 1 /\ v = u + 1
    BY <1>0, <1>3 DEF Place
  <2>2. in = Wrap(u, S)
    BY <1>1
  <2> HIDE DEF u, v
  <2>3. Wrap(u, S) = (IF u >= S THEN u - S ELSE u) /\ Wrap(v, S) = (IF v >= S THEN v - S ELSE v)
    BY <1>0, <2>1, RingIndex
  <2>4. next \in Place /\ next = Wrap(v, S)
    BY <1>0, <2>1, <2>2, <2>3 DEF Place, After
  <2> QED
    BY <2>4 DEF v
<1>6. q \in [Place -> Mail] /\ entry + 1 \in 0 .. S
  BY <1>0, <1>3
<1> HIDE DEF next, q
<1>7. /\ BoxOK(c) /\ Letters(c) = Ring(q, out, entry + 1, S) /\ c.hand = hand
      /\ c.entry = entry + 1
  <2> DEFINE e == entry + 1
  <2>1. e \in 0 .. S /\ next = Wrap(out + e, S)
    BY <1>5, <1>6
  <2> HIDE DEF e
  <2>2. LET d == Box(q, e, next, out, hand)
        IN  BoxOK(d) /\ Letters(d) = Ring(q, out, e, S) /\ d.hand = hand /\ d.entry = e
    BY <1>5, <1>6, <2>1, BoxIntro
  <2> QED
    BY <2>2 DEF e
<1>8. Ring(q, out, entry + 1, S) = Append(Ring(pool, out, entry, S), m)
  <2>1. q = RingPut(pool, out, entry, S, m)
    BY <1>1 DEF q, RingPut
  <2>2. pool \in [0 .. S - 1 -> Mail] /\ out \in 0 .. S - 1
    BY DEF Place
  <2>3. Ring(RingPut(pool, out, entry, S, m), out, entry + 1, S)
          = Append(Ring(pool, out, entry, S), m)
    <3>1. Appends(pool, out, entry, S, m)
      BY <1>0, <1>3, <2>2, RingAppend
    <3> QED
      BY <3>1 DEF Appends
  <2> QED
    BY <2>1, <2>3
<1>9. Ring(pool, out, entry, S) \in Seq(Mail) /\ Len(Ring(pool, out, entry, S)) = entry
  <2>1. pool \in [0 .. S - 1 -> Mail] /\ out \in 0 .. S - 1
    BY DEF Place
  <2> QED
    BY <1>0, <2>1, RingSeq
<1> HIDE DEF c
<1> QED
  BY <1>0, <1>2, <1>3, <1>4, <1>7, <1>8, <1>9

(* The first message leaves, into the hand of the running thread. *)
LEMMA FetchRing ==
  ASSUME NEW b, BoxOK(b), b.entry # 0, me \in Thread
  PROVE  LET c == Fetch(b)
         IN  /\ BoxOK(c) /\ c.entry = b.entry - 1
             /\ Letters(b) # <<>> /\ Letters(c) = Tail(Letters(b)) /\ Head(Letters(b)) \in Mail
             /\ c.hand = [b.hand EXCEPT ![me] = Head(Letters(b))]
<1> DEFINE S == MB_SIZE
<1>0. S \in Nat \ {0}
  BY SizeKnown
<1>1. PICK pool \in [Place -> Mail], entry \in 0 .. S, in \in Place, out \in Place,
           hand \in [Thread -> Mail \cup {NoData}] :
        b = Box(pool, entry, in, out, hand) /\ in = Wrap(out + entry, S)
  BY BoxFields
<1>2. /\ b.pool = pool /\ b.entry = entry /\ b.in = in /\ b.out = out /\ b.hand = hand
      /\ Letters(b) = Ring(pool, out, entry, S)
  BY <1>1, BoxIntro
<1>3. entry \in 1 .. S
  BY <1>0, <1>2
<1> DEFINE next == After(out)
           h == [hand EXCEPT ![me] = pool[out]]
           c == Box(pool, entry - 1, in, next, h)
<1>4. Fetch(b) = c
  <2>1. Fetch(b) = Drained(pool, entry, in, out, hand, me)
    BY <1>1, FetchBox
  <2> QED
    BY <2>1, Zenon DEF Drained
<1>5. next \in Place /\ in = Wrap(next + (entry - 1), S) /\ next = Wrap(out + 1, S)
  <2> DEFINE u == out + entry
             v == next + (entry - 1)
             w == out + 1
  <2>1. u \in 0 .. 2 * S - 1 /\ w \in 0 .. 2 * S - 1
    BY <1>0, <1>3 DEF Place
  <2>2. v \in 0 .. 2 * S - 1 /\ v = (IF out + 1 >= S THEN entry - 1 ELSE u)
    BY <1>0, <1>3 DEF Place, After
  <2>3. next \in Place /\ next = (IF w >= S THEN 0 ELSE w)
    BY <1>0 DEF Place, After
  <2>4. in = Wrap(u, S)
    BY <1>1
  <2>5. w = out + 1 /\ u = out + entry /\ out < S /\ out \in Int
    BY <1>0 DEF Place
  <2> HIDE DEF u, v, w
  <2>6. /\ Wrap(u, S) = (IF u >= S THEN u - S ELSE u) /\ Wrap(v, S) = (IF v >= S THEN v - S ELSE v)
        /\ Wrap(w, S) = (IF w >= S THEN w - S ELSE w)
    BY <1>0, <2>1, <2>2, RingIndex
  <2>7. in = Wrap(v, S)
    BY <1>0, <1>3, <2>1, <2>2, <2>4, <2>5, <2>6
  <2>8. next = Wrap(w, S)
    BY <1>0, <2>1, <2>3, <2>5, <2>6
  <2> QED
    BY <2>3, <2>7, <2>8 DEF v, w
<1>6. h \in [Thread -> Mail \cup {NoData}] /\ entry - 1 \in 0 .. S
  BY <1>0, <1>3
<1>7. pool \in [0 .. S - 1 -> Mail] /\ out \in 0 .. S - 1
  BY DEF Place
<1>8. /\ Ring(pool, out, entry, S) # <<>> /\ Head(Ring(pool, out, entry, S)) = pool[out]
      /\ Ring(pool, Wrap(out + 1, S), entry - 1, S) = Tail(Ring(pool, out, entry, S))
  <2>1. ASSUME NEW T \in Nat \ {0}, NEW p \in [0 .. T - 1 -> Mail], NEW o \in 0 .. T - 1,
               NEW e \in 1 .. T
        PROVE  /\ Ring(p, o, e, T) # <<>> /\ Head(Ring(p, o, e, T)) = p[o]
               /\ Ring(p, Wrap(o + 1, T), e - 1, T) = Tail(Ring(p, o, e, T))
    BY RingTail
  <2> QED
    BY <1>0, <1>3, <1>7, <2>1
<1> HIDE DEF next, h
<1>9. /\ BoxOK(c) /\ Letters(c) = Ring(pool, next, entry - 1, S) /\ c.hand = h
      /\ c.entry = entry - 1
  <2> DEFINE e == entry - 1
  <2>1. e \in 0 .. S /\ in = Wrap(next + e, S)
    BY <1>5, <1>6
  <2> HIDE DEF e
  <2>2. LET d == Box(pool, e, in, next, h)
        IN  BoxOK(d) /\ Letters(d) = Ring(pool, next, e, S) /\ d.hand = h /\ d.entry = e
    BY <1>5, <1>6, <2>1, BoxIntro
  <2> QED
    BY <2>2 DEF e
<1> HIDE DEF c
<1>10. Letters(c) = Tail(Letters(b))
  BY <1>2, <1>5, <1>8, <1>9
<1>11. Letters(b) # <<>> /\ Head(Letters(b)) = pool[out] /\ pool[out] \in Mail
  BY <1>2, <1>8
<1>12. c.hand = [b.hand EXCEPT ![me] = Head(Letters(b))]
  BY <1>2, <1>9, <1>11 DEF h
<1>13. c.entry = b.entry - 1
  BY <1>2, <1>9
<1> QED
  BY <1>4, <1>9, <1>10, <1>11, <1>12, <1>13

(* A mailbox without messages. *)
LEMMA EmptyRing ==
  ASSUME NEW b, BoxOK(b)
  PROVE  LET c == EmptyMailbox(b)
         IN  BoxOK(c) /\ c.entry = 0 /\ c.hand = b.hand /\ Letters(c) = <<>>
<1> DEFINE S == MB_SIZE
<1>0. S \in Nat \ {0}
  BY SizeKnown
<1>1. PICK pool \in [Place -> Mail], entry \in 0 .. S, in \in Place, out \in Place,
           hand \in [Thread -> Mail \cup {NoData}] :
        b = Box(pool, entry, in, out, hand) /\ in = Wrap(out + entry, S)
  BY BoxFields
<1>2. b.hand = hand
  BY <1>1, BoxIntro
<1> DEFINE c == Box(pool, 0, 0, 0, hand)
<1>3. EmptyMailbox(b) = c
  BY <1>1, EmptyBox
<1>4. 0 \in Place /\ 0 \in 0 .. S /\ 0 = Wrap(0 + 0, S)
  BY <1>0 DEF Place, Wrap
<1>5. BoxOK(c) /\ c.entry = 0 /\ c.hand = hand /\ Letters(c) = Ring(pool, 0, 0, S)
  BY <1>4, BoxIntro
<1>6. Ring(pool, 0, 0, S) = <<>>
  BY DEF Ring
<1> QED
  BY <1>2, <1>3, <1>5, <1>6

(* The message in the hand of a thread is delivered. *)
LEMMA HandRing ==
  ASSUME NEW b, BoxOK(b), NEW t \in Thread
  PROVE  LET c == [b EXCEPT !.hand[t] = NoData]
         IN  /\ BoxOK(c) /\ c.hand = [b.hand EXCEPT ![t] = NoData] /\ c.entry = b.entry
             /\ Letters(c) = Letters(b)
<1> DEFINE S == MB_SIZE
<1>1. PICK pool \in [Place -> Mail], entry \in 0 .. S, in \in Place, out \in Place,
           hand \in [Thread -> Mail \cup {NoData}] :
        b = Box(pool, entry, in, out, hand) /\ in = Wrap(out + entry, S)
  BY BoxFields
<1>2. b.hand = hand /\ b.entry = entry /\ Letters(b) = Ring(pool, out, entry, S)
  BY <1>1, BoxIntro
<1> DEFINE h == [hand EXCEPT ![t] = NoData]
           c == Box(pool, entry, in, out, h)
<1>3. h \in [Thread -> Mail \cup {NoData}]
  OBVIOUS
<1>4. [b EXCEPT !.hand[t] = NoData] = c
  <2>1. [b EXCEPT !.hand[t] = NoData] = [b EXCEPT !.hand = [b.hand EXCEPT ![t] = NoData]]
    OBVIOUS
  <2>2. [b EXCEPT !.hand[t] = NoData] = [b EXCEPT !.hand = h]
    BY <1>2, <2>1
  <2> HIDE DEF h
  <2>3. [Box(pool, entry, in, out, hand) EXCEPT !.hand = h] = c
    BY BoxExcept
  <2> QED
    BY <1>1, <2>2, <2>3
<1> HIDE DEF h
<1>5. BoxOK(c) /\ c.entry = entry /\ c.hand = h /\ Letters(c) = Ring(pool, out, entry, S)
  BY <1>1, <1>3, BoxIntro
<1> QED
  BY <1>2, <1>4, <1>5 DEF h

-----------------------------------------------------------------------------
(* The mailbox: its invariants *)

MailTypes ==
  /\ kind = "mailbox" /\ flag \in Flags /\ live \in BOOLEAN
  /\ arg \in [Thread -> [time : Time, data : Mail \cup {NoData}]]

(* A thread with a message in its hand is about to return. *)
HandLeaves == \A t \in Thread : mb.hand[t] # NoData => pc[t].op \in {"sched", "leave"}

(* A thread that waits for a place has a message to send. *)
SendersKnown == \A t \in Thread : Inside(t, senders) => arg[t].data \in Mail

MailInv == IpcInv /\ WaitersClear /\ MailTypes /\ BoxOK(mb) /\ HandLeaves /\ SendersKnown

(* One step of the channel. *)
MailStep == [MailChannel!Fifo]_<<MailQueue, mb.hand>>

(* The steps of the mailbox as steps of the channel: none, *)
LEMMA StepSame ==
  ASSUME Letters(mb') = Letters(mb), mb'.hand = mb.hand
  PROVE  MailStep
BY QueueIsRing DEF MailStep

(* a message is accepted, *)
LEMMA StepPut ==
  ASSUME NEW m \in Mail, Letters(mb') = Append(Letters(mb), m), Len(Letters(mb)) < MB_SIZE,
         mb'.hand = mb.hand
  PROVE  MailStep
BY QueueIsRing DEF MailStep, MailChannel!Fifo, MailChannel!Put

(* a message is received, *)
LEMMA StepTake ==
  ASSUME NEW t \in Thread, mb.hand[t] = NoData, Letters(mb) # <<>>,
         Letters(mb') = Tail(Letters(mb)), mb'.hand = [mb.hand EXCEPT ![t] = Head(Letters(mb))]
  PROVE  MailStep
BY QueueIsRing DEF MailStep, MailChannel!Fifo, MailChannel!Take

(* the call returns with it, *)
LEMMA StepDeliver ==
  ASSUME NEW t \in Thread, BoxOK(mb), mb'.hand = [mb.hand EXCEPT ![t] = NoData],
         Letters(mb') = Letters(mb)
  PROVE  MailStep
<1>1. CASE mb.hand[t] # NoData
  BY <1>1, QueueIsRing DEF MailStep, MailChannel!Fifo, MailChannel!Deliver
<1>2. CASE mb.hand[t] = NoData
  <2>1. mb.hand \in [Thread -> Mail \cup {NoData}]
    BY DEF BoxOK
  <2>2. mb'.hand = mb.hand
    BY <1>2, <2>1
  <2> QED
    BY <2>2, StepSame
<1> QED
  BY <1>1, <1>2

(* or all messages are forgotten. *)
LEMMA StepClear ==
  ASSUME Letters(mb') = <<>>, mb'.hand = mb.hand
  PROVE  MailStep
BY QueueIsRing DEF MailStep, MailChannel!Fifo, MailChannel!Clear

(* The invariant after a step of the running thread, which changes its own *)
(* arguments and hand only, *)
LEMMA MailAfterCall ==
  ASSUME MailInv, IpcInv', WaitersClear', kind' = kind, flag' \in Flags, live' \in BOOLEAN,
         BoxOK(mb'), me \in Thread, NEW o, NEW S, Moves(o, S),
         NEW a \in [time : Time, data : Mail \cup {NoData}], arg' = [arg EXCEPT ![me] = a],
         \A t \in Thread : t # me => mb'.hand[t] = mb.hand[t],
         mb'.hand[me] # NoData => o \in {"sched", "leave"},
         o \in {"block", "woken"} /\ senders \in S => a.data \in Mail
  PROVE  MailInv'
<1>1. MailTypes'
  BY DEF MailInv, MailTypes
<1>2. arg'[me] = a /\ \A t \in Thread : t # me => arg'[t] = arg[t]
  BY DEF MailInv, MailTypes
<1>3. HandLeaves'
  <2> SUFFICES ASSUME NEW t \in Thread, mb'.hand[t] # NoData
               PROVE  pc'[t].op \in {"sched", "leave"}
    BY DEF HandLeaves
  <2>1. CASE t = me
    BY <2>1 DEF Moves
  <2>2. CASE t # me
    BY <2>2 DEF Moves, MailInv, HandLeaves
  <2> QED
    BY <2>1, <2>2
<1>4. SendersKnown'
  <2> SUFFICES ASSUME NEW t \in Thread, Inside(t, senders)'
               PROVE  arg'[t].data \in Mail
    BY DEF SendersKnown
  <2>1. CASE t = me
    BY <1>2, <2>1 DEF Moves, Inside
  <2>2. CASE t # me
    BY <1>2, <2>2 DEF Moves, Inside, MailInv, SendersKnown
  <2> QED
    BY <2>1, <2>2
<1> QED
  BY <1>1, <1>3, <1>4 DEF MailInv

(* and after one that changes the arguments of nobody. *)
LEMMA MailAfter ==
  ASSUME MailInv, IpcInv', WaitersClear', kind' = kind, flag' \in Flags, live' \in BOOLEAN,
         BoxOK(mb'), arg' = arg, mb'.hand = mb.hand,
         \A t \in Thread : mb.hand[t] # NoData => pc'[t].op \in {"sched", "leave"},
         \A t \in Thread : Inside(t, senders)' => Inside(t, senders)
  PROVE  MailInv'
<1>1. MailTypes'
  BY DEF MailInv, MailTypes
<1>2. HandLeaves'
  BY DEF HandLeaves
<1>3. SendersKnown'
  <2> SUFFICES ASSUME NEW t \in Thread, Inside(t, senders)'
               PROVE  arg'[t].data \in Mail
    BY DEF SendersKnown
  <2> QED
    BY DEF MailInv, SendersKnown
<1> QED
  BY <1>1, <1>2, <1>3 DEF MailInv

-----------------------------------------------------------------------------
(* Who detaches an object *)

Detaches(c) == c.op \in {"detach", "rouse"}

(* One thread at a time detaches an object, one that is initialised; from  *)
(* then on no woken thread looks at it any more, and when it is done       *)
(* nobody waits.  The receivers come before the senders.                   *)
DetachInv ==
  /\ Detaching => live
  /\ \A t, u \in Thread : Detaches(pc[t]) /\ Detaches(pc[u]) => t = u
  /\ Detaching \/ ~live => \A w \in WaitList : Woken(w) = {}
  /\ ~live => \A w \in WaitList : k.wait[w] = <<>>
  /\ \A t \in Thread : Detaches(pc[t]) /\ pc[t].on = {senders} => k.wait[receivers] = <<>>

(* Detaching by the program counters. *)
LEMMA DetachingKnown ==
  /\ Detaching <=> \E t \in Thread : Detaches(pc[t])
  /\ Detaching' <=> \E t \in Thread : Detaches(pc'[t])
BY DEF Detaching, Detaches

(* A step while nobody detaches the object, which does not begin to. *)
LEMMA UsableAfter ==
  ASSUME Usable, live' = live, \A t \in Thread : Detaches(pc'[t]) => Detaches(pc[t])
  PROVE  DetachInv'
<1>1. live' /\ \A t \in Thread : ~Detaches(pc'[t])
  BY DetachingKnown DEF Usable
<1>2. ~Detaching'
  BY <1>1, DetachingKnown
<1> QED
  BY <1>1, <1>2 DEF DetachInv

(* A woken thread finds the object in use. *)
LEMMA WokenUsable ==
  ASSUME DetachInv, NEW w \in WaitList, NEW t \in Woken(w)
  PROVE  Usable
BY DEF DetachInv, Usable

(* A step that wakes nobody without an error, and moves no thread that     *)
(* detaches.                                                               *)
LEMMA DetachKept ==
  ASSUME IpcInv, DetachInv, NEW L, Steps(L, {}), live' = live,
         \A t \in Thread : /\ Detaches(pc'[t]) <=> Detaches(pc[t])
                           /\ Detaches(pc[t]) => pc'[t] = pc[t]
  PROVE  DetachInv'
<1>1. Detaching' <=> Detaching
  BY DetachingKnown
<1>2. \A w \in WaitList : Woken(w)' \subseteq Woken(w)
  BY DEF Steps, Shifts
<1>3. \A w \in WaitList : k.wait[w] = <<>> => k'.wait[w] = <<>>
  <2> SUFFICES ASSUME NEW w \in WaitList, k'.wait[w] # <<>> PROVE k.wait[w] # <<>>
    OBVIOUS
  <2> QED
    BY NotEmptyBefore DEF Steps
<1>4. receivers \in WaitList
  BY IpcObjectAssumption
<1>5. Detaching' => live'
  BY <1>1 DEF DetachInv
<1>6. \A t, u \in Thread : Detaches(pc'[t]) /\ Detaches(pc'[u]) => t = u
  BY DEF DetachInv
<1>7. Detaching' \/ ~live' => \A w \in WaitList : Woken(w)' = {}
  BY <1>1, <1>2 DEF DetachInv
<1>8. ~live' => \A w \in WaitList : k'.wait[w] = <<>>
  BY <1>3 DEF DetachInv
<1>9. \A t \in Thread : Detaches(pc'[t]) /\ pc'[t].on = {senders} => k'.wait[receivers] = <<>>
  BY <1>3, <1>4 DEF DetachInv
<1> QED
  BY <1>5, <1>6, <1>7, <1>8, <1>9 DEF DetachInv

(* The running thread moves, and does not detach. *)
LEMMA OthersDetach ==
  ASSUME me \in Thread, NEW o, NEW S, Moves(o, S), o \notin {"detach", "rouse"},
         pc[me].op \notin {"detach", "rouse"}
  PROVE  \A t \in Thread : /\ Detaches(pc'[t]) <=> Detaches(pc[t])
                           /\ Detaches(pc[t]) => pc'[t] = pc[t]
<1> SUFFICES ASSUME NEW t \in Thread
             PROVE  /\ Detaches(pc'[t]) <=> Detaches(pc[t])
                    /\ Detaches(pc[t]) => pc'[t] = pc[t]
  OBVIOUS
<1>1. CASE t = me
  BY <1>1 DEF Moves, Detaches
<1>2. CASE t # me
  BY <1>2 DEF Moves
<1> QED
  BY <1>1, <1>2

(* A detach begins: the rule of use "late" holds. *)
LEMMA DetachBegins ==
  ASSUME IpcInv, DetachInv, "late" \notin Relaxed, Detach(receivers)
  PROVE  DetachInv'
<1>1. /\ Calls /\ Usable /\ \A w \in WaitList : Woken(w) = {}
      /\ Goto("detach", receivers) /\ k' = k /\ live' = live
  BY DEF Detach, Detachable, object, kept
<1>2. receivers \in WaitList /\ receivers # senders
  BY IpcObjectAssumption
<1>3. Steps({me}, {}) /\ Moves("detach", {receivers}) /\ me \in Thread
  <2>1. "detach" \in Op \ {"block", "woken"} /\ {receivers} \in SUBSET WaitList /\ "detach" # "run"
    BY <1>2 DEF Op
  <2>2. pc' = [pc EXCEPT ![me] = [op |-> "detach", on |-> {receivers}]]
    BY <1>1 DEF Goto
  <2>3. At("run") /\ me # Idle
    BY <1>1 DEF Calls
  <2> QED
    BY <1>1, <2>1, <2>2, <2>3, GotoWakes
<1>4. live' /\ \A t \in Thread : ~Detaches(pc[t])
  BY <1>1, DetachingKnown DEF Usable
<1>5. \A t \in Thread : Detaches(pc'[t]) => t = me
  BY <1>3, <1>4 DEF Moves
<1>6. \A w \in WaitList : Woken(w)' = {}
  BY <1>1, <1>3 DEF Steps, Shifts
<1>7. pc'[me].on # {senders}
  BY <1>2, <1>3 DEF Moves
<1> QED
  BY <1>4, <1>5, <1>6, <1>7 DEF DetachInv

(* The thread that detaches goes on to o, on the list w. *)
LEMMA DetachGoesOn ==
  ASSUME IpcInv, DetachInv, Steps({me}, {}), me \in Thread, Detaches(pc[me]), live' = live,
         NEW o \in {"detach", "rouse"}, NEW w \in WaitList, Moves(o, {w}),
         w = senders => k.wait[receivers] = <<>>
  PROVE  DetachInv'
<1>1. \A t \in Thread : Detaches(pc'[t]) <=> Detaches(pc[t])
  <2> SUFFICES ASSUME NEW t \in Thread PROVE Detaches(pc'[t]) <=> Detaches(pc[t])
    OBVIOUS
  <2>1. CASE t = me
    BY <2>1 DEF Moves, Detaches
  <2>2. CASE t # me
    BY <2>2 DEF Moves
  <2> QED
    BY <2>1, <2>2
<1>2. Detaching' <=> Detaching
  BY <1>1, DetachingKnown
<1>3. \A v \in WaitList : Woken(v)' \subseteq Woken(v)
  BY DEF Steps, Shifts
<1>4. \A v \in WaitList : k.wait[v] = <<>> => k'.wait[v] = <<>>
  <2> SUFFICES ASSUME NEW v \in WaitList, k'.wait[v] # <<>> PROVE k.wait[v] # <<>>
    OBVIOUS
  <2> QED
    BY NotEmptyBefore DEF Steps
<1>5. receivers \in WaitList
  BY IpcObjectAssumption
<1>6. Detaching' => live'
  BY <1>2 DEF DetachInv
<1>7. \A t, u \in Thread : Detaches(pc'[t]) /\ Detaches(pc'[u]) => t = u
  BY <1>1 DEF DetachInv
<1>8. Detaching' \/ ~live' => \A v \in WaitList : Woken(v)' = {}
  BY <1>2, <1>3 DEF DetachInv
<1>9. ~live' => \A v \in WaitList : k'.wait[v] = <<>>
  BY <1>4 DEF DetachInv
<1>10. \A t \in Thread : Detaches(pc'[t]) /\ pc'[t].on = {senders} => k'.wait[receivers] = <<>>
  <2> SUFFICES ASSUME NEW t \in Thread, Detaches(pc'[t]), pc'[t].on = {senders}
               PROVE  k'.wait[receivers] = <<>>
    OBVIOUS
  <2>1. t = me
    BY <1>1 DEF DetachInv
  <2>2. w = senders
    BY <2>1 DEF Moves
  <2> QED
    BY <1>4, <1>5, <2>2
<1> QED
  BY <1>6, <1>7, <1>8, <1>9, <1>10 DEF DetachInv

(* The detach ends: nobody waits. *)
LEMMA DetachEnds ==
  ASSUME IpcInv, DetachInv, Steps({me}, {}), me \in Thread, Detaches(pc[me]), live' = FALSE,
         Moves("run", {}), \A w \in WaitList : k'.wait[w] = <<>>
  PROVE  DetachInv'
<1>1. \A t \in Thread : ~Detaches(pc'[t])
  <2> SUFFICES ASSUME NEW t \in Thread PROVE ~Detaches(pc'[t])
    OBVIOUS
  <2>1. CASE t = me
    BY <2>1 DEF Moves, Detaches
  <2>2. CASE t # me
    BY <2>2 DEF Moves, DetachInv
  <2> QED
    BY <2>1, <2>2
<1>2. ~Detaching'
  BY <1>1, DetachingKnown
<1>3. Detaching
  BY DetachingKnown
<1>4. \A w \in WaitList : Woken(w)' = {}
  BY <1>3 DEF DetachInv, Steps, Shifts
<1> QED
  BY <1>1, <1>2, <1>4 DEF DetachInv

-----------------------------------------------------------------------------
(* The mailbox: its steps *)

MailServe == Served(mb.entry, receivers) /\ Served(MB_SIZE - mb.entry, senders)

(* What is shown of a step: the invariant, a step of the channel, and that *)
(* who waits is served, if the object is used according to the rules.      *)
MailGood ==
  /\ MailInv' /\ MailStep
  /\ "late" \notin Relaxed /\ DetachInv /\ MailServe => DetachInv' /\ MailServe'

(* The two lists. *)
LEMMA ListsKnown ==
  WaitList = {receivers, senders} /\ receivers # senders
BY IpcObjectAssumption

(* The arguments of a call that waits, and of none. *)
LEMMA ArgKnown ==
  /\ NoArg \in [time : Time, data : Mail \cup {NoData}]
  /\ \A time \in Time, d \in Mail \cup {NoData} :
       [time |-> time, data |-> d] \in [time : Time, data : Mail \cup {NoData}]
BY DEF NoArg, Time

(* The invariant after a step that leaves the section, at o. *)
LEMMA MailAfterLeave ==
  ASSUME MailInv, IpcInv', WaitersClear', kind' = kind, flag' = flag, live' = live, BoxOK(mb'),
         me \in Thread, NEW o, NEW S, Moves(o, S), o \notin {"block", "woken"}, Leave,
         \A t \in Thread : t # me => mb'.hand[t] = mb.hand[t],
         mb'.hand[me] # NoData => o \in {"sched", "leave"}
  PROVE  MailInv'
<1>1. NoArg \in [time : Time, data : Mail \cup {NoData}] /\ arg' = [arg EXCEPT ![me] = NoArg]
  BY ArgKnown DEF Leave
<1>2. flag' \in Flags /\ live' \in BOOLEAN
  BY DEF MailInv, MailTypes
<1> QED
  BY <1>1, <1>2, MailAfterCall

(* The thread that runs is at the start of a call or woken on w, so it is  *)
(* not among the woken threads of the other list.                          *)
LEMMA NotWoken ==
  ASSUME NEW p, At(p), NEW w, p = "run" \/ (p = "woken" /\ pc[me].on = {w}), NEW v, v # w
  PROVE  Woken(v) \cap {me} = {}
<1>1. ~Inside(me, v)
  BY DEF At, Inside
<1> QED
  BY <1>1 DEF Woken

(* The number of messages. *)
LEMMA EntryKnown ==
  ASSUME NEW b, BoxOK(b)
  PROVE  b.entry \in 0 .. MB_SIZE /\ b.entry \in Int /\ MB_SIZE - b.entry \in Int /\ MB_SIZE \in Nat
BY SizeKnown DEF BoxOK

(* A list that nothing is to be had for is served. *)
LEMMA ZeroServed ==
  ASSUME NEW w, NEW n, n = 0
  PROVE  k'.wait[w] # <<>> => n <= Cardinality(Woken(w)')
BY WokenFinite

(* rt_mb_send_wait *)
LEMMA SendGood ==
  ASSUME MailInv, NEW p, At(p), me # Idle, NEW m \in Mail, NEW time \in Time,
         p = "run" \/ (p = "woken" /\ pc[me].on = {senders}),
         DetachInv => Usable, SendMail(m, time), UNCHANGED kept
  PROVE  MailGood
<1>1. /\ IpcInv /\ WaitersClear /\ BoxOK(mb) /\ p # "block" /\ me \in Thread /\ pc[me].op = p
      /\ receivers \in WaitList /\ senders \in WaitList /\ receivers # senders
      /\ kind' = kind /\ flag' = flag /\ live' = live /\ flag \in Flags /\ live \in BOOLEAN
  BY ListsKnown DEF MailInv, MailTypes, kept, At
<1>2. Woken(receivers) \cap {me} = {}
  BY <1>1, NotWoken
<1>3. mb.hand[me] = NoData
  BY <1>1 DEF MailInv, HandLeaves
<1>4. /\ mb.entry \in 0 .. MB_SIZE /\ mb.entry \in Int /\ MB_SIZE - mb.entry \in Int
      /\ MB_SIZE \in Nat
  BY <1>1, EntryKnown
<1>5. pc[me].op \notin {"detach", "rouse"}
  BY <1>1
<1>6. CASE mb.entry = MB_SIZE /\ time = "none" /\ Return /\ Leave /\ UNCHANGED <<k, mb>>
  <2>1. Steps({me}, {}) /\ Moves("run", {})
    BY <1>1, <1>6, ReturnWakes
  <2>2. MailInv'
    BY <1>1, <1>3, <1>6, <2>1, MailAfterLeave DEF Steps
  <2>3. MailStep
    BY <1>6, StepSame
  <2>4. ASSUME DetachInv PROVE DetachInv'
    BY <1>1, <1>5, <2>1, <2>4, OthersDetach, UsableAfter
  <2>5. ASSUME MailServe PROVE MailServe'
    <3>1. k'.wait[receivers] # <<>> => mb.entry <= Cardinality(Woken(receivers)')
      BY <1>1, <1>2, <1>4, <2>1, <2>5, ServedKept DEF MailServe
    <3>2. k'.wait[senders] # <<>> => MB_SIZE - mb.entry <= Cardinality(Woken(senders)')
      BY <1>4, <1>6, ZeroServed
    <3> QED
      BY <1>6, <3>1, <3>2 DEF MailServe, Served
  <2> QED
    BY <2>2, <2>3, <2>4, <2>5 DEF MailGood
<1>7. CASE /\ mb.entry = MB_SIZE /\ time # "none" /\ k' = Block(k, senders, flag, time)
           /\ Goto("block", senders) /\ Enter(time, m) /\ UNCHANGED mb
  <2>1. /\ IpcInv' /\ WaitersClear' /\ Moves("block", {senders})
        /\ \A v \in WaitList : Woken(v)' = Woken(v) \ {me}
        /\ \A v \in WaitList : v # senders => k'.wait[v] = k.wait[v]
    BY <1>1, <1>7, BlockWakes
  <2>2. MailInv'
    <3> DEFINE a == [time |-> time, data |-> m]
    <3>1. a \in [time : Time, data : Mail \cup {NoData}] /\ a.data \in Mail
      BY ArgKnown
    <3>2. arg' = [arg EXCEPT ![me] = a]
      BY <1>7 DEF Enter
    <3> HIDE DEF a
    <3> QED
      BY <1>1, <1>3, <1>7, <2>1, <3>1, <3>2, MailAfterCall
  <2>3. MailStep
    BY <1>7, StepSame
  <2>4. ASSUME DetachInv PROVE DetachInv'
    BY <1>1, <1>5, <2>1, <2>4, OthersDetach, UsableAfter
  <2>5. ASSUME MailServe PROVE MailServe'
    <3>1. Woken(receivers)' = Woken(receivers) /\ k'.wait[receivers] = k.wait[receivers]
      BY <1>1, <1>2, <2>1
    <3>2. k'.wait[receivers] # <<>> => mb.entry <= Cardinality(Woken(receivers)')
      BY <2>5, <3>1 DEF MailServe, Served
    <3>3. k'.wait[senders] # <<>> => MB_SIZE - mb.entry <= Cardinality(Woken(senders)')
      BY <1>4, <1>7, ZeroServed
    <3> QED
      BY <1>7, <3>2, <3>3 DEF MailServe, Served
  <2> QED
    BY <2>2, <2>3, <2>4, <2>5 DEF MailGood
<1>8. CASE mb.entry # MB_SIZE /\ mb' = Store(mb, m) /\ WakeOne(receivers, "run") /\ Leave
  <2>1. /\ BoxOK(mb') /\ mb'.hand = mb.hand /\ mb'.entry = mb.entry + 1
        /\ Letters(mb') = Append(Letters(mb), m) /\ Len(Letters(mb)) < MB_SIZE
    BY <1>1, <1>8, StoreRing
  <2>2. MailStep
    BY <2>1, StepPut
  <2>3. CASE k.wait[receivers] # <<>>
    <3> DEFINE t == k.wait[receivers][1]
    <3>1. Steps({me}, {t}) /\ Moves("sched", {receivers}) /\ t \in Thread /\ In(t, k.wait[receivers])
      BY <1>1, <1>8, <2>3, ResumeWakesOne DEF WakeOne
    <3> HIDE DEF t
    <3>2. MailInv'
      BY <1>1, <1>3, <1>8, <2>1, <3>1, MailAfterLeave DEF Steps
    <3>3. ASSUME DetachInv PROVE DetachInv'
      BY <1>1, <1>5, <3>1, <3>3, OthersDetach, UsableAfter
    <3>4. ASSUME MailServe PROVE MailServe'
      <4>1. k'.wait[receivers] # <<>> => mb.entry + 1 <= Cardinality(Woken(receivers)')
        BY <1>1, <1>2, <1>4, <3>1, <3>4, ServedMore DEF MailServe
      <4>2. k'.wait[senders] # <<>> => (MB_SIZE - mb.entry) - 1 <= Cardinality(Woken(senders)')
        BY <1>1, <1>4, <3>1, <3>4, ServedLess DEF MailServe
      <4>3. (MB_SIZE - mb.entry) - 1 = MB_SIZE - mb'.entry
        BY <1>4, <2>1
      <4> QED
        BY <2>1, <4>1, <4>2, <4>3 DEF MailServe, Served
    <3> QED
      BY <2>2, <3>2, <3>3, <3>4 DEF MailGood
  <2>4. CASE k.wait[receivers] = <<>>
    <3>1. k' = k /\ Return
      BY <1>8, <2>4 DEF WakeOne
    <3>2. Steps({me}, {}) /\ Moves("run", {})
      BY <1>1, <3>1, ReturnWakes
    <3>3. MailInv'
      BY <1>1, <1>3, <1>8, <2>1, <3>2, MailAfterLeave DEF Steps
    <3>4. ASSUME DetachInv PROVE DetachInv'
      BY <1>1, <1>5, <3>2, <3>4, OthersDetach, UsableAfter
    <3>5. ASSUME MailServe PROVE MailServe'
      <4>1. k'.wait[senders] # <<>> => (MB_SIZE - mb.entry) - 1 <= Cardinality(Woken(senders)')
        BY <1>1, <1>4, <3>2, <3>5, ServedLess DEF MailServe
      <4>2. (MB_SIZE - mb.entry) - 1 = MB_SIZE - mb'.entry
        BY <1>4, <2>1
      <4> QED
        BY <2>4, <3>1, <4>1, <4>2 DEF MailServe, Served
    <3> QED
      BY <2>2, <3>3, <3>4, <3>5 DEF MailGood
  <2> QED
    BY <2>3, <2>4
<1> QED
  BY <1>6, <1>7, <1>8 DEF SendMail

(* rt_mb_recv *)
LEMMA RecvGood ==
  ASSUME MailInv, NEW p, At(p), me # Idle, NEW time \in Time,
         p = "run" \/ (p = "woken" /\ pc[me].on = {receivers}),
         DetachInv => Usable, RecvMail(time), UNCHANGED kept
  PROVE  MailGood
<1>1. /\ IpcInv /\ WaitersClear /\ BoxOK(mb) /\ p # "block" /\ me \in Thread /\ pc[me].op = p
      /\ receivers \in WaitList /\ senders \in WaitList /\ receivers # senders
      /\ kind' = kind /\ flag' = flag /\ live' = live /\ flag \in Flags /\ live \in BOOLEAN
  BY ListsKnown DEF MailInv, MailTypes, kept, At
<1>2. Woken(senders) \cap {me} = {}
  BY <1>1, NotWoken
<1>3. mb.hand[me] = NoData
  BY <1>1 DEF MailInv, HandLeaves
<1>4. /\ mb.entry \in 0 .. MB_SIZE /\ mb.entry \in Int /\ MB_SIZE - mb.entry \in Int
      /\ MB_SIZE \in Nat
  BY <1>1, EntryKnown
<1>5. pc[me].op \notin {"detach", "rouse"}
  BY <1>1
<1>6. CASE /\ mb.entry = 0 /\ time = "none"
           /\ k' = (IF At("woken") THEN [k EXCEPT !.error[me] = "ETIMEOUT"] ELSE k)
           /\ Return /\ Leave /\ UNCHANGED mb
  <2>1. Steps({me}, {}) /\ Moves("run", {})
    <3>1. CASE k' = k
      BY <1>1, <1>6, <3>1, ReturnWakes
    <3>2. CASE k' = [k EXCEPT !.error[me] = "ETIMEOUT"]
      BY <1>1, <1>6, <3>2, ErrorWakes
    <3> QED
      BY <1>6, <3>1, <3>2
  <2>2. MailInv'
    BY <1>1, <1>3, <1>6, <2>1, MailAfterLeave DEF Steps
  <2>3. MailStep
    BY <1>6, StepSame
  <2>4. ASSUME DetachInv PROVE DetachInv'
    BY <1>1, <1>5, <2>1, <2>4, OthersDetach, UsableAfter
  <2>5. ASSUME MailServe PROVE MailServe'
    <3>1. k'.wait[senders] # <<>> => MB_SIZE - mb.entry <= Cardinality(Woken(senders)')
      BY <1>1, <1>2, <1>4, <2>1, <2>5, ServedKept DEF MailServe
    <3>2. k'.wait[receivers] # <<>> => mb.entry <= Cardinality(Woken(receivers)')
      BY <1>4, <1>6, ZeroServed
    <3> QED
      BY <1>6, <3>1, <3>2 DEF MailServe, Served
  <2> QED
    BY <2>2, <2>3, <2>4, <2>5 DEF MailGood
<1>7. CASE /\ mb.entry = 0 /\ time # "none" /\ k' = Block(k, receivers, flag, time)
           /\ Goto("block", receivers) /\ Enter(time, NoData) /\ UNCHANGED mb
  <2>1. /\ IpcInv' /\ WaitersClear' /\ Moves("block", {receivers})
        /\ \A v \in WaitList : Woken(v)' = Woken(v) \ {me}
        /\ \A v \in WaitList : v # receivers => k'.wait[v] = k.wait[v]
    BY <1>1, <1>7, BlockWakes
  <2>2. MailInv'
    <3> DEFINE a == [time |-> time, data |-> NoData]
    <3>1. a \in [time : Time, data : Mail \cup {NoData}]
      BY ArgKnown
    <3>2. arg' = [arg EXCEPT ![me] = a]
      BY <1>7 DEF Enter
    <3> HIDE DEF a
    <3>3. ~(senders \in {receivers}) /\ BoxOK(mb') /\ mb'.hand = mb.hand
      BY <1>1, <1>7
    <3> QED
      BY <1>1, <1>3, <2>1, <3>1, <3>2, <3>3, MailAfterCall
  <2>3. MailStep
    BY <1>7, StepSame
  <2>4. ASSUME DetachInv PROVE DetachInv'
    BY <1>1, <1>5, <2>1, <2>4, OthersDetach, UsableAfter
  <2>5. ASSUME MailServe PROVE MailServe'
    <3>1. Woken(senders)' = Woken(senders) /\ k'.wait[senders] = k.wait[senders]
      BY <1>1, <1>2, <2>1
    <3>2. k'.wait[senders] # <<>> => MB_SIZE - mb.entry <= Cardinality(Woken(senders)')
      BY <2>5, <3>1 DEF MailServe, Served
    <3>3. k'.wait[receivers] # <<>> => mb.entry <= Cardinality(Woken(receivers)')
      BY <1>4, <1>7, ZeroServed
    <3> QED
      BY <1>7, <3>2, <3>3 DEF MailServe, Served
  <2> QED
    BY <2>2, <2>3, <2>4, <2>5 DEF MailGood
<1>8. CASE mb.entry # 0 /\ mb' = Fetch(mb) /\ WakeOne(senders, "leave") /\ Leave
  <2>1. /\ BoxOK(mb') /\ mb'.entry = mb.entry - 1 /\ Letters(mb) # <<>>
        /\ Letters(mb') = Tail(Letters(mb)) /\ mb'.hand = [mb.hand EXCEPT ![me] = Head(Letters(mb))]
    BY <1>1, <1>8, FetchRing
  <2>2. MailStep
    BY <1>1, <1>3, <2>1, StepTake
  <2>3. \A t \in Thread : t # me => mb'.hand[t] = mb.hand[t]
    BY <1>1, <2>1 DEF BoxOK
  <2>4. (MB_SIZE - mb.entry) + 1 = MB_SIZE - mb'.entry
    BY <1>4, <2>1
  <2>5. CASE k.wait[senders] # <<>>
    <3> DEFINE t == k.wait[senders][1]
    <3>1. Steps({me}, {t}) /\ Moves("sched", {senders}) /\ t \in Thread /\ In(t, k.wait[senders])
      BY <1>1, <1>8, <2>5, ResumeWakesOne DEF WakeOne
    <3> HIDE DEF t
    <3>2. MailInv'
      BY <1>1, <1>8, <2>1, <2>3, <3>1, MailAfterLeave DEF Steps
    <3>3. ASSUME DetachInv PROVE DetachInv'
      BY <1>1, <1>5, <3>1, <3>3, OthersDetach, UsableAfter
    <3>4. ASSUME MailServe PROVE MailServe'
      <4>1. k'.wait[senders] # <<>> => (MB_SIZE - mb.entry) + 1 <= Cardinality(Woken(senders)')
        BY <1>1, <1>2, <1>4, <3>1, <3>4, ServedMore DEF MailServe
      <4>2. k'.wait[receivers] # <<>> => mb.entry - 1 <= Cardinality(Woken(receivers)')
        BY <1>1, <1>4, <3>1, <3>4, ServedLess DEF MailServe
      <4> QED
        BY <2>1, <2>4, <4>1, <4>2 DEF MailServe, Served
    <3> QED
      BY <2>2, <3>2, <3>3, <3>4 DEF MailGood
  <2>6. CASE k.wait[senders] = <<>>
    <3>1. k' = k /\ Goto("leave", senders)
      BY <1>8, <2>6 DEF WakeOne
    <3>2. Steps({me}, {}) /\ Moves("leave", {senders})
      <4>1. "leave" \in Op \ {"block", "woken"} /\ {senders} \in SUBSET WaitList /\ "leave" # "run"
        BY <1>1 DEF Op
      <4>2. pc' = [pc EXCEPT ![me] = [op |-> "leave", on |-> {senders}]]
        BY <3>1 DEF Goto
      <4> QED
        BY <1>1, <3>1, <4>1, <4>2, GotoWakes
    <3>3. MailInv'
      BY <1>1, <1>8, <2>1, <2>3, <3>2, MailAfterLeave DEF Steps
    <3>4. ASSUME DetachInv PROVE DetachInv'
      BY <1>1, <1>5, <3>2, <3>4, OthersDetach, UsableAfter
    <3>5. ASSUME MailServe PROVE MailServe'
      <4>1. k'.wait[receivers] # <<>> => mb.entry - 1 <= Cardinality(Woken(receivers)')
        BY <1>1, <1>4, <3>2, <3>5, ServedLess DEF MailServe
      <4> QED
        BY <2>1, <2>6, <3>1, <4>1 DEF MailServe, Served
    <3> QED
      BY <2>2, <3>3, <3>4, <3>5 DEF MailGood
  <2> QED
    BY <2>5, <2>6
<1> QED
  BY <1>6, <1>7, <1>8 DEF RecvMail

(* rt_mb_send in an interrupt handler *)
LEMMA HandlerGood ==
  ASSUME MailInv, NEW m \in Mail, SendMailInHandler(m)
  PROVE  MailGood
<1>1. /\ IpcInv /\ WaitersClear /\ BoxOK(mb) /\ Usable /\ mb.entry # MB_SIZE
      /\ mb' = Store(mb, m) /\ pc' = pc /\ arg' = arg
      /\ receivers \in WaitList /\ senders \in WaitList
      /\ kind' = kind /\ flag' = flag /\ live' = live /\ flag \in Flags /\ live \in BOOLEAN
  BY ListsKnown DEF MailInv, MailTypes, SendMailInHandler, object, kept
<1>2. /\ BoxOK(mb') /\ mb'.hand = mb.hand /\ mb'.entry = mb.entry + 1
      /\ Letters(mb') = Append(Letters(mb), m) /\ Len(Letters(mb)) < MB_SIZE
  BY <1>1, StoreRing
<1>3. MailStep
  BY <1>2, StepPut
<1>4. /\ mb.entry \in 0 .. MB_SIZE /\ mb.entry \in Int /\ MB_SIZE - mb.entry \in Int
      /\ MB_SIZE \in Nat
  BY <1>1, EntryKnown
<1>5. DetachInv'
  BY <1>1, UsableAfter
<1>6. ASSUME IpcInv', WaitersClear' PROVE MailInv'
  <2>1. \A t \in Thread : mb.hand[t] # NoData => pc'[t].op \in {"sched", "leave"}
    BY <1>1 DEF MailInv, HandLeaves
  <2>2. \A t \in Thread : Inside(t, senders)' => Inside(t, senders)
    BY <1>1 DEF Inside
  <2> QED
    BY <1>1, <1>2, <1>6, <2>1, <2>2, MailAfter
<1>7. CASE k.wait[receivers] # <<>>
  <2> DEFINE t == k.wait[receivers][1]
  <2>1. Steps({}, {t}) /\ t \in Thread /\ In(t, k.wait[receivers])
    BY <1>1, <1>7, HandlerWakesOne DEF SendMailInHandler
  <2> HIDE DEF t
  <2>2. ASSUME MailServe PROVE MailServe'
    <3>1. k'.wait[receivers] # <<>> => mb.entry + 1 <= Cardinality(Woken(receivers)')
      BY <1>1, <1>4, <2>1, <2>2, ServedMore DEF MailServe
    <3>2. k'.wait[senders] # <<>> => MB_SIZE - mb'.entry <= Cardinality(Woken(senders)')
      <4>1. MB_SIZE - mb'.entry \in Int /\ MB_SIZE - mb'.entry <= MB_SIZE - mb.entry
        BY <1>2, <1>4
      <4>2. Woken(senders) \cap {} = {}
        OBVIOUS
      <4> QED
        BY <1>1, <1>4, <2>1, <2>2, <4>1, <4>2, ServedKept DEF MailServe
    <3> QED
      BY <1>2, <3>1, <3>2 DEF MailServe, Served
  <2> QED
    BY <1>1, <1>3, <1>5, <1>6, <2>1, <2>2 DEF MailGood, Steps
<1>8. CASE k.wait[receivers] = <<>>
  <2>1. k' = k
    BY <1>8 DEF SendMailInHandler
  <2>2. IpcInv' /\ WaitersClear' /\ Woken(senders)' = Woken(senders)
    BY <1>1, <2>1 DEF IpcInv, IpcTypeOK, WaitersClear, Woken, Inside
  <2>3. ASSUME MailServe PROVE MailServe'
    <3>1. k'.wait[senders] # <<>> => MB_SIZE - mb'.entry <= Cardinality(Woken(senders)')
      <4>1. MB_SIZE - mb'.entry \in Int /\ MB_SIZE - mb'.entry <= MB_SIZE - mb.entry
        BY <1>2, <1>4
      <4>2. k.wait[senders] # <<>> => MB_SIZE - mb.entry <= Cardinality(Woken(senders))
        BY <2>3 DEF MailServe, Served
      <4> QED
        BY <1>4, <2>1, <2>2, <4>1, <4>2, WokenFinite
    <3> QED
      BY <1>8, <2>1, <3>1 DEF MailServe, Served
  <2> QED
    BY <1>3, <1>5, <1>6, <2>2, <2>3 DEF MailGood
<1> QED
  BY <1>7, <1>8

(* The invariant after the running thread goes to o, the object untouched. *)
LEMMA MailAfterMove ==
  ASSUME MailInv, IpcInv', WaitersClear', kind' = kind, flag' \in Flags, live' \in BOOLEAN,
         arg' = arg, mb' = mb, me \in Thread, NEW o, NEW S, Moves(o, S),
         pc[me].op \notin {"sched", "leave"},
         o \in {"block", "woken"} /\ senders \in S => Inside(me, senders)
  PROVE  MailInv' /\ MailStep
<1>1. BoxOK(mb') /\ mb'.hand = mb.hand
  BY DEF MailInv
<1>2. \A t \in Thread : mb.hand[t] # NoData => pc'[t].op \in {"sched", "leave"}
  BY DEF MailInv, HandLeaves, Moves
<1>3. \A t \in Thread : Inside(t, senders)' => Inside(t, senders)
  BY DEF Moves, Inside
<1>4. MailInv'
  BY <1>1, <1>2, <1>3, MailAfter
<1> QED
  BY <1>4, StepSame

(* ... and after an interrupt. *)
LEMMA MailAfterInterrupt ==
  ASSUME MailInv, IpcInv', WaitersClear', UNCHANGED object, mb' = mb, pc' = pc
  PROVE  MailInv' /\ MailStep
<1>1. /\ BoxOK(mb') /\ mb'.hand = mb.hand /\ kind' = kind /\ flag' \in Flags
      /\ live' \in BOOLEAN /\ arg' = arg
  BY DEF MailInv, MailTypes, object, kept
<1>2. \A t \in Thread : mb.hand[t] # NoData => pc'[t].op \in {"sched", "leave"}
  BY DEF MailInv, HandLeaves
<1>3. \A t \in Thread : Inside(t, senders)' => Inside(t, senders)
  BY DEF Inside
<1>4. MailInv'
  BY <1>1, <1>2, <1>3, MailAfter
<1> QED
  BY <1>4, StepSame

(* Who waits is served as long as no woken thread leaves. *)
LEMMA ServeKept ==
  ASSUME MailInv, NEW L, Steps(L, {}), \A w \in WaitList : Woken(w) \cap L = {},
         mb'.entry = mb.entry, MailServe
  PROVE  MailServe'
<1>1. /\ mb.entry \in Int /\ MB_SIZE - mb.entry \in Int /\ IpcInv
      /\ receivers \in WaitList /\ senders \in WaitList
  BY EntryKnown, ListsKnown DEF MailInv
<1>2. k'.wait[receivers] # <<>> => mb.entry <= Cardinality(Woken(receivers)')
  BY <1>1, ServedKept DEF MailServe
<1>3. k'.wait[senders] # <<>> => MB_SIZE - mb.entry <= Cardinality(Woken(senders)')
  BY <1>1, ServedKept DEF MailServe
<1> QED
  BY <1>2, <1>3 DEF MailServe, Served

(* A call returns. *)
LEMMA MailReturnGood ==
  ASSUME MailInv, MailReturn
  PROVE  MailGood
<1>1. /\ IpcInv /\ WaitersClear /\ BoxOK(mb) /\ mb' = [mb EXCEPT !.hand[me] = NoData]
      /\ kind' = kind /\ flag' \in Flags /\ live' = live /\ live' \in BOOLEAN /\ arg' = arg
  BY DEF MailInv, MailTypes, MailReturn, object, kept
<1>2. Steps({me}, {}) /\ Moves("run", {}) /\ me \in Thread /\ pc[me].op \in {"sched", "leave"}
  <2>1. CASE Schedule
    <3>1. /\ Steps({me}, {}) /\ me \in Thread
          /\ \/ Schedule /\ Moves("run", {}) /\ pc[me].op = "sched"
             \/ SleepReturn /\ Moves("run", {}) /\ pc[me].op = "woken"
             \/ rt_thread_sleep /\ Moves("block", {}) /\ pc[me].op = "run"
      BY <1>1, <2>1, CallWakes
    <3>2. pc[me].op = "sched"
      BY <2>1 DEF Schedule, At
    <3> QED
      BY <3>1, <3>2
  <2>2. CASE At("leave") /\ Return /\ UNCHANGED k
    <3>1. me # Idle /\ pc[me].op = "leave"
      BY <1>1, <2>2 DEF At, IpcInv, Located
    <3> QED
      BY <1>1, <2>2, <3>1, ReturnWakes
  <2> QED
    BY <2>1, <2>2 DEF MailReturn
<1>3. /\ BoxOK(mb') /\ mb'.hand = [mb.hand EXCEPT ![me] = NoData] /\ mb'.entry = mb.entry
      /\ Letters(mb') = Letters(mb)
  BY <1>1, <1>2, HandRing
<1>4. mb'.hand[me] = NoData /\ \A t \in Thread : t # me => mb'.hand[t] = mb.hand[t]
  <2>1. mb.hand \in [Thread -> Mail \cup {NoData}]
    BY <1>1 DEF BoxOK
  <2> QED
    BY <1>2, <1>3, <2>1
<1>5. MailInv'
  <2> DEFINE a == arg[me]
  <2>1. a \in [time : Time, data : Mail \cup {NoData}] /\ arg' = [arg EXCEPT ![me] = a]
    BY <1>1, <1>2 DEF MailInv, MailTypes
  <2>2. IpcInv' /\ WaitersClear' /\ kind' = kind /\ flag' \in Flags /\ live' \in BOOLEAN
    BY <1>1, <1>2 DEF Steps
  <2> DEFINE o == "run"
             S == {}
  <2>3. /\ mb'.hand[me] # NoData => o \in {"sched", "leave"}
        /\ o \in {"block", "woken"} /\ senders \in S => a.data \in Mail
        /\ Moves(o, S)
    BY <1>2, <1>4
  <2> HIDE DEF a, o, S
  <2> QED
    BY <1>2, <1>3, <1>4, <2>1, <2>2, <2>3, MailAfterCall
<1>6. MailStep
  BY <1>1, <1>2, <1>3, StepDeliver
<1>7. ASSUME DetachInv PROVE DetachInv'
  BY <1>1, <1>2, <1>7, OthersDetach, DetachKept
<1>8. \A w \in WaitList : Woken(w) \cap {me} = {}
  BY <1>2 DEF Woken, Inside
<1>9. ASSUME MailServe PROVE MailServe'
  BY <1>2, <1>3, <1>8, <1>9, ServeKept
<1> QED
  BY <1>5, <1>6, <1>7, <1>9 DEF MailGood

(* A wait fails. *)
LEMMA WaitFailsGood ==
  ASSUME MailInv, NEW w \in WaitList, WaitFails(w), mb' = mb
  PROVE  MailGood
<1>1. /\ IpcInv /\ WaitersClear /\ At("woken") /\ k.error[me] # "EOK" /\ Return /\ Leave /\ k' = k
      /\ kind' = kind /\ flag' = flag /\ live' = live /\ BoxOK(mb')
  BY DEF MailInv, WaitFails, kept
<1>2. me # Idle /\ me \in Thread /\ pc[me].op = "woken"
  BY <1>1 DEF At, IpcInv, Located
<1>3. Steps({me}, {}) /\ Moves("run", {})
  BY <1>1, <1>2, ReturnWakes
<1>4. mb'.hand[me] = NoData
  BY <1>2 DEF MailInv, HandLeaves
<1>5. MailInv'
  BY <1>1, <1>2, <1>3, <1>4, MailAfterLeave DEF Steps
<1>6. MailStep
  BY StepSame
<1>7. ASSUME DetachInv PROVE DetachInv'
  BY <1>1, <1>2, <1>3, <1>7, OthersDetach, DetachKept
<1>8. \A v \in WaitList : Woken(v) \cap {me} = {}
  BY <1>1 DEF Woken
<1>9. ASSUME MailServe PROVE MailServe'
  BY <1>3, <1>8, <1>9, ServeKept
<1> QED
  BY <1>5, <1>6, <1>7, <1>9 DEF MailGood

(* rt_mb_control *)
LEMMA ControlGood ==
  ASSUME MailInv, rt_mb_control
  PROVE  MailGood
<1>1. /\ IpcInv /\ BoxOK(mb) /\ Calls /\ Usable /\ mb' = EmptyMailbox(mb)
      /\ kind' = kind /\ flag' \in Flags /\ live' = live /\ live' \in BOOLEAN /\ arg' = arg
      /\ pc[me].op = "run"
  BY DEF MailInv, MailTypes, rt_mb_control, object, kept, Calls, At
<1>2. /\ IpcInv' /\ WaitersClear' /\ Moves("sched", {receivers}) /\ me \in Thread
      /\ \A w \in WaitList : k'.wait[w] = <<>>
  <2>1. /\ receivers \in WaitList /\ senders \in WaitList /\ WaitList = {receivers, senders}
        /\ k' = rt_ipc_list_resume_all(rt_ipc_list_resume_all(k, receivers), senders)
        /\ Goto("sched", receivers)
    BY ListsKnown DEF rt_mb_control
  <2> QED
    BY <1>1, <2>1, ResetBoth
<1>3. BoxOK(mb') /\ mb'.hand = mb.hand /\ Letters(mb') = <<>>
  BY <1>1, EmptyRing
<1>4. MailInv'
  <2>1. \A t \in Thread : mb.hand[t] # NoData => pc'[t].op \in {"sched", "leave"}
    BY <1>2 DEF MailInv, HandLeaves, Moves
  <2>2. \A t \in Thread : Inside(t, senders)' => Inside(t, senders)
    BY <1>2 DEF Moves, Inside
  <2> QED
    BY <1>1, <1>2, <1>3, <2>1, <2>2, MailAfter
<1>5. MailStep
  BY <1>3, StepClear
<1>6. DetachInv'
  BY <1>1, <1>2, OthersDetach, UsableAfter
<1>7. MailServe'
  BY <1>2, ListsKnown DEF MailServe, Served
<1> QED
  BY <1>4, <1>5, <1>6, <1>7 DEF MailGood

(* rt_mb_init *)
LEMMA InitGood ==
  ASSUME MailInv, rt_mb_init
  PROVE  MailGood
<1>1. /\ IpcInv /\ WaitersClear /\ BoxOK(mb) /\ ~live /\ mb' = EmptyMailbox(mb)
      /\ k' = k /\ pc' = pc /\ kind' = kind /\ flag' \in Flags /\ live' = TRUE /\ arg' = arg
  BY DEF MailInv, MailTypes, rt_mb_init, InitObject
<1>2. BoxOK(mb') /\ mb'.hand = mb.hand /\ Letters(mb') = <<>>
  BY <1>1, EmptyRing
<1>3. IpcInv' /\ WaitersClear' /\ \A w \in WaitList : Woken(w)' = Woken(w)
  BY <1>1 DEF IpcInv, IpcTypeOK, WaitersClear, Woken, Inside
<1>4. MailInv'
  <2>1. \A t \in Thread : mb.hand[t] # NoData => pc'[t].op \in {"sched", "leave"}
    BY <1>1 DEF MailInv, HandLeaves
  <2>2. \A t \in Thread : Inside(t, senders)' => Inside(t, senders)
    BY <1>1 DEF Inside
  <2> QED
    BY <1>1, <1>2, <1>3, <2>1, <2>2, MailAfter
<1>5. MailStep
  BY <1>2, StepClear
<1>6. ASSUME DetachInv PROVE DetachInv' /\ MailServe'
  <2>1. \A w \in WaitList : k'.wait[w] = <<>>
    BY <1>1, <1>6 DEF DetachInv
  <2>2. \A t \in Thread : ~Detaches(pc'[t])
    BY <1>1, <1>6, DetachingKnown DEF DetachInv
  <2>3. ~Detaching'
    BY <2>2, DetachingKnown
  <2>4. DetachInv'
    BY <1>1, <2>2, <2>3 DEF DetachInv
  <2>5. MailServe'
    BY <2>1, ListsKnown DEF MailServe, Served
  <2> QED
    BY <2>4, <2>5
<1> QED
  BY <1>4, <1>5, <1>6 DEF MailGood

(* A step of a thread outside its waits, the mailbox untouched. *)
LEMMA OutsideGood ==
  ASSUME MailInv, mb' = mb, kind' = kind, flag' = flag, live' \in BOOLEAN, arg' = arg,
         me \in Thread, pc[me].op \in {"run", "detach", "rouse"}, Steps({me}, {}),
         NEW o, NEW S, Moves(o, S), o \notin {"block", "woken"} \/ S = {},
         "late" \notin Relaxed /\ DetachInv => DetachInv'
  PROVE  MailGood
<1>1. IpcInv' /\ WaitersClear' /\ flag' \in Flags
  BY DEF Steps, MailInv, MailTypes
<1>2. pc[me].op \notin {"sched", "leave"} /\ ~(o \in {"block", "woken"} /\ senders \in S)
  OBVIOUS
<1>3. MailInv' /\ MailStep
  BY <1>1, <1>2, MailAfterMove
<1>4. \A w \in WaitList : Woken(w) \cap {me} = {}
  BY DEF Woken, Inside
<1>5. ASSUME MailServe PROVE MailServe'
  BY <1>4, <1>5, ServeKept
<1> QED
  BY <1>3, <1>5 DEF MailGood

(* rt_mb_detach and rt_mb_delete *)
LEMMA DetachGood ==
  ASSUME MailInv, rt_mb_detach
  PROVE  MailGood
<1>1. /\ IpcInv /\ WaitersClear /\ mb' = mb /\ live \in BOOLEAN
      /\ receivers \in WaitList /\ senders \in WaitList /\ WaitList = {receivers, senders}
      /\ {receivers} \in SUBSET WaitList /\ {senders} \in SUBSET WaitList /\ receivers # senders
  BY ListsKnown DEF MailInv, MailTypes, rt_mb_detach
<1>2. CASE Detach(receivers)
  <2>1. /\ At("run") /\ me # Idle /\ k' = k /\ "detach" \in Op \ {"block", "woken"}
        /\ pc' = [pc EXCEPT ![me] = [op |-> "detach", on |-> {receivers}]]
        /\ kind' = kind /\ flag' = flag /\ live' = live /\ arg' = arg /\ pc[me].op = "run"
    BY <1>2 DEF Detach, Calls, At, Goto, object, kept, Op
  <2>2. Steps({me}, {}) /\ Moves("detach", {receivers}) /\ me \in Thread
    BY <1>1, <2>1, GotoWakes
  <2>3. ASSUME "late" \notin Relaxed, DetachInv PROVE DetachInv'
    BY <1>1, <1>2, <2>3, DetachBegins
  <2> QED
    BY <1>1, <2>1, <2>2, <2>3, OutsideGood
<1>3. ASSUME NEW w \in WaitList, DetachLoop(w) PROVE MailGood
  <2>1. kind' = kind /\ flag' = flag /\ live' = live /\ arg' = arg
    BY <1>3 DEF DetachLoop, object, kept
  <2>2. pc[me].on = {w}
    BY <1>3 DEF DetachLoop, DetachTest, DetachBody
  <2>3. PICK o \in {"detach", "rouse"} :
          Steps({me}, {}) /\ Moves(o, {w}) /\ me \in Thread /\ pc[me].op \in {"detach", "rouse"}
    <3>1. CASE DetachTest(w)
      <4>1. /\ At("detach") /\ k' = k /\ "rouse" \in Op \ {"block", "woken"}
            /\ pc' = [pc EXCEPT ![me] = [op |-> "rouse", on |-> {w}]] /\ pc[me].op = "detach"
        BY <3>1 DEF DetachTest, Goto, Op, At
      <4>2. me # Idle /\ {w} \in SUBSET WaitList
        BY <1>1, <4>1 DEF At, IpcInv, Located
      <4> QED
        BY <1>1, <4>1, <4>2, GotoWakes
    <3>2. CASE DetachBody(w)
      BY <1>1, <3>2, DetachBodyWakes
    <3> QED
      BY <1>3, <3>1, <3>2 DEF DetachLoop
  <2>4. ASSUME DetachInv PROVE DetachInv'
    <3>1. Detaches(pc[me])
      BY <2>3 DEF Detaches
    <3>2. w = senders => k.wait[receivers] = <<>>
      BY <2>2, <2>3, <2>4, <3>1 DEF DetachInv
    <3> QED
      BY <1>1, <2>1, <2>3, <2>4, <3>1, <3>2, DetachGoesOn
  <2> DEFINE S == {w}
  <2>5. Moves(o, S) /\ o \notin {"block", "woken"}
    BY <2>3
  <2> HIDE DEF S
  <2> QED
    BY <1>1, <2>1, <2>3, <2>4, <2>5, OutsideGood
<1>4. CASE /\ At("detach") /\ pc[me].on = {receivers} /\ k.wait[receivers] = <<>>
           /\ Goto("detach", senders) /\ UNCHANGED <<k, object>>
  <2>1. /\ At("detach") /\ k' = k /\ "detach" \in Op \ {"block", "woken"}
        /\ pc' = [pc EXCEPT ![me] = [op |-> "detach", on |-> {senders}]]
        /\ kind' = kind /\ flag' = flag /\ live' = live /\ arg' = arg /\ pc[me].op = "detach"
    BY <1>4 DEF At, Goto, object, kept, Op
  <2>2. me # Idle
    BY <1>1, <2>1 DEF At, IpcInv, Located
  <2>3. Steps({me}, {}) /\ Moves("detach", {senders}) /\ me \in Thread
    BY <1>1, <2>1, <2>2, GotoWakes
  <2>4. ASSUME DetachInv PROVE DetachInv'
    <3>1. Detaches(pc[me])
      BY <2>1 DEF Detaches
    <3> QED
      BY <1>1, <1>4, <2>1, <2>3, <2>4, <3>1, DetachGoesOn
  <2> QED
    BY <1>1, <2>1, <2>3, <2>4, OutsideGood
<1>5. CASE DetachObject(senders)
  <2>1. /\ At("detach") /\ k' = k /\ Return /\ pc[me].on = {senders} /\ k.wait[senders] = <<>>
        /\ kind' = kind /\ flag' = flag /\ live' = FALSE /\ arg' = arg /\ pc[me].op = "detach"
    BY <1>5 DEF At, DetachObject, DetachEnd
  <2>2. me # Idle
    BY <1>1, <2>1 DEF At, IpcInv, Located
  <2>3. Steps({me}, {}) /\ Moves("run", {}) /\ me \in Thread
    BY <1>1, <2>1, <2>2, ReturnWakes
  <2>4. ASSUME DetachInv PROVE DetachInv'
    <3>1. Detaches(pc[me])
      BY <2>1 DEF Detaches
    <3>2. k.wait[receivers] = <<>>
      BY <2>1, <2>3, <2>4, <3>1 DEF DetachInv
    <3>3. \A w \in WaitList : k'.wait[w] = <<>>
      BY <1>1, <2>1, <3>2
    <3> QED
      BY <1>1, <2>1, <2>3, <2>4, <3>1, <3>3, DetachEnds
  <2> QED
    BY <1>1, <2>1, <2>3, <2>4, OutsideGood
<1> QED
  BY <1>1, <1>2, <1>3, <1>4, <1>5 DEF rt_mb_detach

(* The kernel calls that are not about the object, and the interrupts. *)
LEMMA ObjectCallGood ==
  ASSUME MailInv, ObjectCall, mb' = mb
  PROVE  MailGood
<1>1. /\ IpcInv /\ WaitersClear /\ BoxOK(mb) /\ UNCHANGED object /\ kind' = kind /\ flag' = flag
      /\ live' = live /\ arg' = arg /\ flag' \in Flags /\ live' \in BOOLEAN
  BY DEF MailInv, MailTypes, ObjectCall, object, kept
<1>2. \A w \in WaitList : Woken(w) \cap {} = {}
  OBVIOUS
<1>3. CASE \/ Tick \/ TickEnd
           \/ \E t \in Thread : Timeout(t)
  <2>1. Steps({}, {}) /\ pc' = pc
    BY <1>1, <1>3, TickWakes, TimeoutWakes
  <2>2. MailInv' /\ MailStep
    BY <1>1, <2>1, MailAfterInterrupt DEF Steps
  <2>3. ASSUME DetachInv PROVE DetachInv'
    BY <1>1, <2>1, <2>3, DetachKept
  <2>4. ASSUME MailServe PROVE MailServe'
    BY <1>2, <2>1, <2>4, ServeKept
  <2> QED
    BY <2>2, <2>3, <2>4 DEF MailGood
<1>4. CASE BlockSchedule
  <2>1. Steps({}, {}) /\ Moves("woken", pc[me].on) /\ me \in Thread /\ pc[me].op = "block"
    BY <1>1, <1>4, BlockScheduleWakes
  <2> DEFINE S == pc[me].on
  <2>2. senders \in S => Inside(me, senders)
    BY <2>1 DEF Inside
  <2>3. Moves("woken", S)
    BY <2>1
  <2> HIDE DEF S
  <2>4. IpcInv' /\ WaitersClear'
    BY <1>1, <2>1 DEF Steps
  <2>5. MailInv' /\ MailStep
    BY <1>1, <2>1, <2>2, <2>3, <2>4, MailAfterMove
  <2>6. ASSUME DetachInv PROVE DetachInv'
    BY <1>1, <2>1, <2>3, <2>6, OthersDetach, DetachKept
  <2>7. ASSUME MailServe PROVE MailServe'
    BY <1>2, <2>1, <2>7, ServeKept
  <2> QED
    BY <2>5, <2>6, <2>7 DEF MailGood
<1>5. CASE rt_thread_sleep
  <2>1. Steps({me}, {}) /\ me \in Thread /\ Moves("block", {}) /\ pc[me].op = "run"
    BY <1>1, <1>5, CallWakes DEF rt_thread_sleep, SleepReturn, Schedule, Calls, At
  <2>2. ASSUME DetachInv PROVE DetachInv'
    BY <1>1, <2>1, <2>2, OthersDetach, DetachKept
  <2> QED
    BY <1>1, <2>1, <2>2, OutsideGood
<1>6. CASE SleepReturn
  <2>1. Steps({me}, {}) /\ me \in Thread /\ Moves("run", {}) /\ pc[me].op = "woken"
    BY <1>1, <1>6, CallWakes DEF rt_thread_sleep, SleepReturn, Schedule, Calls, At
  <2>2. \A w \in WaitList : Woken(w) \cap {me} = {}
    BY <1>6 DEF SleepReturn, Woken, Inside
  <2>3. IpcInv' /\ WaitersClear'
    BY <1>1, <2>1 DEF Steps
  <2>4. MailInv' /\ MailStep
    BY <1>1, <2>1, <2>3, MailAfterMove
  <2>5. ASSUME DetachInv PROVE DetachInv'
    BY <1>1, <2>1, <2>5, OthersDetach, DetachKept
  <2>6. ASSUME MailServe PROVE MailServe'
    BY <2>1, <2>2, <2>6, ServeKept
  <2> QED
    BY <2>4, <2>5, <2>6 DEF MailGood
<1> QED
  BY <1>3, <1>4, <1>5, <1>6 DEF ObjectCall

(* A thread that a call has woken looks at the mailbox, which is in use. *)
LEMMA AgainKnown ==
  ASSUME MailInv, At("woken"), NEW w \in WaitList, pc[me].on = {w}, k.error[me] = "EOK"
  PROVE  /\ me # Idle /\ me \in Thread /\ Inside(me, w)
         /\ DetachInv => Usable
         /\ Remaining(arg[me].time) \subseteq Time
<1>1. IpcInv /\ k.stat[me] = "READY" /\ me \in Thread /\ pc[me].op = "woken"
  BY SelfReady DEF MailInv, At
<1>2. me # Idle
  BY <1>1 DEF IpcInv, Located
<1>3. Inside(me, w)
  BY <1>1 DEF Inside
<1>4. me \in Woken(w)
  BY <1>1, <1>3, ReadyOff DEF Woken
<1>5. DetachInv => Usable
  BY <1>4, WokenUsable
<1>6. arg[me].time \in Time
  BY <1>1 DEF MailInv, MailTypes
<1> QED
  BY <1>1, <1>2, <1>3, <1>5, <1>6 DEF Remaining, Time

(* A waiter goes on with its call. *)
LEMMA AgainGood ==
  ASSUME MailInv, SendMailAgain \/ RecvMailAgain
  PROVE  MailGood
<1>1. receivers \in WaitList /\ senders \in WaitList
  BY ListsKnown
<1>2. CASE SendMailAgain
  <2>1. At("woken") /\ pc[me].on = {senders} /\ k.error[me] = "EOK" /\ UNCHANGED kept
    BY <1>2 DEF SendMailAgain
  <2>2. /\ me # Idle /\ me \in Thread /\ Inside(me, senders) /\ (DetachInv => Usable)
        /\ Remaining(arg[me].time) \subseteq Time
    BY <1>1, <2>1, AgainKnown
  <2>3. PICK time \in Time : SendMail(arg[me].data, time)
    BY <1>2, <2>2 DEF SendMailAgain
  <2>4. arg[me].data \in Mail
    BY <2>2 DEF MailInv, SendersKnown
  <2> DEFINE m == arg[me].data
             p == "woken"
  <2>5. m \in Mail /\ SendMail(m, time) /\ At(p) /\ p = "woken" /\ pc[me].on = {senders}
    BY <2>1, <2>3, <2>4
  <2> HIDE DEF m, p
  <2> QED
    BY <2>1, <2>2, <2>5, SendGood
<1>3. CASE RecvMailAgain
  <2>1. At("woken") /\ pc[me].on = {receivers} /\ k.error[me] = "EOK" /\ UNCHANGED kept
    BY <1>3 DEF RecvMailAgain
  <2>2. me # Idle /\ (DetachInv => Usable) /\ Remaining(arg[me].time) \subseteq Time
    BY <1>1, <2>1, AgainKnown
  <2>3. PICK time \in Time : RecvMail(time)
    BY <1>3, <2>2 DEF RecvMailAgain
  <2> QED
    BY <2>1, <2>2, <2>3, RecvGood
<1> QED
  BY <1>2, <1>3

(* A thread begins to send or to receive. *)
LEMMA MailCallGood ==
  ASSUME MailInv, NEW time \in Time,
         rt_mb_recv(time) \/ \E m \in Mail : rt_mb_send_wait(m, time)
  PROVE  MailGood
<1>1. At("run") /\ me # Idle /\ (DetachInv => Usable) /\ UNCHANGED kept
  BY DEF rt_mb_recv, rt_mb_send_wait, Calls
<1>2. CASE rt_mb_recv(time)
  BY <1>1, <1>2, RecvGood DEF rt_mb_recv
<1>3. ASSUME NEW m \in Mail, rt_mb_send_wait(m, time) PROVE MailGood
  <2>1. SendMail(m, time)
    BY <1>3 DEF rt_mb_send_wait
  <2> QED
    BY <1>1, <2>1, SendGood
<1> QED
  BY <1>2, <1>3

(* Every step of the mailbox. *)
LEMMA MailStepGood == MailInv /\ [MailboxNext]_mailboxVars => MailGood
<1> SUFFICES ASSUME MailInv, [MailboxNext]_mailboxVars
             PROVE  MailGood
  OBVIOUS
<1>1. ASSUME UNCHANGED mailboxVars PROVE MailGood
  <2>1. k' = k /\ pc' = pc /\ mb' = mb /\ kind' = kind /\ flag' = flag /\ live' = live /\ arg' = arg
    BY <1>1 DEF mailboxVars, object, kept
  <2>2. /\ IpcInv' /\ WaitersClear'
        /\ \A w \in WaitList : Woken(w)' = Woken(w) /\ k'.wait[w] = k.wait[w]
    BY <2>1 DEF MailInv, IpcInv, IpcTypeOK, WaitersClear, Woken, Inside
  <2>3. MailInv' /\ MailStep
    BY <2>1, <2>2, MailAfterInterrupt DEF object, kept
  <2>4. DetachInv => DetachInv'
    BY <2>1, <2>2, ListsKnown DEF DetachInv, Detaching
  <2>5. MailServe => MailServe'
    BY <2>1, <2>2, ListsKnown DEF MailServe, Served
  <2> QED
    BY <2>3, <2>4, <2>5 DEF MailGood
<1>2. ASSUME (WaitFails(receivers) \/ WaitFails(senders)) /\ UNCHANGED mb PROVE MailGood
  BY <1>2, WaitFailsGood, ListsKnown
<1> QED
  BY <1>1, <1>2, MailCallGood, AgainGood, MailReturnGood, HandlerGood, ControlGood, DetachGood,
     InitGood, ObjectCallGood DEF MailboxNext

(* The mailbox starts empty, and nobody waits. *)
LEMMA MailStart ==
  MailboxInit => /\ MailInv /\ DetachInv /\ MailServe
                 /\ MailQueue = <<>> /\ mb.hand = [t \in Thread |-> NoData]
<1> SUFFICES ASSUME MailboxInit
             PROVE  /\ MailInv /\ DetachInv /\ MailServe
                    /\ MailQueue = <<>> /\ mb.hand = [t \in Thread |-> NoData]
  OBVIOUS
<1>1. /\ IpcInv /\ \A w \in WaitList : k.wait[w] = <<>>
      /\ pc = [t \in Thread |-> [op |-> "run", on |-> {}]]
      /\ k.error = [t \in Thread |-> "EOK"]
  BY StartSound DEF MailboxInit, ObjectInit
<1>2. /\ kind = "mailbox" /\ flag \in Flags /\ live = TRUE /\ arg = [t \in Thread |-> NoArg]
  BY DEF MailboxInit, ObjectInit
<1> DEFINE pool == [i \in Place |-> CHOOSE m \in Mail : TRUE]
           hand == [t \in Thread |-> NoData]
<1>3. mb = Box(pool, 0, 0, 0, hand)
  BY DEF MailboxInit, MailboxStart, Box, Place
<1>4. pool \in [Place -> Mail] /\ hand \in [Thread -> Mail \cup {NoData}]
  BY MailboxAssumption
<1>5. 0 \in Place /\ 0 \in 0 .. MB_SIZE /\ 0 = Wrap(0 + 0, MB_SIZE)
  BY SizeKnown DEF Place, Wrap
<1>6. mb.hand = hand
  BY <1>3 DEF Box
<1> HIDE DEF pool
<1>7. BoxOK(mb) /\ Letters(mb) = Ring(pool, 0, 0, MB_SIZE)
  <2> HIDE DEF hand
  <2> QED
    BY <1>3, <1>4, <1>5, BoxIntro
<1>8. MailQueue = <<>>
  <2>1. Ring(pool, 0, 0, MB_SIZE) = <<>>
    BY DEF Ring
  <2> QED
    BY <1>7, <2>1, QueueIsRing
<1>9. MailTypes
  BY <1>2, ArgKnown DEF MailTypes
<1>10. WaitersClear /\ SendersKnown /\ HandLeaves
  <2>1. WaitersClear
    BY <1>1 DEF WaitersClear
  <2>2. SendersKnown
    BY <1>1 DEF SendersKnown, Inside
  <2>3. HandLeaves
    BY <1>6 DEF HandLeaves
  <2> QED
    BY <2>1, <2>2, <2>3
<1>11. MailInv
  BY <1>1, <1>7, <1>9, <1>10 DEF MailInv
<1>12. MailServe
  BY <1>1, ListsKnown DEF MailServe, Served
<1>13. DetachInv
  <2>1. \A t \in Thread : ~Detaches(pc[t])
    BY <1>1 DEF Detaches
  <2>2. ~Detaching
    BY <2>1, DetachingKnown
  <2> QED
    BY <1>2, <2>1, <2>2 DEF DetachInv
<1> QED
  BY <1>6, <1>8, <1>11, <1>12, <1>13

-----------------------------------------------------------------------------
(* The mailbox: its theorems *)

(* The invariant holds, and every step is a step of the channel. *)
LEMMA MailSafe == MailboxSpec => []MailInv /\ [][MailStep]_mailboxVars
<1>1. MailInv /\ [MailboxNext]_mailboxVars => MailInv' /\ MailStep
  BY MailStepGood DEF MailGood
<1>2. MailboxSpec => []MailInv
  BY <1>1, MailStart, PTL DEF MailboxSpec
<1> QED
  BY <1>1, <1>2, PTL DEF MailboxSpec

(* Every variable of the mailbox keeps its type: the offsets stay inside   *)
(* the pool, and mb->entry between 0 and mb->size.                         *)
THEOREM MailTypeCorrect == MailboxSpec => []MailboxTypeOK
<1>1. MailInv => MailboxTypeOK
  <2> SUFFICES ASSUME MailInv PROVE MailboxTypeOK
    OBVIOUS
  <2>1. mb \in [ pool : [0 .. MB_SIZE - 1 -> Mail], entry : 0 .. MB_SIZE,
                 in : 0 .. MB_SIZE - 1, out : 0 .. MB_SIZE - 1,
                 hand : [Thread -> Mail \cup {NoData}] ]
    BY DEF MailInv, BoxOK, Place
  <2>2. ObjectTypeOK(Mail)
    BY DEF MailInv, IpcInv, MailTypes, ObjectTypeOK, Kind
  <2> QED
    BY <2>1, <2>2 DEF MailboxTypeOK
<1> QED
  BY <1>1, MailSafe, PTL

(* Each thread is once on the list where its call on the mailbox left it,  *)
(* up to a detach loop that takes the list head for a thread.              *)
THEOREM MailPlaces == MailboxSpec => []Places
<1>1. MailInv => Places
  BY PlacesKnown DEF MailInv
<1> QED
  BY <1>1, MailSafe, PTL

(* The mailbox implements the FIFO channel: every message that a sender or *)
(* a handler gets into the ring is received once, unchanged and in order.  *)
THEOREM MailRefines == MailboxSpec => MailboxIsChannel
<1>1. MailboxInit => MailChannel!Init
  BY MailStart DEF MailChannel!Init
<1>2. MailInv /\ [MailboxNext]_mailboxVars => [MailChannel!Fifo]_<<MailQueue, mb.hand>>
  BY MailStepGood DEF MailGood, MailStep
<1>3. MailboxSpec => []MailInv
  BY MailSafe, PTL
<1> QED
  BY <1>1, <1>2, <1>3, PTL DEF MailboxSpec, MailboxIsChannel, MailChannel!FifoSpec

(* No wake-up is lost on either side of the mailbox, as long as it is not  *)
(* detached while a woken thread is still to look at it.                   *)
THEOREM MailNoLostWakeup ==
  ASSUME "late" \notin Relaxed
  PROVE  MailboxSpec => []MailServed
<1>1. MailInv /\ DetachInv /\ MailServe /\ [MailboxNext]_mailboxVars
        => MailInv' /\ DetachInv' /\ MailServe'
  BY MailStepGood DEF MailGood
<1>2. MailServe => MailServed
  BY DEF MailServe, MailServed
<1> QED
  BY <1>1, <1>2, MailStart, PTL DEF MailboxSpec

-----------------------------------------------------------------------------
(* Objects with one list: the steps of their threads *)

(* Where a thread is that is not in a call that changes the object. *)
Aside == {"run", "block", "woken"}

(* A step of the kernel calls that are not about the object, or of an      *)
(* interrupt: who waits, who is woken, whose timer runs.                   *)
AsideStep(L) ==
  /\ Steps(L, {}) /\ \A w \in WaitList : Woken(w) \cap L = {}
  /\ \A t \in Thread : pc'[t] = pc[t] \/ (pc[t].op \in Aside /\ pc'[t].op \in Aside)
  /\ \A t \in Thread, w \in WaitList : Inside(t, w)' => Inside(t, w)
  /\ k'.wait = k.wait \/ \E t \in k.timer : k'.wait = Unwait(k, t)
  /\ \A t \in k'.timer : t \in k.timer \/ k.stat[t] = "READY"

(* Every one of them is such a step. *)
LEMMA ObjectCallStep ==
  ASSUME IpcInv, ObjectCall
  PROVE  \E L \in SUBSET Thread : AsideStep(L)
<1>1. /\ k.stat \in [Thread -> Stat] /\ k.timer \subseteq Thread
      /\ \A w \in WaitList : Woken(w) \cap {} = {}
  BY DEF IpcInv, Sound, KernelState
<1>2. CASE Tick \/ TickEnd
  <2>1. Steps({}, {}) /\ pc' = pc
    BY <1>2, TickWakes
  <2>2. k'.wait = k.wait /\ k'.timer = k.timer
    BY <1>2, TickStep, TickEndStep DEF Quiet
  <2>3. AsideStep({})
    BY <1>1, <2>1, <2>2 DEF AsideStep, Inside
  <2> QED
    BY <2>3
<1>3. ASSUME NEW t \in Thread, Timeout(t)
      PROVE  \E L \in SUBSET Thread : AsideStep(L)
  <2>1. Steps({}, {}) /\ pc' = pc
    BY <1>3, TimeoutWakes
  <2>2. k'.wait = Unwait(k, t) /\ k'.timer = k.timer \ {t} /\ t \in k.timer
    BY <1>3, TimeoutStep
  <2>3. AsideStep({})
    BY <1>1, <2>1, <2>2 DEF AsideStep, Inside
  <2> QED
    BY <2>3
<1>4. CASE BlockSchedule
  <2>1. Steps({}, {}) /\ Moves("woken", pc[me].on) /\ me \in Thread /\ pc[me].op = "block"
    BY <1>4, BlockScheduleWakes
  <2>2. k'.wait = k.wait /\ k'.timer = k.timer
    BY <1>4, BlockScheduleStep DEF Quiet
  <2>3. \A t \in Thread : pc'[t] = pc[t] \/ (pc[t].op \in Aside /\ pc'[t].op \in Aside)
    BY <2>1 DEF Moves, Aside
  <2>4. \A t \in Thread, w \in WaitList : Inside(t, w)' => Inside(t, w)
    BY <2>1 DEF Moves, Inside
  <2>5. AsideStep({})
    BY <1>1, <2>1, <2>2, <2>3, <2>4 DEF AsideStep
  <2> QED
    BY <2>5
<1>5. CASE rt_thread_sleep
  <2>1. Steps({me}, {}) /\ me \in Thread /\ Moves("block", {}) /\ pc[me].op = "run"
    BY <1>5, CallWakes DEF rt_thread_sleep, SleepReturn, Schedule, Calls, At
  <2>2. k'.wait = k.wait /\ k'.timer = k.timer \cup {me} /\ k.stat[me] = "READY"
    BY <1>5, SleepStep
  <2>3. \A t \in Thread : pc'[t] = pc[t] \/ (pc[t].op \in Aside /\ pc'[t].op \in Aside)
    BY <2>1 DEF Moves, Aside
  <2>4. \A t \in Thread, w \in WaitList : Inside(t, w)' => Inside(t, w)
    BY <2>1 DEF Moves, Inside
  <2>5. \A w \in WaitList : Woken(w) \cap {me} = {}
    BY <2>1 DEF Woken, Inside
  <2>6. AsideStep({me})
    BY <1>1, <2>1, <2>2, <2>3, <2>4, <2>5 DEF AsideStep
  <2> QED
    BY <2>1, <2>6
<1>6. CASE SleepReturn
  <2>1. Steps({me}, {}) /\ me \in Thread /\ Moves("run", {}) /\ pc[me].op = "woken"
    BY <1>6, CallWakes DEF rt_thread_sleep, SleepReturn, Schedule, Calls, At
  <2>2. k'.wait = k.wait /\ k'.timer = k.timer
    BY <1>6, SleepReturnStep
  <2>3. \A t \in Thread : pc'[t] = pc[t] \/ (pc[t].op \in Aside /\ pc'[t].op \in Aside)
    BY <2>1 DEF Moves, Aside
  <2>4. \A t \in Thread, w \in WaitList : Inside(t, w)' => Inside(t, w)
    BY <2>1 DEF Moves, Inside
  <2>5. \A w \in WaitList : Woken(w) \cap {me} = {}
    BY <1>6 DEF SleepReturn, Woken, Inside
  <2>6. AsideStep({me})
    BY <1>1, <2>1, <2>2, <2>3, <2>4, <2>5 DEF AsideStep
  <2> QED
    BY <2>1, <2>6
<1> QED
  BY <1>2, <1>3, <1>4, <1>5, <1>6 DEF ObjectCall

(* Such a step has no part in a detach. *)
LEMMA AsideDetach ==
  ASSUME IpcInv, NEW L, AsideStep(L), live' = live, DetachInv
  PROVE  DetachInv'
<1>1. \A t \in Thread : /\ Detaches(pc'[t]) <=> Detaches(pc[t])
                        /\ Detaches(pc[t]) => pc'[t] = pc[t]
  BY DEF AsideStep, Aside, Detaches
<1>2. Steps(L, {})
  BY DEF AsideStep
<1> QED
  BY <1>1, <1>2, DetachKept

(* The detach of an object with one list: *)
DetachesOne ==
  \/ Detach(receivers)
  \/ (DetachTest(receivers) \/ DetachBody(receivers)) /\ UNCHANGED object
  \/ DetachObject(receivers)

(* its steps wake nobody without an error, and follow each other as        *)
(* DetachInv says.                                                         *)
LEMMA DetachOneStep ==
  ASSUME IpcInv, DetachesOne, live \in BOOLEAN
  PROVE  /\ Steps({me}, {}) /\ me \in Thread /\ pc[me].op \in {"run", "detach", "rouse"}
         /\ \E o \in {"run", "detach", "rouse"}, S \in SUBSET {receivers} : Moves(o, S)
         /\ kind' = kind /\ flag' = flag /\ arg' = arg /\ live' \in BOOLEAN
         /\ "late" \notin Relaxed /\ DetachInv /\ k.wait[senders] = <<>> => DetachInv'
<1>1. /\ receivers \in WaitList /\ {receivers} \in SUBSET WaitList
      /\ WaitList = {receivers, senders} /\ receivers # senders
  BY ListsKnown
<1>2. CASE Detach(receivers)
  <2>1. /\ At("run") /\ me # Idle /\ k' = k /\ "detach" \in Op \ {"block", "woken"}
        /\ pc' = [pc EXCEPT ![me] = [op |-> "detach", on |-> {receivers}]]
        /\ kind' = kind /\ flag' = flag /\ live' = live /\ arg' = arg /\ pc[me].op = "run"
    BY <1>2 DEF Detach, Calls, At, Goto, object, kept, Op
  <2>2. Steps({me}, {}) /\ Moves("detach", {receivers}) /\ me \in Thread
    BY <1>1, <2>1, GotoWakes
  <2>3. ASSUME "late" \notin Relaxed, DetachInv PROVE DetachInv'
    BY <1>1, <1>2, <2>3, DetachBegins
  <2> QED
    BY <2>1, <2>2, <2>3
<1>3. CASE (DetachTest(receivers) \/ DetachBody(receivers)) /\ UNCHANGED object
  <2>1. kind' = kind /\ flag' = flag /\ live' = live /\ arg' = arg
    BY <1>3 DEF object, kept
  <2>2. PICK o \in {"detach", "rouse"} :
          /\ Steps({me}, {}) /\ Moves(o, {receivers}) /\ me \in Thread
          /\ pc[me].op \in {"detach", "rouse"}
    <3>1. CASE DetachTest(receivers)
      <4>1. /\ At("detach") /\ k' = k /\ "rouse" \in Op \ {"block", "woken"}
            /\ pc' = [pc EXCEPT ![me] = [op |-> "rouse", on |-> {receivers}]]
            /\ pc[me].op = "detach"
        BY <3>1 DEF DetachTest, Goto, Op, At
      <4>2. me # Idle
        BY <4>1 DEF At, IpcInv, Located
      <4> QED
        BY <1>1, <4>1, <4>2, GotoWakes
    <3>2. CASE DetachBody(receivers)
      BY <1>1, <3>2, DetachBodyWakes
    <3> QED
      BY <1>3, <3>1, <3>2
  <2>3. ASSUME DetachInv PROVE DetachInv'
    <3>1. Detaches(pc[me])
      BY <2>2 DEF Detaches
    <3> QED
      BY <1>1, <2>1, <2>2, <2>3, <3>1, DetachGoesOn
  <2> QED
    BY <2>1, <2>2, <2>3
<1>4. CASE DetachObject(receivers)
  <2>1. /\ At("detach") /\ k' = k /\ Return /\ k.wait[receivers] = <<>>
        /\ kind' = kind /\ flag' = flag /\ live' = FALSE /\ arg' = arg /\ pc[me].op = "detach"
    BY <1>4 DEF At, DetachObject, DetachEnd
  <2>2. me # Idle
    BY <2>1 DEF At, IpcInv, Located
  <2>3. Steps({me}, {}) /\ Moves("run", {}) /\ me \in Thread
    BY <2>1, <2>2, ReturnWakes
  <2>4. ASSUME DetachInv, k.wait[senders] = <<>> PROVE DetachInv'
    <3>1. Detaches(pc[me])
      BY <2>1 DEF Detaches
    <3>2. \A w \in WaitList : k'.wait[w] = <<>>
      BY <1>1, <2>1, <2>4
    <3> QED
      BY <2>1, <2>3, <2>4, <3>1, <3>2, DetachEnds
  <2> QED
    BY <2>1, <2>3, <2>4
<1> QED
  BY <1>2, <1>3, <1>4 DEF DetachesOne

-----------------------------------------------------------------------------
(* The memory pool: its blocks *)

(* A list without repetition is no longer than the set of its elements. *)
LEMMA OnceLength ==
  ASSUME NEW D, IsFiniteSet(D), NEW s \in Seq(D), Once(s)
  PROVE  Len(s) <= Cardinality(D) /\ Len(s) \in Nat /\ Cardinality(D) \in Nat
<1>1. Len(s) \in Nat /\ DOMAIN s = 1 .. Len(s) /\ s \in [1 .. Len(s) -> D]
  OBVIOUS
<1>2. s \in Injection(1 .. Len(s), D)
  BY <1>1 DEF Injection, IsInjective, Once
<1>3. Cardinality(1 .. Len(s)) <= Cardinality(D)
  BY <1>2, FS_Injection
<1>4. Cardinality(1 .. Len(s)) = IF 1 > Len(s) THEN 0 ELSE Len(s) - 1 + 1
  BY <1>1, FS_Interval
<1> QED
  BY <1>1, <1>3, <1>4, FS_CardinalityType

(* rt_list_remove of a thread in the list makes it shorter by one. *)
LEMMA WithoutLength ==
  ASSUME NEW s \in Seq(Thread), NEW t \in Thread, In(t, s)
  PROVE  Len(Without(s, t)) = Len(s) - 1
<1> DEFINE i == CHOOSE i \in DOMAIN s : s[i] = t
<1>1. i \in 1 .. Len(s) /\ Len(s) \in Nat
  BY DEF In
<1>2. Without(s, t) = [j \in 1 .. Len(s) - 1 |-> IF j < i THEN s[j] ELSE s[j + 1]]
  BY DEF Without, In
<1> HIDE DEF i
<1> DEFINE F(j) == IF j < i THEN s[j] ELSE s[j + 1]
           n == Len(s) - 1
<1>3. n \in Nat /\ Without(s, t) = [j \in 1 .. n |-> F(j)]
  BY <1>1, <1>2
<1> HIDE DEF F
<1>4. Len(Without(s, t)) = n
  <2> HIDE DEF n
  <2>1. Without(s, t) \in Seq(Thread) /\ DOMAIN Without(s, t) = 1 .. n
    BY <1>3, WithoutType
  <2> QED
    BY <1>3, <2>1
<1> QED
  BY <1>4

(* Every block is on the list, once, or in use, and the counter counts.    *)
BlocksOK(p) ==
  /\ p \in [list : Seq(BlockSet), free : Nat, pended : Nat, used : SUBSET BlockSet]
  /\ Once(p.list) /\ \A b \in BlockSet : In(b, p.list) <=> b \notin p.used
  /\ p.free = Len(p.list)

(* A pool by its fields. *)
Pool(list, free, pended, used) ==
  [list |-> list, free |-> free, pended |-> pended, used |-> used]

(* PopBlock by the fields, *)
LEMMA PopFields ==
  ASSUME NEW l, NEW f, NEW n, NEW u
  PROVE  PopBlock(Pool(l, f, n, u)) = Pool(Tail(l), f - 1, n, u \cup {Head(l)})
<1> DEFINE p == Pool(l, f, n, u)
           x == f - 1
           y == Tail(l)
           z == u \cup {Head(l)}
<1>1. p.list = l /\ p.free = f /\ p.used = u
  BY DEF Pool
<1>2. PopBlock(p) = [p EXCEPT !.free = p.free - 1, !.list = Tail(p.list), !.used = p.used \cup {Head(p.list)}]
  BY DEF PopBlock
<1> HIDE DEF p
<1>3. PopBlock(p) = [p EXCEPT !.free = x, !.list = y, !.used = z]
  BY <1>1, <1>2
<1> HIDE DEF x, y, z
<1>4. [p EXCEPT !.free = x, !.list = y, !.used = z]
        = [[[p EXCEPT !.free = x] EXCEPT !.list = y] EXCEPT !.used = z]
  OBVIOUS
<1>5. [p EXCEPT !.free = x] = Pool(l, x, n, u)
  BY DEF p, Pool
<1>6. [Pool(l, x, n, u) EXCEPT !.list = y] = Pool(y, x, n, u)
  BY DEF Pool
<1>7. [Pool(y, x, n, u) EXCEPT !.used = z] = Pool(y, x, n, z)
  BY DEF Pool
<1> QED
  BY <1>3, <1>4, <1>5, <1>6, <1>7 DEF p, x, y, z

(* and PushBlock. *)
LEMMA PushFields ==
  ASSUME NEW l, NEW f, NEW n, NEW u, NEW b
  PROVE  PushBlock(Pool(l, f, n, u), b) = Pool(<<b>> \o l, f + 1, n, u \ {b})
<1> DEFINE p == Pool(l, f, n, u)
           x == f + 1
           y == <<b>> \o l
           z == u \ {b}
<1>1. p.list = l /\ p.free = f /\ p.used = u
  BY DEF Pool
<1>2. PushBlock(p, b) = [p EXCEPT !.free = p.free + 1, !.list = <<b>> \o p.list, !.used = p.used \ {b}]
  BY DEF PushBlock
<1> HIDE DEF p
<1>3. PushBlock(p, b) = [p EXCEPT !.free = x, !.list = y, !.used = z]
  BY <1>1, <1>2
<1> HIDE DEF x, y, z
<1>4. [p EXCEPT !.free = x, !.list = y, !.used = z]
        = [[[p EXCEPT !.free = x] EXCEPT !.list = y] EXCEPT !.used = z]
  OBVIOUS
<1>5. [p EXCEPT !.free = x] = Pool(l, x, n, u)
  BY DEF p, Pool
<1>6. [Pool(l, x, n, u) EXCEPT !.list = y] = Pool(y, x, n, u)
  BY DEF Pool
<1>7. [Pool(y, x, n, u) EXCEPT !.used = z] = Pool(y, x, n, z)
  BY DEF Pool
<1> QED
  BY <1>3, <1>4, <1>5, <1>6, <1>7 DEF p, x, y, z

(* The first block leaves the list, *)
LEMMA PopOK ==
  ASSUME NEW p, BlocksOK(p), p.list # <<>>
  PROVE  BlocksOK(PopBlock(p)) /\ PopBlock(p).free = p.free - 1 /\ PopBlock(p).pended = p.pended
<1> DEFINE l == p.list
           m == Tail(l)
           b == Head(l)
           q == PopBlock(p)
<1>1. /\ l \in Seq(BlockSet) /\ l # <<>> /\ Once(l) /\ p.used \subseteq BlockSet /\ p.free = Len(l)
      /\ \A c \in BlockSet : In(c, l) <=> c \notin p.used
      /\ p \in [list : Seq(BlockSet), free : Nat, pended : Nat, used : SUBSET BlockSet]
  BY DEF BlocksOK
<1>2. /\ Len(l) \in Nat \ {0} /\ DOMAIN l = 1 .. Len(l) /\ m \in Seq(BlockSet)
      /\ Len(m) = Len(l) - 1 /\ DOMAIN m = 1 .. Len(l) - 1 /\ b = l[1] /\ b \in BlockSet
      /\ \A i \in 1 .. Len(l) - 1 : m[i] = l[i + 1]
  BY <1>1
<1>3. /\ q.list = m /\ q.free = p.free - 1 /\ q.pended = p.pended /\ q.used = p.used \cup {b}
      /\ q = [list |-> m, free |-> p.free - 1, pended |-> p.pended, used |-> p.used \cup {b}]
  <2> DEFINE f == p.free
             n == p.pended
             u == p.used
  <2>1. p = Pool(l, f, n, u)
    BY <1>1 DEF Pool
  <2>2. PopBlock(Pool(l, f, n, u)) = Pool(Tail(l), f - 1, n, u \cup {Head(l)})
    <3> HIDE DEF l, f, n, u
    <3> QED
      BY PopFields
  <2> QED
    BY <2>1, <2>2 DEF Pool
<1> HIDE DEF l, m, b, q
<1>4. Once(m)
  <2> SUFFICES ASSUME NEW i \in DOMAIN m, NEW j \in DOMAIN m, m[i] = m[j] PROVE i = j
    BY DEF Once
  <2>1. i + 1 \in DOMAIN l /\ j + 1 \in DOMAIN l /\ l[i + 1] = l[j + 1] /\ i \in Nat /\ j \in Nat
    BY <1>2
  <2>2. i + 1 = j + 1
    BY <1>1, <2>1 DEF Once
  <2> QED
    BY <2>1, <2>2
<1>5. ASSUME NEW c \in BlockSet PROVE In(c, m) <=> In(c, l) /\ c # b
  <2>1. ASSUME In(c, m) PROVE In(c, l) /\ c # b
    <3>1. PICK i \in 1 .. Len(l) - 1 : m[i] = c
      BY <1>2, <2>1 DEF In
    <3>2. i + 1 \in DOMAIN l /\ 1 \in DOMAIN l /\ l[i + 1] = c /\ i + 1 # 1
      BY <1>2, <3>1
    <3> QED
      BY <1>1, <1>2, <3>2 DEF In, Once
  <2>2. ASSUME In(c, l), c # b PROVE In(c, m)
    <3>1. PICK i \in 1 .. Len(l) : l[i] = c
      BY <1>2, <2>2 DEF In
    <3>2. i - 1 \in 1 .. Len(l) - 1 /\ m[i - 1] = c
      BY <1>2, <2>2, <3>1
    <3> QED
      BY <1>2, <3>2 DEF In
  <2> QED
    BY <2>1, <2>2
<1>6. \A c \in BlockSet : In(c, m) <=> c \notin p.used \cup {b}
  BY <1>1, <1>5
<1>7. p.free - 1 \in Nat /\ p.free - 1 = Len(m)
  BY <1>1, <1>2
<1>8. q \in [list : Seq(BlockSet), free : Nat, pended : Nat, used : SUBSET BlockSet]
  BY <1>1, <1>2, <1>3, <1>7
<1> QED
  BY <1>3, <1>4, <1>6, <1>7, <1>8 DEF BlocksOK, q

(* or one in use comes back. *)
LEMMA PushOK ==
  ASSUME NEW p, BlocksOK(p), NEW b \in p.used
  PROVE  /\ BlocksOK(PushBlock(p, b)) /\ PushBlock(p, b).free = p.free + 1
         /\ PushBlock(p, b).pended = p.pended
<1> DEFINE l == p.list
           m == <<b>> \o l
           q == PushBlock(p, b)
<1>1. /\ l \in Seq(BlockSet) /\ Once(l) /\ p.used \subseteq BlockSet /\ p.free = Len(l)
      /\ \A c \in BlockSet : In(c, l) <=> c \notin p.used
      /\ b \in BlockSet /\ ~In(b, l)
      /\ p \in [list : Seq(BlockSet), free : Nat, pended : Nat, used : SUBSET BlockSet]
  BY DEF BlocksOK
<1>2. /\ Len(l) \in Nat /\ DOMAIN l = 1 .. Len(l) /\ m \in Seq(BlockSet)
      /\ Len(m) = Len(l) + 1 /\ DOMAIN m = 1 .. Len(l) + 1
      /\ \A i \in 1 .. Len(l) + 1 : m[i] = IF i = 1 THEN b ELSE l[i - 1]
  BY <1>1
<1>3. /\ q.list = m /\ q.free = p.free + 1 /\ q.pended = p.pended /\ q.used = p.used \ {b}
      /\ q = [list |-> m, free |-> p.free + 1, pended |-> p.pended, used |-> p.used \ {b}]
  <2> DEFINE f == p.free
             n == p.pended
             u == p.used
  <2>1. p = Pool(l, f, n, u)
    BY <1>1 DEF Pool
  <2>2. PushBlock(Pool(l, f, n, u), b) = Pool(<<b>> \o l, f + 1, n, u \ {b})
    <3> HIDE DEF l, f, n, u
    <3> QED
      BY PushFields
  <2> QED
    BY <2>1, <2>2 DEF Pool
<1> HIDE DEF l, m, q
<1>4. Once(m)
  <2> SUFFICES ASSUME NEW i \in DOMAIN m, NEW j \in DOMAIN m, m[i] = m[j] PROVE i = j
    BY DEF Once
  <2>1. \A n \in DOMAIN m : n # 1 => n - 1 \in DOMAIN l /\ m[n] = l[n - 1] /\ m[n] # b
    BY <1>1, <1>2 DEF In
  <2>2. m[1] = b
    BY <1>2
  <2>3. CASE i = 1 \/ j = 1
    BY <2>1, <2>2, <2>3
  <2>4. CASE i # 1 /\ j # 1
    <3>1. i - 1 = j - 1
      BY <1>1, <2>1, <2>4 DEF Once
    <3> QED
      BY <1>2, <3>1
  <2> QED
    BY <2>3, <2>4
<1>5. ASSUME NEW c \in BlockSet PROVE In(c, m) <=> In(c, l) \/ c = b
  <2>1. ASSUME In(c, m) PROVE In(c, l) \/ c = b
    BY <1>2, <2>1 DEF In
  <2>2. ASSUME In(c, l) PROVE In(c, m)
    <3>1. PICK i \in 1 .. Len(l) : l[i] = c
      BY <1>2, <2>2 DEF In
    <3>2. i + 1 \in DOMAIN m /\ m[i + 1] = c
      BY <1>2, <3>1
    <3> QED
      BY <3>2 DEF In
  <2>3. In(b, m)
    <3>1. 1 \in DOMAIN m /\ m[1] = b
      BY <1>2
    <3> QED
      BY <3>1 DEF In
  <2> QED
    BY <2>1, <2>2, <2>3
<1>6. \A c \in BlockSet : In(c, m) <=> c \notin p.used \ {b}
  BY <1>1, <1>5
<1>7. p.free + 1 \in Nat /\ p.free + 1 = Len(m)
  BY <1>1, <1>2
<1>8. q \in [list : Seq(BlockSet), free : Nat, pended : Nat, used : SUBSET BlockSet]
  BY <1>1, <1>2, <1>3, <1>7
<1> QED
  BY <1>3, <1>4, <1>6, <1>7, <1>8 DEF BlocksOK, q

(* A new pool has all its blocks on the list. *)
LEMMA FreshOK == BlocksOK(FreshPool) /\ FreshPool.pended = 0 /\ FreshPool.free = MP_BLOCKS
<1> DEFINE l == [i \in BlockSet |-> i]
<1>1. MP_BLOCKS \in Nat
  BY MemPoolAssumption
<1>2. l \in Seq(BlockSet) /\ Len(l) = MP_BLOCKS /\ DOMAIN l = BlockSet
  BY <1>1 DEF BlockSet
<1>3. \A i \in BlockSet : l[i] = i
  OBVIOUS
<1>4. FreshPool = [list |-> l, free |-> MP_BLOCKS, pended |-> 0, used |-> {}]
  BY DEF FreshPool
<1> HIDE DEF l
<1>5. Once(l) /\ \A b \in BlockSet : In(b, l)
  BY <1>2, <1>3 DEF Once, In
<1> QED
  BY <1>1, <1>2, <1>4, <1>5 DEF BlocksOK

(* The other counter is not about blocks. *)
LEMMA PendedOK ==
  ASSUME NEW p, BlocksOK(p), NEW n \in Nat
  PROVE  LET q == [p EXCEPT !.pended = n]
         IN  BlocksOK(q) /\ q.free = p.free /\ q.pended = n
BY DEF BlocksOK

(* BlocksOK counts each block as BlocksAccounted does. *)
LEMMA BlocksCounted ==
  ASSUME NEW p, BlocksOK(p), NEW b \in BlockSet
  PROVE  Cardinality({i \in DOMAIN p.list : p.list[i] = b}) = IF b \in p.used THEN 0 ELSE 1
<1> DEFINE I == {i \in DOMAIN p.list : p.list[i] = b}
<1>1. CASE b \in p.used
  <2>1. I = {}
    BY <1>1 DEF BlocksOK, In
  <2> QED
    BY <1>1, <2>1, FS_EmptySet
<1>2. CASE b \notin p.used
  <2>1. PICK i \in DOMAIN p.list : p.list[i] = b
    BY <1>2 DEF BlocksOK, In
  <2>2. I = {i}
    BY <2>1 DEF BlocksOK, Once
  <2> QED
    BY <1>2, <2>2, FS_Singleton
<1> QED
  BY <1>1, <1>2

-----------------------------------------------------------------------------
(* The memory pool: its invariants *)

PoolTypes ==
  /\ kind = "pool" /\ flag \in Flags /\ live \in BOOLEAN
  /\ arg \in [Thread -> [time : Time, data : {} \cup {NoData}]]

(* The pool has one list only. *)
Unsent == k.wait[senders] = <<>>

(* suspend_thread_count is at least the number of waiters: a timeout takes *)
(* a thread off the list and leaves the counter alone.                     *)
Pended == Len(k.wait[receivers]) <= mp.pended /\ mp.pended <= MaxPended

(* Nor does it run out inside the detach loop, whose test saw a waiter. *)
RousePended == \A t \in Thread : pc[t].op = "rouse" => mp.pended > 0

PoolInv ==
  DetachInv /\ BlocksOK(mp) /\ Served(mp.free, receivers) /\ Pended /\ RousePended /\ Unsent

(* What is shown of a step. *)
PoolGood == IpcInv' /\ PoolTypes' /\ ("late" \notin Relaxed /\ PoolInv => PoolInv')

(* The types of the variables that only detach and init change. *)
LEMMA PoolTypesKept ==
  ASSUME PoolTypes, kind' = kind, flag' \in Flags, live' \in BOOLEAN, arg' = arg
  PROVE  PoolTypes'
BY DEF PoolTypes

(* What the counters and the list are. *)
LEMMA PoolCounts ==
  ASSUME IpcInv, PoolInv
  PROVE  /\ k.wait[receivers] \in Seq(Thread) /\ Len(k.wait[receivers]) \in Nat
         /\ mp.free \in Nat /\ mp.pended \in Nat /\ MaxPended \in Nat
         /\ Len(k.wait[receivers]) <= mp.pended /\ mp.pended <= MaxPended
         /\ k.wait[receivers] # <<>> => Len(k.wait[receivers]) >= 1
<1>1. k.wait[receivers] \in Seq(Thread)
  BY ListsKnown DEF IpcInv, Sound, KernelState
<1>2. Len(k.wait[receivers]) \in Nat /\ (k.wait[receivers] # <<>> => Len(k.wait[receivers]) >= 1)
  BY <1>1
<1>3. mp.free \in Nat /\ mp.pended \in Nat
  BY DEF PoolInv, BlocksOK
<1> QED
  BY <1>1, <1>2, <1>3, MemPoolAssumption DEF PoolInv, Pended

(* A thread that leaves the list makes it shorter, and no other change     *)
(* makes it longer.                                                        *)
LEMMA UnwaitLength ==
  ASSUME IpcInv, NEW t \in Thread, k'.wait = Unwait(k, t)
  PROVE  /\ Len(k'.wait[receivers]) <= Len(k.wait[receivers])
         /\ In(t, k.wait[receivers]) => Len(k'.wait[receivers]) = Len(k.wait[receivers]) - 1
<1>1. receivers \in WaitList /\ k.wait[receivers] \in Seq(Thread) /\ Len(k.wait[receivers]) \in Nat
  BY ListsKnown DEF IpcInv, Sound, KernelState
<1>2. k'.wait[receivers] = Without(k.wait[receivers], t)
  BY <1>1 DEF Unwait
<1>3. CASE In(t, k.wait[receivers])
  BY <1>1, <1>2, <1>3, WithoutLength
<1>4. CASE ~In(t, k.wait[receivers])
  BY <1>1, <1>2, <1>4, WithoutAbsent
<1> QED
  BY <1>3, <1>4

(* The invariant after a step that leaves the pool alone, puts nobody on   *)
(* the list and lets no woken thread leave.                                *)
LEMMA PoolKept ==
  ASSUME IpcInv, PoolInv, NEW L, Steps(L, {}), Woken(receivers) \cap L = {}, mp' = mp,
         Len(k'.wait[receivers]) <= Len(k.wait[receivers]), DetachInv',
         \A t \in Thread : pc'[t].op = "rouse" => pc[t].op = "rouse" \/ k.wait[receivers] # <<>>
  PROVE  PoolInv'
<1>1. receivers \in WaitList /\ senders \in WaitList
  BY ListsKnown
<1>2. /\ Len(k.wait[receivers]) \in Nat /\ mp.free \in Nat /\ mp.pended \in Nat
      /\ Len(k.wait[receivers]) <= mp.pended /\ mp.pended <= MaxPended
      /\ k.wait[receivers] # <<>> => Len(k.wait[receivers]) >= 1
  BY PoolCounts
<1>3. k'.wait[receivers] \in Seq(Thread) /\ Len(k'.wait[receivers]) \in Nat
  BY <1>1 DEF Steps, IpcInv, Sound, KernelState
<1>4. Pended'
  BY <1>2, <1>3 DEF Pended
<1>5. RousePended'
  BY <1>2 DEF RousePended, PoolInv
<1>6. Served(mp.free, receivers)'
  <2>1. mp.free \in Int /\ mp.free <= mp.free /\ Served(mp.free, receivers)
    BY <1>2 DEF PoolInv
  <2>2. k'.wait[receivers] # <<>> => mp.free <= Cardinality(Woken(receivers)')
    BY <1>1, <2>1, ServedKept
  <2> QED
    BY <2>2 DEF Served
<1>7. Unsent'
  BY <1>1, NotEmptyBefore DEF Steps, PoolInv, Unsent
<1> QED
  BY <1>4, <1>5, <1>6, <1>7 DEF PoolInv

(* Nobody is inside the detach loop of a pool in use. *)
LEMMA UsableRouse ==
  ASSUME Usable, \A t \in Thread : Detaches(pc'[t]) => Detaches(pc[t])
  PROVE  RousePended'
<1>1. \A t \in Thread : ~Detaches(pc'[t])
  BY DetachingKnown DEF Usable
<1> QED
  BY <1>1 DEF RousePended, Detaches

(* A step that changes neither thread nor kernel. *)
LEMMA StillWaits ==
  ASSUME IpcInv, k' = k, pc' = pc
  PROVE  IpcInv' /\ \A w \in WaitList : Woken(w)' = Woken(w)
BY DEF IpcInv, IpcTypeOK, Woken, Inside

(* The kernel calls that are not about the pool, and the interrupts. *)
LEMMA PoolAside ==
  ASSUME IpcInv, PoolTypes, ObjectCall, mp' = mp
  PROVE  PoolGood
<1>1. PICK L \in SUBSET Thread : AsideStep(L)
  BY ObjectCallStep
<1>2. /\ kind' = kind /\ flag' \in Flags /\ live' = live /\ live' \in BOOLEAN /\ arg' = arg
      /\ receivers \in WaitList /\ senders \in WaitList
  BY ListsKnown DEF ObjectCall, object, kept, PoolTypes
<1>3. IpcInv' /\ PoolTypes' /\ Steps(L, {})
  BY <1>1, <1>2, PoolTypesKept DEF AsideStep, Steps
<1>4. ASSUME PoolInv PROVE PoolInv'
  <2>1. k.timer \subseteq Thread /\ Len(k.wait[receivers]) \in Nat
    BY <1>4, PoolCounts DEF IpcInv, Sound, KernelState
  <2>2. Len(k'.wait[receivers]) <= Len(k.wait[receivers])
    <3>1. CASE k'.wait = k.wait
      BY <2>1, <3>1
    <3>2. ASSUME NEW t \in k.timer, k'.wait = Unwait(k, t)
          PROVE  Len(k'.wait[receivers]) <= Len(k.wait[receivers])
      BY <2>1, <3>2, UnwaitLength
    <3> QED
      BY <1>1, <3>1, <3>2 DEF AsideStep
  <2>3. \A t \in Thread : pc'[t].op = "rouse" => pc[t].op = "rouse"
    BY <1>1 DEF AsideStep, Aside
  <2>4. DetachInv'
    BY <1>1, <1>2, <1>4, AsideDetach DEF PoolInv
  <2>5. Woken(receivers) \cap L = {}
    BY <1>1, <1>2 DEF AsideStep
  <2> QED
    BY <1>3, <1>4, <2>2, <2>3, <2>4, <2>5, PoolKept
<1> QED
  BY <1>3, <1>4 DEF PoolGood

(* The rt_schedule of a free. *)
LEMMA PoolSchedule ==
  ASSUME IpcInv, PoolTypes, Schedule, UNCHANGED object, mp' = mp
  PROVE  PoolGood
<1>1. Steps({me}, {}) /\ me \in Thread /\ Moves("run", {}) /\ pc[me].op = "sched"
  BY CallWakes DEF rt_thread_sleep, SleepReturn, Schedule, Calls, At
<1>2. k'.wait = k.wait
  BY ScheduleStep DEF Quiet
<1>3. kind' = kind /\ flag' \in Flags /\ live' = live /\ live' \in BOOLEAN /\ arg' = arg
  BY DEF object, kept, PoolTypes
<1>4. IpcInv' /\ PoolTypes'
  BY <1>1, <1>3, PoolTypesKept DEF Steps
<1>5. ASSUME PoolInv PROVE PoolInv'
  <2>1. DetachInv'
    BY <1>1, <1>3, <1>5, OthersDetach, DetachKept DEF PoolInv
  <2>2. Woken(receivers) \cap {me} = {}
    BY <1>1 DEF Woken, Inside
  <2>3. Len(k'.wait[receivers]) <= Len(k.wait[receivers])
    BY <1>2, <1>5, PoolCounts
  <2>4. \A t \in Thread : pc'[t].op = "rouse" => pc[t].op = "rouse"
    BY <1>1 DEF Moves
  <2> QED
    BY <1>1, <1>5, <2>1, <2>2, <2>3, <2>4, PoolKept
<1> QED
  BY <1>4, <1>5 DEF PoolGood

(* The first part of rt_mp_alloc that has to wait: the thread goes to the  *)
(* front of the list.                                                      *)
LEMMA PoolBlock ==
  ASSUME IpcInv, Calls, NEW time, Goto("block", receivers),
         k' = LET s == rt_thread_suspend(k, me)
              IN  [s EXCEPT !.wait[receivers] = <<me>> \o @,
                            !.timer = IF time = "ticks" THEN @ \cup {me} ELSE @]
  PROVE  /\ IpcInv' /\ Moves("block", {receivers}) /\ me \in Thread /\ pc[me].op = "run"
         /\ k'.wait[receivers] = <<me>> \o k.wait[receivers]
         /\ k'.wait[senders] = k.wait[senders]
         /\ k'.timer = (IF time = "ticks" THEN k.timer \cup {me} ELSE k.timer)
         /\ \A w \in WaitList : Woken(w)' = Woken(w)
<1> DEFINE s == rt_thread_suspend(k, me)
           l == <<me>> \o k.wait[receivers]
           q == [s EXCEPT !.wait[receivers] = l]
           r == [q EXCEPT !.timer = @ \cup {me}]
<1>1. /\ Sound(k) /\ me \in Thread \ {Idle} /\ k.stat[me] = "READY" /\ pc[me].op = "run"
      /\ receivers \in WaitList /\ senders \in WaitList /\ receivers # senders
  BY SelfReady, ListsKnown DEF Calls, At, IpcInv
<1>2. /\ Sound(s) /\ s.stat = [k.stat EXCEPT ![me] = "SUSPEND"]
      /\ s.wait = k.wait /\ s.timer = k.timer /\ s.error = k.error /\ s.current = k.current
  BY <1>1, SuspendSound
<1>3. k' = [s EXCEPT !.wait[receivers] = <<me>> \o s.wait[receivers],
                     !.timer = IF time = "ticks" THEN s.timer \cup {me} ELSE s.timer]
  OBVIOUS
<1> HIDE DEF s
<1>4. /\ k.wait[receivers] \in Seq(Thread) /\ Once(k.wait[receivers])
      /\ \A v \in WaitList : ~In(me, k.wait[v])
      /\ k.stat \in [Thread -> Stat] /\ k.wait \in [WaitList -> Seq(Thread)]
  BY <1>1 DEF Sound, KernelState
<1>5. /\ l \in Seq(Thread) /\ Once(l)
      /\ \A u \in Thread : In(u, l) <=> In(u, k.wait[receivers]) \/ u = me
  BY <1>1, <1>4, PrependElements
<1> HIDE DEF l
<1>6. s.stat[me] = "SUSPEND"
  BY <1>1, <1>2, <1>4
<1>7. /\ Sound(q) /\ q.wait = [s.wait EXCEPT ![receivers] = l]
      /\ \A u \in Thread, v \in WaitList :
           In(u, q.wait[v]) <=> In(u, s.wait[v]) \/ (u = me /\ v = receivers)
      /\ q.stat = s.stat /\ q.timer = s.timer /\ q.error = s.error /\ q.current = s.current
  BY <1>1, <1>2, <1>4, <1>5, <1>6, QueuedSound
<1>8. k' = [q EXCEPT !.timer = IF time = "ticks" THEN s.timer \cup {me} ELSE s.timer]
  BY <1>2, <1>3 DEF l
<1> HIDE DEF q
<1>9. /\ Sound(k') /\ k'.wait = q.wait /\ k'.stat = q.stat /\ k'.error = q.error
      /\ k'.current = q.current
      /\ k'.timer = (IF time = "ticks" THEN k.timer \cup {me} ELSE k.timer)
  <2>1. CASE time = "ticks"
    <3>1. k' = r
      BY <1>7, <1>8, <2>1
    <3>2. /\ Sound(r) /\ r.timer = q.timer \cup {me} /\ r.stat = q.stat /\ r.wait = q.wait
          /\ r.error = q.error /\ r.current = q.current
      BY <1>1, <1>6, <1>7, TimerSound
    <3> HIDE DEF r
    <3> QED
      BY <1>2, <1>7, <2>1, <3>1, <3>2
  <2>2. CASE time # "ticks"
    <3>1. q \in KernelState /\ k' = [q EXCEPT !.timer = q.timer]
      BY <1>7, <1>8, <2>2 DEF Sound
    <3>2. k' = q
      <4> DEFINE x == q.timer
      <4>1. x = q.timer /\ k' = [q EXCEPT !.timer = x]
        BY <3>1
      <4> HIDE DEF x
      <4> QED
        BY <3>1, <4>1 DEF KernelState
    <3> QED
      BY <1>2, <1>7, <2>2, <3>2
  <2> QED
    BY <2>1, <2>2
<1>10. \A u \in Thread, v \in WaitList :
         In(u, k'.wait[v]) <=> In(u, k.wait[v]) \/ (u = me /\ v = receivers)
  BY <1>2, <1>7, <1>9
<1>11. IpcInv'
  <2>1. pc' = [pc EXCEPT ![me] = [op |-> "block", on |-> {receivers}]]
    BY DEF Goto
  <2>2. /\ k'.stat = [k.stat EXCEPT ![me] = "SUSPEND"] /\ k'.current = k.current /\ me # Idle
        /\ {receivers} \in SUBSET WaitList
        /\ \A u \in Thread, v \in WaitList :
             In(u, k'.wait[v]) <=> In(u, k.wait[v]) \/ (u = me /\ v \in {receivers})
    BY <1>1, <1>2, <1>7, <1>9, <1>10
  <2> QED
    BY <1>1, <1>9, <2>1, <2>2, SuspendPlaces
<1>12. Moves("block", {receivers})
  BY MovesIntro DEF Goto
<1>13. k'.wait[receivers] = l /\ k'.wait[senders] = k.wait[senders] /\ k'.error = k.error
  BY <1>1, <1>2, <1>4, <1>7, <1>9
<1>14. ASSUME NEW w \in WaitList PROVE Woken(w)' = Woken(w)
  <2>1. ASSUME NEW t \in Thread PROVE t \in Woken(w)' <=> t \in Woken(w)
    <3>1. CASE t = me
      <4>1. ~Inside(t, w)
        BY <1>1, <3>1 DEF Inside
      <4>2. Inside(t, w)' => w = receivers
        BY <1>12, <3>1 DEF Moves, Inside
      <4>3. w = receivers => In(t, k'.wait[w])
        BY <1>1, <1>10, <3>1
      <4> QED
        BY <4>1, <4>2, <4>3 DEF Woken
    <3>2. CASE t # me
      <4>1. (Inside(t, w)' <=> Inside(t, w)) /\ (In(t, k'.wait[w]) <=> In(t, k.wait[w]))
        BY <1>10, <1>12, <3>2 DEF Moves, Inside
      <4> QED
        BY <1>13, <4>1 DEF Woken
    <3> QED
      BY <3>1, <3>2
  <2>2. Woken(w) \subseteq Thread /\ Woken(w)' \subseteq Thread
    BY DEF Woken
  <2> QED
    BY <2>1, <2>2
<1> QED
  BY <1>1, <1>9, <1>11, <1>12, <1>13, <1>14 DEF l

(* rt_mp_alloc *)
LEMMA PoolAlloc ==
  ASSUME IpcInv, PoolTypes, NEW time \in Time, rt_mp_alloc(time)
  PROVE  PoolGood
<1>1. /\ Calls /\ Usable
      /\ kind' = kind /\ flag' \in Flags /\ live' = live /\ live' \in BOOLEAN /\ arg' = arg
      /\ receivers \in WaitList /\ senders \in WaitList
  BY ListsKnown DEF rt_mp_alloc, object, kept, PoolTypes
<1>2. PoolTypes'
  BY <1>1, PoolTypesKept
<1>3. CASE mp.free > 0 /\ mp' = PopBlock(mp) /\ UNCHANGED <<k, pc>>
  <2>1. IpcInv' /\ \A w \in WaitList : Woken(w)' = Woken(w)
    BY <1>3, StillWaits
  <2>2. ASSUME PoolInv PROVE PoolInv'
    <3>1. mp.list # <<>> /\ mp.free \in Nat /\ BlocksOK(mp)
      BY <1>3, <2>2 DEF PoolInv, BlocksOK
    <3>2. BlocksOK(mp') /\ mp'.free = mp.free - 1 /\ mp'.pended = mp.pended
      BY <1>3, <3>1, PopOK
    <3>3. Served(mp.free, receivers)'
      BY <1>1, <1>3, <2>1, <2>2, <3>1, <3>2, WokenFinite DEF PoolInv, Served
    <3>4. Pended' /\ Unsent'
      BY <1>3, <2>2, <3>2 DEF PoolInv, Pended, Unsent
    <3>5. DetachInv' /\ RousePended'
      BY <1>1, <1>3, UsableAfter, UsableRouse
    <3> QED
      BY <3>2, <3>3, <3>4, <3>5 DEF PoolInv
  <2> QED
    BY <1>2, <2>1, <2>2 DEF PoolGood
<1>4. CASE /\ mp.free = 0 /\ mp.pended < MaxPended /\ Goto("block", receivers)
           /\ mp' = [mp EXCEPT !.pended = @ + 1]
           /\ k' = LET s == rt_thread_suspend(k, me)
                   IN  [s EXCEPT !.wait[receivers] = <<me>> \o @,
                                 !.timer = IF time = "ticks" THEN @ \cup {me} ELSE @]
  <2>1. /\ IpcInv' /\ Moves("block", {receivers}) /\ me \in Thread /\ pc[me].op = "run"
        /\ k'.wait[receivers] = <<me>> \o k.wait[receivers]
        /\ k'.wait[senders] = k.wait[senders]
        /\ \A w \in WaitList : Woken(w)' = Woken(w)
    BY <1>1, <1>4, PoolBlock
  <2>2. ASSUME PoolInv PROVE PoolInv'
    <3>1. /\ mp.pended \in Nat /\ k.wait[receivers] \in Seq(Thread) /\ MaxPended \in Nat
          /\ Len(k.wait[receivers]) \in Nat /\ Len(k.wait[receivers]) <= mp.pended
      BY <2>2, PoolCounts
    <3> DEFINE n == mp.pended + 1
    <3>2. n \in Nat /\ mp' = [mp EXCEPT !.pended = n]
      BY <1>4, <3>1
    <3> HIDE DEF n
    <3>3. BlocksOK(mp') /\ mp'.free = mp.free /\ mp'.pended = n
      BY <2>2, <3>2, PendedOK DEF PoolInv
    <3>4. Served(mp.free, receivers)'
      BY <1>4, <3>3, WokenFinite DEF Served
    <3>5. Pended'
      <4>1. Len(<<me>> \o k.wait[receivers]) = Len(k.wait[receivers]) + 1
        BY <2>1, <3>1
      <4> QED
        BY <1>4, <2>1, <3>1, <3>3, <4>1 DEF Pended, n
    <3>6. Unsent'
      BY <2>1, <2>2 DEF PoolInv, Unsent
    <3>7. DetachInv' /\ RousePended'
      BY <1>1, <2>1, OthersDetach, UsableAfter, UsableRouse
    <3> QED
      BY <3>3, <3>4, <3>5, <3>6, <3>7 DEF PoolInv
  <2> QED
    BY <1>2, <2>1, <2>2 DEF PoolGood
<1> QED
  BY <1>3, <1>4 DEF rt_mp_alloc

(* The end of rt_mp_alloc after a wait: an error, the first block of the   *)
(* list, or none although the thread was woken for one.                    *)
LEMMA PoolReturn ==
  ASSUME IpcInv, PoolTypes, AllocReturn
  PROVE  PoolGood
<1>1. /\ At("woken") /\ pc[me].on = {receivers} /\ pc[me].op = "woken"
      /\ kind' = kind /\ flag' \in Flags /\ live' = live /\ live' \in BOOLEAN /\ arg' = arg
      /\ receivers \in WaitList /\ senders \in WaitList
  BY ListsKnown DEF AllocReturn, At, object, kept, PoolTypes
<1>2. me # Idle /\ me \in Thread /\ k.stat[me] = "READY"
  BY <1>1, SelfReady DEF At, IpcInv, Located
<1>3. CASE k.error[me] # "EOK" /\ k' = k /\ mp' = mp /\ Return
  <2>1. Steps({me}, {}) /\ Moves("run", {})
    BY <1>1, <1>2, <1>3, ReturnWakes
  <2>2. IpcInv' /\ PoolTypes'
    BY <1>1, <2>1, PoolTypesKept DEF Steps
  <2>3. ASSUME PoolInv PROVE PoolInv'
    <3>1. DetachInv'
      BY <1>1, <1>2, <2>1, <2>3, OthersDetach, DetachKept DEF PoolInv
    <3>2. Woken(receivers) \cap {me} = {}
      BY <1>3 DEF Woken
    <3>3. Len(k'.wait[receivers]) <= Len(k.wait[receivers])
      BY <1>3, <2>3, PoolCounts
    <3>4. \A t \in Thread : pc'[t].op = "rouse" => pc[t].op = "rouse"
      BY <2>1 DEF Moves
    <3> QED
      BY <1>3, <2>1, <2>3, <3>1, <3>2, <3>3, <3>4, PoolKept
  <2> QED
    BY <2>2, <2>3 DEF PoolGood
<1>4. CASE k.error[me] = "EOK" /\ mp.list # <<>> /\ mp' = PopBlock(mp) /\ k' = k /\ Return
  <2>1. Steps({me}, {}) /\ Moves("run", {})
    BY <1>1, <1>2, <1>4, ReturnWakes
  <2>2. IpcInv' /\ PoolTypes'
    BY <1>1, <2>1, PoolTypesKept DEF Steps
  <2>3. ASSUME PoolInv PROVE PoolInv'
    <3>1. DetachInv'
      BY <1>1, <1>2, <2>1, <2>3, OthersDetach, DetachKept DEF PoolInv
    <3>2. BlocksOK(mp') /\ mp'.free = mp.free - 1 /\ mp'.pended = mp.pended /\ mp.free \in Nat
      BY <1>4, <2>3, PopOK DEF PoolInv, BlocksOK
    <3>3. Served(mp.free, receivers)'
      <4>1. mp.free \in Int /\ Served(mp.free, receivers)
        BY <2>3, <3>2 DEF PoolInv
      <4>2. k'.wait[receivers] # <<>> => mp.free - 1 <= Cardinality(Woken(receivers)')
        BY <1>1, <2>1, <4>1, ServedLess
      <4> QED
        BY <3>2, <4>2 DEF Served
    <3>4. Pended' /\ Unsent'
      BY <1>4, <2>3, <3>2 DEF PoolInv, Pended, Unsent
    <3>5. RousePended'
      BY <2>1, <2>3, <3>2 DEF PoolInv, RousePended, Moves
    <3> QED
      BY <3>1, <3>2, <3>3, <3>4, <3>5 DEF PoolInv
  <2> QED
    BY <2>2, <2>3 DEF PoolGood
<1>5. CASE k' = Astray(k) /\ mp' = mp /\ pc' = pc
  <2>1. Steps({}, {}) /\ k'.wait = k.wait
    BY <1>5, AstrayWakes
  <2>2. IpcInv' /\ PoolTypes'
    BY <1>1, <2>1, PoolTypesKept DEF Steps
  <2>3. ASSUME PoolInv PROVE PoolInv'
    <3>1. DetachInv'
      BY <1>1, <1>5, <2>1, <2>3, DetachKept DEF PoolInv
    <3>2. Len(k'.wait[receivers]) <= Len(k.wait[receivers]) /\ Woken(receivers) \cap {} = {}
      BY <2>1, <2>3, PoolCounts
    <3> QED
      BY <1>5, <2>1, <2>3, <3>1, <3>2, PoolKept
  <2> QED
    BY <2>2, <2>3 DEF PoolGood
<1> QED
  BY <1>3, <1>4, <1>5 DEF AllocReturn

(* A block comes back to a pool on whose list nobody waits, whether its    *)
(* counter says so or not.                                                 *)
LEMMA PoolPushed ==
  ASSUME IpcInv, PoolInv, k.wait[receivers] = <<>>, k'.wait = k.wait, NEW b \in mp.used,
         \/ mp' = PushBlock(mp, b)
         \/ mp.pended > 0 /\ mp' = [PushBlock(mp, b) EXCEPT !.pended = @ - 1],
         DetachInv', RousePended'
  PROVE  PoolInv'
<1>1. /\ BlocksOK(mp) /\ mp.pended \in Nat /\ MaxPended \in Nat /\ mp.pended <= MaxPended
      /\ Len(k.wait[receivers]) = 0
  BY PoolCounts DEF PoolInv
<1> DEFINE q == PushBlock(mp, b)
<1>2. BlocksOK(q) /\ q.pended = mp.pended
  BY <1>1, PushOK
<1>3. mp' = q \/ (mp.pended > 0 /\ mp' = [q EXCEPT !.pended = @ - 1])
  OBVIOUS
<1> HIDE DEF q
<1>4. BlocksOK(mp') /\ mp'.pended \in Nat /\ mp'.pended <= mp.pended
  <2>1. CASE mp' = q
    BY <1>1, <1>2, <2>1
  <2>2. CASE mp.pended > 0 /\ mp' = [q EXCEPT !.pended = @ - 1]
    <3> DEFINE n == mp.pended - 1
    <3>1. n \in Nat /\ n <= mp.pended /\ mp' = [q EXCEPT !.pended = n]
      BY <1>1, <1>2, <2>2
    <3> HIDE DEF n
    <3>2. LET z == [q EXCEPT !.pended = n] IN BlocksOK(z) /\ z.free = q.free /\ z.pended = n
      BY <1>2, <3>1, PendedOK
    <3> QED
      BY <3>1, <3>2
  <2> QED
    BY <1>3, <2>1, <2>2
<1>5. Pended'
  BY <1>1, <1>4 DEF Pended
<1>6. Served(mp.free, receivers)' /\ Unsent'
  BY DEF Served, Unsent, PoolInv
<1> QED
  BY <1>4, <1>5, <1>6 DEF PoolInv

(* A free with a waiter: the block goes to the list, and a woken thread is *)
(* on its way to it.                                                       *)
LEMMA PoolFreed ==
  ASSUME IpcInv, PoolInv, NEW L, NEW t \in Thread, Steps(L, {t}), Woken(receivers) \cap L = {},
         In(t, k.wait[receivers]), k'.wait = Unwait(k, t),
         NEW b \in mp.used, mp' = [PushBlock(mp, b) EXCEPT !.pended = @ - 1], DetachInv',
         RousePended'
  PROVE  PoolInv'
<1>1. receivers \in WaitList /\ senders \in WaitList
  BY ListsKnown
<1>2. /\ Len(k.wait[receivers]) \in Nat /\ mp.pended \in Nat /\ Len(k.wait[receivers]) <= mp.pended
      /\ mp.pended <= MaxPended /\ MaxPended \in Nat /\ mp.free \in Nat
      /\ Len(k'.wait[receivers]) = Len(k.wait[receivers]) - 1
  BY PoolCounts, UnwaitLength
<1>3. BlocksOK(mp) /\ Served(mp.free, receivers) /\ Len(k.wait[receivers]) # 0
  <2>1. Len(k.wait[receivers]) # 0
    BY PoolCounts DEF In
  <2> QED
    BY <2>1 DEF PoolInv
<1> DEFINE q == PushBlock(mp, b)
           n == mp.pended - 1
<1>4. BlocksOK(q) /\ q.free = mp.free + 1 /\ q.pended = mp.pended
  BY <1>3, PushOK
<1> HIDE DEF q
<1>5. n \in Nat /\ mp' = [q EXCEPT !.pended = n]
  BY <1>2, <1>3, <1>4 DEF q
<1> HIDE DEF n
<1>6. BlocksOK(mp') /\ mp'.free = mp.free + 1 /\ mp'.pended = n
  <2>1. LET z == [q EXCEPT !.pended = n] IN BlocksOK(z) /\ z.free = q.free /\ z.pended = n
    BY <1>4, <1>5, PendedOK
  <2> QED
    BY <1>4, <1>5, <2>1
<1>7. mp.free \in Int
  BY <1>2
<1>8. k'.wait[receivers] # <<>> => mp.free + 1 <= Cardinality(Woken(receivers)')
  BY <1>1, <1>3, <1>7, ServedMore
<1>9. Served(mp.free, receivers)'
  BY <1>6, <1>8 DEF Served
<1>10. Pended'
  BY <1>2, <1>6 DEF Pended, n
<1>11. Unsent'
  BY <1>1, NotEmptyBefore DEF Steps, PoolInv, Unsent
<1> QED
  BY <1>6, <1>9, <1>10, <1>11 DEF PoolInv

(* What a free does to the kernel: the first waiter is READY without an    *)
(* error.                                                                  *)
LEMMA WakesPended ==
  ASSUME IpcInv, k.wait[receivers] # <<>>
  PROVE  LET t == k.wait[receivers][1]
             s == ResumeFirst(receivers, "EOK")
         IN  /\ t \in Thread /\ In(t, k.wait[receivers]) /\ Sound(s)
             /\ s.stat = [k.stat EXCEPT ![t] = "READY"] /\ s.wait = Unwait(k, t)
             /\ s.timer = k.timer \ {t} /\ s.error = [k.error EXCEPT ![t] = "EOK"]
             /\ s.prio = k.prio /\ s.current = k.current
<1> DEFINE t == k.wait[receivers][1]
           r == rt_thread_resume([k EXCEPT !.error[t] = "EOK"], t)
<1>1. Sound(k) /\ receivers \in WaitList /\ "EOK" \in Error
  BY ListsKnown DEF IpcInv, Error
<1>2. t \in Thread /\ In(t, k.wait[receivers]) /\ k.stat[t] = "SUSPEND" /\ FirstThread(k.wait[receivers]) = t
  BY <1>1, FirstWaits
<1>3. ResumeFirst(receivers, "EOK") = r
  BY <1>2, Zenon DEF ResumeFirst
<1> HIDE DEF t
<1>4. /\ Sound(r) /\ r.stat = [k.stat EXCEPT ![t] = "READY"] /\ r.wait = Unwait(k, t)
      /\ r.timer = k.timer \ {t} /\ r.error = [k.error EXCEPT ![t] = "EOK"]
      /\ r.prio = k.prio /\ r.current = k.current
  BY <1>1, <1>2, RouseSound
<1> HIDE DEF r
<1> QED
  BY <1>2, <1>3, <1>4 DEF t

(* The threads after it, when a thread frees and schedules next, *)
LEMMA FreeWakes ==
  ASSUME IpcInv, k.wait[receivers] # <<>>, Calls, k' = ResumeFirst(receivers, "EOK"),
         Goto("sched", receivers)
  PROVE  LET t == k.wait[receivers][1]
         IN  /\ Steps({me}, {t}) /\ t \in Thread /\ In(t, k.wait[receivers]) /\ me \in Thread
             /\ Moves("sched", {receivers}) /\ k'.wait = Unwait(k, t)
<1> DEFINE t == k.wait[receivers][1]
<1>1. /\ t \in Thread /\ In(t, k.wait[receivers]) /\ Sound(k')
      /\ k'.stat = [k.stat EXCEPT ![t] = "READY"] /\ k'.wait = Unwait(k, t)
      /\ k'.timer = k.timer \ {t} /\ k'.error = [k.error EXCEPT ![t] = "EOK"]
      /\ k'.prio = k.prio /\ k'.current = k.current
  BY WakesPended
<1> HIDE DEF t
<1>2. /\ Sound(k) /\ me \in Thread /\ me # Idle /\ k.stat[me] = "READY" /\ receivers \in WaitList
      /\ pc' = [pc EXCEPT ![me] = [op |-> "sched", on |-> {receivers}]]
  BY SelfReady, ListsKnown DEF IpcInv, Calls, Goto
<1>3. k.stat[t] = "SUSPEND" /\ k.error \in [Thread -> Error]
  BY <1>1, <1>2, WaiterInside DEF Sound, KernelState
<1>4. Wakes(k', k)
  <2>1. t \in Thread /\ Sound(k) /\ k'.wait = Unwait(k, t) /\ k'.stat = [k.stat EXCEPT ![t] = "READY"]
    BY <1>1, <1>2
  <2> QED
    BY <2>1, ResumeWakes
<1>5. IpcInv'
  <2>1. "sched" \in Op /\ "sched" # "run" /\ {receivers} \in SUBSET WaitList
    BY <1>2 DEF Op
  <2> QED
    BY <1>1, <1>2, <1>4, <2>1, CallPlaces
<1>6. Moves("sched", {receivers})
  BY <1>2, MovesIntro
<1>7. Frees({t}, {}, {me})
  <2>1. k'.error[t] = "EOK" /\ \A u \in Thread : u # t => k'.error[u] = k.error[u]
    BY <1>1, <1>3
  <2> QED
    BY <1>1, <1>2, <2>1, OneFrees
<1>8. Leaves({me})
  BY <1>2, <1>6, MeLeaves
<1>9. /\ {t} \in SUBSET Thread /\ {} \in SUBSET Thread /\ {t} \cap {me} = {}
      /\ \A u \in {me}, v \in WaitList : ~In(u, k.wait[v])
  BY <1>1, <1>2, <1>3, ReadyOff
<1>10. Shifts({me}, {t}) /\ Shrinks /\ (WaitersClear => WaitersClear')
  BY <1>7, <1>8, <1>9, WokenAfter
<1> QED
  BY <1>1, <1>2, <1>5, <1>6, <1>10 DEF Steps, t

(* and when a handler frees and schedules at once. *)
LEMMA FreeInHandlerWakes ==
  ASSUME IpcInv, k.wait[receivers] # <<>>, pc' = pc,
         k' = rt_schedule(ResumeFirst(receivers, "EOK"))
  PROVE  LET t == k.wait[receivers][1]
         IN  /\ Steps({}, {t}) /\ t \in Thread /\ In(t, k.wait[receivers])
             /\ k'.wait = Unwait(k, t)
<1> DEFINE t == k.wait[receivers][1]
           s == ResumeFirst(receivers, "EOK")
<1>1. /\ t \in Thread /\ In(t, k.wait[receivers]) /\ Sound(s)
      /\ s.stat = [k.stat EXCEPT ![t] = "READY"] /\ s.wait = Unwait(k, t)
      /\ s.timer = k.timer \ {t} /\ s.error = [k.error EXCEPT ![t] = "EOK"] /\ s.prio = k.prio
  BY WakesPended
<1> HIDE DEF t, s
<1>2. /\ Sound(k') /\ Best(k', {}, k'.current) /\ k'.stat = s.stat /\ k'.wait = s.wait
      /\ k'.timer = s.timer /\ k'.error = s.error /\ k'.prio = s.prio
  BY <1>1, ScheduleSound DEF s
<1>3. /\ k'.stat = [k.stat EXCEPT ![t] = "READY"] /\ k'.wait = Unwait(k, t)
      /\ k'.timer = k.timer \ {t} /\ k'.error = [k.error EXCEPT ![t] = "EOK"] /\ k'.prio = k.prio
  BY <1>1, <1>2
<1>4. Sound(k) /\ receivers \in WaitList /\ k.error \in [Thread -> Error]
  BY ListsKnown DEF IpcInv, Sound, KernelState
<1>5. k.stat[t] = "SUSPEND"
  BY <1>1, <1>4, WaiterInside
<1>6. Wakes(k', k)
  BY <1>1, <1>3, <1>4, <1>5, ResumeWakes
<1>7. IpcInv'
  BY <1>2, <1>6, InterruptPlaces
<1>8. Frees({t}, {}, {})
  <2>1. k'.error[t] = "EOK" /\ \A u \in Thread : u # t => k'.error[u] = k.error[u]
    BY <1>1, <1>3, <1>4
  <2> QED
    BY <1>1, <1>3, <1>4, <2>1, OneFrees
<1>9. /\ {t} \in SUBSET Thread /\ {} \in SUBSET Thread /\ {t} \cap {} = {}
      /\ \A u \in {}, v \in WaitList : ~In(u, k.wait[v])
  BY <1>1
<1>10. Shifts({}, {t}) /\ Shrinks /\ (WaitersClear => WaitersClear')
  BY <1>8, <1>9, NobodyLeaves, WokenAfter
<1> QED
  BY <1>1, <1>3, <1>7, <1>10 DEF Steps, t

(* A free that finds nobody on the list: nobody is pended, *)
LEMMA PoolFreeAlone ==
  ASSUME IpcInv, PoolTypes, Usable, NEW b \in mp.used, UNCHANGED object,
         FreeUnpended(b) \/ FreeFollowsHead(b)
  PROVE  PoolGood
<1>1. /\ kind' = kind /\ flag' \in Flags /\ live' = live /\ live' \in BOOLEAN /\ arg' = arg
      /\ pc' = pc /\ mp' = PushBlock(mp, b)
  BY DEF object, kept, PoolTypes, FreeUnpended, FreeFollowsHead, FollowsHead
<1>2. IpcInv' /\ k'.wait = k.wait
  <2>1. CASE FreeUnpended(b)
    BY <2>1, StillWaits DEF FreeUnpended
  <2>2. CASE FreeFollowsHead(b)
    BY <2>2, AstrayWakes DEF FreeFollowsHead, FollowsHead, Steps
  <2> QED
    BY <2>1, <2>2
<1>3. PoolTypes'
  BY <1>1, PoolTypesKept
<1>4. DetachInv' /\ RousePended'
  BY <1>1, UsableAfter, UsableRouse
<1>5. ASSUME PoolInv PROVE PoolInv'
  <2>1. k.wait[receivers] = <<>>
    <3>1. CASE FreeUnpended(b)
      BY <1>5, <3>1, PoolCounts DEF FreeUnpended
    <3>2. CASE FreeFollowsHead(b)
      BY <3>2 DEF FreeFollowsHead, FollowsHead
    <3> QED
      BY <3>1, <3>2
  <2> QED
    BY <1>1, <1>2, <1>4, <1>5, <2>1, PoolPushed
<1> QED
  BY <1>2, <1>3, <1>5 DEF PoolGood

(* or the counter is stale and rt_thread_resume refuses the list head. *)
LEMMA PoolFreeRefused ==
  ASSUME IpcInv, PoolTypes, Usable, NEW b \in mp.used, UNCHANGED object, FreePended(b),
         k.wait[receivers] = <<>>, IpcInv', k'.wait = k.wait,
         \A t \in Thread : Detaches(pc'[t]) => Detaches(pc[t])
  PROVE  PoolGood
<1>1. /\ kind' = kind /\ flag' \in Flags /\ live' = live /\ live' \in BOOLEAN /\ arg' = arg
      /\ mp.pended > 0 /\ mp' = [PushBlock(mp, b) EXCEPT !.pended = @ - 1]
  BY DEF object, kept, PoolTypes, FreePended
<1>2. PoolTypes'
  BY <1>1, PoolTypesKept
<1>3. DetachInv' /\ RousePended'
  BY <1>1, UsableAfter, UsableRouse
<1>4. ASSUME PoolInv PROVE PoolInv'
  BY <1>1, <1>3, <1>4, PoolPushed
<1> QED
  BY <1>2, <1>4 DEF PoolGood

(* rt_mp_free *)
LEMMA PoolFree ==
  ASSUME IpcInv, PoolTypes, NEW b \in BlockSet, rt_mp_free(b)
  PROVE  PoolGood
<1>1. /\ Calls /\ Usable /\ b \in mp.used /\ UNCHANGED object /\ pc[me].op = "run" /\ At("run")
      /\ kind' = kind /\ flag' \in Flags /\ live' = live /\ live' \in BOOLEAN /\ arg' = arg
      /\ me # Idle
  BY DEF rt_mp_free, object, kept, PoolTypes, Calls, At
<1>2. CASE FreeUnpended(b) \/ FreeFollowsHead(b)
  BY <1>1, <1>2, PoolFreeAlone
<1>3. CASE /\ FreePended(b) /\ k' = ResumeFirst(receivers, "EOK") /\ Goto("sched", receivers)
           /\ k.wait[receivers] = <<>>
  <2>1. /\ k' = k /\ "sched" \in Op \ {"block", "woken"} /\ {receivers} \in SUBSET WaitList
        /\ pc' = [pc EXCEPT ![me] = [op |-> "sched", on |-> {receivers}]]
    BY <1>3, ListsKnown DEF ResumeFirst, Op, Goto
  <2>2. Steps({me}, {}) /\ Moves("sched", {receivers}) /\ me \in Thread
    BY <1>1, <2>1, GotoWakes
  <2>3. \A t \in Thread : Detaches(pc'[t]) => Detaches(pc[t])
    BY <1>1, <2>2, OthersDetach
  <2>4. IpcInv' /\ k'.wait = k.wait
    BY <2>1, <2>2 DEF Steps
  <2> QED
    BY <1>1, <1>3, <2>3, <2>4, PoolFreeRefused
<1>4. CASE /\ FreePended(b) /\ k' = ResumeFirst(receivers, "EOK") /\ Goto("sched", receivers)
           /\ k.wait[receivers] # <<>>
  <2> DEFINE t == k.wait[receivers][1]
  <2>1. /\ Steps({me}, {t}) /\ t \in Thread /\ In(t, k.wait[receivers]) /\ me \in Thread
        /\ Moves("sched", {receivers}) /\ k'.wait = Unwait(k, t)
    BY <1>1, <1>4, FreeWakes
  <2> HIDE DEF t
  <2>2. IpcInv' /\ PoolTypes'
    BY <1>1, <2>1, PoolTypesKept DEF Steps
  <2>3. Woken(receivers) \cap {me} = {}
    BY <1>1 DEF Woken, Inside
  <2>4. DetachInv' /\ RousePended'
    BY <1>1, <2>1, OthersDetach, UsableAfter, UsableRouse
  <2>5. ASSUME PoolInv PROVE PoolInv'
    <3>1. mp' = [PushBlock(mp, b) EXCEPT !.pended = @ - 1]
      BY <1>4 DEF FreePended
    <3> QED
      BY <1>1, <2>1, <2>3, <2>4, <2>5, <3>1, PoolFreed
  <2> QED
    BY <2>2, <2>5 DEF PoolGood
<1> QED
  BY <1>2, <1>3, <1>4 DEF rt_mp_free

(* The same in an interrupt handler. *)
LEMMA PoolFreeInHandler ==
  ASSUME IpcInv, PoolTypes, NEW b \in BlockSet, FreeInHandler(b)
  PROVE  PoolGood
<1>1. /\ Usable /\ b \in mp.used /\ UNCHANGED object
      /\ kind' = kind /\ flag' \in Flags /\ live' = live /\ live' \in BOOLEAN /\ arg' = arg
  BY DEF FreeInHandler, object, kept, PoolTypes
<1>2. CASE FreeUnpended(b) \/ FreeFollowsHead(b)
  BY <1>1, <1>2, PoolFreeAlone
<1>3. CASE /\ FreePended(b) /\ k' = rt_schedule(ResumeFirst(receivers, "EOK")) /\ pc' = pc
           /\ k.wait[receivers] = <<>>
  <2>1. k' = rt_schedule(k) /\ Sound(k)
    BY <1>3 DEF ResumeFirst, IpcInv
  <2>2. Sound(k') /\ Best(k', {}, k'.current) /\ k'.stat = k.stat /\ k'.wait = k.wait
    BY <2>1, ScheduleSound
  <2>3. IpcInv'
    BY <1>3, <2>2, SameWakes, InterruptPlaces
  <2>4. \A t \in Thread : Detaches(pc'[t]) => Detaches(pc[t])
    BY <1>3
  <2> QED
    BY <1>1, <1>3, <2>2, <2>3, <2>4, PoolFreeRefused
<1>4. CASE /\ FreePended(b) /\ k' = rt_schedule(ResumeFirst(receivers, "EOK")) /\ pc' = pc
           /\ k.wait[receivers] # <<>>
  <2> DEFINE t == k.wait[receivers][1]
  <2>1. Steps({}, {t}) /\ t \in Thread /\ In(t, k.wait[receivers]) /\ k'.wait = Unwait(k, t)
    BY <1>4, FreeInHandlerWakes
  <2> HIDE DEF t
  <2>2. IpcInv' /\ PoolTypes'
    BY <1>1, <2>1, PoolTypesKept DEF Steps
  <2>3. DetachInv' /\ RousePended'
    BY <1>1, <1>4, UsableAfter, UsableRouse
  <2>4. ASSUME PoolInv PROVE PoolInv'
    <3>1. Woken(receivers) \cap {} = {} /\ mp' = [PushBlock(mp, b) EXCEPT !.pended = @ - 1]
      BY <1>4 DEF FreePended
    <3> QED
      BY <1>1, <2>1, <2>3, <2>4, <3>1, PoolFreed
  <2> QED
    BY <2>2, <2>4 DEF PoolGood
<1> QED
  BY <1>2, <1>3, <1>4 DEF FreeInHandler

(* The pass of the detach loop that comes back to its test counts down:    *)
(* the counter is not 0 yet, and no other thread is inside the loop.       *)
LEMMA PoolRoused ==
  ASSUME IpcInv, PoolInv, At("rouse"), Moves("detach", {receivers}), Steps({me}, {}),
         k.wait[receivers] = <<>> => k'.wait = k.wait,
         k.wait[receivers] # <<>> =>
           \E t \in Thread : In(t, k.wait[receivers]) /\ k'.wait = Unwait(k, t),
         mp' = [mp EXCEPT !.pended = @ - 1], DetachInv'
  PROVE  PoolInv'
<1>1. /\ Len(k.wait[receivers]) \in Nat /\ mp.pended \in Nat /\ Len(k.wait[receivers]) <= mp.pended
      /\ mp.pended <= MaxPended /\ MaxPended \in Nat /\ mp.free \in Nat
      /\ receivers \in WaitList /\ senders \in WaitList
  BY PoolCounts, ListsKnown
<1>2. me \in Thread /\ pc[me].op = "rouse" /\ mp.pended > 0
  BY DEF At, PoolInv, RousePended
<1> DEFINE n == mp.pended - 1
<1>3. n \in Nat /\ mp' = [mp EXCEPT !.pended = n]
  BY <1>1, <1>2
<1> HIDE DEF n
<1>4. BlocksOK(mp') /\ mp'.free = mp.free /\ mp'.pended = n
  <2>1. BlocksOK(mp)
    BY DEF PoolInv
  <2>2. LET z == [mp EXCEPT !.pended = n] IN BlocksOK(z) /\ z.free = mp.free /\ z.pended = n
    BY <1>3, <2>1, PendedOK
  <2> QED
    BY <1>3, <2>2
<1>5. Len(k'.wait[receivers]) <= n
  <2>1. CASE k.wait[receivers] = <<>>
    BY <1>1, <1>3, <2>1
  <2>2. CASE k.wait[receivers] # <<>>
    <3>1. PICK t \in Thread : In(t, k.wait[receivers]) /\ k'.wait = Unwait(k, t)
      BY <2>2
    <3>2. Len(k'.wait[receivers]) = Len(k.wait[receivers]) - 1
      BY <3>1, UnwaitLength
    <3> QED
      BY <1>1, <3>2 DEF n
  <2> QED
    BY <2>1, <2>2
<1>6. Pended'
  BY <1>1, <1>4, <1>5 DEF Pended, n
<1>7. Served(mp.free, receivers)'
  <2>1. mp.free \in Int /\ mp.free <= mp.free /\ Served(mp.free, receivers)
    BY <1>1 DEF PoolInv
  <2>2. Woken(receivers) \cap {me} = {}
    BY <1>2 DEF Woken, Inside
  <2>3. k'.wait[receivers] # <<>> => mp.free <= Cardinality(Woken(receivers)')
    BY <1>1, <2>1, <2>2, ServedKept
  <2> QED
    BY <1>4, <2>3 DEF Served
<1>8. RousePended'
  <2> SUFFICES ASSUME NEW t \in Thread, pc'[t].op = "rouse" PROVE FALSE
    BY DEF RousePended
  <2>1. t # me /\ pc[t].op = "rouse"
    BY DEF Moves
  <2> QED
    BY <1>2, <2>1 DEF PoolInv, DetachInv, Detaches
<1>9. Unsent'
  BY <1>1, NotEmptyBefore DEF Steps, PoolInv, Unsent
<1> QED
  BY <1>4, <1>6, <1>7, <1>8, <1>9 DEF PoolInv

(* rt_mp_detach *)
LEMMA PoolDetach ==
  ASSUME IpcInv, PoolTypes, rt_mp_detach
  PROVE  PoolGood
<1>1. DetachesOne /\ live \in BOOLEAN /\ receivers \in WaitList
  BY ListsKnown DEF rt_mp_detach, DetachesOne, PoolTypes
<1>2. /\ Steps({me}, {}) /\ me \in Thread /\ pc[me].op \in {"run", "detach", "rouse"}
      /\ kind' = kind /\ flag' = flag /\ arg' = arg /\ live' \in BOOLEAN
      /\ "late" \notin Relaxed /\ DetachInv /\ k.wait[senders] = <<>> => DetachInv'
  BY <1>1, DetachOneStep
<1>4. flag' \in Flags
  BY <1>2 DEF PoolTypes
<1>5. IpcInv' /\ PoolTypes'
  BY <1>2, <1>4, PoolTypesKept DEF Steps
<1>6. Woken(receivers) \cap {me} = {}
  BY <1>2 DEF Woken, Inside
<1>7. ASSUME "late" \notin Relaxed, PoolInv PROVE PoolInv'
  <2>1. DetachInv'
    BY <1>2, <1>7 DEF PoolInv, Unsent
  <2>2. Len(k.wait[receivers]) \in Nat
    BY <1>7, PoolCounts
  <2>3. CASE (Detach(receivers) \/ DetachObject(receivers)) /\ mp' = mp
    <3>1. PICK o \in {"run", "detach"}, S \in SUBSET WaitList :
            k' = k /\ pc' = [pc EXCEPT ![me] = [op |-> o, on |-> S]]
      BY <1>1, <2>3 DEF Detach, DetachObject, DetachEnd, Goto, Return
    <3>2. Moves(o, S)
      BY <3>1, MovesIntro
    <3>3. \A t \in Thread : pc'[t].op = "rouse" => pc[t].op = "rouse"
      BY <3>2 DEF Moves
    <3>4. Len(k'.wait[receivers]) <= Len(k.wait[receivers])
      BY <2>2, <3>1
    <3> QED
      BY <1>2, <1>6, <1>7, <2>1, <2>3, <3>3, <3>4, PoolKept
  <2>4. CASE DetachTest(receivers) /\ mp' = mp
    <3>1. k.wait[receivers] # <<>> /\ Len(k'.wait[receivers]) <= Len(k.wait[receivers])
      BY <2>2, <2>4 DEF DetachTest
    <3> QED
      BY <1>2, <1>6, <1>7, <2>1, <2>4, <3>1, PoolKept
  <2>5. CASE /\ At("rouse") /\ k' = ResumeFirst(receivers, "ERROR") /\ Goto("detach", receivers)
             /\ DetachBody(receivers) /\ (mp' = mp \/ mp' = [mp EXCEPT !.pended = @ - 1])
    <3>1. Moves("detach", {receivers})
      BY <2>5, MovesIntro DEF Goto
    <3>2. k.wait[receivers] = <<>> => k'.wait = k.wait
      BY <2>5 DEF ResumeFirst
    <3>3. k.wait[receivers] # <<>> =>
            \E t \in Thread : In(t, k.wait[receivers]) /\ k'.wait = Unwait(k, t)
      BY <1>1, <2>5, DetachBodyStep
    <3>4. CASE mp' = mp
      <4>1. Len(k'.wait[receivers]) <= Len(k.wait[receivers])
        BY <2>2, <3>2, <3>3, UnwaitLength
      <4>2. \A t \in Thread : pc'[t].op = "rouse" => pc[t].op = "rouse"
        BY <3>1 DEF Moves
      <4> QED
        BY <1>2, <1>6, <1>7, <2>1, <3>4, <4>1, <4>2, PoolKept
    <3>5. CASE mp' = [mp EXCEPT !.pended = @ - 1]
      BY <1>2, <1>7, <2>1, <2>5, <3>1, <3>2, <3>3, <3>5, PoolRoused
    <3> QED
      BY <2>5, <3>4, <3>5
  <2>6. CASE k' = Astray(k) /\ pc' = pc /\ mp' = mp
    <3>1. k'.wait = k.wait
      BY <2>6, AstrayWakes
    <3>2. Len(k'.wait[receivers]) <= Len(k.wait[receivers])
      BY <2>2, <3>1
    <3> QED
      BY <1>2, <1>6, <1>7, <2>1, <2>6, <3>2, PoolKept
  <2>7. k' = Astray(k) => k'.astray
    BY DEF Astray, IpcInv, Sound, KernelState
  <2>8. CASE DetachBody(receivers) /\ mp' = IF k'.astray THEN mp ELSE [mp EXCEPT !.pended = @ - 1]
    BY <2>5, <2>6, <2>7, <2>8 DEF DetachBody, FollowsHead
  <2> QED
    BY <2>3, <2>4, <2>8 DEF rt_mp_detach
<1> QED
  BY <1>5, <1>7 DEF PoolGood

(* rt_mp_init *)
LEMMA PoolInitialised ==
  ASSUME IpcInv, PoolTypes, rt_mp_init
  PROVE  PoolGood
<1>1. /\ ~live /\ mp' = FreshPool /\ k' = k /\ pc' = pc /\ kind' = kind /\ flag' \in Flags
      /\ live' = TRUE /\ live' \in BOOLEAN /\ arg' = arg /\ receivers \in WaitList
      /\ senders \in WaitList /\ MP_BLOCKS \in Nat
  BY ListsKnown, MemPoolAssumption DEF rt_mp_init, InitObject
<1>2. IpcInv' /\ PoolTypes' /\ Woken(receivers)' = Woken(receivers)
  BY <1>1, PoolTypesKept, StillWaits
<1>3. ASSUME PoolInv PROVE PoolInv'
  <2>1. \A w \in WaitList : k.wait[w] = <<>> /\ Woken(w) = {}
    BY <1>1, <1>3 DEF PoolInv, DetachInv
  <2>2. \A t \in Thread : ~Detaches(pc'[t])
    BY <1>1, <1>3, DetachingKnown DEF PoolInv, DetachInv
  <2>3. ~Detaching'
    BY <2>2, DetachingKnown
  <2>4. DetachInv'
    BY <1>1, <2>2, <2>3 DEF DetachInv
  <2>5. BlocksOK(mp') /\ mp'.pended = 0 /\ mp'.free = MP_BLOCKS
    BY <1>1, FreshOK
  <2>6. Served(mp.free, receivers)' /\ Unsent'
    BY <1>1, <2>1 DEF Served, Unsent
  <2>7. Pended'
    BY <1>1, <2>1, <2>5, MemPoolAssumption DEF Pended
  <2>8. RousePended'
    BY <2>2 DEF RousePended, Detaches
  <2> QED
    BY <2>4, <2>5, <2>6, <2>7, <2>8 DEF PoolInv
<1> QED
  BY <1>2, <1>3 DEF PoolGood

(* Every step of the pool is a good one. *)
LEMMA PoolStepGood == IpcInv /\ PoolTypes /\ [PoolNext]_poolVars => PoolGood
<1> SUFFICES ASSUME IpcInv, PoolTypes, [PoolNext]_poolVars PROVE PoolGood
  OBVIOUS
<1>1. CASE UNCHANGED poolVars
  <2>1. k' = k /\ pc' = pc /\ mp' = mp /\ kind' = kind /\ flag' = flag /\ live' = live /\ arg' = arg
    BY <1>1 DEF poolVars, object, kept
  <2>2. IpcInv' /\ PoolTypes'
    BY <2>1, StillWaits DEF PoolTypes
  <2>3. ASSUME PoolInv PROVE PoolInv'
    BY <2>1, <2>3 DEF PoolInv, DetachInv, Detaching, Served, Pended, RousePended, Unsent,
                       Woken, Inside
  <2> QED
    BY <2>2, <2>3 DEF PoolGood
<1>2. ASSUME NEW time \in Time, rt_mp_alloc(time) PROVE PoolGood
  BY <1>2, PoolAlloc
<1>3. ASSUME NEW b \in BlockSet, rt_mp_free(b) \/ FreeInHandler(b) PROVE PoolGood
  BY <1>3, PoolFree, PoolFreeInHandler
<1>4. CASE AllocReturn \/ rt_mp_detach \/ rt_mp_init
  BY <1>4, PoolReturn, PoolDetach, PoolInitialised
<1>5. CASE (ObjectCall \/ (Schedule /\ UNCHANGED object)) /\ UNCHANGED mp
  BY <1>5, PoolAside, PoolSchedule
<1> QED
  BY <1>1, <1>2, <1>3, <1>4, <1>5 DEF PoolNext

(* The first state. *)
LEMMA PoolStarts == PoolInit => IpcInv /\ PoolTypes /\ PoolInv
<1> SUFFICES ASSUME PoolInit PROVE IpcInv /\ PoolTypes /\ PoolInv
  OBVIOUS
<1>1. /\ IpcInv /\ \A w \in WaitList : k.wait[w] = <<>>
      /\ pc = [t \in Thread |-> [op |-> "run", on |-> {}]]
  BY StartSound DEF PoolInit, ObjectInit
<1>2. /\ kind = "pool" /\ flag \in Flags /\ live = TRUE /\ arg = [t \in Thread |-> NoArg]
      /\ mp = FreshPool /\ receivers \in WaitList /\ senders \in WaitList /\ MP_BLOCKS \in Nat
  BY ListsKnown, MemPoolAssumption DEF PoolInit, ObjectInit, PoolStart
<1>3. PoolTypes
  BY <1>2 DEF PoolTypes, NoArg, Time
<1>4. DetachInv
  <2>1. \A t \in Thread : ~Detaches(pc[t])
    BY <1>1 DEF Detaches
  <2>2. ~Detaching
    BY <2>1, DetachingKnown
  <2> QED
    BY <1>2, <2>1, <2>2 DEF DetachInv
<1>5. BlocksOK(mp) /\ mp.pended = 0 /\ mp.free = MP_BLOCKS
  BY <1>2, FreshOK
<1>6. Served(mp.free, receivers) /\ Unsent /\ RousePended
  BY <1>1, <1>2 DEF Served, Unsent, RousePended
<1>7. Pended
  BY <1>1, <1>2, <1>5, MemPoolAssumption DEF Pended
<1> QED
  BY <1>1, <1>3, <1>4, <1>5, <1>6, <1>7 DEF PoolInv

-----------------------------------------------------------------------------
(* The memory pool: its theorems *)

(* Each thread is once on the list where its call on the pool left it,     *)
(* whatever times out and whoever overtakes it, until a stale counter, a   *)
(* list without a block or the detach loop leads the kernel astray.        *)
THEOREM PoolPlaces == PoolSpec => []Places
<1>1. IpcInv /\ PoolTypes /\ [PoolNext]_poolVars => IpcInv' /\ PoolTypes'
  BY PoolStepGood DEF PoolGood
<1>2. IpcInv => Places
  BY PlacesKnown
<1> QED
  BY <1>1, <1>2, PoolStarts, PTL DEF PoolSpec

(* The inductive invariant of a pool that is not detached while a woken    *)
(* thread is on its way to a block.                                        *)
LEMMA PoolSafe ==
  ASSUME "late" \notin Relaxed
  PROVE  PoolSpec => [](IpcInv /\ PoolTypes /\ PoolInv)
<1>1. IpcInv /\ PoolTypes /\ PoolInv /\ [PoolNext]_poolVars => IpcInv' /\ PoolTypes' /\ PoolInv'
  BY PoolStepGood DEF PoolGood
<1> QED
  BY <1>1, PoolStarts, PTL DEF PoolSpec

(* block_free_count stays between 0 and block_total_count, and             *)
(* suspend_thread_count is never counted down below 0, although timeouts   *)
(* make it stale and rt_mp_free and the detach loop take the list head for *)
(* a thread.                                                               *)
THEOREM PoolTypeCorrect ==
  ASSUME "late" \notin Relaxed
  PROVE  PoolSpec => []PoolTypeOK
<1>1. IpcInv /\ PoolTypes /\ PoolInv => PoolTypeOK
  <2> SUFFICES ASSUME IpcInv, PoolTypes, PoolInv PROVE PoolTypeOK
    OBVIOUS
  <2>1. ObjectTypeOK({})
    BY DEF IpcInv, PoolTypes, ObjectTypeOK, Kind
  <2>2. mp \in [list : Seq(BlockSet), free : Nat, pended : Nat, used : SUBSET BlockSet]
    BY DEF PoolInv, BlocksOK
  <2>3. mp.free \in 0 .. MP_BLOCKS
    <3>1. IsFiniteSet(BlockSet) /\ Cardinality(BlockSet) = MP_BLOCKS
      BY MemPoolAssumption, FS_Interval DEF BlockSet
    <3>2. mp.list \in Seq(BlockSet) /\ Once(mp.list) /\ mp.free = Len(mp.list)
      BY DEF PoolInv, BlocksOK
    <3>3. Len(mp.list) <= Cardinality(BlockSet) /\ Len(mp.list) \in Nat
      BY <3>1, <3>2, OnceLength
    <3> QED
      BY <3>1, <3>2, <3>3, MemPoolAssumption
  <2>4. mp.pended \in 0 .. MaxPended
    BY PoolCounts
  <2> QED
    BY <2>1, <2>2, <2>3, <2>4 DEF PoolTypeOK
<1> QED
  BY <1>1, PoolSafe, PTL

(* Whatever times out and whoever overtakes a woken thread, the pool loses *)
(* no block and hands none out twice, counts its free blocks, lets nobody  *)
(* wait for a block that no woken thread is on its way to, and never       *)
(* counts fewer pended threads than wait.                                  *)
THEOREM PoolAccounted ==
  ASSUME "late" \notin Relaxed
  PROVE  PoolSpec => []BlocksAccounted
<1>1. PoolInv => BlocksAccounted
  <2> SUFFICES ASSUME PoolInv PROVE BlocksAccounted
    OBVIOUS
  <2>1. BlocksOK(mp)
    BY DEF PoolInv
  <2>2. \A b \in BlockSet :
          Cardinality({i \in DOMAIN mp.list : mp.list[i] = b}) = IF b \in mp.used THEN 0 ELSE 1
    BY <2>1, BlocksCounted
  <2>3. mp.free = Len(mp.list)
    BY <2>1 DEF BlocksOK
  <2> QED
    BY <2>2, <2>3 DEF BlocksAccounted, PoolInv, Pended
<1> QED
  BY <1>1, PoolSafe, PTL

-----------------------------------------------------------------------------
(* The event: its requests *)

(* What a served receiver returns: all it wanted, or a part of it. *)
Matched(d) == IF d.all THEN d.got = d.want ELSE d.got # {} /\ d.got \subseteq d.want

(* A request by its fields. *)
Asked(want, all, clear, got) == [want |-> want, all |-> all, clear |-> clear, got |-> got]

(* The fields of the data of a waiting call. *)
LEMMA DataFields ==
  ASSUME NEW d \in WaitData
  PROVE  /\ d = Asked(d.want, d.all, d.clear, d.got) /\ d # NoData
         /\ d.want \in (SUBSET EventFlag) \ {{}} /\ d.all \in BOOLEAN /\ d.clear \in BOOLEAN
         /\ d.got \in SUBSET EventFlag
         /\ \A got \in SUBSET EventFlag : Asked(d.want, d.all, d.clear, got) \in WaitData
<1>1. PICK r \in Request, g \in SUBSET EventFlag : d = Wait(r, g)
  BY DEF WaitData
<1>2. r \in [want : (SUBSET EventFlag) \ {{}}, all : BOOLEAN, clear : BOOLEAN]
  BY EventAssumption
<1>3. d.want = r.want /\ d.all = r.all /\ d.clear = r.clear /\ d.got = g
  BY <1>1 DEF Wait
<1>4. d = Asked(d.want, d.all, d.clear, d.got)
  BY <1>1, <1>3 DEF Wait, Asked
<1>5. \A got \in SUBSET EventFlag : Asked(d.want, d.all, d.clear, got) = Wait(r, got)
  BY <1>3 DEF Wait, Asked
<1>6. \A got \in SUBSET EventFlag : Wait(r, got) \in WaitData
  BY DEF WaitData
<1>7. d # NoData
  BY WaitDataAssumption
<1> QED
  BY <1>2, <1>3, <1>4, <1>5, <1>6, <1>7

(* The data of a new call. *)
LEMMA WaitFields ==
  ASSUME NEW r \in Request, NEW got \in SUBSET EventFlag
  PROVE  LET d == Wait(r, got)
         IN  /\ d \in WaitData /\ d.want = r.want /\ d.all = r.all /\ d.clear = r.clear
             /\ d.got = got /\ r.want \in (SUBSET EventFlag) \ {{}} /\ r.all \in BOOLEAN
             /\ r.clear \in BOOLEAN
<1>1. r \in [want : (SUBSET EventFlag) \ {{}}, all : BOOLEAN, clear : BOOLEAN]
  BY EventAssumption
<1>2. Wait(r, got) \in WaitData
  BY DEF WaitData
<1> QED
  BY <1>1, <1>2 DEF Wait

(* Fewer flags satisfy no more requests. *)
LEMMA FewerSatisfy ==
  ASSUME NEW all, NEW want, NEW set, NEW less, less \subseteq set, ~Satisfied(all, want, set)
  PROVE  ~Satisfied(all, want, less)
BY DEF Satisfied

-----------------------------------------------------------------------------
(* The event: the walk of rt_event_send *)

(* One pass of the loop, for the waiter t. *)
Got(w, t) ==
  IF w.arg[t].data.all THEN w.arg[t].data.got ELSE w.arg[t].data.got \cap w.set

Pass(w, t) ==
  IF ~Satisfied(w.arg[t].data.all, w.arg[t].data.got, w.set) THEN w
  ELSE [ set |-> IF w.arg[t].data.clear THEN w.set \ Got(w, t) ELSE w.set,
         arg |-> [w.arg EXCEPT ![t].data.got = Got(w, t)],
         k |-> rt_thread_resume(w.k, t), woke |-> TRUE ]

(* The walk, one waiter at a time. *)
LEMMA WalkSteps ==
  ASSUME NEW set, NEW N \in Nat
  PROVE  \E F : /\ Walk(set, N) = F[N]
                /\ F[0] = [set |-> set, arg |-> arg, k |-> k, woke |-> FALSE]
                /\ \A n \in 1 .. N : F[n] = Pass(F[n - 1], k.wait[receivers][n])
<1> DEFINE x == [set |-> set, arg |-> arg, k |-> k, woke |-> FALSE]
           Go(y, n) == Pass(y, k.wait[receivers][n])
           Loop(f, m) == f = [n \in 0 .. m |-> IF n = 0 THEN x ELSE Go(f[n - 1], n)]
           Bad == {m \in 0 .. N : ~ \E f : Loop(f, m)}
           G == CHOOSE f : Loop(f, N)
<1>2. Walk(set, N) = G[N]
  BY DEF Walk, Pass, Got
<1> HIDE DEF x, Go
<1>3. Bad = {}
  <2> SUFFICES ASSUME Bad # {} PROVE FALSE
    OBVIOUS
  <2>1. Bad \in SUBSET Nat
    OBVIOUS
  <2>2. PICK m \in Bad : \A n \in Bad : m <= n
    BY <2>1, LeastNatural
  <2>3. m \in 0 .. N /\ ~ \E f : Loop(f, m)
    BY <2>2
  <2>4. CASE m = 0
    <3> DEFINE g == [n \in 0 .. 0 |-> x]
    <3>1. Loop(g, 0)
      OBVIOUS
    <3> QED
      BY <2>3, <2>4, <3>1
  <2>5. CASE m # 0
    <3>1. m - 1 \in 0 .. N /\ ~(m <= m - 1)
      BY <2>3, <2>5
    <3>2. m - 1 \notin Bad
      BY <2>2, <3>1
    <3>3. PICK f : Loop(f, m - 1)
      BY <3>1, <3>2
    <3> DEFINE g == [n \in 0 .. m |-> IF n = m THEN Go(f[m - 1], m) ELSE f[n]]
    <3>4. \A n \in 0 .. m - 1 : g[n] = f[n] /\ f[n] = IF n = 0 THEN x ELSE Go(f[n - 1], n)
      <4>1. \A n \in 0 .. m - 1 : f[n] = IF n = 0 THEN x ELSE Go(f[n - 1], n)
        BY <3>3
      <4>2. \A n \in 0 .. m - 1 : n \in 0 .. m /\ n # m
        BY <2>3
      <4> QED
        BY <4>1, <4>2
    <3>5. ASSUME NEW n \in 0 .. m PROVE g[n] = IF n = 0 THEN x ELSE Go(g[n - 1], n)
      <4>1. CASE n = m
        <5>1. m - 1 \in 0 .. m - 1 /\ m \in 0 .. m
          BY <2>3, <2>5
        <5>2. g[m] = Go(f[m - 1], m)
          BY <5>1
        <5>3. g[m - 1] = f[m - 1]
          BY <3>4, <5>1
        <5> HIDE DEF g
        <5> QED
          BY <2>5, <4>1, <5>2, <5>3
      <4>2. CASE n # m /\ n # 0
        <5>1. n \in 0 .. m - 1 /\ n - 1 \in 0 .. m - 1
          BY <2>3, <4>2
        <5> HIDE DEF g
        <5> QED
          BY <3>4, <4>2, <5>1
      <4>3. CASE n # m /\ n = 0
        <5>1. n \in 0 .. m - 1
          BY <2>3, <4>3
        <5> HIDE DEF g
        <5> QED
          BY <3>4, <4>3, <5>1
      <4> QED
        BY <4>1, <4>2, <4>3
    <3>6. Loop(g, m)
      <4> DEFINE h == [n \in 0 .. m |-> IF n = 0 THEN x ELSE Go(g[n - 1], n)]
      <4>1. \A n \in 0 .. m : g[n] = h[n]
        BY <3>5
      <4>2. DOMAIN g = 0 .. m /\ DOMAIN h = 0 .. m
        OBVIOUS
      <4>3. g = [n \in 0 .. m |-> g[n]] /\ h = [n \in 0 .. m |-> h[n]]
        OBVIOUS
      <4> HIDE DEF g
      <4> QED
        BY <4>1, <4>2, <4>3
    <3> QED
      BY <2>3, <3>6
  <2> QED
    BY <2>4, <2>5
<1>4. \E f : Loop(f, N)
  <2>1. N \in 0 .. N /\ N \notin Bad
    BY <1>3
  <2> QED
    BY <2>1
<1>5. Loop(G, N)
  BY <1>4
<1> HIDE DEF G
<1>6. 0 \in 0 .. N /\ \A n \in 1 .. N : n \in 0 .. N /\ n # 0
  OBVIOUS
<1>7. G[0] = x /\ \A n \in 1 .. N : G[n] = Go(G[n - 1], n)
  BY <1>5, <1>6
<1> QED
  BY <1>2, <1>7 DEF x, Go

ArgType == [time : Time, data : WaitData \cup {NoData}]

(* What a waiter asked for is still in its thread. *)
Asking ==
  /\ arg \in [Thread -> ArgType]
  /\ \A t \in Thread : In(t, k.wait[receivers]) =>
       arg[t].data \in WaitData /\ arg[t].data.got = arg[t].data.want

(* The walk that woke the threads of R: the kernel, *)
WalkKernel(x, R) ==
  /\ Sound(x) /\ Wakes(x, k) /\ x.error = k.error /\ x.current = k.current
  /\ \A t \in Thread, v \in WaitList : In(t, x.wait[v]) <=> In(t, k.wait[v]) /\ t \notin R

(* what the threads of P it went past have got, *)
WalkAnswers(a, set, P, R) ==
  /\ a \in [Thread -> ArgType]
  /\ \A t \in Thread : t \notin R => a[t] = arg[t]
  /\ \A t \in R : a[t].data \in WaitData /\ Matched(a[t].data)
  /\ \A t \in P \ R : ~Satisfied(arg[t].data.all, arg[t].data.want, set)

(* and where the flags of S went that are not left. *)
Takes(a, t, e) == a[t].data.clear /\ e \in a[t].data.got

WalkFlags(a, set, S, R) ==
  /\ set \subseteq S
  /\ \A t \in R, e \in set : ~Takes(a, t, e)
  /\ \A e \in S \ set : \E t \in R : Takes(a, t, e) /\ \A u \in R \ {t} : ~Takes(a, u, e)

Walked(w, S, P, R) ==
  /\ WalkKernel(w.k, R) /\ WalkAnswers(w.arg, w.set, P, R) /\ WalkFlags(w.arg, w.set, S, R)
  /\ w.woke \in BOOLEAN

(* A pass that wakes a thread changes the kernel so, *)
LEMMA PassKernel ==
  ASSUME IpcInv, NEW x, NEW R, WalkKernel(x, R), NEW t \in Thread, In(t, k.wait[receivers]),
         t \notin R
  PROVE  WalkKernel(rt_thread_resume(x, t), R \cup {t})
<1> DEFINE r == rt_thread_resume(x, t)
<1>1. receivers \in WaitList /\ Sound(x) /\ Wakes(x, k)
  BY ListsKnown DEF WalkKernel
<1>2. In(t, x.wait[receivers])
  BY <1>1 DEF WalkKernel
<1>3. x.stat[t] = "SUSPEND"
  BY <1>1, <1>2 DEF Sound
<1>4. /\ Sound(r) /\ r.stat = [x.stat EXCEPT ![t] = "READY"] /\ r.wait = Unwait(x, t)
      /\ r.error = x.error /\ r.current = x.current
  BY <1>1, <1>3, ResumeSound
<1> HIDE DEF r
<1>5. Wakes(r, x)
  BY <1>1, <1>4, ResumeWakes
<1>6. Wakes(r, k)
  BY <1>1, <1>5, WakesTransitive
<1>7. \A u \in Thread, v \in WaitList : In(u, r.wait[v]) <=> In(u, x.wait[v]) /\ u # t
  BY <1>1, <1>4, UnwaitIn
<1>8. \A u \in Thread, v \in WaitList :
        In(u, r.wait[v]) <=> In(u, k.wait[v]) /\ u \notin R \cup {t}
  BY <1>7 DEF WalkKernel
<1>9. r.error = k.error /\ r.current = k.current
  BY <1>4 DEF WalkKernel
<1> QED
  BY <1>4, <1>6, <1>8, <1>9 DEF WalkKernel, r

(* what a satisfied waiter gets is this: *)
LEMMA GotMatches ==
  ASSUME NEW d \in WaitData, d.got = d.want, NEW set, Satisfied(d.all, d.got, set),
         NEW g, g = IF d.all THEN d.got ELSE d.got \cap set
  PROVE  LET c == Asked(d.want, d.all, d.clear, g)
         IN  /\ c \in WaitData /\ Matched(c) /\ c.clear = d.clear /\ c.got = g /\ g \subseteq set
<1>1. /\ d.want \in SUBSET EventFlag /\ d.all \in BOOLEAN
      /\ \A got \in SUBSET EventFlag : Asked(d.want, d.all, d.clear, got) \in WaitData
  BY DataFields
<1>2. g \in SUBSET EventFlag /\ g \subseteq set
  BY <1>1 DEF Satisfied
<1>3. IF d.all THEN g = d.want ELSE g # {} /\ g \subseteq d.want
  BY <1>1 DEF Satisfied
<1> DEFINE c == Asked(d.want, d.all, d.clear, g)
<1>4. c \in WaitData
  BY <1>1, <1>2
<1>5. c.want = d.want /\ c.all = d.all /\ c.clear = d.clear /\ c.got = g
  BY DEF Asked
<1>6. Matched(c)
  BY <1>3, <1>5 DEF Matched
<1> QED
  BY <1>2, <1>4, <1>5, <1>6

(* the argument of its call becomes this, *)
LEMMA GotArg ==
  ASSUME NEW a \in [Thread -> ArgType], NEW t \in Thread, a[t].data \in WaitData,
         NEW g \in SUBSET EventFlag
  PROVE  LET b == [a EXCEPT ![t].data.got = g]
             d == a[t].data
         IN  /\ b \in [Thread -> ArgType] /\ b[t].data = Asked(d.want, d.all, d.clear, g)
             /\ \A u \in Thread : u # t => b[u] = a[u]
<1> DEFINE b == [a EXCEPT ![t].data.got = g]
           d == a[t].data
           c == Asked(d.want, d.all, d.clear, g)
<1>1. d = Asked(d.want, d.all, d.clear, d.got) /\ c \in WaitData
  BY DataFields
<1>2. [d EXCEPT !.got = g] = c
  <2> DEFINE x == d.want
             y == d.all
             z == d.clear
             o == d.got
  <2>1. d = Asked(x, y, z, o)
    BY <1>1
  <2> HIDE DEF x, y, z, o, d
  <2>2. [d EXCEPT !.got = g] = Asked(x, y, z, g)
    BY <2>1 DEF Asked
  <2> QED
    BY <2>2 DEF x, y, z
<1>3. a[t] \in ArgType
  OBVIOUS
<1>4. [a[t] EXCEPT !.data = c] \in ArgType /\ [a[t] EXCEPT !.data = c].data = c
  <2> HIDE DEF c
  <2> QED
    BY <1>1, <1>3 DEF ArgType
<1>5. b = [a EXCEPT ![t] = [a[t] EXCEPT !.data = c]]
  <2>1. b = [a EXCEPT ![t] = [a[t] EXCEPT !.data = [d EXCEPT !.got = g]]]
    OBVIOUS
  <2> HIDE DEF b, c
  <2> QED
    BY <1>2, <2>1
<1> HIDE DEF b, c
<1>6. b \in [Thread -> ArgType] /\ b[t].data = c /\ \A u \in Thread : u # t => b[u] = a[u]
  BY <1>4, <1>5
<1> QED
  BY <1>6 DEF b, c

(* and the flags go here. *)
LEMMA PassFlags ==
  ASSUME NEW a, NEW b, NEW set, NEW S, NEW R, WalkFlags(a, set, S, R), NEW t, t \notin R,
         \A u \in R : b[u] = a[u], NEW g, g \subseteq set, b[t].data.got = g,
         b[t].data.clear \in BOOLEAN,
         NEW left, left = IF b[t].data.clear THEN set \ g ELSE set
  PROVE  WalkFlags(b, left, S, R \cup {t})
<1>1. left \subseteq S /\ left \subseteq set
  BY DEF WalkFlags
<1>2. \A u \in R, e \in EventFlag \cup S : Takes(b, u, e) <=> Takes(a, u, e)
  BY DEF Takes
<1>3. \A u \in R, e \in left : ~Takes(b, u, e)
  BY <1>1, <1>2 DEF WalkFlags
<1>4. \A e \in left : ~Takes(b, t, e)
  BY DEF Takes
<1>5. ASSUME NEW e \in S \ left
      PROVE  \E u \in R \cup {t} : Takes(b, u, e) /\ \A v \in (R \cup {t}) \ {u} : ~Takes(b, v, e)
  <2>1. CASE e \notin set
    <3>1. PICK u \in R : Takes(a, u, e) /\ \A v \in R \ {u} : ~Takes(a, v, e)
      BY <1>5, <2>1 DEF WalkFlags
    <3>2. Takes(b, u, e) /\ \A v \in R \ {u} : ~Takes(b, v, e)
      BY <1>2, <1>5, <3>1
    <3>3. ~Takes(b, t, e)
      BY <2>1 DEF Takes
    <3> QED
      BY <3>1, <3>2, <3>3
  <2>2. CASE e \in set
    <3>1. Takes(b, t, e)
      BY <1>5, <2>2 DEF Takes
    <3>2. \A v \in R : ~Takes(b, v, e)
      BY <1>2, <1>5, <2>2 DEF WalkFlags
    <3> QED
      BY <3>1, <3>2
  <2> QED
    BY <2>1, <2>2
<1> QED
  BY <1>1, <1>3, <1>4, <1>5 DEF WalkFlags

(* The state of a walk past the threads of P. *)
WalkedPast(w, S, P) == \E R : R \subseteq P /\ Walked(w, S, P, R)

(* One pass of the walk. *)
LEMMA PassOK ==
  ASSUME IpcInv, Asking, NEW w, NEW S, NEW P, WalkedPast(w, S, P), P \subseteq Thread,
         NEW t \in Thread, In(t, k.wait[receivers]), t \notin P
  PROVE  WalkedPast(Pass(w, t), S, P \cup {t})
<1>0. PICK R : R \subseteq P /\ Walked(w, S, P, R)
  BY DEF WalkedPast
<1> DEFINE d == arg[t].data
           g == Got(w, t)
           c == Asked(d.want, d.all, d.clear, g)
           b == [w.arg EXCEPT ![t].data.got = g]
           left == IF d.clear THEN w.set \ g ELSE w.set
           x == rt_thread_resume(w.k, t)
<1>1. /\ WalkKernel(w.k, R) /\ WalkAnswers(w.arg, w.set, P, R) /\ WalkFlags(w.arg, w.set, S, R)
      /\ w.woke \in BOOLEAN /\ t \notin R
  BY <1>0 DEF Walked
<1>2. w.arg[t] = arg[t] /\ d \in WaitData /\ d.got = d.want /\ w.arg \in [Thread -> ArgType]
  BY <1>1 DEF WalkAnswers, Asking
<1>3. CASE ~Satisfied(d.all, d.got, w.set)
  <2>1. Pass(w, t) = w
    BY <1>2, <1>3 DEF Pass
  <2>2. WalkAnswers(w.arg, w.set, P \cup {t}, R)
    BY <1>1, <1>2, <1>3 DEF WalkAnswers
  <2>3. Walked(w, S, P \cup {t}, R)
    BY <1>1, <2>2 DEF Walked
  <2> QED
    BY <1>0, <2>1, <2>3 DEF WalkedPast
<1>4. CASE Satisfied(d.all, d.got, w.set)
  <2>1. g = IF d.all THEN d.got ELSE d.got \cap w.set
    BY <1>2 DEF Got
  <2>2. Pass(w, t) = [set |-> left, arg |-> b, k |-> x, woke |-> TRUE]
    BY <1>2, <1>4 DEF Pass
  <2> HIDE DEF g
  <2>3. c \in WaitData /\ Matched(c) /\ c.clear = d.clear /\ c.got = g /\ g \subseteq w.set
    <3>1. d \in WaitData /\ d.got = d.want /\ Satisfied(d.all, d.got, w.set)
      BY <1>2, <1>4
    <3> DEFINE l == w.set
    <3>2. Satisfied(d.all, d.got, l) /\ g = IF d.all THEN d.got ELSE d.got \cap l
      BY <2>1, <3>1
    <3> HIDE DEF d, l
    <3> QED
      BY <3>1, <3>2, GotMatches DEF l
  <2>4. g \in SUBSET EventFlag /\ d.clear \in BOOLEAN
    BY <1>2, <2>3, DataFields
  <2>5. /\ b \in [Thread -> ArgType] /\ b[t].data = c
        /\ \A u \in Thread : u # t => b[u] = w.arg[u]
    <3> DEFINE a == w.arg
    <3>1. a \in [Thread -> ArgType] /\ a[t].data \in WaitData /\ a[t].data = d
      BY <1>2
    <3>2. b = [a EXCEPT ![t].data.got = g]
      OBVIOUS
    <3> HIDE DEF a, b, d
    <3>3. /\ b \in [Thread -> ArgType]
          /\ b[t].data = Asked(a[t].data.want, a[t].data.all, a[t].data.clear, g)
          /\ \A u \in Thread : u # t => b[u] = a[u]
      BY <2>4, <3>1, <3>2, GotArg
    <3> QED
      BY <3>1, <3>3 DEF a
  <2> HIDE DEF b, c, d
  <2>6. left \subseteq w.set
    OBVIOUS
  <2>7. WalkFlags(b, left, S, R \cup {t})
    <3>1. \A u \in R : b[u] = w.arg[u]
      BY <1>0, <1>1, <2>5
    <3>2. /\ b[t].data.got = g /\ b[t].data.clear \in BOOLEAN
          /\ left = IF b[t].data.clear THEN w.set \ g ELSE w.set
      BY <2>3, <2>4, <2>5
    <3> HIDE DEF left
    <3> QED
      BY <1>1, <2>3, <3>1, <3>2, PassFlags
  <2> HIDE DEF left
  <2>8. WalkKernel(x, R \cup {t})
    BY <1>1, PassKernel
  <2>9. WalkAnswers(b, left, P \cup {t}, R \cup {t})
    <3>1. \A u \in Thread : u \notin R \cup {t} => b[u] = arg[u]
      BY <1>1, <2>5 DEF WalkAnswers
    <3>2. \A u \in R \cup {t} : b[u].data \in WaitData /\ Matched(b[u].data)
      <4>1. \A u \in R : b[u] = w.arg[u]
        BY <1>0, <1>1, <2>5
      <4>2. \A u \in R : w.arg[u].data \in WaitData /\ Matched(w.arg[u].data)
        BY <1>1 DEF WalkAnswers
      <4> QED
        BY <2>3, <2>5, <4>1, <4>2
    <3>3. ASSUME NEW u \in (P \cup {t}) \ (R \cup {t})
          PROVE  ~Satisfied(arg[u].data.all, arg[u].data.want, left)
      <4>1. ~Satisfied(arg[u].data.all, arg[u].data.want, w.set)
        BY <1>1 DEF WalkAnswers
      <4> QED
        BY <2>6, <4>1, FewerSatisfy
    <3> QED
      BY <2>5, <3>1, <3>2, <3>3 DEF WalkAnswers
  <2>10. Walked(Pass(w, t), S, P \cup {t}, R \cup {t})
    <3> DEFINE p == Pass(w, t)
    <3>1. p.set = left /\ p.arg = b /\ p.k = x /\ p.woke = TRUE
      BY <2>2
    <3> HIDE DEF p, x
    <3>2. Walked(p, S, P \cup {t}, R \cup {t})
      BY <2>7, <2>8, <2>9, <3>1 DEF Walked
    <3> QED
      BY <3>2 DEF p
  <2> QED
    BY <1>0, <2>10 DEF WalkedPast
<1> QED
  BY <1>3, <1>4

(* The whole walk: every waiter is woken with what it asked for or stays   *)
(* unsatisfied by what is left, and every flag that is not left has gone   *)
(* to one receiver.                                                        *)
LEMMA WalkOK ==
  ASSUME IpcInv, Asking, NEW S
  PROVE  LET W == {t \in Thread : In(t, k.wait[receivers])}
         IN  \E R \in SUBSET W : Walked(Walk(S, Len(k.wait[receivers])), S, W, R)
<1> DEFINE s == k.wait[receivers]
           N == Len(s)
           P(n) == {s[j] : j \in 1 .. n}
           W == {t \in Thread : In(t, s)}
<1>1. s \in Seq(Thread) /\ N \in Nat /\ DOMAIN s = 1 .. N /\ Once(s)
  BY ListsKnown DEF IpcInv, Sound, KernelState
<1>2. PICK F : /\ Walk(S, N) = F[N]
               /\ F[0] = [set |-> S, arg |-> arg, k |-> k, woke |-> FALSE]
               /\ \A n \in 1 .. N : F[n] = Pass(F[n - 1], s[n])
  BY <1>1, WalkSteps
<1> DEFINE Bad == {n \in 0 .. N : ~WalkedPast(F[n], S, P(n))}
<1> HIDE DEF N
<1>3. Bad = {}
  <2> SUFFICES ASSUME Bad # {} PROVE FALSE
    OBVIOUS
  <2>1. Bad \in SUBSET Nat
    BY <1>1
  <2>2. PICK m \in Bad : \A n \in Bad : m <= n
    BY <2>1, LeastNatural
  <2>3. m \in 0 .. N /\ ~WalkedPast(F[m], S, P(m))
    BY <2>2
  <2>4. CASE m = 0
    <3>1. P(0) = {}
      OBVIOUS
    <3> DEFINE f == F[0]
    <3>2. f.set = S /\ f.arg = arg /\ f.k = k /\ f.woke = FALSE
      BY <1>2
    <3> HIDE DEF f
    <3>3. WalkKernel(k, {})
      BY SameWakes DEF WalkKernel, IpcInv
    <3>4. WalkAnswers(arg, S, {}, {}) /\ WalkFlags(arg, S, S, {})
      BY DEF WalkAnswers, WalkFlags, Asking
    <3>5. WalkedPast(f, S, {})
      <4>1. Walked(f, S, {}, {})
        BY <3>2, <3>3, <3>4 DEF Walked
      <4> QED
        BY <4>1 DEF WalkedPast
    <3> QED
      BY <2>3, <2>4, <3>1, <3>5 DEF f
  <2>5. CASE m # 0
    <3>1. m - 1 \in 0 .. N /\ ~(m <= m - 1) /\ m \in 1 .. N
      BY <1>1, <2>3, <2>5
    <3>2. WalkedPast(F[m - 1], S, P(m - 1))
      BY <2>2, <3>1
    <3>3. s[m] \in Thread /\ In(s[m], s)
      BY <1>1, <3>1 DEF In
    <3>4. ASSUME NEW j \in 1 .. m - 1 PROVE s[m] # s[j] /\ s[j] \in Thread
      <4>1. j \in DOMAIN s /\ m \in DOMAIN s /\ j # m
        BY <1>1, <3>1
      <4> QED
        BY <1>1, <4>1 DEF Once
    <3>5. P(m) = P(m - 1) \cup {s[m]}
      BY <1>1, <3>1
    <3>6. F[m] = Pass(F[m - 1], s[m])
      BY <1>2, <3>1
    <3>7. s[m] \notin P(m - 1) /\ P(m - 1) \subseteq Thread
      BY <3>4
    <3> DEFINE p == P(m - 1)
               t == s[m]
               f == F[m - 1]
    <3>8. WalkedPast(Pass(f, t), S, p \cup {t})
      <4>1. /\ WalkedPast(f, S, p) /\ t \in Thread /\ In(t, k.wait[receivers])
            /\ t \notin p /\ p \subseteq Thread
        BY <3>2, <3>3, <3>7
      <4> HIDE DEF p, t, f
      <4> QED
        BY <4>1, PassOK
    <3> HIDE DEF P
    <3> QED
      BY <2>3, <3>5, <3>6, <3>8
  <2> QED
    BY <2>4, <2>5
<1>4. WalkedPast(F[N], S, P(N))
  <2> HIDE DEF Bad, P
  <2>1. N \in 0 .. N /\ N \notin Bad
    BY <1>1, <1>3
  <2> QED
    BY <2>1 DEF Bad
<1>5. P(N) = W
  BY <1>1 DEF In
<1> HIDE DEF P, W
<1>6. \E R \in SUBSET W : Walked(Walk(S, N), S, W, R)
  BY <1>2, <1>4, <1>5 DEF WalkedPast
<1> QED
  BY <1>6 DEF W, N

-----------------------------------------------------------------------------
(* The event: its invariants *)

EventTypes ==
  kind = "event" /\ flag \in Flags /\ live \in BOOLEAN /\ ev \in SUBSET EventFlag

(* Nobody waits for flags that are there, *)
Unmet ==
  \A t \in Thread : In(t, k.wait[receivers]) =>
    ~Satisfied(arg[t].data.all, arg[t].data.want, ev)

(* and whoever is to return flags has those it wanted. *)
Answered ==
  \A t \in Thread : t \in Woken(receivers) \/ pc[t].op = "leave" => Matched(arg[t].data)

EventInv == IpcInv /\ WaitersClear /\ EventTypes /\ Asking /\ Unmet /\ Answered

(* What EventsKept says of a step. *)
EventStep ==
  \/ rt_event_control \/ rt_event_init
  \/ \A e \in ev \ ev' :
       \E t \in Thread :
         /\ arg'[t].data # NoData /\ arg'[t].data.clear /\ e \in arg'[t].data.got
         /\ ~In(t, k'.wait[receivers])
         /\ \A u \in Thread \ {t} :
              In(u, k.wait[receivers]) /\ ~In(u, k'.wait[receivers]) =>
                ~(arg'[u].data.clear /\ e \in arg'[u].data.got)

EventGood == EventInv' /\ EventStep

(* A step that adds no flag and no waiter. *)
LEMMA EventKept ==
  ASSUME EventInv, NEW L, Steps(L, {}), kind' = kind, flag' \in Flags, live' \in BOOLEAN,
         ev' \subseteq ev, arg' \in [Thread -> ArgType],
         \A t \in Thread : arg'[t] # arg[t] => t \in L /\ ~In(t, k.wait[receivers]),
         \A t \in Thread : pc'[t].op = "leave" =>
           (pc[t].op = "leave" /\ arg'[t] = arg[t]) \/ Matched(arg'[t].data)
  PROVE  EventInv'
<1>1. IpcInv' /\ WaitersClear' /\ receivers \in WaitList
  BY ListsKnown DEF Steps, EventInv
<1>2. EventTypes'
  BY DEF EventInv, EventTypes
<1>3. \A t \in Thread : In(t, k'.wait[receivers]) => In(t, k.wait[receivers]) /\ arg'[t] = arg[t]
  BY <1>1 DEF Steps, Shrinks
<1>4. Asking'
  BY <1>3 DEF EventInv, Asking
<1>5. Unmet'
  <2> SUFFICES ASSUME NEW t \in Thread, In(t, k'.wait[receivers])
               PROVE  ~Satisfied(arg'[t].data.all, arg'[t].data.want, ev')
    BY DEF Unmet
  <2>1. arg'[t] = arg[t] /\ ~Satisfied(arg[t].data.all, arg[t].data.want, ev)
    BY <1>3 DEF EventInv, Unmet
  <2> QED
    BY <2>1, FewerSatisfy
<1>6. Answered'
  <2>1. Woken(receivers)' = Woken(receivers) \ L
    BY <1>1 DEF Steps, Shifts
  <2>2. \A t \in Thread : t \in Woken(receivers)' => t \in Woken(receivers) /\ arg'[t] = arg[t]
    BY <2>1
  <2> QED
    BY <2>2 DEF Answered, EventInv
<1> QED
  BY <1>1, <1>2, <1>4, <1>5, <1>6 DEF EventInv

(* One that takes no flag away. *)
LEMMA NoneGone ==
  ASSUME ev' = ev
  PROVE  EventStep
BY DEF EventStep

(* A step of the running thread that does not block it, its arguments      *)
(* changed or not.                                                         *)
LEMMA EventMoves ==
  ASSUME EventInv, Steps({me}, {}), me \in Thread, NEW o, NEW S, Moves(o, S),
         k.stat[me] = "READY", kind' = kind, flag' \in Flags, live' \in BOOLEAN, ev' \subseteq ev,
         NEW a \in ArgType, arg' = [arg EXCEPT ![me] = a], o = "leave" => Matched(a.data)
  PROVE  EventInv'
<1>1. arg \in [Thread -> ArgType] /\ IpcInv /\ receivers \in WaitList
  BY ListsKnown DEF EventInv, Asking
<1>2. arg' \in [Thread -> ArgType] /\ arg'[me] = a /\ \A t \in Thread : t # me => arg'[t] = arg[t]
  BY <1>1
<1>3. ~In(me, k.wait[receivers])
  BY <1>1, ReadyOff
<1>4. \A t \in Thread : arg'[t] # arg[t] => t \in {me} /\ ~In(t, k.wait[receivers])
  BY <1>2, <1>3
<1>5. ASSUME NEW t \in Thread, pc'[t].op = "leave"
      PROVE  (pc[t].op = "leave" /\ arg'[t] = arg[t]) \/ Matched(arg'[t].data)
  <2>1. CASE t = me
    BY <1>2, <1>5, <2>1 DEF Moves
  <2>2. CASE t # me
    BY <1>2, <1>5, <2>2 DEF Moves
  <2> QED
    BY <2>1, <2>2
<1> QED
  BY <1>2, <1>4, <1>5, EventKept

(* The arguments of the running thread are some arguments. *)
LEMMA ArgStays ==
  ASSUME EventInv, me \in Thread
  PROVE  arg[me] \in ArgType /\ arg = [arg EXCEPT ![me] = arg[me]]
BY DEF EventInv, Asking

(* A step outside the event, its arguments unchanged. *)
LEMMA EventOutside ==
  ASSUME EventInv, Steps({me}, {}), me \in Thread, NEW o, NEW S, Moves(o, S), o # "leave",
         k.stat[me] = "READY", kind' = kind, flag' = flag, live' \in BOOLEAN, ev' = ev, arg' = arg
  PROVE  EventGood
<1>1. flag' \in Flags /\ ev' \subseteq ev
  BY DEF EventInv, EventTypes
<1>2. EventInv'
  BY <1>1, ArgStays, EventMoves
<1> QED
  BY <1>2, NoneGone DEF EventGood

(* The kernel calls that are not about the event, and the interrupts. *)
LEMMA EventAside ==
  ASSUME EventInv, ObjectCall, ev' = ev
  PROVE  EventGood
<1>1. PICK L \in SUBSET Thread : AsideStep(L)
  BY ObjectCallStep DEF EventInv
<1>2. /\ kind' = kind /\ flag' \in Flags /\ live' \in BOOLEAN /\ arg' = arg /\ ev' \subseteq ev
      /\ arg' \in [Thread -> ArgType] /\ Steps(L, {})
  BY <1>1 DEF ObjectCall, object, kept, EventInv, EventTypes, Asking, AsideStep
<1>3. \A t \in Thread : pc'[t].op = "leave" => pc[t].op = "leave" /\ arg'[t] = arg[t]
  BY <1>1, <1>2 DEF AsideStep, Aside
<1>4. EventInv'
  BY <1>2, <1>3, EventKept
<1> QED
  BY <1>4, NoneGone DEF EventGood

(* The rt_schedule of a send or a reset. *)
LEMMA EventSchedule ==
  ASSUME EventInv, Schedule, UNCHANGED object, ev' = ev
  PROVE  EventGood
<1>1. Steps({me}, {}) /\ me \in Thread /\ Moves("run", {}) /\ pc[me].op = "sched"
  BY CallWakes DEF rt_thread_sleep, SleepReturn, Schedule, Calls, At, EventInv
<1>2. k.stat[me] = "READY" /\ kind' = kind /\ flag' = flag /\ live' \in BOOLEAN /\ arg' = arg
  BY SelfReady DEF Schedule, EventInv, EventTypes, object, kept
<1> QED
  BY <1>1, <1>2, EventOutside

(* rt_event_detach *)
LEMMA EventDetach ==
  ASSUME EventInv, rt_event_detach
  PROVE  EventGood
<1>1. DetachesOne /\ live \in BOOLEAN /\ IpcInv /\ ev' = ev
  BY DEF rt_event_detach, DetachesOne, DetachLoop, EventInv, EventTypes
<1>2. /\ Steps({me}, {}) /\ me \in Thread
      /\ \E o \in {"run", "detach", "rouse"}, S \in SUBSET {receivers} : Moves(o, S)
      /\ kind' = kind /\ flag' = flag /\ arg' = arg /\ live' \in BOOLEAN
  BY <1>1, DetachOneStep
<1>3. k.stat[me] = "READY"
  <2>1. \E p \in {"run", "detach", "rouse"} : At(p)
    BY <1>1 DEF DetachesOne, Detach, Calls, DetachTest, DetachBody, DetachObject, DetachEnd
  <2> QED
    BY <1>1, <2>1, SelfReady
<1>4. PICK o \in {"run", "detach", "rouse"}, S \in SUBSET {receivers} : Moves(o, S)
  BY <1>2
<1> QED
  BY <1>1, <1>2, <1>3, <1>4, EventOutside

(* The end of a receive, *)
LEMMA EventLeaves ==
  ASSUME EventInv, NEW p, At(p), p \in {"leave", "woken"}, Return, Leave, k' = k, UNCHANGED kept,
         ev' = ev
  PROVE  EventGood
<1>1. IpcInv /\ kind' = kind /\ flag' \in Flags /\ live' \in BOOLEAN /\ ev' \subseteq ev
  BY DEF EventInv, EventTypes, kept
<1>2. me # Idle /\ me \in Thread /\ k.stat[me] = "READY"
  BY <1>1, SelfReady DEF At, IpcInv, Located
<1> DEFINE o == "run"
           S == {}
           a == NoArg
<1>3. Steps({me}, {}) /\ Moves(o, S) /\ o # "leave"
  BY <1>1, <1>2, ReturnWakes
<1>4. a \in ArgType /\ arg' = [arg EXCEPT ![me] = a]
  BY DEF NoArg, ArgType, Time, Leave
<1> HIDE DEF o, S, a
<1>5. EventInv'
  BY <1>1, <1>2, <1>3, <1>4, EventMoves
<1> QED
  BY <1>5, NoneGone DEF EventGood

(* with flags *)
LEMMA EventReturn ==
  ASSUME EventInv, RecvEventReturn
  PROVE  EventGood
<1>1. Return /\ Leave /\ k' = k /\ UNCHANGED kept /\ ev' = ev /\ (At("leave") \/ At("woken"))
  BY DEF RecvEventReturn, kept
<1>2. PICK p \in {"leave", "woken"} : At(p)
  BY <1>1
<1> QED
  BY <1>1, <1>2, EventLeaves

(* or with an error. *)
LEMMA EventFails ==
  ASSUME EventInv, WaitFails(receivers), ev' = ev
  PROVE  EventGood
<1>1. Return /\ Leave /\ k' = k /\ UNCHANGED kept /\ At("woken")
  BY DEF WaitFails, kept
<1> QED
  BY <1>1, EventLeaves

(* A call of the running thread that sets thread->error and goes on. *)
LEMMA ErrorMoves ==
  ASSUME IpcInv, Calls, NEW e \in Error, k' = [k EXCEPT !.error[me] = e],
         NEW o \in Op \ {"block", "woken"}, NEW S \in SUBSET WaitList, o = "run" => S = {},
         pc' = [pc EXCEPT ![me] = [op |-> o, on |-> S]]
  PROVE  /\ Steps({me}, {}) /\ Moves(o, S) /\ me \in Thread /\ k.stat[me] = "READY"
         /\ k'.wait = k.wait
<1>1. Sound(k) /\ me \in Thread /\ k.stat[me] = "READY" /\ me # Idle
  BY SelfReady DEF IpcInv, Calls
<1>2. /\ Sound(k') /\ k'.error = [k.error EXCEPT ![me] = e]
      /\ k'.stat = k.stat /\ k'.wait = k.wait /\ k'.current = k.current
  BY <1>1, ErrorSound
<1>3. Wakes(k', k)
  BY <1>2, SameWakes
<1>4. IpcInv'
  BY <1>1, <1>2, <1>3, CallPlaces
<1>5. Moves(o, S)
  BY MovesIntro
<1>6. \A t \in Thread : t # me => k'.error[t] = k.error[t]
  <2>1. k.error \in [Thread -> Error]
    BY <1>1 DEF Sound, KernelState
  <2> QED
    BY <1>2, <2>1
<1>7. Steps({me}, {})
  BY <1>1, <1>2, <1>4, <1>5, <1>6, MoveWakes
<1> QED
  BY <1>1, <1>2, <1>5, <1>7

(* rt_event_recv that finds its flags, *)
LEMMA RecvFinds ==
  ASSUME EventInv, NEW r \in Request, Calls, Satisfied(r.all, r.want, ev),
         ev' = IF r.clear THEN ev \ r.want ELSE ev, k' = [k EXCEPT !.error[me] = "EOK"],
         Goto("leave", receivers), Enter("none", Wait(r, ev \cap r.want)), UNCHANGED kept
  PROVE  EventGood
<1> DEFINE o == "leave"
           S == {receivers}
           e == "EOK"
           g == ev \cap r.want
           d == Wait(r, g)
           a == [time |-> "none", data |-> d]
<1>1. /\ IpcInv /\ kind' = kind /\ flag' \in Flags /\ live' \in BOOLEAN /\ ev' \subseteq ev
      /\ ev \in SUBSET EventFlag /\ receivers \in WaitList
  BY ListsKnown DEF EventInv, EventTypes, kept
<1>2. /\ e \in Error /\ k' = [k EXCEPT !.error[me] = e] /\ o \in Op \ {"block", "woken"}
      /\ S \in SUBSET WaitList /\ o # "run" /\ pc' = [pc EXCEPT ![me] = [op |-> o, on |-> S]]
  BY <1>1 DEF Error, Op, Goto
<1>3. g \in SUBSET EventFlag
  BY <1>1
<1>4. arg' = [arg EXCEPT ![me] = a]
  BY DEF Enter
<1>5. /\ d \in WaitData /\ d.want = r.want /\ d.all = r.all /\ d.clear = r.clear /\ d.got = g
      /\ r.all \in BOOLEAN /\ r.clear \in BOOLEAN
  <2> HIDE DEF g
  <2> QED
    BY <1>3, WaitFields
<1> HIDE DEF o, S, e, d
<1>6. Matched(d)
  BY <1>5 DEF Matched, Satisfied
<1>7. /\ Steps({me}, {}) /\ Moves(o, S) /\ me \in Thread /\ k.stat[me] = "READY"
      /\ k'.wait = k.wait
  BY <1>1, <1>2, ErrorMoves
<1>8. a \in ArgType /\ a.data = d
  BY <1>5 DEF ArgType, Time
<1> HIDE DEF a
<1>9. EventInv'
  BY <1>1, <1>4, <1>6, <1>7, <1>8, EventMoves
<1>10. EventStep
  <2> SUFFICES ASSUME NEW x \in ev \ ev'
               PROVE  \E t \in Thread :
                        /\ arg'[t].data # NoData /\ arg'[t].data.clear /\ x \in arg'[t].data.got
                        /\ ~In(t, k'.wait[receivers])
                        /\ \A u \in Thread \ {t} :
                             In(u, k.wait[receivers]) /\ ~In(u, k'.wait[receivers]) =>
                               ~(arg'[u].data.clear /\ x \in arg'[u].data.got)
    BY DEF EventStep
  <2>1. arg'[me] = a
    BY <1>4, <1>7 DEF EventInv, Asking
  <2>2. arg'[me].data # NoData /\ arg'[me].data.clear /\ x \in arg'[me].data.got
    BY <1>5, <1>8, <2>1, WaitDataAssumption
  <2>3. ~In(me, k'.wait[receivers])
    BY <1>1, <1>7, ReadyOff
  <2> QED
    BY <1>7, <2>2, <2>3
<1> QED
  BY <1>9, <1>10 DEF EventGood

(* that does not and returns at once, *)
LEMMA RecvMisses ==
  ASSUME EventInv, Calls, k' = [k EXCEPT !.error[me] = "ETIMEOUT"], pc' = pc, arg' = arg,
         ev' = ev, UNCHANGED kept
  PROVE  EventGood
<1> DEFINE o == "run"
           S == {}
           e == "ETIMEOUT"
<1>1. /\ IpcInv /\ kind' = kind /\ flag' = flag /\ live' \in BOOLEAN /\ me \in Thread
  BY SelfReady DEF EventInv, EventTypes, kept, Calls
<1>2. /\ e \in Error /\ k' = [k EXCEPT !.error[me] = e] /\ o \in Op \ {"block", "woken"}
      /\ S \in SUBSET WaitList /\ (o = "run" => S = {}) /\ o # "leave"
  BY DEF Error, Op
<1>3. pc' = [pc EXCEPT ![me] = [op |-> o, on |-> S]]
  <2>1. pc[me] = [op |-> o, on |-> S]
    BY <1>1 DEF Calls, At, IpcInv, Located, IpcTypeOK
  <2> HIDE DEF o, S
  <2> QED
    BY <1>1, <2>1 DEF IpcInv, IpcTypeOK
<1> HIDE DEF o, S, e
<1>4. Steps({me}, {}) /\ Moves(o, S) /\ k.stat[me] = "READY"
  BY <1>1, <1>2, <1>3, ErrorMoves
<1> QED
  BY <1>1, <1>2, <1>4, EventOutside

(* or waits. *)
LEMMA RecvBlocks ==
  ASSUME EventInv, NEW r \in Request, NEW time \in Time, Calls, ~Satisfied(r.all, r.want, ev),
         k' = Block(k, receivers, flag, time), Goto("block", receivers),
         Enter(time, Wait(r, r.want)), ev' = ev, UNCHANGED kept
  PROVE  EventGood
<1> DEFINE g == r.want
           d == Wait(r, g)
           a == [time |-> time, data |-> d]
<1>1. /\ IpcInv /\ WaitersClear /\ EventTypes' /\ receivers \in WaitList /\ me # Idle /\ At("run")
      /\ arg \in [Thread -> ArgType]
  BY ListsKnown DEF EventInv, EventTypes, kept, Calls, Asking
<1>2. /\ IpcInv' /\ WaitersClear' /\ Moves("block", {receivers}) /\ me \in Thread
      /\ Woken(receivers)' = Woken(receivers) \ {me}
  BY <1>1, BlockWakes
<1>3. \A t \in Thread : In(t, k'.wait[receivers]) <=> In(t, k.wait[receivers]) \/ t = me
  <2>1. Blocked(k', k, receivers, me, flag, time)
    BY <1>1, BlockStep
  <2> QED
    BY <1>1, <2>1 DEF Blocked
<1>4. arg' = [arg EXCEPT ![me] = a]
  BY DEF Enter
<1>5. /\ d \in WaitData /\ d.want = r.want /\ d.all = r.all /\ d.got = g
  <2>1. g \in SUBSET EventFlag
    BY EventAssumption
  <2> HIDE DEF g
  <2> QED
    BY <2>1, WaitFields
<1> HIDE DEF d
<1>6. a \in ArgType /\ a.data = d
  BY <1>5 DEF ArgType
<1> HIDE DEF a
<1>7. arg' \in [Thread -> ArgType] /\ arg'[me] = a /\ \A t \in Thread : t # me => arg'[t] = arg[t]
  BY <1>1, <1>2, <1>4, <1>6
<1>8. Asking'
  <2>1. ASSUME NEW t \in Thread, In(t, k'.wait[receivers])
        PROVE  arg'[t].data \in WaitData /\ arg'[t].data.got = arg'[t].data.want
    <3>1. CASE t = me
      BY <1>5, <1>6, <1>7, <3>1
    <3>2. CASE t # me
      BY <1>3, <1>7, <2>1, <3>2 DEF EventInv, Asking
    <3> QED
      BY <3>1, <3>2
  <2> QED
    BY <1>7, <2>1 DEF Asking
<1>9. Unmet'
  <2> SUFFICES ASSUME NEW t \in Thread, In(t, k'.wait[receivers])
               PROVE  ~Satisfied(arg'[t].data.all, arg'[t].data.want, ev)
    BY DEF Unmet
  <2>1. CASE t = me
    BY <1>5, <1>6, <1>7, <2>1
  <2>2. CASE t # me
    BY <1>3, <1>7, <2>2 DEF EventInv, Unmet
  <2> QED
    BY <2>1, <2>2
<1>10. Answered'
  <2> SUFFICES ASSUME NEW t \in Thread, t \in Woken(receivers)' \/ pc'[t].op = "leave"
               PROVE  Matched(arg'[t].data)
    BY DEF Answered
  <2>1. t # me /\ arg'[t] = arg[t]
    BY <1>2, <1>7 DEF Moves
  <2>2. t \in Woken(receivers) \/ pc[t].op = "leave"
    BY <1>2, <2>1 DEF Moves
  <2> QED
    BY <2>1, <2>2 DEF EventInv, Answered
<1>11. EventInv'
  BY <1>1, <1>2, <1>8, <1>9, <1>10 DEF EventInv
<1> QED
  BY <1>11, NoneGone DEF EventGood

(* rt_event_recv *)
LEMMA EventRecv ==
  ASSUME EventInv, NEW r \in Request, NEW time \in Time, rt_event_recv(r, time)
  PROVE  EventGood
<1>1. CASE /\ Satisfied(r.all, r.want, ev) /\ ev' = IF r.clear THEN ev \ r.want ELSE ev
           /\ k' = [k EXCEPT !.error[me] = "EOK"]
           /\ Goto("leave", receivers) /\ Enter("none", Wait(r, ev \cap r.want))
  BY <1>1, RecvFinds DEF rt_event_recv
<1>2. CASE /\ k' = [k EXCEPT !.error[me] = "ETIMEOUT"] /\ UNCHANGED <<pc, arg, ev>>
  BY <1>2, RecvMisses DEF rt_event_recv
<1>3. CASE /\ ~Satisfied(r.all, r.want, ev) /\ k' = Block(k, receivers, flag, time)
           /\ Goto("block", receivers) /\ Enter(time, Wait(r, r.want)) /\ ev' = ev
  BY <1>3, RecvBlocks DEF rt_event_recv
<1> QED
  BY <1>1, <1>2, <1>3 DEF rt_event_recv

(* rt_event_control *)
LEMMA EventReset ==
  ASSUME EventInv, rt_event_control
  PROVE  EventGood
<1> DEFINE X == {t \in Thread : In(t, k.wait[receivers])}
           o == "sched"
           S == {receivers}
<1>1. /\ IpcInv /\ Calls /\ At("run") /\ me # Idle /\ receivers \in WaitList
      /\ k' = rt_ipc_list_resume_all(k, receivers) /\ Goto("sched", receivers)
      /\ kind' = kind /\ flag' \in Flags /\ live' \in BOOLEAN /\ arg' = arg /\ ev' \subseteq ev
  BY ListsKnown DEF EventInv, EventTypes, rt_event_control, Calls, object, kept
<1>2. /\ IpcInv' /\ Moves(o, S) /\ me \in Thread /\ k.stat[me] = "READY" /\ o # "leave"
      /\ o \notin {"block", "woken"} /\ Roused(k', k, receivers, X)
  BY <1>1, ResetStep
<1> HIDE DEF o, S
<1>3. Frees({}, X, {me})
  <2>1. \A t \in Thread, v \in WaitList : In(t, k'.wait[v]) <=> In(t, k.wait[v]) /\ t \notin X
    <3>1. \A t \in X, v \in WaitList : In(t, k.wait[v]) => v = receivers
      BY <1>1, WaiterInside
    <3> QED
      BY <1>2, <3>1 DEF Roused
  <2>2. \A t \in Thread : t \notin X => k'.error[t] = k.error[t]
    BY <1>2 DEF Roused
  <2>3. \A t \in X : k'.error[t] # "EOK"
    BY <1>2 DEF Roused
  <2>4. \A t \in X, v \in WaitList : t \notin Woken(v)
    BY <1>1, WaiterInside DEF Woken
  <2> QED
    BY <2>1, <2>2, <2>3, <2>4 DEF Frees
<1>4. Leaves({me})
  BY <1>2, MeLeaves
<1>5. /\ {} \in SUBSET Thread /\ X \in SUBSET Thread /\ {} \cap {me} = {}
      /\ \A u \in {me}, v \in WaitList : ~In(u, k.wait[v])
  BY <1>1, <1>2, ReadyOff
<1> HIDE DEF X
<1>6. Shifts({me}, {}) /\ Shrinks /\ (WaitersClear => WaitersClear')
  BY <1>1, <1>3, <1>4, <1>5, WokenAfter
<1>7. Steps({me}, {})
  BY <1>2, <1>6 DEF Steps
<1>8. EventInv'
  BY <1>1, <1>2, <1>7, ArgStays, EventMoves
<1> QED
  BY <1>8 DEF EventGood, EventStep

(* rt_event_init *)
LEMMA EventInitialised ==
  ASSUME EventInv, rt_event_init
  PROVE  EventGood
<1>1. /\ k' = k /\ pc' = pc /\ kind' = kind /\ flag' \in Flags /\ live' \in BOOLEAN /\ arg' = arg
      /\ ev' \subseteq ev /\ arg' \in [Thread -> ArgType] /\ IpcInv
  BY DEF rt_event_init, InitObject, EventInv, Asking
<1>2. Steps({}, {})
  <2>1. IpcInv' /\ \A w \in WaitList : Woken(w)' = Woken(w)
    BY <1>1, StillWaits
  <2>2. WaitersClear => WaitersClear'
    BY <1>1 DEF WaitersClear
  <2> QED
    BY <1>1, <2>1, <2>2 DEF Steps, Shifts, Shrinks
<1>3. EventInv'
  <2> DEFINE L == {}
  <2>1. Steps(L, {})
    BY <1>2
  <2> HIDE DEF L
  <2> QED
    BY <1>1, <2>1, EventKept
<1> QED
  BY <1>3 DEF EventGood, EventStep

(* What a send leaves behind, whoever runs next: P the waiters, R those    *)
(* of them that were woken.                                                *)
LEMMA EventSent ==
  ASSUME EventInv, NEW set \in SUBSET EventFlag, NEW w, NEW R,
         Walked(w, ev \cup set, {t \in Thread : In(t, k.wait[receivers])}, R),
         R \subseteq {t \in Thread : In(t, k.wait[receivers])},
         ev' = w.set, arg' = w.arg, UNCHANGED kept, IpcInv', k'.wait = w.k.wait,
         k'.error = k.error, NEW L, L \subseteq Thread, Leaves(L),
         \A t \in L : \A v \in WaitList : ~In(t, k.wait[v]),
         \A t \in Thread : pc'[t].op = "leave" => pc[t].op = "leave"
  PROVE  EventGood
<1> DEFINE W == {t \in Thread : In(t, k.wait[receivers])}
           S == ev \cup set
<1>1. /\ WalkKernel(w.k, R) /\ WalkAnswers(w.arg, w.set, W, R) /\ WalkFlags(w.arg, w.set, S, R)
      /\ receivers \in WaitList /\ IpcInv /\ WaitersClear /\ R \subseteq W
  BY ListsKnown DEF Walked, EventInv
<1>2. \A t \in Thread, v \in WaitList : In(t, k'.wait[v]) <=> In(t, k.wait[v]) /\ t \notin R
  BY <1>1 DEF WalkKernel
<1>3. Frees(R, {}, L)
  <2>1. \A t \in R : k'.error[t] = "EOK" /\ In(t, k.wait[receivers])
    BY <1>1 DEF WaitersClear
  <2> QED
    BY <1>1, <1>2, <2>1 DEF Frees
<1>4. /\ R \in SUBSET Thread /\ {} \in SUBSET Thread /\ R \cap L = {}
      /\ \A t \in L, v \in WaitList : ~In(t, k.wait[v])
  BY <1>1
<1>5. Shifts(L, R) /\ (WaitersClear => WaitersClear')
  BY <1>1, <1>3, <1>4, WokenAfter
<1>6. Woken(receivers)' \subseteq Woken(receivers) \cup R
  BY <1>1, <1>5 DEF Shifts
<1>7. EventTypes'
  <2>1. ev' \in SUBSET EventFlag
    BY <1>1 DEF WalkFlags, EventInv, EventTypes
  <2> QED
    BY <2>1 DEF EventInv, EventTypes, kept
<1>8. \A t \in Thread : t \notin R => arg'[t] = arg[t]
  BY <1>1 DEF WalkAnswers
<1>9. Asking'
  <2>1. arg' \in [Thread -> ArgType]
    BY <1>1 DEF WalkAnswers
  <2> QED
    BY <1>1, <1>2, <1>8, <2>1 DEF EventInv, Asking
<1>10. Unmet'
  <2> SUFFICES ASSUME NEW t \in Thread, In(t, k'.wait[receivers])
               PROVE  ~Satisfied(arg'[t].data.all, arg'[t].data.want, ev')
    BY DEF Unmet
  <2>1. t \in W \ R
    BY <1>1, <1>2
  <2> QED
    BY <1>1, <1>8, <2>1 DEF WalkAnswers
<1>11. Answered'
  <2> SUFFICES ASSUME NEW t \in Thread, t \in Woken(receivers)' \/ pc'[t].op = "leave"
               PROVE  Matched(arg'[t].data)
    BY DEF Answered
  <2>1. CASE t \in R
    BY <1>1, <2>1 DEF WalkAnswers
  <2>2. CASE t \notin R
    <3>1. arg'[t] = arg[t] /\ (t \in Woken(receivers) \/ pc[t].op = "leave")
      BY <1>6, <1>8, <2>2
    <3> QED
      BY <3>1 DEF EventInv, Answered
  <2> QED
    BY <2>1, <2>2
<1>12. EventInv'
  BY <1>1, <1>5, <1>7, <1>9, <1>10, <1>11 DEF EventInv
<1>13. EventStep
  <2> SUFFICES ASSUME NEW x \in ev \ ev'
               PROVE  \E t \in Thread :
                        /\ arg'[t].data # NoData /\ arg'[t].data.clear /\ x \in arg'[t].data.got
                        /\ ~In(t, k'.wait[receivers])
                        /\ \A u \in Thread \ {t} :
                             In(u, k.wait[receivers]) /\ ~In(u, k'.wait[receivers]) =>
                               ~(arg'[u].data.clear /\ x \in arg'[u].data.got)
    BY DEF EventStep
  <2>1. PICK t \in R : Takes(w.arg, t, x) /\ \A u \in R \ {t} : ~Takes(w.arg, u, x)
    BY <1>1 DEF WalkFlags
  <2>2. t \in Thread /\ arg'[t].data # NoData /\ ~In(t, k'.wait[receivers])
    BY <1>1, <1>2, WaitDataAssumption DEF WalkAnswers
  <2>3. arg'[t].data.clear /\ x \in arg'[t].data.got
    BY <2>1 DEF Takes
  <2>4. \A u \in Thread \ {t} : In(u, k.wait[receivers]) /\ ~In(u, k'.wait[receivers]) =>
          ~(arg'[u].data.clear /\ x \in arg'[u].data.got)
    BY <1>1, <1>2, <2>1 DEF Takes
  <2> QED
    BY <2>2, <2>3, <2>4
<1> QED
  BY <1>12, <1>13 DEF EventGood

(* rt_event_send *)
LEMMA EventSend ==
  ASSUME EventInv, NEW set \in SUBSET EventFlag, rt_event_send(set)
  PROVE  EventGood
<1> DEFINE w == SendEvent(set)
           W == {t \in Thread : In(t, k.wait[receivers])}
<1>1. /\ Calls /\ me # Idle /\ pc[me].op = "run" /\ ev' = w.set /\ arg' = w.arg /\ k' = w.k
      /\ (IF w.woke THEN Goto("sched", receivers) ELSE pc' = pc) /\ UNCHANGED kept
      /\ IpcInv /\ Asking /\ receivers \in WaitList
  BY ListsKnown DEF rt_event_send, Calls, At, EventInv
<1>2. PICK R \in SUBSET W : Walked(w, ev \cup set, W, R)
  BY <1>1, WalkOK DEF SendEvent
<1> HIDE DEF w
<1>3. /\ Sound(k') /\ Wakes(k', k) /\ k'.error = k.error /\ k'.current = k.current
  BY <1>1, <1>2 DEF Walked, WalkKernel
<1>4. me \in Thread /\ k.stat[me] = "READY"
  BY <1>1, SelfReady DEF Calls
<1>5. CASE w.woke
  <2>1. pc' = [pc EXCEPT ![me] = [op |-> "sched", on |-> {receivers}]]
    BY <1>1, <1>5 DEF Goto
  <2>2. IpcInv'
    <3>1. "sched" \in Op /\ "sched" # "run" /\ {receivers} \in SUBSET WaitList
      BY <1>1 DEF Op
    <3> QED
      BY <1>1, <1>3, <1>4, <2>1, <3>1, CallPlaces
  <2>3. Moves("sched", {receivers})
    BY <1>1, <2>1, MovesIntro
  <2>4. Leaves({me}) /\ {me} \subseteq Thread
    BY <1>4, <2>3, MeLeaves
  <2>5. \A t \in {me} : \A v \in WaitList : ~In(t, k.wait[v])
    BY <1>1, <1>4, ReadyOff
  <2>6. \A t \in Thread : pc'[t].op = "leave" => pc[t].op = "leave"
    BY <1>4, <2>3 DEF Moves
  <2> DEFINE L == {me}
  <2> HIDE DEF L
  <2> QED
    BY <1>1, <1>2, <1>3, <2>2, <2>4, <2>5, <2>6, EventSent DEF L
<1>6. CASE ~w.woke
  <2>1. pc' = pc
    BY <1>1, <1>6
  <2>2. IpcInv'
    BY <1>1, <1>3, <2>1, InterruptPlaces
  <2>3. Leaves({})
    BY <2>1, NobodyLeaves
  <2>4. \A t \in Thread : pc'[t].op = "leave" => pc[t].op = "leave"
    BY <2>1
  <2>5. {} \subseteq Thread /\ \A t \in {} : \A v \in WaitList : ~In(t, k.wait[v])
    OBVIOUS
  <2> QED
    BY <1>1, <1>2, <1>3, <2>2, <2>3, <2>4, <2>5, EventSent
<1> QED
  BY <1>5, <1>6

(* The same in an interrupt handler. *)
LEMMA EventSendInHandler ==
  ASSUME EventInv, NEW set \in SUBSET EventFlag, SendEventInHandler(set)
  PROVE  EventGood
<1> DEFINE w == SendEvent(set)
           W == {t \in Thread : In(t, k.wait[receivers])}
<1>1. /\ ev' = w.set /\ arg' = w.arg /\ k' = (IF w.woke THEN rt_schedule(w.k) ELSE w.k)
      /\ pc' = pc /\ UNCHANGED kept /\ IpcInv /\ Asking
  BY DEF SendEventInHandler, EventInv
<1>2. PICK R \in SUBSET W : Walked(w, ev \cup set, W, R)
  BY <1>1, WalkOK DEF SendEvent
<1> HIDE DEF w
<1>3. WalkKernel(w.k, R) /\ w.woke \in BOOLEAN
  BY <1>2 DEF Walked
<1>4. /\ Sound(k') /\ Wakes(k', k) /\ k'.error = k.error /\ k'.wait = w.k.wait
      /\ k'.current = k.current \/ Best(k', {}, k'.current)
  <2> DEFINE x == w.k
  <2>1. Sound(x) /\ Wakes(x, k) /\ x.error = k.error /\ x.current = k.current
    BY <1>3 DEF WalkKernel
  <2>2. CASE w.woke
    <3>1. k' = rt_schedule(x)
      BY <1>1, <2>2
    <3> HIDE DEF x
    <3>2. /\ Sound(k') /\ Best(k', {}, k'.current) /\ k'.stat = x.stat /\ k'.wait = x.wait
          /\ k'.error = x.error
      BY <2>1, <3>1, ScheduleSound
    <3>3. Wakes(k', x)
      BY <3>2, SameWakes
    <3>4. Wakes(k', k)
      BY <2>1, <3>3, WakesTransitive
    <3> QED
      BY <2>1, <3>2, <3>4 DEF x
  <2>3. CASE ~w.woke
    BY <1>1, <2>1, <2>3
  <2> QED
    BY <2>2, <2>3
<1>5. IpcInv'
  BY <1>1, <1>4, InterruptPlaces
<1>6. Leaves({})
  BY <1>1, NobodyLeaves
<1>7. \A t \in Thread : pc'[t].op = "leave" => pc[t].op = "leave"
  BY <1>1
<1>8. {} \subseteq Thread /\ \A t \in {} : \A v \in WaitList : ~In(t, k.wait[v])
  OBVIOUS
<1> QED
  BY <1>1, <1>2, <1>4, <1>5, <1>6, <1>7, <1>8, EventSent

-----------------------------------------------------------------------------
(* The event: its theorems *)

(* Nothing happens. *)
LEMMA EventStutters ==
  ASSUME EventInv, UNCHANGED eventVars
  PROVE  EventGood
<1>1. /\ k' = k /\ pc' = pc /\ kind' = kind /\ flag' \in Flags /\ live' \in BOOLEAN /\ arg' = arg
      /\ ev' = ev /\ ev' \subseteq ev /\ arg' \in [Thread -> ArgType] /\ IpcInv
  BY DEF eventVars, object, kept, EventInv, EventTypes, Asking
<1>2. Steps({}, {})
  <2>1. IpcInv' /\ \A w \in WaitList : Woken(w)' = Woken(w)
    BY <1>1, StillWaits
  <2>2. WaitersClear => WaitersClear'
    BY <1>1 DEF WaitersClear
  <2> QED
    BY <1>1, <2>1, <2>2 DEF Steps, Shifts, Shrinks
<1>3. EventInv'
  <2> DEFINE L == {}
  <2>1. Steps(L, {})
    BY <1>2
  <2> HIDE DEF L
  <2> QED
    BY <1>1, <2>1, EventKept
<1> QED
  BY <1>1, <1>3, NoneGone DEF EventGood

(* Every step of the event preserves the invariant and keeps the flags. *)
LEMMA EventStepGood == EventInv /\ [EventNext]_eventVars => EventGood
<1> SUFFICES ASSUME EventInv, [EventNext]_eventVars PROVE EventGood
  OBVIOUS
<1>1. CASE \E set \in SUBSET EventFlag : rt_event_send(set) \/ SendEventInHandler(set)
  BY <1>1, EventSend, EventSendInHandler
<1>2. CASE \E r \in Request, time \in Time : rt_event_recv(r, time)
  BY <1>2, EventRecv
<1>3. CASE RecvEventReturn \/ rt_event_control \/ rt_event_detach \/ rt_event_init
  BY <1>3, EventReturn, EventReset, EventDetach, EventInitialised
<1>4. CASE ObjectCall /\ ev' = ev
  BY <1>4, EventAside
<1>5. CASE WaitFails(receivers) /\ ev' = ev
  BY <1>5, EventFails
<1>6. CASE Schedule /\ UNCHANGED object /\ ev' = ev
  BY <1>6, EventSchedule
<1>7. CASE UNCHANGED eventVars
  BY <1>7, EventStutters
<1> QED
  BY <1>1, <1>2, <1>3, <1>4, <1>5, <1>6, <1>7 DEF EventNext

(* It holds when the system starts. *)
LEMMA EventStarts == EventInit => EventInv
<1> SUFFICES ASSUME EventInit PROVE EventInv
  OBVIOUS
<1>1. /\ IpcInv /\ \A w \in WaitList : k.wait[w] = <<>>
      /\ pc = [t \in Thread |-> [op |-> "run", on |-> {}]]
  BY StartSound DEF EventInit, ObjectInit
<1>2. /\ kind = "event" /\ flag \in Flags /\ live = TRUE /\ arg = [t \in Thread |-> NoArg]
      /\ ev = {} /\ receivers \in WaitList
  BY ListsKnown DEF EventInit, ObjectInit
<1>3. EventTypes
  BY <1>2 DEF EventTypes
<1>4. \A t \in Thread, w \in WaitList : ~In(t, k.wait[w])
  BY <1>1 DEF In
<1>5. arg \in [Thread -> ArgType]
  BY <1>2 DEF NoArg, ArgType, Time
<1>6. WaitersClear /\ Asking /\ Unmet
  BY <1>2, <1>4, <1>5 DEF WaitersClear, Asking, Unmet
<1>7. Answered
  BY <1>1 DEF Answered, Woken, Inside
<1> QED
  BY <1>1, <1>3, <1>6, <1>7 DEF EventInv

(* The inductive invariant, and what each step does to the flags. *)
LEMMA EventSafe == EventSpec => []EventInv /\ [][EventStep]_eventVars
<1>1. EventInv /\ [EventNext]_eventVars => EventInv' /\ [EventStep]_eventVars
  BY EventStepGood DEF EventGood
<1> QED
  BY <1>1, EventStarts, PTL DEF EventSpec

(* Each thread is once on the list where its call on the event left it, up *)
(* to a detach loop that takes the list head for a thread.                 *)
THEOREM EventPlaces == EventSpec => []Places
<1>1. EventInv => Places
  BY PlacesKnown DEF EventInv
<1> QED
  BY <1>1, EventSafe, PTL

(* The flags of the event are event flags, and what a waiting call keeps   *)
(* in its thread is a request and its answer.                              *)
THEOREM EventTypeCorrect == EventSpec => []EventTypeOK
<1>1. EventInv => EventTypeOK
  BY DEF EventInv, IpcInv, EventTypes, Asking, ArgType, EventTypeOK, ObjectTypeOK, Kind
<1> QED
  BY <1>1, EventSafe, PTL

(* A receiver waits only while the flags do not meet its request, and one  *)
(* that a send has served returns what it asked for, however many sends,   *)
(* receives, resets and time-outs come between the send and its return.    *)
THEOREM EventMatches == EventSpec => []EventMatched
<1>1. EventInv => EventMatched
  BY DEF EventInv, Unmet, Answered, Matched, EventMatched
<1> QED
  BY <1>1, EventSafe, PTL

(* But for a reset and an initialisation, a flag that goes out goes to a   *)
(* receiver that clears it, and to no other one served by the same send.   *)
THEOREM EventKeeps == EventSpec => EventsKept
BY EventSafe, PTL DEF EventsKept, EventStep

-----------------------------------------------------------------------------
(* The message queue *)

(* The chains of buffers *)

(* The first element of a list goes, *)
LEMMA TailList ==
  ASSUME NEW D, NEW s \in Seq(D), s # <<>>, Once(s)
  PROVE  /\ Tail(s) \in Seq(D) /\ Len(Tail(s)) = Len(s) - 1 /\ Once(Tail(s)) /\ s[1] \in D
         /\ DOMAIN s = 1 .. Len(s) /\ DOMAIN Tail(s) = 1 .. Len(s) - 1 /\ Len(s) \in Nat \ {0}
         /\ \A i \in 1 .. Len(s) - 1 : Tail(s)[i] = s[i + 1]
         /\ \A c : In(c, Tail(s)) <=> In(c, s) /\ c # s[1]
<1> DEFINE m == Tail(s)
<1>1. /\ Len(s) \in Nat \ {0} /\ DOMAIN s = 1 .. Len(s) /\ m \in Seq(D)
      /\ Len(m) = Len(s) - 1 /\ DOMAIN m = 1 .. Len(s) - 1 /\ s[1] \in D
      /\ \A i \in 1 .. Len(s) - 1 : m[i] = s[i + 1]
  OBVIOUS
<1> HIDE DEF m
<1>2. Once(m)
  <2> SUFFICES ASSUME NEW i \in DOMAIN m, NEW j \in DOMAIN m, m[i] = m[j] PROVE i = j
    BY DEF Once
  <2>1. i + 1 \in DOMAIN s /\ j + 1 \in DOMAIN s /\ s[i + 1] = s[j + 1] /\ i \in Nat /\ j \in Nat
    BY <1>1
  <2>2. i + 1 = j + 1
    BY <2>1 DEF Once
  <2> QED
    BY <2>1, <2>2
<1>3. ASSUME NEW c PROVE In(c, m) <=> In(c, s) /\ c # s[1]
  <2>1. ASSUME In(c, m) PROVE In(c, s) /\ c # s[1]
    <3>1. PICK i \in 1 .. Len(s) - 1 : m[i] = c
      BY <1>1, <2>1 DEF In
    <3>2. i + 1 \in DOMAIN s /\ 1 \in DOMAIN s /\ s[i + 1] = c /\ i + 1 # 1
      BY <1>1, <3>1
    <3> QED
      BY <1>1, <3>2 DEF In, Once
  <2>2. ASSUME In(c, s), c # s[1] PROVE In(c, m)
    <3>1. PICK i \in 1 .. Len(s) : s[i] = c
      BY <1>1, <2>2 DEF In
    <3>2. i - 1 \in 1 .. Len(s) - 1 /\ m[i - 1] = c
      BY <1>1, <2>2, <3>1
    <3> QED
      BY <1>1, <3>2 DEF In
  <2> QED
    BY <2>1, <2>2
<1> QED
  BY <1>1, <1>2, <1>3 DEF m

(* one comes before it, *)
LEMMA ConsList ==
  ASSUME NEW D, NEW s \in Seq(D), NEW b \in D, Once(s), ~In(b, s)
  PROVE  /\ <<b>> \o s \in Seq(D) /\ Len(<<b>> \o s) = Len(s) + 1 /\ Once(<<b>> \o s)
         /\ DOMAIN s = 1 .. Len(s) /\ DOMAIN (<<b>> \o s) = 1 .. Len(s) + 1 /\ Len(s) \in Nat
         /\ \A i \in 1 .. Len(s) + 1 : (<<b>> \o s)[i] = IF i = 1 THEN b ELSE s[i - 1]
         /\ \A c : In(c, <<b>> \o s) <=> In(c, s) \/ c = b
<1> DEFINE m == <<b>> \o s
<1>1. /\ Len(s) \in Nat /\ DOMAIN s = 1 .. Len(s) /\ m \in Seq(D)
      /\ Len(m) = Len(s) + 1 /\ DOMAIN m = 1 .. Len(s) + 1
      /\ \A i \in 1 .. Len(s) + 1 : m[i] = IF i = 1 THEN b ELSE s[i - 1]
  OBVIOUS
<1> HIDE DEF m
<1>2. Once(m)
  <2> SUFFICES ASSUME NEW i \in DOMAIN m, NEW j \in DOMAIN m, m[i] = m[j] PROVE i = j
    BY DEF Once
  <2>1. \A n \in DOMAIN m : n # 1 => n - 1 \in DOMAIN s /\ m[n] = s[n - 1] /\ m[n] # b
    BY <1>1 DEF In
  <2>2. m[1] = b
    BY <1>1
  <2>3. CASE i = 1 \/ j = 1
    BY <2>1, <2>2, <2>3
  <2>4. CASE i # 1 /\ j # 1
    <3>1. i - 1 = j - 1
      BY <2>1, <2>4 DEF Once
    <3> QED
      BY <1>1, <3>1
  <2> QED
    BY <2>3, <2>4
<1>3. ASSUME NEW c PROVE In(c, m) <=> In(c, s) \/ c = b
  <2>1. ASSUME In(c, m) PROVE In(c, s) \/ c = b
    BY <1>1, <2>1 DEF In
  <2>2. ASSUME In(c, s) PROVE In(c, m)
    <3>1. PICK i \in 1 .. Len(s) : s[i] = c
      BY <1>1, <2>2 DEF In
    <3>2. i + 1 \in DOMAIN m /\ m[i + 1] = c
      BY <1>1, <3>1
    <3> QED
      BY <3>2 DEF In
  <2>3. In(b, m)
    <3>1. 1 \in DOMAIN m /\ m[1] = b
      BY <1>1
    <3> QED
      BY <3>1 DEF In
  <2> QED
    BY <2>1, <2>2, <2>3
<1> QED
  BY <1>1, <1>2, <1>3 DEF m

(* or behind its last. *)
LEMMA AppendList ==
  ASSUME NEW D, NEW s \in Seq(D), NEW b \in D, Once(s), ~In(b, s)
  PROVE  /\ Append(s, b) \in Seq(D) /\ Len(Append(s, b)) = Len(s) + 1 /\ Once(Append(s, b))
         /\ DOMAIN s = 1 .. Len(s) /\ DOMAIN Append(s, b) = 1 .. Len(s) + 1 /\ Len(s) \in Nat
         /\ \A i \in 1 .. Len(s) + 1 : Append(s, b)[i] = IF i = Len(s) + 1 THEN b ELSE s[i]
         /\ \A c : In(c, Append(s, b)) <=> In(c, s) \/ c = b
<1> DEFINE m == Append(s, b)
<1>1. /\ Len(s) \in Nat /\ DOMAIN s = 1 .. Len(s) /\ m \in Seq(D)
      /\ Len(m) = Len(s) + 1 /\ DOMAIN m = 1 .. Len(s) + 1
      /\ \A i \in 1 .. Len(s) + 1 : m[i] = IF i = Len(s) + 1 THEN b ELSE s[i]
  OBVIOUS
<1> HIDE DEF m
<1>2. \A n \in DOMAIN m : n # Len(s) + 1 => n \in DOMAIN s /\ m[n] = s[n] /\ m[n] # b
  BY <1>1 DEF In
<1>3. Len(s) + 1 \in DOMAIN m /\ m[Len(s) + 1] = b
  BY <1>1
<1>4. Once(m)
  BY <1>2, <1>3 DEF Once
<1>5. \A i \in DOMAIN s : i \in DOMAIN m /\ m[i] = s[i]
  BY <1>1
<1>6. ASSUME NEW c PROVE In(c, m) <=> In(c, s) \/ c = b
  BY <1>2, <1>3, <1>5 DEF In
<1> QED
  BY <1>1, <1>4, <1>6 DEF m

(* The buffers of s are linked, b points to the first. *)
Linked(next, b, s) ==
  /\ b = IF s = <<>> THEN NULL ELSE s[1]
  /\ \A i \in DOMAIN s : next[s[i]] = IF i = Len(s) THEN NULL ELSE s[i + 1]

(* s is the queue, f the free list, and the buffers of X are on neither. *)
Chains(head, tail, free, next, s, f, X) ==
  /\ s \in Seq(Buffer) /\ f \in Seq(Buffer) /\ Once(s) /\ Once(f)
  /\ next \in [Buffer -> Buffer \cup {NULL}]
  /\ Linked(next, head, s) /\ Linked(next, free, f)
  /\ tail = IF s = <<>> THEN NULL ELSE s[Len(s)]
  /\ X \subseteq Buffer
  /\ \A b \in Buffer : (In(b, s) => ~In(b, f)) /\ (b \in X <=> ~In(b, s) /\ ~In(b, f))

(* RT_NULL is no buffer. *)
LEMMA NullKnown == NULL \notin Buffer /\ MQ_MSGS \in Nat \ {0}
BY MessageQueueAssumption DEF NULL, Buffer

(* Links of other buffers do not matter. *)
LEMMA LinkedKept ==
  ASSUME NEW next, NEW b, NEW s, Linked(next, b, s), NEW other,
         \A i \in DOMAIN s : other[s[i]] = next[s[i]]
  PROVE  Linked(other, b, s)
BY DEF Linked

(* A linked list that is not empty, without its first buffer, *)
LEMMA LinkedTail ==
  ASSUME NEW next, NEW b, NEW s \in Seq(Buffer), Linked(next, b, s), Once(s), b # NULL
  PROVE  s # <<>> /\ b = s[1] /\ b \in Buffer /\ Linked(next, next[b], Tail(s))
<1>1. s # <<>> /\ b = s[1]
  BY DEF Linked
<1> DEFINE m == Tail(s)
<1>2. /\ m \in Seq(Buffer) /\ Len(m) = Len(s) - 1 /\ s[1] \in Buffer
      /\ DOMAIN s = 1 .. Len(s) /\ DOMAIN m = 1 .. Len(s) - 1 /\ Len(s) \in Nat \ {0}
      /\ \A i \in 1 .. Len(s) - 1 : m[i] = s[i + 1]
  BY <1>1, TailList
<1> HIDE DEF m
<1>3. next[b] = IF m = <<>> THEN NULL ELSE m[1]
  BY <1>1, <1>2 DEF Linked
<1>4. ASSUME NEW i \in DOMAIN m PROVE next[m[i]] = IF i = Len(m) THEN NULL ELSE m[i + 1]
  <2>1. i \in Nat /\ i + 1 \in DOMAIN s /\ m[i] = s[i + 1]
    BY <1>2
  <2>2. next[s[i + 1]] = IF i + 1 = Len(s) THEN NULL ELSE s[i + 1 + 1]
    BY <2>1 DEF Linked
  <2>3. CASE i = Len(m)
    BY <1>2, <2>1, <2>2, <2>3
  <2>4. CASE i # Len(m)
    <3>1. i + 1 \in 1 .. Len(s) - 1 /\ i + 1 # Len(s) /\ m[i + 1] = s[i + 1 + 1]
      BY <1>2, <2>1, <2>4
    <3> QED
      BY <2>1, <2>2, <2>4, <3>1
  <2> QED
    BY <2>3, <2>4
<1> QED
  BY <1>1, <1>2, <1>3, <1>4 DEF Linked, m

(* with one more before it, *)
LEMMA LinkedCons ==
  ASSUME NEW next, NEW b \in Buffer, NEW h, NEW s \in Seq(Buffer), Linked(next, h, s), Once(s),
         ~In(b, s), NEW other, other[b] = h, \A i \in DOMAIN s : other[s[i]] = next[s[i]]
  PROVE  Linked(other, b, <<b>> \o s)
<1> DEFINE m == <<b>> \o s
<1>1. /\ m \in Seq(Buffer) /\ Len(m) = Len(s) + 1
      /\ DOMAIN s = 1 .. Len(s) /\ DOMAIN m = 1 .. Len(s) + 1 /\ Len(s) \in Nat
      /\ \A i \in 1 .. Len(s) + 1 : m[i] = IF i = 1 THEN b ELSE s[i - 1]
  BY ConsList
<1> HIDE DEF m
<1>2. m # <<>> /\ m[1] = b
  BY <1>1
<1>3. ASSUME NEW i \in DOMAIN m PROVE other[m[i]] = IF i = Len(m) THEN NULL ELSE m[i + 1]
  <2>1. CASE i = 1
    <3>1. other[m[i]] = IF s = <<>> THEN NULL ELSE s[1]
      BY <1>2, <2>1 DEF Linked
    <3>2. CASE s = <<>>
      BY <1>1, <2>1, <3>1, <3>2
    <3>3. CASE s # <<>>
      <4>1. Len(s) # 0 /\ 2 \in 1 .. Len(s) + 1 /\ m[2] = s[1] /\ Len(m) # 1
        BY <1>1, <3>3
      <4> QED
        BY <2>1, <3>1, <3>3, <4>1
    <3> QED
      BY <3>2, <3>3
  <2>2. CASE i # 1
    <3>1. i - 1 \in DOMAIN s /\ m[i] = s[i - 1] /\ i \in Nat
      BY <1>1, <2>2
    <3>2. other[m[i]] = IF i - 1 = Len(s) THEN NULL ELSE s[i - 1 + 1]
      BY <3>1 DEF Linked
    <3>3. CASE i = Len(m)
      BY <1>1, <3>1, <3>2, <3>3
    <3>4. CASE i # Len(m)
      <4>1. i + 1 \in 1 .. Len(s) + 1 /\ i + 1 # 1 /\ i + 1 - 1 = i - 1 + 1 /\ i - 1 # Len(s)
        BY <1>1, <3>1, <3>4
      <4>2. m[i + 1] = s[i - 1 + 1]
        BY <1>1, <4>1
      <4> QED
        BY <3>2, <3>4, <4>1, <4>2
    <3> QED
      BY <3>3, <3>4
  <2> QED
    BY <2>1, <2>2
<1> QED
  BY <1>2, <1>3 DEF Linked, m

(* and with one more behind it. *)
LEMMA LinkedAppend ==
  ASSUME NEW next, NEW b \in Buffer, NEW h, NEW s \in Seq(Buffer), Linked(next, h, s), Once(s),
         ~In(b, s), NEW other, other[b] = NULL,
         \A i \in DOMAIN s : other[s[i]] = IF i = Len(s) THEN b ELSE next[s[i]]
  PROVE  Linked(other, IF s = <<>> THEN b ELSE h, Append(s, b))
<1> DEFINE m == Append(s, b)
<1>1. /\ m \in Seq(Buffer) /\ Len(m) = Len(s) + 1
      /\ DOMAIN s = 1 .. Len(s) /\ DOMAIN m = 1 .. Len(s) + 1 /\ Len(s) \in Nat
      /\ \A i \in 1 .. Len(s) + 1 : m[i] = IF i = Len(s) + 1 THEN b ELSE s[i]
  BY AppendList
<1> HIDE DEF m
<1>2. m # <<>> /\ m[1] = IF s = <<>> THEN b ELSE h
  <2>1. CASE s = <<>>
    BY <1>1, <2>1
  <2>2. CASE s # <<>>
    <3>1. Len(s) # 0 /\ 1 # Len(s) + 1 /\ m[1] = s[1]
      BY <1>1, <2>2
    <3> QED
      BY <1>1, <2>2, <3>1 DEF Linked
  <2> QED
    BY <2>1, <2>2
<1>3. ASSUME NEW i \in DOMAIN m PROVE other[m[i]] = IF i = Len(m) THEN NULL ELSE m[i + 1]
  <2>1. CASE i = Len(m)
    BY <1>1, <2>1
  <2>2. CASE i # Len(m)
    <3>1. i \in DOMAIN s /\ m[i] = s[i] /\ i \in Nat /\ i + 1 \in 1 .. Len(s) + 1
      BY <1>1, <2>2
    <3>2. CASE i = Len(s)
      BY <1>1, <2>2, <3>1, <3>2
    <3>3. CASE i # Len(s)
      <4>1. m[i + 1] = s[i + 1]
        BY <1>1, <3>1, <3>3
      <4>2. next[s[i]] = s[i + 1]
        BY <3>1, <3>3 DEF Linked
      <4> QED
        BY <2>2, <3>1, <3>3, <4>1, <4>2
    <3> QED
      BY <3>2, <3>3
  <2> QED
    BY <2>1, <2>2
<1> QED
  BY <1>2, <1>3 DEF Linked, m

(* The list of a chain holds buffers. *)
LEMMA ChainElements ==
  ASSUME NEW s \in Seq(Buffer)
  PROVE  /\ DOMAIN s = 1 .. Len(s) /\ Len(s) \in Nat
         /\ \A i \in DOMAIN s : s[i] \in Buffer /\ In(s[i], s)
BY DEF In

(* What the two sections of each call do to the chains.  A buffer leaves   *)
(* the free list, *)
LEMMA TakesFree ==
  ASSUME NEW head, NEW tail, NEW free, NEW next, NEW s, NEW f, NEW X,
         Chains(head, tail, free, next, s, f, X), free # NULL
  PROVE  /\ free \in Buffer /\ free \notin X /\ f # <<>>
         /\ Chains(head, tail, next[free], next, s, Tail(f), X \cup {free})
<1>1. f \in Seq(Buffer) /\ Once(f) /\ Linked(next, free, f)
  BY DEF Chains
<1>2. f # <<>> /\ free = f[1] /\ free \in Buffer /\ Linked(next, next[free], Tail(f))
  BY <1>1, LinkedTail
<1>3. /\ Tail(f) \in Seq(Buffer) /\ Once(Tail(f))
      /\ \A c : In(c, Tail(f)) <=> In(c, f) /\ c # free
  BY <1>1, <1>2, TailList
<1>4. In(free, f)
  BY <1>1, <1>2, ChainElements DEF In
<1> DEFINE m == Tail(f)
<1> HIDE DEF m
<1>5. /\ m \in Seq(Buffer) /\ Once(m) /\ Linked(next, next[free], m)
      /\ \A c : In(c, m) <=> In(c, f) /\ c # free
  BY <1>2, <1>3 DEF m
<1>6. Chains(head, tail, next[free], next, s, m, X \cup {free})
  BY <1>2, <1>4, <1>5 DEF Chains
<1> QED
  BY <1>2, <1>4, <1>6 DEF m, Chains

(* or the head of the queue; *)
LEMMA TakesHead ==
  ASSUME NEW head, NEW tail, NEW free, NEW next, NEW s, NEW f, NEW X,
         Chains(head, tail, free, next, s, f, X), head # NULL
  PROVE  /\ head \in Buffer /\ head \notin X /\ s # <<>> /\ head = s[1]
         /\ Chains(next[head], IF tail = head THEN NULL ELSE tail, free, next, Tail(s), f,
                   X \cup {head})
<1>1. /\ s \in Seq(Buffer) /\ Once(s) /\ Linked(next, head, s)
      /\ tail = IF s = <<>> THEN NULL ELSE s[Len(s)]
  BY DEF Chains
<1>2. s # <<>> /\ head = s[1] /\ head \in Buffer /\ Linked(next, next[head], Tail(s))
  BY <1>1, LinkedTail
<1> DEFINE m == Tail(s)
<1>3. /\ m \in Seq(Buffer) /\ Once(m) /\ Len(m) = Len(s) - 1 /\ DOMAIN s = 1 .. Len(s)
      /\ Len(s) \in Nat \ {0} /\ \A i \in 1 .. Len(s) - 1 : m[i] = s[i + 1]
      /\ \A c : In(c, m) <=> In(c, s) /\ c # head
  BY <1>1, <1>2, TailList
<1>4. In(head, s)
  BY <1>1, <1>2, ChainElements DEF In
<1>5. Linked(next, next[head], m)
  BY <1>2
<1> HIDE DEF m
<1> DEFINE last == IF tail = head THEN NULL ELSE tail
<1>6. last = IF m = <<>> THEN NULL ELSE m[Len(m)]
  <2>1. CASE Len(s) = 1
    BY <1>1, <1>2, <1>3, <2>1
  <2>2. CASE Len(s) # 1
    <3>1. Len(m) \in 1 .. Len(s) - 1 /\ Len(m) + 1 = Len(s) /\ m # <<>>
      BY <1>3, <2>2
    <3>2. m[Len(m)] = s[Len(s)] /\ tail = s[Len(s)]
      BY <1>1, <1>2, <1>3, <3>1
    <3>3. tail # head
      BY <1>1, <1>2, <1>3, <2>2, <3>2 DEF Once
    <3> QED
      BY <3>1, <3>2, <3>3
  <2> QED
    BY <2>1, <2>2
<1> HIDE DEF last
<1>7. Chains(next[head], last, free, next, m, f, X \cup {head})
  BY <1>2, <1>3, <1>4, <1>5, <1>6 DEF Chains
<1> QED
  BY <1>2, <1>4, <1>7 DEF m, last, Chains

(* one that is on neither becomes free, *)
LEMMA PutsFree ==
  ASSUME NEW head, NEW tail, NEW free, NEW next, NEW s, NEW f, NEW X,
         Chains(head, tail, free, next, s, f, X), NEW b \in X
  PROVE  Chains(head, tail, b, [next EXCEPT ![b] = free], s, <<b>> \o f, X \ {b})
<1> DEFINE other == [next EXCEPT ![b] = free]
           m == <<b>> \o f
<1>1. /\ f \in Seq(Buffer) /\ Once(f) /\ Linked(next, free, f) /\ s \in Seq(Buffer)
      /\ Linked(next, head, s) /\ b \in Buffer /\ ~In(b, f) /\ ~In(b, s)
      /\ next \in [Buffer -> Buffer \cup {NULL}]
  BY DEF Chains
<1>2. free \in Buffer \cup {NULL}
  BY <1>1, ChainElements DEF Linked
<1>3. /\ other \in [Buffer -> Buffer \cup {NULL}] /\ other[b] = free
      /\ \A c \in Buffer : c # b => other[c] = next[c]
  BY <1>1, <1>2
<1> HIDE DEF other
<1>4. (\A i \in DOMAIN f : other[f[i]] = next[f[i]]) /\ (\A i \in DOMAIN s : other[s[i]] = next[s[i]])
  BY <1>1, <1>3, ChainElements
<1>5. Linked(other, head, s)
  BY <1>1, <1>4, LinkedKept
<1>6. Linked(other, b, m)
  BY <1>1, <1>3, <1>4, LinkedCons
<1>7. m \in Seq(Buffer) /\ Once(m) /\ \A c : In(c, m) <=> In(c, f) \/ c = b
  BY <1>1, ConsList
<1> HIDE DEF m
<1>8. Chains(head, tail, b, other, s, m, X \ {b})
  BY <1>1, <1>3, <1>5, <1>6, <1>7 DEF Chains
<1> QED
  BY <1>8 DEF m, other

(* the first of the queue, *)
LEMMA PutsFirst ==
  ASSUME NEW head, NEW tail, NEW free, NEW next, NEW s, NEW f, NEW X,
         Chains(head, tail, free, next, s, f, X), NEW b \in X
  PROVE  Chains(b, IF tail = NULL THEN b ELSE tail, free, [next EXCEPT ![b] = head], <<b>> \o s, f,
                X \ {b})
<1> DEFINE other == [next EXCEPT ![b] = head]
           m == <<b>> \o s
           last == IF tail = NULL THEN b ELSE tail
<1>1. /\ f \in Seq(Buffer) /\ Linked(next, free, f) /\ s \in Seq(Buffer) /\ Once(s)
      /\ Linked(next, head, s) /\ b \in Buffer /\ ~In(b, f) /\ ~In(b, s)
      /\ next \in [Buffer -> Buffer \cup {NULL}] /\ tail = IF s = <<>> THEN NULL ELSE s[Len(s)]
  BY DEF Chains
<1>2. head \in Buffer \cup {NULL}
  BY <1>1, ChainElements DEF Linked
<1>3. /\ other \in [Buffer -> Buffer \cup {NULL}] /\ other[b] = head
      /\ \A c \in Buffer : c # b => other[c] = next[c]
  BY <1>1, <1>2
<1> HIDE DEF other
<1>4. (\A i \in DOMAIN f : other[f[i]] = next[f[i]]) /\ (\A i \in DOMAIN s : other[s[i]] = next[s[i]])
  BY <1>1, <1>3, ChainElements
<1>5. Linked(other, free, f)
  BY <1>1, <1>4, LinkedKept
<1>6. Linked(other, b, m)
  BY <1>1, <1>3, <1>4, LinkedCons
<1>7. /\ m \in Seq(Buffer) /\ Once(m) /\ Len(m) = Len(s) + 1 /\ Len(s) \in Nat
      /\ \A i \in 1 .. Len(s) + 1 : m[i] = IF i = 1 THEN b ELSE s[i - 1]
      /\ \A c : In(c, m) <=> In(c, s) \/ c = b
  BY <1>1, ConsList
<1> HIDE DEF m
<1>8. last = IF m = <<>> THEN NULL ELSE m[Len(m)]
  <2>1. CASE s = <<>>
    BY <1>1, <1>7, <2>1
  <2>2. CASE s # <<>>
    <3>1. Len(s) # 0 /\ Len(m) \in 1 .. Len(s) + 1 /\ Len(m) # 1 /\ Len(m) - 1 = Len(s)
      BY <1>1, <1>7, <2>2
    <3>2. m[Len(m)] = s[Len(s)] /\ m # <<>>
      BY <1>7, <3>1
    <3>3. tail = s[Len(s)] /\ tail # NULL
      BY <1>1, <1>7, <2>2, <3>1, ChainElements, NullKnown
    <3> QED
      BY <3>2, <3>3
  <2> QED
    BY <2>1, <2>2
<1> HIDE DEF last
<1>9. Chains(b, last, free, other, m, f, X \ {b})
  BY <1>1, <1>3, <1>5, <1>6, <1>7, <1>8 DEF Chains
<1> QED
  BY <1>9 DEF m, other, last

(* or its last. *)
LEMMA PutsLast ==
  ASSUME NEW head, NEW tail, NEW free, NEW next, NEW s, NEW f, NEW X,
         Chains(head, tail, free, next, s, f, X), NEW b \in X
  PROVE  Chains(IF head = NULL THEN b ELSE head, b, free,
                [n \in Buffer |-> IF n = b THEN NULL ELSE IF n = tail THEN b ELSE next[n]],
                Append(s, b), f, X \ {b})
<1> DEFINE other == [n \in Buffer |-> IF n = b THEN NULL ELSE IF n = tail THEN b ELSE next[n]]
           m == Append(s, b)
           first == IF head = NULL THEN b ELSE head
<1>1. /\ f \in Seq(Buffer) /\ Linked(next, free, f) /\ s \in Seq(Buffer) /\ Once(s)
      /\ Linked(next, head, s) /\ b \in Buffer /\ ~In(b, f) /\ ~In(b, s)
      /\ next \in [Buffer -> Buffer \cup {NULL}] /\ tail = IF s = <<>> THEN NULL ELSE s[Len(s)]
      /\ \A c \in Buffer : In(c, s) => ~In(c, f)
  BY DEF Chains
<1>2. /\ other \in [Buffer -> Buffer \cup {NULL}] /\ other[b] = NULL
      /\ \A c \in Buffer : c # b /\ c # tail => other[c] = next[c]
      /\ \A c \in Buffer : c # b /\ c = tail => other[c] = b
  BY <1>1
<1> HIDE DEF other
<1>3. tail \notin {f[i] : i \in DOMAIN f}
  <2>1. CASE s = <<>>
    BY <1>1, <2>1, ChainElements, NullKnown
  <2>2. CASE s # <<>>
    <3>1. Len(s) \in DOMAIN s /\ tail = s[Len(s)]
      BY <1>1, <2>2
    <3> QED
      BY <1>1, <3>1, ChainElements DEF In
  <2> QED
    BY <2>1, <2>2
<1>4. \A i \in DOMAIN f : other[f[i]] = next[f[i]]
  BY <1>1, <1>2, <1>3, ChainElements
<1>5. Linked(other, free, f)
  BY <1>1, <1>4, LinkedKept
<1>6. ASSUME NEW i \in DOMAIN s PROVE other[s[i]] = IF i = Len(s) THEN b ELSE next[s[i]]
  <2>1. s[i] \in Buffer /\ s[i] # b /\ s # <<>> /\ Len(s) \in DOMAIN s /\ tail = s[Len(s)]
    BY <1>1, ChainElements
  <2>2. s[i] = tail <=> i = Len(s)
    BY <1>1, <2>1 DEF Once
  <2> QED
    BY <1>2, <2>1, <2>2
<1>7. first = IF s = <<>> THEN b ELSE head
  <2>1. CASE s = <<>>
    BY <1>1, <2>1 DEF Linked
  <2>2. CASE s # <<>>
    <3>1. 1 \in DOMAIN s
      BY <1>1, <2>2
    <3> QED
      BY <1>1, <2>2, <3>1, ChainElements, NullKnown DEF Linked
  <2> QED
    BY <2>1, <2>2
<1>8. Linked(other, first, m)
  <2>1. Linked(other, IF s = <<>> THEN b ELSE head, m)
    BY <1>1, <1>2, <1>6, LinkedAppend
  <2> QED
    BY <1>7, <2>1
<1>9. /\ m \in Seq(Buffer) /\ Once(m) /\ Len(m) = Len(s) + 1 /\ Len(s) \in Nat
      /\ \A i \in 1 .. Len(s) + 1 : m[i] = IF i = Len(s) + 1 THEN b ELSE s[i]
      /\ \A c : In(c, m) <=> In(c, s) \/ c = b
  BY <1>1, AppendList
<1> HIDE DEF m, first
<1>10. m # <<>> /\ m[Len(m)] = b
  BY <1>9
<1>11. Chains(first, b, free, other, m, f, X \ {b})
  BY <1>1, <1>2, <1>5, <1>8, <1>9, <1>10 DEF Chains
<1> QED
  BY <1>11 DEF m, other, first

(* Chain, as a function of the links. *)
ChainOf(next, b) ==
  LET F[n \in 0 .. MQ_MSGS] ==
        IF n = 0 \/ b = NULL THEN <<>>
        ELSE IF n = 1 THEN <<b>>
        ELSE LET s == F[n - 1]
                 c == next[s[Len(s)]]
             IN  IF Len(s) < n - 1 \/ c = NULL THEN s ELSE Append(s, c)
  IN  F[MQ_MSGS]

(* A list of buffers that has no repetition fits into the queue. *)
LEMMA ChainFits ==
  ASSUME NEW s \in Seq(Buffer), Once(s)
  PROVE  Len(s) \in 0 .. MQ_MSGS
<1>1. IsFiniteSet(Buffer) /\ Cardinality(Buffer) = MQ_MSGS
  BY NullKnown, FS_Interval DEF Buffer
<1> QED
  BY <1>1, OnceLength, NullKnown

(* The first n buffers of a chain. *)
FirstOf(s, n) == [i \in 1 .. (IF n <= Len(s) THEN n ELSE Len(s)) |-> s[i]]

(* How Chain goes on from the first n - 1. *)
Further(next, b, y, n) ==
  IF n = 0 \/ b = NULL THEN <<>>
  ELSE IF n = 1 THEN <<b>>
  ELSE IF Len(y) < n - 1 \/ next[y[Len(y)]] = NULL THEN y ELSE Append(y, next[y[Len(y)]])

(* FirstOf by its elements; with n large enough it is the whole chain. *)
LEMMA FirstKnown ==
  ASSUME NEW s \in Seq(Buffer), NEW n \in Nat
  PROVE  /\ n <= Len(s) => /\ FirstOf(s, n) \in Seq(Buffer) /\ Len(FirstOf(s, n)) = n
                           /\ \A i \in 1 .. n : FirstOf(s, n)[i] = s[i]
         /\ n >= Len(s) => FirstOf(s, n) = s
<1>1. s = [i \in 1 .. Len(s) |-> s[i]] /\ Len(s) \in Nat
  OBVIOUS
<1>2. ASSUME n <= Len(s)
      PROVE  /\ FirstOf(s, n) \in Seq(Buffer) /\ Len(FirstOf(s, n)) = n
             /\ \A i \in 1 .. n : FirstOf(s, n)[i] = s[i]
  <2>1. FirstOf(s, n) = [i \in 1 .. n |-> s[i]] /\ \A i \in 1 .. n : s[i] \in Buffer
    BY <1>1, <1>2 DEF FirstOf
  <2> QED
    BY <2>1
<1>3. ASSUME n >= Len(s) PROVE FirstOf(s, n) = s
  <2>1. FirstOf(s, n) = [i \in 1 .. Len(s) |-> s[i]]
    BY <1>1, <1>3 DEF FirstOf
  <2> QED
    BY <1>1, <2>1
<1> QED
  BY <1>2, <1>3

(* It goes on as it should. *)
LEMMA FurtherFirst ==
  ASSUME NEW next, NEW b, NEW s \in Seq(Buffer), Linked(next, b, s), NEW n \in Nat \ {0}
  PROVE  Further(next, b, FirstOf(s, n - 1), n) = FirstOf(s, n)
<1>1. Len(s) \in Nat /\ DOMAIN s = 1 .. Len(s) /\ n - 1 \in Nat
  OBVIOUS
<1>2. CASE b = NULL
  <2>1. s = <<>>
    <3> SUFFICES ASSUME s # <<>> PROVE FALSE
      OBVIOUS
    <3>1. 1 \in DOMAIN s
      BY <1>1
    <3> QED
      BY <1>2, <3>1, ChainElements, NullKnown DEF Linked
  <2>2. FirstOf(s, n) = <<>>
    <3>1. n >= Len(s)
      BY <2>1
    <3> QED
      BY <2>1, <3>1, FirstKnown
  <2> QED
    BY <1>2, <2>2 DEF Further
<1>3. CASE b # NULL /\ n = 1
  <2>1. s # <<>> /\ b = s[1] /\ Len(s) # 0
    BY <1>3 DEF Linked
  <2>2. FirstOf(s, n) \in Seq(Buffer) /\ Len(FirstOf(s, n)) = 1 /\ FirstOf(s, n)[1] = s[1]
    <3>1. n <= Len(s) /\ n \in Nat /\ 1 \in 1 .. n
      BY <1>1, <1>3, <2>1
    <3> QED
      BY <1>3, <3>1, FirstKnown
  <2> QED
    BY <1>3, <2>1, <2>2 DEF Further
<1>4. CASE b # NULL /\ n # 1 /\ n - 1 < Len(s)
  <2> DEFINE y == FirstOf(s, n - 1)
             z == FirstOf(s, n)
  <2>1. /\ y \in Seq(Buffer) /\ Len(y) = n - 1 /\ \A i \in 1 .. n - 1 : y[i] = s[i]
        /\ z \in Seq(Buffer) /\ Len(z) = n /\ \A i \in 1 .. n : z[i] = s[i]
    BY <1>1, <1>4, FirstKnown
  <2>2. n - 1 \in DOMAIN s /\ n - 1 # Len(s) /\ n - 1 + 1 = n /\ n \in DOMAIN s /\ n - 1 \in 1 .. n - 1
    BY <1>1, <1>4
  <2>3. y[Len(y)] = s[n - 1] /\ next[s[n - 1]] = s[n] /\ s[n] # NULL /\ s[n] \in Buffer
    BY <2>1, <2>2, ChainElements, NullKnown DEF Linked
  <2>4. Append(y, s[n]) = z
    <3> HIDE DEF y, z
    <3>1. /\ Append(y, s[n]) \in Seq(Buffer) /\ Len(Append(y, s[n])) = n
          /\ \A i \in 1 .. n : Append(y, s[n])[i] = z[i]
      BY <1>1, <2>1, <2>3
    <3> QED
      BY <2>1, <3>1
  <2> HIDE DEF y, z
  <2>5. Further(next, b, y, n) = z
    BY <1>1, <1>4, <2>1, <2>3, <2>4 DEF Further
  <2> QED
    BY <2>5 DEF y, z
<1>5. CASE b # NULL /\ n # 1 /\ ~(n - 1 < Len(s))
  <2>1. FirstOf(s, n - 1) = s /\ FirstOf(s, n) = s
    BY <1>1, <1>5, FirstKnown
  <2>2. s # <<>> /\ Len(s) \in DOMAIN s /\ next[s[Len(s)]] = NULL
    BY <1>1, <1>5 DEF Linked
  <2>3. Further(next, b, s, n) = s
    BY <1>5, <2>2 DEF Further
  <2> QED
    BY <2>1, <2>3
<1> QED
  BY <1>2, <1>3, <1>4, <1>5

(* Chain computes the list that is linked. *)
LEMMA ChainIs ==
  ASSUME NEW next, NEW b, NEW s \in Seq(Buffer), Once(s), Linked(next, b, s)
  PROVE  ChainOf(next, b) = s
<1> DEFINE N == MQ_MSGS
           Loop(f) == f = [n \in 0 .. N |-> Further(next, b, f[n - 1], n)]
           G == CHOOSE f : Loop(f)
           g == [n \in 0 .. N |-> FirstOf(s, n)]
<1>1. N \in Nat /\ Len(s) \in 0 .. N
  BY NullKnown, ChainFits
<1>2. ChainOf(next, b) = G[N]
  BY DEF ChainOf, Further
<1>3. FirstOf(s, 0) = <<>> /\ \A y : Further(next, b, y, 0) = <<>>
  <2>1. Len(FirstOf(s, 0)) = 0 /\ FirstOf(s, 0) \in Seq(Buffer)
    BY <1>1, FirstKnown
  <2> QED
    BY <2>1 DEF Further
<1>4. ASSUME NEW n \in 1 .. N PROVE Further(next, b, FirstOf(s, n - 1), n) = FirstOf(s, n)
  BY <1>1, FurtherFirst
<1> HIDE DEF N
<1>5. Loop(g)
  <2>1. ASSUME NEW n \in 0 .. N PROVE g[n] = Further(next, b, g[n - 1], n)
    <3>1. CASE n = 0
      BY <1>3, <3>1
    <3>2. CASE n # 0
      <4>1. n \in 1 .. N /\ n - 1 \in 0 .. N
        BY <1>1, <3>2
      <4>2. g[n - 1] = FirstOf(s, n - 1) /\ g[n] = FirstOf(s, n)
        BY <4>1
      <4> QED
        BY <1>4, <4>1, <4>2
    <3> QED
      BY <3>1, <3>2
  <2> DEFINE h == [n \in 0 .. N |-> Further(next, b, g[n - 1], n)]
  <2>2. g = [n \in 0 .. N |-> g[n]] /\ h = [n \in 0 .. N |-> h[n]]
    OBVIOUS
  <2>3. \A n \in 0 .. N : g[n] = h[n]
    BY <2>1
  <2> HIDE DEF g
  <2> QED
    BY <2>2, <2>3
<1>6. Loop(G)
  BY <1>5
<1> HIDE DEF G
<1> DEFINE Bad == {n \in 0 .. N : G[n] # FirstOf(s, n)}
<1>7. \A n \in 0 .. N : G[n] = Further(next, b, G[n - 1], n)
  BY <1>6
<1>8. Bad = {}
  <2> SUFFICES ASSUME Bad # {} PROVE FALSE
    OBVIOUS
  <2>1. Bad \in SUBSET Nat
    BY <1>1
  <2>2. PICK m \in Bad : \A n \in Bad : m <= n
    BY <2>1, LeastNatural
  <2>3. m \in 0 .. N /\ G[m] # FirstOf(s, m)
    BY <2>2
  <2>4. CASE m = 0
    BY <1>3, <1>7, <2>3, <2>4
  <2>5. CASE m # 0
    <3>1. m - 1 \in 0 .. N /\ ~(m <= m - 1) /\ m \in 1 .. N
      BY <1>1, <2>3, <2>5
    <3>2. G[m - 1] = FirstOf(s, m - 1)
      BY <2>2, <3>1
    <3> QED
      BY <1>4, <1>7, <2>3, <3>1, <3>2
  <2> QED
    BY <2>4, <2>5
<1>9. G[N] = FirstOf(s, N)
  <2>1. N \in 0 .. N
    BY <1>1
  <2> QED
    BY <1>8, <2>1
<1>10. FirstOf(s, N) = s
  BY <1>1, FirstKnown
<1> QED
  BY <1>2, <1>9, <1>10

-----------------------------------------------------------------------------
(* The sections *)

(* A message queue by its fields. *)
Mq(head, tail, free, entry, next, data, hold) ==
  [ head |-> head, tail |-> tail, free |-> free, entry |-> entry, next |-> next, data |-> data,
    hold |-> hold ]

(* Its fields, and what a change of one leaves. *)
LEMMA MqExcept ==
  ASSUME NEW head, NEW tail, NEW free, NEW entry, NEW next, NEW data, NEW hold, NEW x
  PROVE  LET q == Mq(head, tail, free, entry, next, data, hold)
         IN  /\ [q EXCEPT !.head = x] = Mq(x, tail, free, entry, next, data, hold)
             /\ [q EXCEPT !.tail = x] = Mq(head, x, free, entry, next, data, hold)
             /\ [q EXCEPT !.free = x] = Mq(head, tail, x, entry, next, data, hold)
             /\ [q EXCEPT !.entry = x] = Mq(head, tail, free, x, next, data, hold)
             /\ [q EXCEPT !.next = x] = Mq(head, tail, free, entry, x, data, hold)
             /\ [q EXCEPT !.data = x] = Mq(head, tail, free, entry, next, x, hold)
             /\ [q EXCEPT !.hold = x] = Mq(head, tail, free, entry, next, data, x)
             /\ q.head = head /\ q.tail = tail /\ q.free = free /\ q.entry = entry /\ q.next = next
             /\ q.data = data /\ q.hold = hold
<1> DEFINE q == Mq(head, tail, free, entry, next, data, hold)
<1>1. [q EXCEPT !.head = x] = Mq(x, tail, free, entry, next, data, hold)
  BY DEF Mq
<1>2. [q EXCEPT !.tail = x] = Mq(head, x, free, entry, next, data, hold)
  BY DEF Mq
<1>3. [q EXCEPT !.free = x] = Mq(head, tail, x, entry, next, data, hold)
  BY DEF Mq
<1>4. [q EXCEPT !.entry = x] = Mq(head, tail, free, x, next, data, hold)
  BY DEF Mq
<1>5. [q EXCEPT !.next = x] = Mq(head, tail, free, entry, x, data, hold)
  BY DEF Mq
<1>6. [q EXCEPT !.data = x] = Mq(head, tail, free, entry, next, x, hold)
  BY DEF Mq
<1>7. [q EXCEPT !.hold = x] = Mq(head, tail, free, entry, next, data, x)
  BY DEF Mq
<1>8. /\ q.head = head /\ q.tail = tail /\ q.free = free /\ q.entry = entry /\ q.next = next
      /\ q.data = data /\ q.hold = hold
  BY DEF Mq
<1> QED
  BY <1>1, <1>2, <1>3, <1>4, <1>5, <1>6, <1>7, <1>8

(* LinkLast by the fields of the queue, *)
LEMMA LinkLastFields ==
  ASSUME NEW head, NEW tail, NEW free, NEW entry, NEW next, NEW data, NEW hold, NEW b, NEW m
  PROVE  LET q == Mq(head, tail, free, entry, next, data, hold)
         IN  LinkLast(q, b, m) =
             Mq(IF head = NULL THEN b ELSE head, b, free, entry + 1,
                [n \in Buffer |-> IF n = b THEN NULL ELSE IF n = tail THEN b ELSE next[n]],
                [data EXCEPT ![b] = m], hold)
<1> DEFINE q == Mq(head, tail, free, entry, next, data, hold)
           x == [data EXCEPT ![b] = m]
           y == [n \in Buffer |-> IF n = b THEN NULL ELSE IF n = tail THEN b ELSE next[n]]
           z == b
           u == IF head = NULL THEN b ELSE head
           v == entry + 1
<1>1. /\ q.head = head /\ q.tail = tail /\ q.free = free /\ q.entry = entry /\ q.next = next
      /\ q.data = data /\ q.hold = hold
  BY MqExcept
<1>2. LinkLast(q, b, m) =
        [ q EXCEPT !.data = [q.data EXCEPT ![b] = m],
                   !.next = [n \in Buffer |-> IF n = b THEN NULL
                                              ELSE IF n = q.tail THEN b ELSE q.next[n]],
                   !.tail = b, !.head = IF q.head = NULL THEN b ELSE q.head,
                   !.entry = q.entry + 1 ]
  BY DEF LinkLast
<1> HIDE DEF q
<1>3. LinkLast(q, b, m) = [q EXCEPT !.data = x, !.next = y, !.tail = z, !.head = u, !.entry = v]
  BY <1>1, <1>2
<1> HIDE DEF x, y, z, u, v
<1> DEFINE a == [q EXCEPT !.data = x]
           c == [a EXCEPT !.next = y]
           d == [c EXCEPT !.tail = z]
           e == [d EXCEPT !.head = u]
           g == [e EXCEPT !.entry = v]
<1>4. LinkLast(q, b, m) = g
  BY <1>3
<1> HIDE DEF a, c, d, e, g
<1>5. a = Mq(head, tail, free, entry, next, x, hold)
  BY MqExcept DEF q, a
<1>6. c = Mq(head, tail, free, entry, y, x, hold)
  BY <1>5, MqExcept DEF c
<1>7. d = Mq(head, z, free, entry, y, x, hold)
  BY <1>6, MqExcept DEF d
<1>8. e = Mq(u, z, free, entry, y, x, hold)
  BY <1>7, MqExcept DEF e
<1>9. g = Mq(u, z, free, v, y, x, hold)
  BY <1>8, MqExcept DEF g
<1> QED
  BY <1>4, <1>9 DEF q, x, y, z, u, v

(* Unlinked, *)
LEMMA UnlinkedFields ==
  ASSUME NEW head, NEW tail, NEW free, NEW entry, NEW next, NEW data, NEW hold
  PROVE  LET q == Mq(head, tail, free, entry, next, data, hold)
         IN  Unlinked(q) =
             Mq(next[head], IF tail = head THEN NULL ELSE tail, free, entry, next, data, hold)
<1> DEFINE q == Mq(head, tail, free, entry, next, data, hold)
           x == next[head]
           y == IF tail = head THEN NULL ELSE tail
<1>1. /\ q.head = head /\ q.tail = tail /\ q.free = free /\ q.entry = entry /\ q.next = next
      /\ q.data = data /\ q.hold = hold
  BY MqExcept
<1>2. Unlinked(q) = [ q EXCEPT !.head = q.next[q.head],
                           !.tail = IF q.tail = q.head THEN NULL ELSE q.tail ]
  BY DEF Unlinked
<1> HIDE DEF q
<1>3. Unlinked(q) = [q EXCEPT !.head = x, !.tail = y]
  BY <1>1, <1>2
<1> HIDE DEF x, y
<1> DEFINE a == [q EXCEPT !.head = x]
           c == [a EXCEPT !.tail = y]
<1>4. Unlinked(q) = c
  BY <1>3
<1> HIDE DEF a, c
<1>5. a = Mq(x, tail, free, entry, next, data, hold)
  BY MqExcept DEF q, a
<1>6. c = Mq(x, y, free, entry, next, data, hold)
  BY <1>5, MqExcept DEF c
<1> QED
  BY <1>4, <1>6 DEF q, x, y

(* and Freed. *)
LEMMA FreedFields ==
  ASSUME NEW head, NEW tail, NEW free, NEW entry, NEW next, NEW data, NEW hold, NEW b
  PROVE  LET q == Mq(head, tail, free, entry, next, data, hold)
         IN  Freed(q, b) =
             Mq(head, tail, b, entry, [next EXCEPT ![b] = free], data, hold)
<1> DEFINE q == Mq(head, tail, free, entry, next, data, hold)
           x == [next EXCEPT ![b] = free]
           y == b
<1>1. /\ q.head = head /\ q.tail = tail /\ q.free = free /\ q.entry = entry /\ q.next = next
      /\ q.data = data /\ q.hold = hold
  BY MqExcept
<1>2. Freed(q, b) = [ q EXCEPT !.next = [q.next EXCEPT ![b] = q.free],
                           !.free = b ]
  BY DEF Freed
<1> HIDE DEF q
<1>3. Freed(q, b) = [q EXCEPT !.next = x, !.free = y]
  BY <1>1, <1>2
<1> HIDE DEF x, y
<1> DEFINE a == [q EXCEPT !.next = x]
           c == [a EXCEPT !.free = y]
<1>4. Freed(q, b) = c
  BY <1>3
<1> HIDE DEF a, c
<1>5. a = Mq(head, tail, free, entry, x, data, hold)
  BY MqExcept DEF q, a
<1>6. c = Mq(head, tail, y, entry, x, data, hold)
  BY <1>5, MqExcept DEF c
<1> QED
  BY <1>4, <1>6 DEF q, x, y

(* A message is copied into a buffer, *)
Written(data, b, m) == [data EXCEPT ![b] = m]

(* and the hands, or the counter, change. *)
WithHold(q, h) == [q EXCEPT !.hold = h]
WithEntry(q, e) == [q EXCEPT !.entry = e]

(* What the sections of the calls do to a queue: thread t gives its buffer *)
(* away, a handler takes one, thread t takes the first of the queue.       *)
HandEmptied(q, t) == [q EXCEPT !.hold[t] = NULL]
Popped(q) == [q EXCEPT !.free = q.next[q.free]]
Received(q, t) == [Unlinked(q) EXCEPT !.hold[t] = q.head, !.entry = @ - 1]

(* One more at the front of a list. *)
Front(b, s) == <<b>> \o s

(* The buffers in the hands of threads, *)
InHands(hold) == {b \in Buffer : \E t \in Thread : hold[t] = b}

(* each in those of one. *)
HandsApart(hold) == \A t, u \in Thread : hold[t] = hold[u] /\ hold[t] # NULL => t = u

(* The messages of the buffers of a list. *)
Contents(data, s) == [i \in DOMAIN s |-> data[s[i]]]

(* A queue by its fields: s is the list, f the free list, and the buffers  *)
(* of X are on neither.                                                    *)
Loose(q, s, f, X) ==
  /\ q = Mq(q.head, q.tail, q.free, q.entry, q.next, q.data, q.hold)
  /\ Chains(q.head, q.tail, q.free, q.next, s, f, X)
  /\ q.data \in [Buffer -> Letter] /\ q.hold \in [Thread -> Buffer \cup {NULL}]

(* Between two sections the latter are those in the hands of threads, and  *)
(* the counter is right.                                                   *)
QueueOK(q, s, f) ==
  Loose(q, s, f, InHands(q.hold)) /\ HandsApart(q.hold) /\ q.entry = Len(s)

(* Such fields make such a queue. *)
LEMMA LooseIntro ==
  ASSUME NEW head, NEW tail, NEW free, NEW entry, NEW next, NEW data, NEW hold, NEW s, NEW f, NEW X,
         Chains(head, tail, free, next, s, f, X), data \in [Buffer -> Letter],
         hold \in [Thread -> Buffer \cup {NULL}]
  PROVE  LET q == Mq(head, tail, free, entry, next, data, hold)
         IN  Loose(q, s, f, X) /\ q.entry = entry /\ q.data = data /\ q.hold = hold
<1> DEFINE q == Mq(head, tail, free, entry, next, data, hold)
<1>1. /\ q.head = head /\ q.tail = tail /\ q.free = free /\ q.entry = entry /\ q.next = next
      /\ q.data = data /\ q.hold = hold
  BY MqExcept
<1>2. q = Mq(q.head, q.tail, q.free, q.entry, q.next, q.data, q.hold)
  BY <1>1
<1> HIDE DEF q
<1>3. Chains(q.head, q.tail, q.free, q.next, s, f, X)
  BY <1>1
<1> QED
  BY <1>1, <1>2, <1>3 DEF Loose, q

(* A thread takes a buffer, *)
LEMMA HandTakes ==
  ASSUME NEW hold \in [Thread -> Buffer \cup {NULL}], HandsApart(hold), NEW t \in Thread,
         hold[t] = NULL, NEW b \in Buffer, b \notin InHands(hold)
  PROVE  LET h == [hold EXCEPT ![t] = b]
         IN  h \in [Thread -> Buffer \cup {NULL}] /\ HandsApart(h) /\ InHands(h) = InHands(hold) \cup {b}
<1> DEFINE h == [hold EXCEPT ![t] = b]
<1>1. /\ h \in [Thread -> Buffer \cup {NULL}] /\ h[t] = b
      /\ \A u \in Thread : u # t => h[u] = hold[u]
  OBVIOUS
<1>2. \A u \in Thread : hold[u] # b
  BY DEF InHands
<1> HIDE DEF h
<1>3. HandsApart(h)
  BY <1>1, <1>2 DEF HandsApart
<1>4. InHands(h) = InHands(hold) \cup {b}
  <2>1. ASSUME NEW c \in Buffer PROVE c \in InHands(h) <=> c \in InHands(hold) \cup {b}
    <3>1. CASE c = b
      BY <1>1, <3>1 DEF InHands
    <3>2. CASE c # b
      BY <1>1, <3>2, NullKnown DEF InHands
    <3> QED
      BY <3>1, <3>2
  <2> QED
    BY <2>1 DEF InHands
<1> QED
  BY <1>1, <1>3, <1>4 DEF h

(* or gives it away. *)
LEMMA HandGives ==
  ASSUME NEW hold \in [Thread -> Buffer \cup {NULL}], HandsApart(hold), NEW t \in Thread,
         hold[t] # NULL
  PROVE  LET h == [hold EXCEPT ![t] = NULL]
         IN  /\ h \in [Thread -> Buffer \cup {NULL}] /\ HandsApart(h)
             /\ InHands(h) = InHands(hold) \ {hold[t]} /\ hold[t] \in InHands(hold)
<1> DEFINE h == [hold EXCEPT ![t] = NULL]
<1>1. /\ h \in [Thread -> Buffer \cup {NULL}] /\ h[t] = NULL
      /\ \A u \in Thread : u # t => h[u] = hold[u]
  OBVIOUS
<1>2. hold[t] \in Buffer /\ \A u \in Thread : u # t => hold[u] # hold[t]
  BY DEF HandsApart
<1> HIDE DEF h
<1>3. HandsApart(h)
  BY <1>1 DEF HandsApart
<1>4. InHands(h) = InHands(hold) \ {hold[t]}
  <2>1. ASSUME NEW c \in Buffer PROVE c \in InHands(h) <=> c \in InHands(hold) \ {hold[t]}
    BY <1>1, <1>2, NullKnown DEF InHands
  <2> QED
    BY <2>1 DEF InHands
<1>5. hold[t] \in InHands(hold)
  BY <1>2 DEF InHands
<1> QED
  BY <1>1, <1>3, <1>4, <1>5 DEF h

(* The sections, on a queue with loose buffers: a send takes a buffer, *)
LEMMA TakeLoose ==
  ASSUME NEW q, NEW s, NEW f, NEW X, Loose(q, s, f, X), q.free # NULL, NEW t \in Thread
  PROVE  LET r == TakeBuffer(q, t)
         IN  /\ Loose(r, s, Tail(f), X \cup {q.free}) /\ q.free \in Buffer /\ q.free \notin X
             /\ r.entry = q.entry /\ r.data = q.data /\ r.hold = [q.hold EXCEPT ![t] = q.free]
<1> DEFINE head == q.head
           tail == q.tail
           free == q.free
           entry == q.entry
           next == q.next
           data == q.data
           hold == q.hold
<1>1. /\ q = Mq(head, tail, free, entry, next, data, hold) /\ Chains(head, tail, free, next, s, f, X)
      /\ data \in [Buffer -> Letter] /\ hold \in [Thread -> Buffer \cup {NULL}] /\ free # NULL
  BY DEF Loose
<1> DEFINE r == TakeBuffer(q, t)
           A == head
           B == tail
           C == next[free]
           V == entry
           G == next
           M == data
           O == [hold EXCEPT ![t] = free]
           l == s
           g == Tail(f)
           Y == X \cup {free}
<1>2. r = Mq(A, B, C, V, G, M, O)
  <2> HIDE DEF head, tail, free, entry, next, data, hold
  <2> DEFINE w == Mq(head, tail, free, entry, next, data, hold)
  <2>1. TakeBuffer(w, t) = Mq(A, B, C, V, G, M, O)
    <3> DEFINE x == [hold EXCEPT ![t] = free]
               y == next[free]
    <3>1. /\ w.head = head /\ w.tail = tail /\ w.free = free /\ w.entry = entry /\ w.next = next
          /\ w.data = data /\ w.hold = hold
      BY MqExcept
    <3>2. TakeBuffer(w, t) = [ w EXCEPT !.hold = [w.hold EXCEPT ![t] = w.free],
                                    !.free = w.next[w.free] ]
      BY DEF TakeBuffer
    <3> HIDE DEF w
    <3>3. TakeBuffer(w, t) = [w EXCEPT !.hold = x, !.free = y]
      BY <3>1, <3>2
    <3> HIDE DEF x, y
    <3> DEFINE a == [w EXCEPT !.hold = x]
               c == [a EXCEPT !.free = y]
    <3>4. TakeBuffer(w, t) = c
      BY <3>3
    <3> HIDE DEF a, c
    <3>5. a = Mq(head, tail, free, entry, next, data, x)
      BY MqExcept DEF w, a
    <3>6. c = Mq(head, tail, y, entry, next, data, x)
      BY <3>5, MqExcept DEF c
    <3> QED
      BY <3>4, <3>6 DEF x, y
  <2> HIDE DEF w, A, B, C, V, G, M, O
  <2>2. q = w
    BY <1>1 DEF w
  <2> QED
    BY <2>1, <2>2
<1>3. Chains(A, B, C, G, l, g, Y) /\ free \in Buffer /\ free \notin X
  <2> HIDE DEF head, tail, free, entry, next, data, hold
  <2> QED
    BY <1>1, TakesFree
<1>4. M \in [Buffer -> Letter] /\ O \in [Thread -> Buffer \cup {NULL}]
  <2> HIDE DEF head, tail, free, entry, next, data, hold
  <2> QED
    BY <1>1, <1>3
<1> HIDE DEF r, A, B, C, V, G, M, O, l, g, Y
<1>5. Loose(r, l, g, Y) /\ r.entry = V /\ r.data = M /\ r.hold = O
  BY <1>2, <1>3, <1>4, LooseIntro
<1> QED
  BY <1>3, <1>5 DEF r, V, M, O, l, g, Y

(* links it, *)
LEMMA LinkLastLoose ==
  ASSUME NEW q, NEW s, NEW f, NEW X, Loose(q, s, f, X), NEW b \in X, NEW m \in Letter
  PROVE  LET r == LinkLast(q, b, m)
         IN  /\ Loose(r, Append(s, b), f, X \ {b})
             /\ r.entry = q.entry + 1 /\ r.data = Written(q.data, b, m) /\ r.hold = q.hold
<1> DEFINE head == q.head
           tail == q.tail
           free == q.free
           entry == q.entry
           next == q.next
           data == q.data
           hold == q.hold
<1>1. /\ q = Mq(head, tail, free, entry, next, data, hold) /\ Chains(head, tail, free, next, s, f, X)
      /\ data \in [Buffer -> Letter] /\ hold \in [Thread -> Buffer \cup {NULL}]
  BY DEF Loose
<1> DEFINE r == LinkLast(q, b, m)
           A == IF head = NULL THEN b ELSE head
           B == b
           C == free
           V == entry + 1
           G == [n \in Buffer |-> IF n = b THEN NULL ELSE IF n = tail THEN b ELSE next[n]]
           M == [data EXCEPT ![b] = m]
           O == hold
           l == Append(s, b)
           g == f
           Y == X \ {b}
<1>2. r = Mq(A, B, C, V, G, M, O)
  <2> HIDE DEF head, tail, free, entry, next, data, hold
  <2> DEFINE w == Mq(head, tail, free, entry, next, data, hold)
  <2>1. LinkLast(w, b, m) = Mq(A, B, C, V, G, M, O)
    BY LinkLastFields
  <2> HIDE DEF w, A, B, C, V, G, M, O
  <2>2. q = w
    BY <1>1 DEF w
  <2> QED
    BY <2>1, <2>2
<1>3. Chains(A, B, C, G, l, g, Y)
  <2> HIDE DEF head, tail, free, entry, next, data, hold
  <2> QED
    BY <1>1, PutsLast
<1>4. M \in [Buffer -> Letter] /\ O \in [Thread -> Buffer \cup {NULL}]
  <2> HIDE DEF head, tail, free, entry, next, data, hold
  <2> QED
    BY <1>1, <1>3, NullKnown DEF Chains
<1> HIDE DEF r, A, B, C, V, G, M, O, l, g, Y
<1>5. Loose(r, l, g, Y) /\ r.entry = V /\ r.data = M /\ r.hold = O
  BY <1>2, <1>3, <1>4, LooseIntro
<1> QED
  BY <1>3, <1>5 DEF r, V, M, O, l, g, Y, Written

(* if urgent, before the others; *)
LEMMA LinkFirstLoose ==
  ASSUME NEW q, NEW s, NEW f, NEW X, Loose(q, s, f, X), NEW b \in X, NEW m \in Letter
  PROVE  LET r == LinkFirst(q, b, m)
         IN  /\ Loose(r, Front(b, s), f, X \ {b})
             /\ r.entry = q.entry + 1 /\ r.data = Written(q.data, b, m) /\ r.hold = q.hold
<1> DEFINE head == q.head
           tail == q.tail
           free == q.free
           entry == q.entry
           next == q.next
           data == q.data
           hold == q.hold
<1>1. /\ q = Mq(head, tail, free, entry, next, data, hold) /\ Chains(head, tail, free, next, s, f, X)
      /\ data \in [Buffer -> Letter] /\ hold \in [Thread -> Buffer \cup {NULL}]
  BY DEF Loose
<1> DEFINE r == LinkFirst(q, b, m)
           A == b
           B == IF tail = NULL THEN b ELSE tail
           C == free
           V == entry + 1
           G == [next EXCEPT ![b] = head]
           M == [data EXCEPT ![b] = m]
           O == hold
           l == Front(b, s)
           g == f
           Y == X \ {b}
<1>2. r = Mq(A, B, C, V, G, M, O)
  <2> HIDE DEF head, tail, free, entry, next, data, hold
  <2> DEFINE w == Mq(head, tail, free, entry, next, data, hold)
  <2>1. LinkFirst(w, b, m) = Mq(A, B, C, V, G, M, O)
    <3> DEFINE x == [data EXCEPT ![b] = m]
               y == [next EXCEPT ![b] = head]
               z == b
               u == IF tail = NULL THEN b ELSE tail
               v == entry + 1
    <3>1. /\ w.head = head /\ w.tail = tail /\ w.free = free /\ w.entry = entry /\ w.next = next
          /\ w.data = data /\ w.hold = hold
      BY MqExcept
    <3>2. LinkFirst(w, b, m) = [ w EXCEPT !.data = [w.data EXCEPT ![b] = m],
                                      !.next = [w.next EXCEPT ![b] = w.head],
                                      !.head = b,
                                      !.tail = IF w.tail = NULL THEN b ELSE w.tail,
                                      !.entry = w.entry + 1 ]
      BY DEF LinkFirst
    <3> HIDE DEF w
    <3>3. LinkFirst(w, b, m) = [w EXCEPT !.data = x, !.next = y, !.head = z, !.tail = u, !.entry = v]
      BY <3>1, <3>2
    <3> HIDE DEF x, y, z, u, v
    <3> DEFINE a == [w EXCEPT !.data = x]
               c == [a EXCEPT !.next = y]
               d == [c EXCEPT !.head = z]
               e == [d EXCEPT !.tail = u]
               last == [e EXCEPT !.entry = v]
    <3>4. LinkFirst(w, b, m) = last
      BY <3>3
    <3> HIDE DEF a, c, d, e, last
    <3>5. a = Mq(head, tail, free, entry, next, x, hold)
      BY MqExcept DEF w, a
    <3>6. c = Mq(head, tail, free, entry, y, x, hold)
      BY <3>5, MqExcept DEF c
    <3>7. d = Mq(z, tail, free, entry, y, x, hold)
      BY <3>6, MqExcept DEF d
    <3>8. e = Mq(z, u, free, entry, y, x, hold)
      BY <3>7, MqExcept DEF e
    <3>9. last = Mq(z, u, free, v, y, x, hold)
      BY <3>8, MqExcept DEF last
    <3> QED
      BY <3>4, <3>9 DEF x, y, z, u, v
  <2> HIDE DEF w, A, B, C, V, G, M, O
  <2>2. q = w
    BY <1>1 DEF w
  <2> QED
    BY <2>1, <2>2
<1>3. Chains(A, B, C, G, l, g, Y)
  <2> HIDE DEF head, tail, free, entry, next, data, hold
  <2> QED
    BY <1>1, PutsFirst DEF Front
<1>4. M \in [Buffer -> Letter] /\ O \in [Thread -> Buffer \cup {NULL}]
  <2> HIDE DEF head, tail, free, entry, next, data, hold
  <2> QED
    BY <1>1, <1>3, NullKnown DEF Chains
<1> HIDE DEF r, A, B, C, V, G, M, O, l, g, Y
<1>5. Loose(r, l, g, Y) /\ r.entry = V /\ r.data = M /\ r.hold = O
  BY <1>2, <1>3, <1>4, LooseIntro
<1> QED
  BY <1>3, <1>5 DEF r, V, M, O, l, g, Y, Written

(* a receive unlinks the first *)
LEMMA UnlinkedLoose ==
  ASSUME NEW q, NEW s, NEW f, NEW X, Loose(q, s, f, X), q.head # NULL
  PROVE  LET r == Unlinked(q)
         IN  /\ Loose(r, Tail(s), f, X \cup {q.head})
             /\ q.head \in Buffer /\ q.head \notin X /\ s # <<>> /\ q.head = s[1]
             /\ r.entry = q.entry /\ r.data = q.data /\ r.hold = q.hold
<1> DEFINE head == q.head
           tail == q.tail
           free == q.free
           entry == q.entry
           next == q.next
           data == q.data
           hold == q.hold
<1>1. /\ q = Mq(head, tail, free, entry, next, data, hold) /\ Chains(head, tail, free, next, s, f, X)
      /\ data \in [Buffer -> Letter] /\ hold \in [Thread -> Buffer \cup {NULL}] /\ head # NULL
  BY DEF Loose
<1> DEFINE r == Unlinked(q)
           A == next[head]
           B == IF tail = head THEN NULL ELSE tail
           C == free
           V == entry
           G == next
           M == data
           O == hold
           l == Tail(s)
           g == f
           Y == X \cup {head}
<1>2. r = Mq(A, B, C, V, G, M, O)
  <2> HIDE DEF head, tail, free, entry, next, data, hold
  <2> DEFINE w == Mq(head, tail, free, entry, next, data, hold)
  <2>1. Unlinked(w) = Mq(A, B, C, V, G, M, O)
    BY UnlinkedFields
  <2> HIDE DEF w, A, B, C, V, G, M, O
  <2>2. q = w
    BY <1>1 DEF w
  <2> QED
    BY <2>1, <2>2
<1>3. Chains(A, B, C, G, l, g, Y) /\ head \in Buffer /\ head \notin X /\ s # <<>> /\ head = s[1]
  <2> HIDE DEF head, tail, free, entry, next, data, hold
  <2> QED
    BY <1>1, TakesHead
<1>4. M \in [Buffer -> Letter] /\ O \in [Thread -> Buffer \cup {NULL}]
  <2> HIDE DEF head, tail, free, entry, next, data, hold
  <2> QED
    BY <1>1, <1>3
<1> HIDE DEF r, A, B, C, V, G, M, O, l, g, Y
<1>5. Loose(r, l, g, Y) /\ r.entry = V /\ r.data = M /\ r.hold = O
  BY <1>2, <1>3, <1>4, LooseIntro
<1> QED
  BY <1>3, <1>5 DEF r, V, M, O, l, g, Y

(* and frees it. *)
LEMMA FreedLoose ==
  ASSUME NEW q, NEW s, NEW f, NEW X, Loose(q, s, f, X), NEW b \in X
  PROVE  LET r == Freed(q, b)
         IN  /\ Loose(r, s, Front(b, f), X \ {b})
             /\ r.entry = q.entry /\ r.data = q.data /\ r.hold = q.hold
<1> DEFINE head == q.head
           tail == q.tail
           free == q.free
           entry == q.entry
           next == q.next
           data == q.data
           hold == q.hold
<1>1. /\ q = Mq(head, tail, free, entry, next, data, hold) /\ Chains(head, tail, free, next, s, f, X)
      /\ data \in [Buffer -> Letter] /\ hold \in [Thread -> Buffer \cup {NULL}]
  BY DEF Loose
<1> DEFINE r == Freed(q, b)
           A == head
           B == tail
           C == b
           V == entry
           G == [next EXCEPT ![b] = free]
           M == data
           O == hold
           l == s
           g == Front(b, f)
           Y == X \ {b}
<1>2. r = Mq(A, B, C, V, G, M, O)
  <2> HIDE DEF head, tail, free, entry, next, data, hold
  <2> DEFINE w == Mq(head, tail, free, entry, next, data, hold)
  <2>1. Freed(w, b) = Mq(A, B, C, V, G, M, O)
    BY FreedFields
  <2> HIDE DEF w, A, B, C, V, G, M, O
  <2>2. q = w
    BY <1>1 DEF w
  <2> QED
    BY <2>1, <2>2
<1>3. Chains(A, B, C, G, l, g, Y)
  <2> HIDE DEF head, tail, free, entry, next, data, hold
  <2> QED
    BY <1>1, PutsFree DEF Front
<1>4. M \in [Buffer -> Letter] /\ O \in [Thread -> Buffer \cup {NULL}]
  <2> HIDE DEF head, tail, free, entry, next, data, hold
  <2> QED
    BY <1>1, <1>3
<1> HIDE DEF r, A, B, C, V, G, M, O, l, g, Y
<1>5. Loose(r, l, g, Y) /\ r.entry = V /\ r.data = M /\ r.hold = O
  BY <1>2, <1>3, <1>4, LooseIntro
<1> QED
  BY <1>3, <1>5 DEF r, V, M, O, l, g, Y

(* A handler takes a buffer without the hand of a thread. *)
LEMMA PopLoose ==
  ASSUME NEW q, NEW s, NEW f, NEW X, Loose(q, s, f, X), q.free # NULL
  PROVE  LET r == [q EXCEPT !.free = q.next[q.free]]
         IN  /\ Loose(r, s, Tail(f), X \cup {q.free}) /\ q.free \in Buffer /\ q.free \notin X
             /\ r.entry = q.entry /\ r.data = q.data /\ r.hold = q.hold
<1> DEFINE head == q.head
           tail == q.tail
           free == q.free
           entry == q.entry
           next == q.next
           data == q.data
           hold == q.hold
<1>1. /\ q = Mq(head, tail, free, entry, next, data, hold) /\ Chains(head, tail, free, next, s, f, X)
      /\ data \in [Buffer -> Letter] /\ hold \in [Thread -> Buffer \cup {NULL}] /\ free # NULL
  BY DEF Loose
<1> DEFINE r == [q EXCEPT !.free = q.next[q.free]]
           A == head
           B == tail
           C == next[free]
           V == entry
           G == next
           M == data
           O == hold
           l == s
           g == Tail(f)
           Y == X \cup {free}
<1>2. r = Mq(A, B, C, V, G, M, O)
  <2> HIDE DEF head, tail, free, entry, next, data, hold
  <2> DEFINE w == Mq(head, tail, free, entry, next, data, hold)
  <2>1. [w EXCEPT !.free = w.next[w.free]] = Mq(A, B, C, V, G, M, O)
    BY MqExcept
  <2> HIDE DEF w, A, B, C, V, G, M, O
  <2>2. q = w
    BY <1>1 DEF w
  <2> QED
    BY <2>1, <2>2
<1>3. Chains(A, B, C, G, l, g, Y) /\ free \in Buffer /\ free \notin X
  <2> HIDE DEF head, tail, free, entry, next, data, hold
  <2> QED
    BY <1>1, TakesFree
<1>4. M \in [Buffer -> Letter] /\ O \in [Thread -> Buffer \cup {NULL}]
  <2> HIDE DEF head, tail, free, entry, next, data, hold
  <2> QED
    BY <1>1, <1>3
<1> HIDE DEF r, A, B, C, V, G, M, O, l, g, Y
<1>5. Loose(r, l, g, Y) /\ r.entry = V /\ r.data = M /\ r.hold = O
  BY <1>2, <1>3, <1>4, LooseIntro
<1> QED
  BY <1>3, <1>5 DEF r, V, M, O, l, g, Y

(* A hand, *)
LEMMA HandLoose ==
  ASSUME NEW q, NEW s, NEW f, NEW X, Loose(q, s, f, X), NEW h \in [Thread -> Buffer \cup {NULL}]
  PROVE  LET r == WithHold(q, h)
         IN  /\ Loose(r, s, f, X)
             /\ r.entry = q.entry /\ r.data = q.data /\ r.hold = h
<1> DEFINE head == q.head
           tail == q.tail
           free == q.free
           entry == q.entry
           next == q.next
           data == q.data
           hold == q.hold
<1>1. /\ q = Mq(head, tail, free, entry, next, data, hold) /\ Chains(head, tail, free, next, s, f, X)
      /\ data \in [Buffer -> Letter] /\ hold \in [Thread -> Buffer \cup {NULL}]
  BY DEF Loose
<1> DEFINE r == WithHold(q, h)
           A == head
           B == tail
           C == free
           V == entry
           G == next
           M == data
           O == h
           l == s
           g == f
           Y == X
<1>2. r = Mq(A, B, C, V, G, M, O)
  <2> HIDE DEF head, tail, free, entry, next, data, hold
  <2> DEFINE w == Mq(head, tail, free, entry, next, data, hold)
  <2>1. [w EXCEPT !.hold = h] = Mq(A, B, C, V, G, M, O)
    BY MqExcept
  <2> HIDE DEF w, A, B, C, V, G, M, O
  <2>2. q = w
    BY <1>1 DEF w
  <2> QED
    BY <2>1, <2>2 DEF WithHold
<1>3. Chains(A, B, C, G, l, g, Y)
  <2> HIDE DEF head, tail, free, entry, next, data, hold
  <2> QED
    BY <1>1, MqExcept
<1>4. M \in [Buffer -> Letter] /\ O \in [Thread -> Buffer \cup {NULL}]
  <2> HIDE DEF head, tail, free, entry, next, data, hold
  <2> QED
    BY <1>1, <1>3
<1> HIDE DEF r, A, B, C, V, G, M, O, l, g, Y
<1>5. Loose(r, l, g, Y) /\ r.entry = V /\ r.data = M /\ r.hold = O
  BY <1>2, <1>3, <1>4, LooseIntro
<1> QED
  BY <1>3, <1>5 DEF r, V, M, O, l, g, Y

(* or the counter. *)
LEMMA CountLoose ==
  ASSUME NEW q, NEW s, NEW f, NEW X, Loose(q, s, f, X), NEW e
  PROVE  LET r == WithEntry(q, e)
         IN  /\ Loose(r, s, f, X)
             /\ r.entry = e /\ r.data = q.data /\ r.hold = q.hold
<1> DEFINE head == q.head
           tail == q.tail
           free == q.free
           entry == q.entry
           next == q.next
           data == q.data
           hold == q.hold
<1>1. /\ q = Mq(head, tail, free, entry, next, data, hold) /\ Chains(head, tail, free, next, s, f, X)
      /\ data \in [Buffer -> Letter] /\ hold \in [Thread -> Buffer \cup {NULL}]
  BY DEF Loose
<1> DEFINE r == WithEntry(q, e)
           A == head
           B == tail
           C == free
           V == e
           G == next
           M == data
           O == hold
           l == s
           g == f
           Y == X
<1>2. r = Mq(A, B, C, V, G, M, O)
  <2> HIDE DEF head, tail, free, entry, next, data, hold
  <2> DEFINE w == Mq(head, tail, free, entry, next, data, hold)
  <2>1. [w EXCEPT !.entry = e] = Mq(A, B, C, V, G, M, O)
    BY MqExcept
  <2> HIDE DEF w, A, B, C, V, G, M, O
  <2>2. q = w
    BY <1>1 DEF w
  <2> QED
    BY <2>1, <2>2 DEF WithEntry
<1>3. Chains(A, B, C, G, l, g, Y)
  <2> HIDE DEF head, tail, free, entry, next, data, hold
  <2> QED
    BY <1>1, MqExcept
<1>4. M \in [Buffer -> Letter] /\ O \in [Thread -> Buffer \cup {NULL}]
  <2> HIDE DEF head, tail, free, entry, next, data, hold
  <2> QED
    BY <1>1, <1>3
<1> HIDE DEF r, A, B, C, V, G, M, O, l, g, Y
<1>5. Loose(r, l, g, Y) /\ r.entry = V /\ r.data = M /\ r.hold = O
  BY <1>2, <1>3, <1>4, LooseIntro
<1> QED
  BY <1>3, <1>5 DEF r, V, M, O, l, g, Y

-----------------------------------------------------------------------------
(* The messages *)

(* They are as many as the buffers, *)
LEMMA ContentsKnown ==
  ASSUME NEW s \in Seq(Buffer), NEW data \in [Buffer -> Letter]
  PROVE  /\ Contents(data, s) \in Seq(Letter) /\ Len(Contents(data, s)) = Len(s)
         /\ Len(s) \in Nat /\ DOMAIN s = 1 .. Len(s)
         /\ \A i \in 1 .. Len(s) : Contents(data, s)[i] = data[s[i]] /\ data[s[i]] \in Letter
<1>1. Len(s) \in Nat /\ DOMAIN s = 1 .. Len(s) /\ \A i \in 1 .. Len(s) : s[i] \in Buffer
  OBVIOUS
<1>2. \A i \in 1 .. Len(s) : data[s[i]] \in Letter
  BY <1>1
<1>3. Contents(data, s) = [i \in 1 .. Len(s) |-> data[s[i]]]
  BY <1>1 DEF Contents
<1> QED
  BY <1>1, <1>2, <1>3

(* one comes behind them with a buffer that was not in the queue, *)
LEMMA ContentsAppend ==
  ASSUME NEW s \in Seq(Buffer), NEW data \in [Buffer -> Letter], Once(s), NEW b \in Buffer, ~In(b, s),
         NEW m \in Letter
  PROVE  Contents(Written(data, b, m), Append(s, b)) = Append(Contents(data, s), m)
<1> DEFINE d == [data EXCEPT ![b] = m]
           l == Append(s, b)
           c == Contents(data, s)
           e == Contents(d, l)
           a == Append(c, m)
<1>1. d \in [Buffer -> Letter] /\ d[b] = m /\ \A x \in Buffer : x # b => d[x] = data[x]
  OBVIOUS
<1>2. /\ l \in Seq(Buffer) /\ Len(l) = Len(s) + 1 /\ Len(s) \in Nat /\ DOMAIN s = 1 .. Len(s)
      /\ \A i \in 1 .. Len(s) + 1 : l[i] = IF i = Len(s) + 1 THEN b ELSE s[i]
  BY AppendList
<1>3. /\ c \in Seq(Letter) /\ Len(c) = Len(s)
      /\ \A i \in 1 .. Len(s) : c[i] = data[s[i]] /\ s[i] \in Buffer /\ s[i] # b
  BY ContentsKnown DEF In
<1> HIDE DEF d, l, c
<1>4. e \in Seq(Letter) /\ Len(e) = Len(l) /\ \A i \in 1 .. Len(l) : e[i] = d[l[i]]
  BY <1>1, <1>2, ContentsKnown
<1> HIDE DEF e
<1>5. /\ a \in Seq(Letter) /\ Len(a) = Len(s) + 1
      /\ \A i \in 1 .. Len(s) + 1 : a[i] = IF i = Len(s) + 1 THEN m ELSE c[i]
  BY <1>3
<1> HIDE DEF a
<1>6. ASSUME NEW i \in 1 .. Len(s) + 1 PROVE e[i] = a[i]
  <2>1. CASE i = Len(s) + 1
    BY <1>1, <1>2, <1>4, <1>5, <2>1
  <2>2. CASE i # Len(s) + 1
    <3>1. i \in 1 .. Len(s) /\ l[i] = s[i] /\ e[i] = d[l[i]] /\ a[i] = c[i]
      BY <1>2, <1>4, <1>5, <2>2
    <3> QED
      BY <1>1, <1>3, <3>1
  <2> QED
    BY <2>1, <2>2
<1>7. e = a
  BY <1>2, <1>4, <1>5, <1>6
<1> QED
  BY <1>7 DEF e, a, d, l, c, Written

(* or before them, *)
LEMMA ContentsCons ==
  ASSUME NEW s \in Seq(Buffer), NEW data \in [Buffer -> Letter], Once(s), NEW b \in Buffer, ~In(b, s),
         NEW m \in Letter
  PROVE  Contents(Written(data, b, m), Front(b, s)) = Front(m, Contents(data, s))
<1> DEFINE d == [data EXCEPT ![b] = m]
           l == <<b>> \o s
           c == Contents(data, s)
           e == Contents(d, l)
           a == <<m>> \o c
<1>1. d \in [Buffer -> Letter] /\ d[b] = m /\ \A x \in Buffer : x # b => d[x] = data[x]
  OBVIOUS
<1>2. /\ l \in Seq(Buffer) /\ Len(l) = Len(s) + 1 /\ Len(s) \in Nat /\ DOMAIN s = 1 .. Len(s)
      /\ \A i \in 1 .. Len(s) + 1 : l[i] = IF i = 1 THEN b ELSE s[i - 1]
  BY ConsList
<1>3. /\ c \in Seq(Letter) /\ Len(c) = Len(s)
      /\ \A i \in 1 .. Len(s) : c[i] = data[s[i]] /\ s[i] \in Buffer /\ s[i] # b
  BY ContentsKnown DEF In
<1> HIDE DEF d, l, c
<1>4. e \in Seq(Letter) /\ Len(e) = Len(l) /\ \A i \in 1 .. Len(l) : e[i] = d[l[i]]
  BY <1>1, <1>2, ContentsKnown
<1> HIDE DEF e
<1>5. /\ a \in Seq(Letter) /\ Len(a) = Len(s) + 1
      /\ \A i \in 1 .. Len(s) + 1 : a[i] = IF i = 1 THEN m ELSE c[i - 1]
  BY <1>3
<1> HIDE DEF a
<1>6. ASSUME NEW i \in 1 .. Len(s) + 1 PROVE e[i] = a[i]
  <2>1. CASE i = 1
    BY <1>1, <1>2, <1>4, <1>5, <2>1
  <2>2. CASE i # 1
    <3>1. i - 1 \in 1 .. Len(s) /\ l[i] = s[i - 1] /\ e[i] = d[l[i]] /\ a[i] = c[i - 1]
      BY <1>2, <1>4, <1>5, <2>2
    <3> QED
      BY <1>1, <1>3, <3>1
  <2> QED
    BY <2>1, <2>2
<1>7. e = a
  BY <1>2, <1>4, <1>5, <1>6
<1> QED
  BY <1>7 DEF e, a, d, l, c, Written, Front

(* and the first goes with its buffer. *)
LEMMA ContentsTail ==
  ASSUME NEW s \in Seq(Buffer), NEW data \in [Buffer -> Letter], Once(s), s # <<>>
  PROVE  /\ Contents(data, s) # <<>> /\ Head(Contents(data, s)) = data[s[1]]
         /\ Contents(data, Tail(s)) = Tail(Contents(data, s))
<1> DEFINE l == Tail(s)
           c == Contents(data, s)
           e == Contents(data, l)
           a == Tail(c)
<1>1. /\ l \in Seq(Buffer) /\ Len(l) = Len(s) - 1 /\ Len(s) \in Nat \ {0}
      /\ \A i \in 1 .. Len(s) - 1 : l[i] = s[i + 1]
  BY TailList
<1>2. c \in Seq(Letter) /\ Len(c) = Len(s) /\ \A i \in 1 .. Len(s) : c[i] = data[s[i]]
  BY ContentsKnown
<1> HIDE DEF l, c
<1>3. e \in Seq(Letter) /\ Len(e) = Len(l) /\ \A i \in 1 .. Len(l) : e[i] = data[l[i]]
  BY <1>1, ContentsKnown
<1> HIDE DEF e
<1>4. c # <<>> /\ Head(c) = data[s[1]]
  BY <1>1, <1>2
<1>5. /\ a \in Seq(Letter) /\ Len(a) = Len(s) - 1
      /\ \A i \in 1 .. Len(s) - 1 : a[i] = c[i + 1]
  BY <1>1, <1>2, <1>4
<1> HIDE DEF a
<1>6. ASSUME NEW i \in 1 .. Len(s) - 1 PROVE e[i] = a[i]
  <2>1. i + 1 \in 1 .. Len(s) /\ l[i] = s[i + 1] /\ e[i] = data[l[i]] /\ a[i] = c[i + 1]
    BY <1>1, <1>3, <1>5
  <2> QED
    BY <1>2, <2>1
<1>7. e = a
  BY <1>1, <1>3, <1>5, <1>6
<1> QED
  BY <1>4, <1>7 DEF e, a, l, c

(* There is room as long as a buffer is not in the queue. *)
LEMMA RoomLeft ==
  ASSUME NEW s \in Seq(Buffer), Once(s), NEW b \in Buffer, ~In(b, s)
  PROVE  Len(s) < MQ_MSGS
<1>1. Append(s, b) \in Seq(Buffer) /\ Once(Append(s, b)) /\ Len(Append(s, b)) = Len(s) + 1 /\ Len(s) \in Nat
  BY AppendList
<1> DEFINE l == Append(s, b)
<1> HIDE DEF l
<1>2. l \in Seq(Buffer) /\ Once(l) /\ Len(l) = Len(s) + 1
  BY <1>1 DEF l
<1>3. Len(l) \in 0 .. MQ_MSGS
  BY <1>2, ChainFits
<1> QED
  BY <1>1, <1>2, <1>3, NullKnown

(* What the lists of a queue tell. *)
LEMMA QueueOKKnown ==
  ASSUME NEW q, NEW s, NEW f, QueueOK(q, s, f)
  PROVE  /\ s \in Seq(Buffer) /\ Once(s) /\ f \in Seq(Buffer) /\ Once(f)
         /\ q.data \in [Buffer -> Letter]
         /\ q.hold \in [Thread -> Buffer \cup {NULL}] /\ HandsApart(q.hold)
         /\ q.entry = Len(s) /\ Len(s) \in 0 .. MQ_MSGS /\ (q.head = NULL <=> s = <<>>)
         /\ \A t \in Thread : q.hold[t] # NULL => q.hold[t] \in InHands(q.hold)
         /\ \A b \in InHands(q.hold) : b \in Buffer /\ ~In(b, s) /\ ~In(b, f)
         /\ \A b \in Buffer : /\ (In(b, s) => ~In(b, f))
                              /\ (b \in InHands(q.hold) <=> ~In(b, s) /\ ~In(b, f))
<1>1. /\ Chains(q.head, q.tail, q.free, q.next, s, f, InHands(q.hold))
      /\ q.data \in [Buffer -> Letter] /\ q.hold \in [Thread -> Buffer \cup {NULL}]
      /\ HandsApart(q.hold) /\ q.entry = Len(s)
  BY DEF QueueOK, Loose
<1>2. /\ s \in Seq(Buffer) /\ Once(s) /\ f \in Seq(Buffer) /\ Once(f) /\ Linked(q.next, q.head, s)
      /\ \A b \in Buffer : /\ (In(b, s) => ~In(b, f))
                           /\ (b \in InHands(q.hold) <=> ~In(b, s) /\ ~In(b, f))
  BY <1>1 DEF Chains
<1>3. Len(s) \in 0 .. MQ_MSGS
  BY <1>2, ChainFits
<1>4. q.head = NULL <=> s = <<>>
  <2>1. s # <<>> => s[1] \in Buffer
    BY <1>2
  <2> QED
    BY <1>2, <2>1, NullKnown DEF Linked
<1>5. \A t \in Thread : q.hold[t] # NULL => q.hold[t] \in InHands(q.hold)
  BY <1>1 DEF InHands
<1>6. \A b \in InHands(q.hold) : b \in Buffer
  BY DEF InHands
<1> QED
  BY <1>1, <1>2, <1>3, <1>4, <1>5, <1>6

(* The first section of a send. *)
LEMMA SendTakes ==
  ASSUME NEW q, NEW s, NEW f, QueueOK(q, s, f), q.free # NULL, NEW t \in Thread, q.hold[t] = NULL
  PROVE  LET r == TakeBuffer(q, t)
         IN  /\ QueueOK(r, s, Tail(f)) /\ r.entry = q.entry /\ r.data = q.data
             /\ r.hold = [q.hold EXCEPT ![t] = q.free] /\ q.free \in Buffer
<1> DEFINE r == TakeBuffer(q, t)
           X == InHands(q.hold)
           b == q.free
           h == [q.hold EXCEPT ![t] = b]
<1>1. /\ Loose(q, s, f, X) /\ HandsApart(q.hold) /\ q.entry = Len(s)
      /\ q.hold \in [Thread -> Buffer \cup {NULL}]
  BY QueueOKKnown DEF QueueOK
<1>2. /\ Loose(r, s, Tail(f), X \cup {b}) /\ b \in Buffer /\ b \notin X
      /\ r.entry = q.entry /\ r.data = q.data /\ r.hold = h
  BY <1>1, TakeLoose
<1>3. HandsApart(h) /\ InHands(h) = X \cup {b}
  BY <1>1, <1>2, HandTakes
<1> HIDE DEF r, h, X, b
<1>4. QueueOK(r, s, Tail(f))
  BY <1>1, <1>2, <1>3 DEF QueueOK
<1> QED
  BY <1>2, <1>4 DEF r, h, b

(* The queue r is p with the message m accepted into the buffer b. *)
Accepts(p, r, s, b, m) ==
  /\ Len(s) < MQ_MSGS /\ b \in Buffer
  /\ r.entry = p.entry + 1 /\ r.hold = p.hold /\ r.data = Written(p.data, b, m)
  /\ \E l, g : /\ QueueOK(r, l, g)
               /\ \/ Contents(r.data, l) = Append(Contents(p.data, s), m)
                  \/ Contents(r.data, l) = Front(m, Contents(p.data, s))

(* Either way to link a buffer in hand accepts its message. *)
LEMMA LinkAccepts ==
  ASSUME NEW p, NEW s, NEW f, NEW b, NEW X, Loose(p, s, f, X), b \in X, NEW m \in Letter,
         InHands(p.hold) = X \ {b}, HandsApart(p.hold), p.entry = Len(s),
         NEW r, r = LinkLast(p, b, m) \/ r = LinkFirst(p, b, m)
  PROVE  Accepts(p, r, s, b, m)
<1>1. /\ s \in Seq(Buffer) /\ Once(s) /\ p.data \in [Buffer -> Letter] /\ b \in Buffer /\ ~In(b, s)
  BY DEF Loose, Chains
<1>2. Len(s) < MQ_MSGS /\ Len(s) \in Nat
  BY <1>1, RoomLeft
<1>3. CASE r = LinkLast(p, b, m)
  <2> DEFINE l == Append(s, b)
  <2>1. /\ Loose(r, l, f, X \ {b}) /\ r.entry = p.entry + 1
        /\ r.data = Written(p.data, b, m) /\ r.hold = p.hold
    BY <1>3, LinkLastLoose
  <2>2. Len(l) = Len(s) + 1
    BY <1>1, AppendList
  <2>3. Contents(r.data, l) = Append(Contents(p.data, s), m)
    BY <1>1, <2>1, ContentsAppend
  <2> HIDE DEF l
  <2>4. QueueOK(r, l, f)
    BY <2>1, <2>2 DEF QueueOK
  <2> QED
    BY <1>1, <1>2, <2>1, <2>3, <2>4 DEF Accepts
<1>4. CASE r = LinkFirst(p, b, m)
  <2> DEFINE l == Front(b, s)
  <2>1. /\ Loose(r, l, f, X \ {b}) /\ r.entry = p.entry + 1
        /\ r.data = Written(p.data, b, m) /\ r.hold = p.hold
    BY <1>4, LinkFirstLoose
  <2>2. Len(l) = Len(s) + 1
    BY <1>1, ConsList DEF Front
  <2>3. Contents(r.data, l) = Front(m, Contents(p.data, s))
    BY <1>1, <2>1, ContentsCons
  <2> HIDE DEF l
  <2>4. QueueOK(r, l, f)
    BY <2>1, <2>2 DEF QueueOK
  <2> QED
    BY <1>1, <1>2, <2>1, <2>3, <2>4 DEF Accepts
<1> QED
  BY <1>3, <1>4

(* The second section of a send. *)
LEMMA SendLinks ==
  ASSUME NEW q, NEW s, NEW f, QueueOK(q, s, f), NEW t \in Thread, q.hold[t] # NULL, NEW m \in Letter,
         NEW p, p = HandEmptied(q, t),
         NEW r, r = LinkLast(p, q.hold[t], m) \/ r = LinkFirst(p, q.hold[t], m)
  PROVE  /\ Accepts(p, r, s, q.hold[t], m) /\ p.entry = q.entry /\ p.data = q.data
         /\ p.hold = [q.hold EXCEPT ![t] = NULL]
<1> DEFINE X == InHands(q.hold)
           b == q.hold[t]
           h == [q.hold EXCEPT ![t] = NULL]
<1>1. /\ Loose(q, s, f, X) /\ HandsApart(q.hold) /\ q.entry = Len(s)
      /\ q.hold \in [Thread -> Buffer \cup {NULL}]
  BY QueueOKKnown DEF QueueOK
<1>2. /\ h \in [Thread -> Buffer \cup {NULL}] /\ HandsApart(h) /\ InHands(h) = X \ {b} /\ b \in X
  BY <1>1, HandGives
<1>3. p = WithHold(q, h)
  BY DEF WithHold, HandEmptied
<1> HIDE DEF h, X, b
<1>4. Loose(p, s, f, X) /\ p.entry = q.entry /\ p.data = q.data /\ p.hold = h
  <2> DEFINE z == WithHold(q, h)
  <2>1. Loose(z, s, f, X) /\ z.entry = q.entry /\ z.data = q.data /\ z.hold = h
    BY <1>1, <1>2, HandLoose
  <2> HIDE DEF z
  <2> QED
    BY <1>3, <2>1 DEF z
<1>5. r = LinkLast(p, b, m) \/ r = LinkFirst(p, b, m)
  BY DEF b
<1>6. Accepts(p, r, s, b, m)
  BY <1>1, <1>2, <1>4, <1>5, LinkAccepts
<1> QED
  BY <1>4, <1>6 DEF h, b

(* Both, in a handler. *)
LEMMA HandlerLinks ==
  ASSUME NEW q, NEW s, NEW f, QueueOK(q, s, f), q.free # NULL, NEW m \in Letter,
         NEW p, p = Popped(q),
         NEW r, r = LinkLast(p, q.free, m) \/ r = LinkFirst(p, q.free, m)
  PROVE  /\ Accepts(p, r, s, q.free, m) /\ p.entry = q.entry /\ p.data = q.data /\ p.hold = q.hold
         /\ q.free \in Buffer /\ q.free \notin InHands(q.hold)
<1> DEFINE X == InHands(q.hold)
           b == q.free
           Y == X \cup {b}
           g == Tail(f)
<1>1. Loose(q, s, f, X) /\ HandsApart(q.hold) /\ q.entry = Len(s)
  BY DEF QueueOK
<1>2. /\ Loose(p, s, g, Y) /\ b \in Buffer /\ b \notin X
      /\ p.entry = q.entry /\ p.data = q.data /\ p.hold = q.hold
  BY <1>1, PopLoose DEF Popped
<1>3. b \in Y /\ X = Y \ {b} /\ (r = LinkLast(p, b, m) \/ r = LinkFirst(p, b, m))
  BY <1>2
<1> HIDE DEF b, Y, g
<1>4. InHands(p.hold) = Y \ {b} /\ HandsApart(p.hold) /\ p.entry = Len(s)
  BY <1>1, <1>2, <1>3
<1> HIDE DEF X
<1>5. Accepts(p, r, s, b, m)
  BY <1>2, <1>3, <1>4, LinkAccepts
<1> QED
  BY <1>2, <1>5 DEF b, X

(* The first section of a receive. *)
LEMMA RecvTakes ==
  ASSUME NEW q, NEW s, NEW f, QueueOK(q, s, f), q.entry # 0, NEW t \in Thread, q.hold[t] = NULL,
         NEW r, r = Received(q, t)
  PROVE  /\ QueueOK(r, Tail(s), f) /\ r.entry = q.entry - 1 /\ r.data = q.data
         /\ r.hold = [q.hold EXCEPT ![t] = q.head] /\ q.head \in Buffer
         /\ Contents(q.data, s) # <<>> /\ Head(Contents(q.data, s)) = q.data[q.head]
         /\ Contents(r.data, Tail(s)) = Tail(Contents(q.data, s))
<1> DEFINE X == InHands(q.hold)
           b == q.head
           h == [q.hold EXCEPT ![t] = b]
           u == Unlinked(q)
           v == WithHold(u, h)
           e == q.entry - 1
           w == WithEntry(v, e)
           l == Tail(s)
<1>1. /\ Loose(q, s, f, X) /\ HandsApart(q.hold) /\ q.entry = Len(s) /\ Len(s) \in Nat
      /\ q.hold \in [Thread -> Buffer \cup {NULL}] /\ s \in Seq(Buffer) /\ Once(s)
      /\ q.data \in [Buffer -> Letter] /\ (q.head = NULL <=> s = <<>>)
  <2>1. /\ q.entry = Len(s) /\ q.hold \in [Thread -> Buffer \cup {NULL}] /\ s \in Seq(Buffer)
        /\ Once(s) /\ q.data \in [Buffer -> Letter] /\ (q.head = NULL <=> s = <<>>)
    BY QueueOKKnown
  <2>2. Len(s) \in Nat
    BY <2>1
  <2> QED
    BY <2>1, <2>2 DEF QueueOK
<1>2. b # NULL
  BY <1>1
<1>3. /\ Loose(u, l, f, X \cup {b}) /\ b \in Buffer /\ b \notin X /\ s # <<>> /\ b = s[1]
      /\ u.entry = q.entry /\ u.data = q.data /\ u.hold = q.hold
  BY <1>1, <1>2, UnlinkedLoose
<1>4. /\ h \in [Thread -> Buffer \cup {NULL}] /\ HandsApart(h) /\ InHands(h) = X \cup {b}
  BY <1>1, <1>3, HandTakes
<1>5. r = [u EXCEPT !.hold = [u.hold EXCEPT ![t] = b], !.entry = u.entry - 1]
  BY DEF Received
<1>6. Len(l) = Len(s) - 1
  BY <1>1, <1>3, TailList
<1>7. /\ Contents(q.data, s) # <<>> /\ Head(Contents(q.data, s)) = q.data[b]
      /\ Contents(q.data, l) = Tail(Contents(q.data, s))
  BY <1>1, <1>3, ContentsTail
<1> HIDE DEF u, l
<1>8. r = [u EXCEPT !.hold = h, !.entry = e]
  BY <1>3, <1>5
<1> HIDE DEF h, e, b, X
<1>9. r = w
  BY <1>8 DEF v, w, WithHold, WithEntry
<1> HIDE DEF v, w
<1>10. Loose(v, l, f, X \cup {b}) /\ v.data = q.data /\ v.hold = h
  <2>1. Loose(WithHold(u, h), l, f, X \cup {b}) /\ WithHold(u, h).data = u.data /\ WithHold(u, h).hold = h
    BY <1>3, <1>4, HandLoose
  <2> QED
    BY <1>3, <2>1 DEF v
<1>11. Loose(w, l, f, X \cup {b}) /\ w.data = q.data /\ w.hold = h /\ w.entry = e
  <2>1. /\ Loose(WithEntry(v, e), l, f, X \cup {b}) /\ WithEntry(v, e).data = v.data
        /\ WithEntry(v, e).hold = v.hold /\ WithEntry(v, e).entry = e
    BY <1>10, CountLoose
  <2> QED
    BY <1>10, <2>1 DEF w
<1>12. e = Len(l)
  BY <1>1, <1>6 DEF e
<1>13. QueueOK(r, l, f)
  BY <1>4, <1>9, <1>11, <1>12 DEF QueueOK
<1> QED
  BY <1>3, <1>7, <1>9, <1>11, <1>13 DEF h, e, b, l

(* The second. *)
LEMMA RecvFrees ==
  ASSUME NEW q, NEW s, NEW f, QueueOK(q, s, f), NEW t \in Thread, q.hold[t] # NULL,
         NEW r, r = Freed(HandEmptied(q, t), q.hold[t])
  PROVE  /\ QueueOK(r, s, Front(q.hold[t], f)) /\ r.entry = q.entry /\ r.data = q.data
         /\ r.hold = [q.hold EXCEPT ![t] = NULL]
<1> DEFINE X == InHands(q.hold)
           b == q.hold[t]
           h == [q.hold EXCEPT ![t] = NULL]
           p == WithHold(q, h)
           z == Freed(p, b)
           g == Front(b, f)
<1>1. /\ Loose(q, s, f, X) /\ HandsApart(q.hold) /\ q.entry = Len(s)
      /\ q.hold \in [Thread -> Buffer \cup {NULL}]
  BY QueueOKKnown DEF QueueOK
<1>2. /\ h \in [Thread -> Buffer \cup {NULL}] /\ HandsApart(h) /\ InHands(h) = X \ {b} /\ b \in X
  BY <1>1, HandGives
<1>3. r = z
  <2>1. HandEmptied(q, t) = p
    BY DEF WithHold, HandEmptied
  <2> HIDE DEF p
  <2> QED
    BY <2>1
<1> HIDE DEF h, X, b, p, z, g
<1>4. Loose(p, s, f, X) /\ p.entry = q.entry /\ p.data = q.data /\ p.hold = h
  BY <1>1, <1>2, HandLoose DEF p
<1>5. Loose(z, s, g, X \ {b}) /\ z.entry = p.entry /\ z.data = p.data /\ z.hold = p.hold
  BY <1>2, <1>4, FreedLoose DEF z, g
<1>6. QueueOK(r, s, g)
  BY <1>1, <1>2, <1>3, <1>4, <1>5 DEF QueueOK
<1> QED
  BY <1>3, <1>4, <1>5, <1>6 DEF h, b, g

(* A pass of the loop in rt_mq_control: the first buffer becomes free. *)
Release(y) == IF y.head = NULL THEN y ELSE Freed(Unlinked(y), y.head)

(* After it, m buffers are left in the queue. *)
Left(y, q, X, m) ==
  \E l, g : Loose(y, l, g, X) /\ Len(l) = m /\ y.data = q.data /\ y.hold = q.hold

(* One pass takes one buffer off the queue, if there is one. *)
LEMMA ReleaseOne ==
  ASSUME NEW q, NEW y, NEW X, NEW m \in Nat, Left(y, q, X, m)
  PROVE  Left(Release(y), q, X, IF m = 0 THEN 0 ELSE m - 1)
<1>1. PICK l, f : Loose(y, l, f, X) /\ Len(l) = m /\ y.data = q.data /\ y.hold = q.hold
  BY DEF Left
<1>2. l \in Seq(Buffer) /\ Once(l) /\ Linked(y.next, y.head, l)
  BY <1>1 DEF Loose, Chains
<1>3. y.head = NULL <=> l = <<>>
  <2>1. l # <<>> => l[1] \in Buffer
    BY <1>2
  <2> QED
    BY <1>2, <2>1, NullKnown DEF Linked
<1>4. CASE y.head = NULL
  <2>1. m = 0 /\ Release(y) = y
    BY <1>1, <1>3, <1>4 DEF Release
  <2> QED
    BY <1>1, <2>1 DEF Left
<1>5. CASE y.head # NULL
  <2> DEFINE b == y.head
             u == Unlinked(y)
             z == Freed(u, b)
             Y == X \cup {b}
             e == Tail(l)
             g == Front(b, f)
             n == m - 1
  <2>1. Release(y) = z
    BY <1>5 DEF Release
  <2>2. /\ Loose(u, e, f, Y) /\ b \notin X /\ b \in Buffer /\ u.data = y.data /\ u.hold = y.hold
    BY <1>1, <1>5, UnlinkedLoose
  <2>3. b \in Y /\ Y \ {b} = X
    BY <2>2
  <2>4. m # 0 /\ Len(e) = n
    BY <1>1, <1>2, <1>3, <1>5, TailList
  <2> HIDE DEF b, u, z, Y, e, g, n
  <2>5. Loose(z, e, g, Y \ {b}) /\ z.data = u.data /\ z.hold = u.hold
    BY <2>2, <2>3, FreedLoose DEF z, g
  <2>6. Left(z, q, X, n)
    BY <1>1, <2>2, <2>3, <2>4, <2>5 DEF Left
  <2> QED
    BY <2>1, <2>4, <2>6 DEF n
<1> QED
  BY <1>4, <1>5

(* The loop, one pass at a time. *)
LEMMA ReleaseSteps ==
  ASSUME NEW x, NEW N \in Nat, N = MQ_MSGS
  PROVE  \E F : /\ ReleaseAll(x) = WithEntry(F[N], 0) /\ F[0] = x
                /\ \A n \in 1 .. N : F[n] = Release(F[n - 1])
<1> DEFINE Go(y, n) == Release(y)
           Loop(f, m) == f = [n \in 0 .. m |-> IF n = 0 THEN x ELSE Go(f[n - 1], n)]
           Bad == {m \in 0 .. N : ~ \E f : Loop(f, m)}
           G == CHOOSE f : Loop(f, N)
<1>2. ReleaseAll(x) = WithEntry(G[N], 0)
  <2> DEFINE Body(f, n) == IF n = 0 THEN x
                           ELSE IF f[n - 1].head = NULL THEN f[n - 1]
                           ELSE Freed(Unlinked(f[n - 1]), f[n - 1].head)
             H == CHOOSE f : f = [n \in 0 .. MQ_MSGS |-> Body(f, n)]
  <2>1. ReleaseAll(x) = WithEntry(H[MQ_MSGS], 0)
    BY DEF ReleaseAll, WithEntry
  <2>2. \A f, n : Body(f, n) = IF n = 0 THEN x ELSE Go(f[n - 1], n)
    BY DEF Release
  <2> QED
    BY <2>1 DEF Release
<1> HIDE DEF Go
<1>3. Bad = {}
  <2> SUFFICES ASSUME Bad # {} PROVE FALSE
    OBVIOUS
  <2>1. Bad \in SUBSET Nat
    OBVIOUS
  <2>2. PICK m \in Bad : \A n \in Bad : m <= n
    BY <2>1, LeastNatural
  <2>3. m \in 0 .. N /\ ~ \E f : Loop(f, m)
    BY <2>2
  <2>4. CASE m = 0
    <3> DEFINE g == [n \in 0 .. 0 |-> x]
    <3>1. Loop(g, 0)
      OBVIOUS
    <3> QED
      BY <2>3, <2>4, <3>1
  <2>5. CASE m # 0
    <3>1. m - 1 \in 0 .. N /\ ~(m <= m - 1)
      BY <2>3, <2>5
    <3>2. m - 1 \notin Bad
      BY <2>2, <3>1
    <3>3. PICK f : Loop(f, m - 1)
      BY <3>1, <3>2
    <3> DEFINE g == [n \in 0 .. m |-> IF n = m THEN Go(f[m - 1], m) ELSE f[n]]
    <3>4. \A n \in 0 .. m - 1 : g[n] = f[n] /\ f[n] = IF n = 0 THEN x ELSE Go(f[n - 1], n)
      <4>1. \A n \in 0 .. m - 1 : f[n] = IF n = 0 THEN x ELSE Go(f[n - 1], n)
        BY <3>3
      <4>2. \A n \in 0 .. m - 1 : n \in 0 .. m /\ n # m
        BY <2>3
      <4> QED
        BY <4>1, <4>2
    <3>5. ASSUME NEW n \in 0 .. m PROVE g[n] = IF n = 0 THEN x ELSE Go(g[n - 1], n)
      <4>1. CASE n = m
        <5>1. m - 1 \in 0 .. m - 1 /\ m \in 0 .. m
          BY <2>3, <2>5
        <5>2. g[m] = Go(f[m - 1], m)
          BY <5>1
        <5>3. g[m - 1] = f[m - 1]
          BY <3>4, <5>1
        <5> HIDE DEF g
        <5> QED
          BY <2>5, <4>1, <5>2, <5>3
      <4>2. CASE n # m /\ n # 0
        <5>1. n \in 0 .. m - 1 /\ n - 1 \in 0 .. m - 1
          BY <2>3, <4>2
        <5> HIDE DEF g
        <5> QED
          BY <3>4, <4>2, <5>1
      <4>3. CASE n # m /\ n = 0
        <5>1. n \in 0 .. m - 1
          BY <2>3, <4>3
        <5> HIDE DEF g
        <5> QED
          BY <3>4, <4>3, <5>1
      <4> QED
        BY <4>1, <4>2, <4>3
    <3>6. Loop(g, m)
      <4> DEFINE h == [n \in 0 .. m |-> IF n = 0 THEN x ELSE Go(g[n - 1], n)]
      <4>1. \A n \in 0 .. m : g[n] = h[n]
        BY <3>5
      <4>2. DOMAIN g = 0 .. m /\ DOMAIN h = 0 .. m
        OBVIOUS
      <4>3. g = [n \in 0 .. m |-> g[n]] /\ h = [n \in 0 .. m |-> h[n]]
        OBVIOUS
      <4> HIDE DEF g
      <4> QED
        BY <4>1, <4>2, <4>3
    <3> QED
      BY <2>3, <3>6
  <2> QED
    BY <2>4, <2>5
<1>4. \E f : Loop(f, N)
  <2>1. N \in 0 .. N /\ N \notin Bad
    BY <1>3
  <2> QED
    BY <2>1
<1>5. Loop(G, N)
  BY <1>4
<1> HIDE DEF G
<1>6. 0 \in 0 .. N /\ \A n \in 1 .. N : n \in 0 .. N /\ n # 0
  OBVIOUS
<1>7. G[0] = x /\ \A n \in 1 .. N : G[n] = Go(G[n - 1], n)
  BY <1>5, <1>6
<1> QED
  BY <1>2, <1>7 DEF Go

(* All of them become free. *)
LEMMA ReleasesAll ==
  ASSUME NEW q, NEW s, NEW f, QueueOK(q, s, f)
  PROVE  \E g : /\ QueueOK(ReleaseAll(q), <<>>, g) /\ ReleaseAll(q).entry = 0
                /\ ReleaseAll(q).data = q.data /\ ReleaseAll(q).hold = q.hold
<1> DEFINE X == InHands(q.hold)
           N == MQ_MSGS
           Rest(n) == IF n <= Len(s) THEN Len(s) - n ELSE 0
<1>1. Loose(q, s, f, X) /\ HandsApart(q.hold) /\ Len(s) \in 0 .. N /\ N \in Nat
  BY QueueOKKnown, NullKnown DEF QueueOK
<1>2. PICK F : /\ ReleaseAll(q) = WithEntry(F[N], 0) /\ F[0] = q
               /\ \A n \in 1 .. N : F[n] = Release(F[n - 1])
  BY <1>1, ReleaseSteps
<1> HIDE DEF N, X
<1>3. \A n \in 0 .. N : Rest(n) \in Nat
  BY <1>1
<1>4. Rest(0) = Len(s) /\ Rest(N) = 0
  BY <1>1
<1>5. \A n \in 1 .. N : Rest(n) = IF Rest(n - 1) = 0 THEN 0 ELSE Rest(n - 1) - 1
  BY <1>1
<1> DEFINE Bad == {n \in 0 .. N : ~Left(F[n], q, X, Rest(n))}
<1> HIDE DEF Rest
<1>6. Bad = {}
  <2> SUFFICES ASSUME Bad # {} PROVE FALSE
    OBVIOUS
  <2>1. Bad \in SUBSET Nat
    BY <1>1
  <2>2. PICK m \in Bad : \A n \in Bad : m <= n
    BY <2>1, LeastNatural
  <2>3. m \in 0 .. N /\ ~Left(F[m], q, X, Rest(m))
    BY <2>2
  <2>4. CASE m = 0
    BY <1>1, <1>2, <1>4, <2>3, <2>4 DEF Left
  <2>5. CASE m # 0
    <3>1. m - 1 \in 0 .. N /\ ~(m <= m - 1) /\ m \in 1 .. N
      BY <1>1, <2>3, <2>5
    <3> DEFINE y == F[m - 1]
               e == Rest(m - 1)
               c == IF e = 0 THEN 0 ELSE e - 1
    <3>2. Left(y, q, X, e) /\ e \in Nat /\ F[m] = Release(y) /\ Rest(m) = c
      BY <1>2, <1>3, <1>5, <2>2, <3>1
    <3> HIDE DEF y, e
    <3>3. Left(Release(y), q, X, c)
      BY <3>2, ReleaseOne
    <3> QED
      BY <2>3, <3>2, <3>3
  <2> QED
    BY <2>4, <2>5
<1>7. Left(F[N], q, X, 0)
  <2>1. N \in 0 .. N
    BY <1>1
  <2> QED
    BY <1>4, <1>6, <2>1
<1> DEFINE y == F[N]
           z == WithEntry(y, 0)
<1>8. PICK l, g : Loose(y, l, g, X) /\ Len(l) = 0 /\ y.data = q.data /\ y.hold = q.hold
  BY <1>7 DEF Left
<1>9. l = <<>>
  <2>1. l \in Seq(Buffer)
    BY <1>8 DEF Loose, Chains
  <2> QED
    BY <1>8, <2>1
<1> HIDE DEF y
<1>10. Loose(z, l, g, X) /\ z.entry = 0 /\ z.data = y.data /\ z.hold = y.hold
  BY <1>8, CountLoose
<1> HIDE DEF z
<1>11. QueueOK(z, l, g)
  BY <1>1, <1>8, <1>10 DEF QueueOK, X
<1> QED
  BY <1>2, <1>8, <1>9, <1>10, <1>11 DEF y, z

(* A queue that is initialised while no thread has a buffer in hand. *)
LEMMA FreshOKQueue ==
  ASSUME NEW data \in [Buffer -> Letter], NEW hold \in [Thread -> Buffer \cup {NULL}],
         \A t \in Thread : hold[t] = NULL
  PROVE  LET r == FreshQueue(data, hold)
         IN  /\ \E g : QueueOK(r, <<>>, g)
             /\ r.entry = 0 /\ r.data = data /\ r.hold = hold
<1> DEFINE N == MQ_MSGS
           next == [b \in Buffer |-> b - 1]
           g == [i \in 1 .. N |-> N + 1 - i]
           r == FreshQueue(data, hold)
<1>1. N \in Nat \ {0} /\ Buffer = 1 .. N /\ NULL = 0 /\ NULL \notin Buffer /\ N # NULL
  BY NullKnown DEF Buffer, NULL
<1>2. r = Mq(NULL, NULL, N, 0, next, data, hold)
  BY DEF FreshQueue, Mq
<1>3. /\ next \in [Buffer -> Buffer \cup {NULL}] /\ \A b \in 1 .. N : next[b] = b - 1
  <2>1. \A b \in 1 .. N : b - 1 \in 1 .. N \cup {0}
    BY <1>1
  <2> QED
    BY <1>1, <2>1
<1>4. g \in Seq(Buffer) /\ Len(g) = N /\ DOMAIN g = 1 .. N /\ \A i \in 1 .. N : g[i] = N + 1 - i
  <2>1. \A i \in 1 .. N : N + 1 - i \in 1 .. N
    BY <1>1
  <2> QED
    BY <1>1, <2>1
<1> HIDE DEF N, next, g
<1>5. Once(g)
  BY <1>1, <1>4 DEF Once
<1>6. Linked(next, N, g)
  <2>1. g # <<>> /\ g[1] = N
    BY <1>1, <1>4
  <2>2. ASSUME NEW i \in DOMAIN g PROVE next[g[i]] = IF i = Len(g) THEN NULL ELSE g[i + 1]
    <3>1. i \in 1 .. N /\ i \in Nat /\ g[i] = N + 1 - i /\ g[i] \in 1 .. N /\ N \in Nat
      <4>1. i \in 1 .. N /\ N \in Nat /\ g[i] = N + 1 - i
        BY <1>1, <1>4
      <4>2. N + 1 - i \in 1 .. N
        BY <4>1
      <4> QED
        BY <4>1, <4>2
    <3>2. next[g[i]] = N - i
      <4>1. next[g[i]] = g[i] - 1
        BY <1>3, <3>1
      <4> QED
        BY <3>1, <4>1
    <3>3. CASE i = N
      BY <1>1, <1>4, <3>1, <3>2, <3>3
    <3>4. CASE i # N
      <4> DEFINE j == i + 1
      <4>1. j \in 1 .. N /\ N + 1 - j = N - i
        BY <3>1, <3>4
      <4> HIDE DEF j
      <4>2. g[j] = N - i
        BY <1>4, <4>1
      <4> QED
        BY <1>4, <3>2, <3>4, <4>2 DEF j
    <3> QED
      BY <3>3, <3>4
  <2> QED
    BY <2>1, <2>2 DEF Linked
<1>7. ASSUME NEW b \in Buffer PROVE In(b, g) /\ ~In(b, <<>>)
  <2>1. N + 1 - b \in 1 .. N /\ N + 1 - (N + 1 - b) = b
    BY <1>1
  <2>2. g[N + 1 - b] = b
    BY <1>4, <2>1
  <2>3. In(b, g)
    BY <1>4, <2>1, <2>2 DEF In
  <2> QED
    BY <2>3 DEF In
<1> DEFINE e == <<>>
<1>8. e \in Seq(Buffer) /\ Once(e) /\ Linked(next, NULL, e) /\ Len(e) = 0
  BY DEF Once, Linked
<1>9. InHands(hold) = {} /\ HandsApart(hold)
  BY <1>1 DEF InHands, HandsApart
<1>10. NULL = IF e = <<>> THEN NULL ELSE e[Len(e)]
  OBVIOUS
<1> HIDE DEF e
<1>11. Chains(NULL, NULL, N, next, e, g, {})
  BY <1>3, <1>4, <1>5, <1>6, <1>7, <1>8, <1>10 DEF Chains, e
<1> DEFINE X == {}
           c == 0
<1> HIDE DEF X, c, r
<1>12. Loose(r, e, g, X) /\ r.entry = c /\ r.data = data /\ r.hold = hold
  <2>1. r = Mq(NULL, NULL, N, c, next, data, hold) /\ Chains(NULL, NULL, N, next, e, g, X)
    BY <1>2, <1>11 DEF X, c
  <2> QED
    BY <2>1, LooseIntro
<1>13. QueueOK(r, e, g)
  BY <1>8, <1>9, <1>12 DEF QueueOK, X, c
<1> QED
  BY <1>12, <1>13 DEF r, e, c


-----------------------------------------------------------------------------
(* The invariants *)

QueueTypes ==
  /\ kind = "queue" /\ flag \in Flags /\ live \in BOOLEAN
  /\ arg \in [Thread -> [time : Time, data : Letter \cup {NoData}]]

(* Between its two sections a call has a buffer in hand, *)
Between == {"fill", "urge", "leave"}

Holding == \A t \in Thread : mq.hold[t] # NULL <=> pc[t].op \in Between

(* a send the message it is about to copy, *)
Copying == \A t \in Thread : pc[t].op \in {"fill", "urge"} => arg[t].data \in Letter

(* and the queue is in use. *)
NoneBetween == Detaching \/ ~live => \A t \in Thread : pc[t].op \notin Between

QueueInv ==
  /\ DetachInv /\ NoneBetween /\ Unsent /\ Holding /\ Copying
  /\ \E s, f : QueueOK(mq, s, f)
  /\ Served(mq.entry, receivers)

(* One step of the channel. *)
QueueStep ==
  [QueueChannel!Fifo \/ \E m \in Letter : QueueChannel!PutFirst(m)]_<<LetterQueue, LetterInHand>>

(* What is shown of a step. *)
QueueGood ==
  /\ IpcInv' /\ WaitersClear' /\ QueueTypes'
  /\ "late" \notin Relaxed /\ QueueInv => QueueInv' /\ QueueStep

(* The abstract queue is what the buffers of the list hold. *)
LEMMA LettersKnown ==
  ASSUME NEW s, NEW f
  PROVE  /\ QueueOK(mq, s, f) => LetterQueue = Contents(mq.data, s)
         /\ QueueOK(mq', s, f) => LetterQueue' = Contents(mq'.data, s)
<1>1. \A b : Chain(b) = ChainOf(mq.next, b)
  BY DEF Chain, ChainOf
<1>2. \A b : Chain(b)' = ChainOf(mq'.next, b')
  BY DEF Chain, ChainOf
<1>3. ASSUME NEW q, QueueOK(q, s, f) PROVE ChainOf(q.next, q.head) = s
  BY <1>3, ChainIs DEF QueueOK, Loose, Chains
<1>4. ASSUME QueueOK(mq, s, f) PROVE LetterQueue = Contents(mq.data, s)
  <2>1. Chain(mq.head) = s
    BY <1>1, <1>3, <1>4
  <2> QED
    BY <2>1 DEF LetterQueue, Contents
<1>5. ASSUME QueueOK(mq', s, f) PROVE LetterQueue' = Contents(mq'.data, s)
  <2>1. Chain(mq.head)' = s
    BY <1>2, <1>3, <1>5
  <2> QED
    BY <2>1 DEF LetterQueue, Contents
<1> QED
  BY <1>4, <1>5

(* What thread t has received, by its program counter and the queue. *)
HandOf(p, q, t) ==
  IF p[t].op = "leave" /\ q.hold[t] # NULL THEN q.data[q.hold[t]] ELSE NoData

(* The abstract hands are what the buffers of receivers hold. *)
LEMMA HandsKnown ==
  /\ LetterInHand = [t \in Thread |-> HandOf(pc, mq, t)]
  /\ LetterInHand' = [t \in Thread |-> HandOf(pc', mq', t)]
BY DEF LetterInHand, HandOf

(* The hands stay, *)
LEMMA HandsSame ==
  ASSUME \A t \in Thread : HandOf(pc', mq', t) = HandOf(pc, mq, t)
  PROVE  LetterInHand' = LetterInHand
BY HandsKnown

(* or one of them changes. *)
LEMMA HandsChange ==
  ASSUME NEW t \in Thread, NEW m, HandOf(pc', mq', t) = m,
         \A u \in Thread : u # t => HandOf(pc', mq', u) = HandOf(pc, mq, u)
  PROVE  LetterInHand' = [LetterInHand EXCEPT ![t] = m] /\ LetterInHand[t] = HandOf(pc, mq, t)
BY HandsKnown

(* The steps of the queue as steps of the channel: none, *)
LEMMA LetterSame ==
  ASSUME LetterQueue' = LetterQueue, LetterInHand' = LetterInHand
  PROVE  QueueStep
BY DEF QueueStep

(* a message is accepted, *)
LEMMA LetterPut ==
  ASSUME NEW m \in Letter, LetterQueue' = Append(LetterQueue, m) \/ LetterQueue' = Front(m, LetterQueue),
         Len(LetterQueue) < MQ_MSGS, LetterInHand' = LetterInHand
  PROVE  QueueStep
<1>1. CASE LetterQueue' = Append(LetterQueue, m)
  BY <1>1 DEF QueueStep, QueueChannel!Fifo, QueueChannel!Put
<1>2. CASE LetterQueue' = Front(m, LetterQueue)
  BY <1>2 DEF QueueStep, QueueChannel!PutFirst, Front
<1> QED
  BY <1>1, <1>2

(* a message is received, *)
LEMMA LetterTake ==
  ASSUME NEW t \in Thread, LetterInHand[t] = NoData, LetterQueue # <<>>,
         LetterQueue' = Tail(LetterQueue),
         LetterInHand' = [LetterInHand EXCEPT ![t] = Head(LetterQueue)]
  PROVE  QueueStep
BY DEF QueueStep, QueueChannel!Fifo, QueueChannel!Take

(* the call returns with it, *)
LEMMA LetterDeliver ==
  ASSUME NEW t \in Thread, LetterInHand[t] # NoData, LetterQueue' = LetterQueue,
         LetterInHand' = [LetterInHand EXCEPT ![t] = NoData]
  PROVE  QueueStep
BY DEF QueueStep, QueueChannel!Fifo, QueueChannel!Deliver

(* or all messages are forgotten. *)
LEMMA LetterClear ==
  ASSUME LetterQueue' = <<>>, LetterInHand' = LetterInHand
  PROVE  QueueStep
BY DEF QueueStep, QueueChannel!Fifo, QueueChannel!Clear

(* The arguments of a call that waits, and of none. *)
LEMMA QueueArgs ==
  /\ NoArg \in [time : Time, data : Letter \cup {NoData}]
  /\ \A time \in Time, d \in Letter \cup {NoData} :
       [time |-> time, data |-> d] \in [time : Time, data : Letter \cup {NoData}]
BY DEF NoArg, Time

(* A step while the queue is in use, in which nobody begins to detach it. *)
LEMMA QueueUsable ==
  ASSUME Usable, live' = live, \A t \in Thread : Detaches(pc'[t]) => Detaches(pc[t])
  PROVE  DetachInv' /\ NoneBetween'
<1>1. DetachInv'
  BY UsableAfter
<1>2. live' /\ \A t \in Thread : ~Detaches(pc'[t])
  BY DetachingKnown DEF Usable
<1> QED
  BY <1>1, <1>2, DetachingKnown DEF NoneBetween

(* A call between its sections finds the queue in use. *)
LEMMA BetweenUsable ==
  ASSUME NoneBetween, NEW t \in Thread, pc[t].op \in Between
  PROVE  Usable
BY DEF NoneBetween, Usable

-----------------------------------------------------------------------------
(* The steps *)

(* The list of senders stays empty. *)
LEMMA UnsentKept ==
  ASSUME IpcInv, NEW L, NEW R, Steps(L, R), Unsent
  PROVE  Unsent'
<1>1. senders \in WaitList
  BY ListsKnown
<1> QED
  BY <1>1, NotEmptyBefore DEF Steps, Unsent

(* The types after a step that changes the arguments of the running thread *)
(* at most.                                                                *)
LEMMA QueueTypesKept ==
  ASSUME QueueTypes, kind' = kind, flag' \in Flags, live' \in BOOLEAN,
         arg' = arg \/ \E a \in [time : Time, data : Letter \cup {NoData}] : arg' = [arg EXCEPT ![me] = a]
  PROVE  QueueTypes' /\ \A t \in Thread : t # me => arg'[t] = arg[t]
BY DEF QueueTypes

(* The running thread moves to o. *)
LEMMA QueueMoved ==
  ASSUME QueueInv, me \in Thread, NEW o, NEW S, Moves(o, S),
         \A t \in Thread : t # me => arg'[t] = arg[t] /\ mq'.hold[t] = mq.hold[t],
         mq'.hold[me] # NULL <=> o \in Between,
         o \in {"fill", "urge"} => arg'[me].data \in Letter,
         DetachInv', NoneBetween', Unsent', \E s, f : QueueOK(mq', s, f),
         Served(mq.entry, receivers)'
  PROVE  QueueInv'
<1>1. pc'[me].op = o /\ \A t \in Thread : t # me => pc'[t] = pc[t]
  BY DEF Moves
<1>2. Holding'
  BY <1>1 DEF QueueInv, Holding
<1>3. Copying'
  BY <1>1 DEF QueueInv, Copying
<1> QED
  BY <1>2, <1>3 DEF QueueInv

(* A step that leaves the queue alone and moves nobody in or out of the    *)
(* calls that have a buffer in hand.                                       *)
LEMMA QueueKept ==
  ASSUME QueueInv, mq' = mq,
         \A t \in Thread : \/ pc'[t].op = pc[t].op
                           \/ pc[t].op \notin Between /\ pc'[t].op \notin Between,
         \A t \in Thread : pc[t].op \in Between => arg'[t] = arg[t],
         DetachInv', NoneBetween', Unsent', k'.wait[receivers] # <<>> => mq.entry <= Cardinality(Woken(receivers)')
  PROVE  QueueInv' /\ QueueStep
<1>1. Holding'
  BY DEF QueueInv, Holding
<1>2. Copying'
  <2> SUFFICES ASSUME NEW t \in Thread, pc'[t].op \in {"fill", "urge"} PROVE arg'[t].data \in Letter
    BY DEF Copying
  <2>1. pc'[t].op = pc[t].op /\ pc[t].op \in Between
    BY DEF Between
  <2> QED
    BY <2>1 DEF QueueInv, Copying
<1>3. (\E s, f : QueueOK(mq, s, f))' /\ Served(mq.entry, receivers)'
  BY DEF QueueInv, Served
<1>4. QueueInv'
  BY <1>1, <1>2, <1>3 DEF QueueInv
<1>5. LetterQueue' = LetterQueue
  BY DEF LetterQueue, Chain
<1>6. LetterInHand' = LetterInHand
  <2> SUFFICES ASSUME NEW t \in Thread PROVE HandOf(pc', mq', t) = HandOf(pc, mq, t)
    BY HandsSame
  <2> QED
    BY DEF HandOf, Between
<1> QED
  BY <1>4, <1>5, <1>6, LetterSame

(* A send writes to a buffer that no thread reads. *)
LEMMA HandsUnread ==
  ASSUME NEW b, NEW m, mq.data \in [Buffer -> Letter], mq.hold \in [Thread -> Buffer \cup {NULL}],
         mq'.data = Written(mq.data, b, m),
         \A t \in Thread : pc'[t].op = "leave" <=> pc[t].op = "leave",
         \A t \in Thread : pc[t].op = "leave" => mq'.hold[t] = mq.hold[t] /\ mq.hold[t] # b
  PROVE  LetterInHand' = LetterInHand
<1> SUFFICES ASSUME NEW t \in Thread PROVE HandOf(pc', mq', t) = HandOf(pc, mq, t)
  BY HandsSame
<1>1. CASE pc[t].op = "leave" /\ mq.hold[t] # NULL
  <2>1. mq.hold[t] \in Buffer /\ mq.hold[t] # b /\ mq'.hold[t] = mq.hold[t]
    BY <1>1
  <2>2. mq'.data[mq.hold[t]] = mq.data[mq.hold[t]]
    BY <2>1 DEF Written
  <2> QED
    BY <1>1, <2>1, <2>2 DEF HandOf
<1>2. CASE ~(pc[t].op = "leave" /\ mq.hold[t] # NULL)
  BY <1>2 DEF HandOf
<1> QED
  BY <1>1, <1>2

(* No hand changes while nobody moves from or to the end of a receive. *)
LEMMA HandsStill ==
  ASSUME \A t \in Thread : pc'[t].op = "leave" <=> pc[t].op = "leave",
         \A t \in Thread : pc[t].op = "leave" => mq'.hold[t] = mq.hold[t], mq'.data = mq.data
  PROVE  LetterInHand' = LetterInHand
<1> SUFFICES ASSUME NEW t \in Thread PROVE HandOf(pc', mq', t) = HandOf(pc, mq, t)
  BY HandsSame
<1> QED
  BY DEF HandOf

(* The counter of the queue. *)
LEMMA QueueCounted ==
  ASSUME QueueInv
  PROVE  Served(mq.entry, receivers) /\ mq.entry \in Int /\ mq.entry \in 0 .. MQ_MSGS
<1>1. PICK s, f : QueueOK(mq, s, f)
  BY DEF QueueInv
<1>2. mq.entry = Len(s) /\ s \in Seq(Buffer) /\ Len(s) \in 0 .. MQ_MSGS
  BY <1>1, QueueOKKnown
<1>3. Len(s) \in Nat
  BY <1>2
<1> QED
  BY <1>2, <1>3 DEF QueueInv

(* A step that changes neither thread nor kernel wakes nobody. *)
LEMMA StillSteps ==
  ASSUME IpcInv, k' = k, pc' = pc
  PROVE  Steps({}, {})
<1>1. IpcInv' /\ \A w \in WaitList : Woken(w)' = Woken(w)
  BY StillWaits
<1>2. WaitersClear => WaitersClear'
  BY DEF WaitersClear
<1> QED
  BY <1>1, <1>2 DEF Steps, Shifts, Shrinks

(* rt_mq_send, rt_mq_urgent: the first section *)
LEMMA QueueSend ==
  ASSUME IpcInv, WaitersClear, QueueTypes, NEW m \in Letter, NEW o \in {"fill", "urge"}, rt_mq_send(m, o)
  PROVE  QueueGood
<1>1. /\ At("run") /\ me # Idle /\ Usable /\ mq.free # NULL /\ mq' = TakeBuffer(mq, me) /\ k' = k
      /\ pc' = [pc EXCEPT ![me] = [op |-> o, on |-> {receivers}]]
      /\ arg' = [arg EXCEPT ![me] = [time |-> "none", data |-> m]]
      /\ kind' = kind /\ flag' = flag /\ live' = live /\ me \in Thread /\ pc[me].op = "run"
      /\ receivers \in WaitList
  BY ListsKnown DEF rt_mq_send, Calls, At, Goto, Enter, kept
<1>2. /\ o \in Op \ {"block", "woken"} /\ {receivers} \in SUBSET WaitList /\ o # "run"
      /\ o \in Between /\ o \notin {"detach", "rouse", "leave"} /\ pc[me].op \notin Between
  BY <1>1 DEF Op, Between
<1>3. Steps({me}, {}) /\ Moves(o, {receivers})
  BY <1>1, <1>2, GotoWakes
<1>4. /\ QueueTypes' /\ arg'[me].data = m /\ \A t \in Thread : t # me => arg'[t] = arg[t]
  <2>1. [time |-> "none", data |-> m] \in [time : Time, data : Letter \cup {NoData}]
    BY QueueArgs DEF Time
  <2>2. flag' \in Flags /\ live' \in BOOLEAN
    BY <1>1 DEF QueueTypes
  <2>3. QueueTypes' /\ \A t \in Thread : t # me => arg'[t] = arg[t]
    BY <1>1, <2>1, <2>2, QueueTypesKept
  <2>4. arg'[me].data = m
    BY <1>1 DEF QueueTypes
  <2> QED
    BY <2>3, <2>4
<1>5. ASSUME QueueInv PROVE QueueInv' /\ QueueStep
  <2>1. PICK s, f : QueueOK(mq, s, f)
    BY <1>5 DEF QueueInv
  <2>2. mq.hold[me] = NULL
    BY <1>1, <1>2, <1>5 DEF QueueInv, Holding
  <2>3. /\ QueueOK(mq', s, Tail(f)) /\ mq'.entry = mq.entry /\ mq'.data = mq.data
        /\ mq'.hold = [mq.hold EXCEPT ![me] = mq.free] /\ mq.free \in Buffer
    BY <1>1, <2>1, <2>2, SendTakes
  <2>4. mq.hold \in [Thread -> Buffer \cup {NULL}] /\ mq.entry \in Int
    BY <1>5, <2>1, QueueOKKnown, QueueCounted
  <2>5. mq'.hold[me] # NULL /\ \A t \in Thread : t # me => mq'.hold[t] = mq.hold[t]
    BY <1>1, <2>3, <2>4
  <2>6. DetachInv' /\ NoneBetween'
    <3>1. \A t \in Thread : Detaches(pc'[t]) => Detaches(pc[t])
      BY <1>2, <1>3 DEF Moves, Detaches
    <3> QED
      BY <1>1, <3>1, QueueUsable
  <2>7. Unsent'
    BY <1>3, <1>5, UnsentKept DEF QueueInv
  <2>8. Served(mq.entry, receivers)'
    <3>1. Woken(receivers) \cap {me} = {}
      BY <1>1 DEF Woken, Inside
    <3>2. k'.wait[receivers] # <<>> => mq.entry <= Cardinality(Woken(receivers)')
      BY <1>1, <1>3, <1>5, <2>4, <3>1, ServedKept DEF QueueInv
    <3> QED
      BY <2>3, <3>2 DEF Served
  <2>9. QueueInv'
    BY <1>1, <1>2, <1>3, <1>4, <1>5, <2>3, <2>5, <2>6, <2>7, <2>8, QueueMoved
  <2>10. LetterQueue' = LetterQueue
    BY <2>1, <2>3, LettersKnown
  <2>11. LetterInHand' = LetterInHand
    <3>1. /\ \A t \in Thread : pc'[t].op = "leave" <=> pc[t].op = "leave"
          /\ pc[me].op # "leave"
      BY <1>1, <1>2, <1>3 DEF Moves
    <3> QED
      BY <2>3, <2>5, <3>1, HandsStill
  <2> QED
    BY <2>9, <2>10, <2>11, LetterSame
<1> QED
  BY <1>3, <1>4, <1>5 DEF QueueGood, Steps

(* The second section: the message is in the queue. *)
LEMMA QueueLink ==
  ASSUME IpcInv, WaitersClear, QueueTypes, SendLink
  PROVE  QueueGood
<1> DEFINE b == mq.hold[me]
           m == arg[me].data
           q == HandEmptied(mq, me)
<1>1. /\ At("fill") \/ At("urge")
      /\ mq' = LinkLast(q, b, m) \/ mq' = LinkFirst(q, b, m)
      /\ WakeOne(receivers, "run") /\ arg' = [arg EXCEPT ![me] = NoArg]
      /\ kind' = kind /\ flag' = flag /\ live' = live /\ me \in Thread
      /\ pc[me].op \in {"fill", "urge"} /\ receivers \in WaitList
  BY ListsKnown DEF SendLink, At, Leave, kept, HandEmptied
<1> HIDE DEF b, m, q
<1>2. PICK p : At(p) /\ p \in {"fill", "urge"} /\ p # "block" /\ pc[me].op = p
  BY <1>1 DEF At
<1>3. me # Idle
  BY <1>1 DEF IpcInv, Located
<1>4. Woken(receivers) \cap {me} = {}
  BY <1>1 DEF Woken, Inside
<1>5. PICK o, S, R :
        /\ o \in {"run", "sched"}
        /\ Steps({me}, R) /\ Moves(o, S)
        /\ (k'.wait[receivers] # <<>> /\ QueueInv
              => mq.entry + 1 <= Cardinality(Woken(receivers)'))
  <2>0. ASSUME QueueInv PROVE Served(mq.entry, receivers) /\ mq.entry \in Int
    BY <2>0, QueueCounted
  <2>1. CASE k.wait[receivers] # <<>>
    <3> DEFINE t == k.wait[receivers][1]
    <3>1. Steps({me}, {t}) /\ Moves("sched", {receivers}) /\ t \in Thread /\ In(t, k.wait[receivers])
      BY <1>1, <1>2, <1>3, <2>1, ResumeWakesOne DEF WakeOne
    <3> HIDE DEF t
    <3>2. ASSUME QueueInv, k'.wait[receivers] # <<>>
          PROVE  mq.entry + 1 <= Cardinality(Woken(receivers)')
      BY <1>1, <1>4, <2>0, <3>1, <3>2, ServedMore
    <3> QED
      BY <3>1, <3>2
  <2>2. CASE k.wait[receivers] = <<>>
    <3>1. k' = k /\ Return
      BY <1>1, <2>2 DEF WakeOne
    <3>2. Steps({me}, {}) /\ Moves("run", {})
      BY <1>2, <1>3, <3>1, ReturnWakes
    <3> QED
      BY <2>2, <3>1, <3>2
  <2> QED
    BY <2>1, <2>2
<1>6. QueueTypes' /\ \A t \in Thread : t # me => arg'[t] = arg[t]
  <2>1. flag' \in Flags /\ live' \in BOOLEAN /\ NoArg \in [time : Time, data : Letter \cup {NoData}]
    BY <1>1, QueueArgs DEF QueueTypes
  <2> QED
    BY <1>1, <2>1, QueueTypesKept
<1>7. ASSUME QueueInv PROVE QueueInv' /\ QueueStep
  <2>1. PICK s, f : QueueOK(mq, s, f)
    BY <1>7 DEF QueueInv
  <2>2. b # NULL /\ m \in Letter
    BY <1>1, <1>7 DEF QueueInv, Holding, Copying, Between, b, m
  <2>3. /\ Accepts(q, mq', s, b, m) /\ q.entry = mq.entry /\ q.data = mq.data
        /\ q.hold = [mq.hold EXCEPT ![me] = NULL]
    <3> DEFINE t == me
               r == mq'
    <3>1. /\ t \in Thread /\ mq.hold[t] # NULL /\ q = HandEmptied(mq, t) /\ b = mq.hold[t]
          /\ r = LinkLast(q, mq.hold[t], m) \/ r = LinkFirst(q, mq.hold[t], m)
      BY <1>1, <2>2 DEF b, q
    <3> HIDE DEF t, r
    <3>2. /\ Accepts(q, r, s, mq.hold[t], m) /\ q.entry = mq.entry /\ q.data = mq.data
          /\ q.hold = [mq.hold EXCEPT ![t] = NULL]
      BY <2>1, <2>2, <3>1, SendLinks
    <3> QED
      BY <3>1, <3>2 DEF t, r
  <2>4. PICK l, g : /\ QueueOK(mq', l, g)
                    /\ \/ Contents(mq'.data, l) = Append(Contents(mq.data, s), m)
                       \/ Contents(mq'.data, l) = Front(m, Contents(mq.data, s))
    BY <2>3 DEF Accepts
  <2>5. /\ Len(s) < MQ_MSGS /\ b \in Buffer /\ mq'.entry = mq.entry + 1
        /\ mq'.hold = [mq.hold EXCEPT ![me] = NULL] /\ mq'.data = Written(mq.data, b, m)
    BY <2>3 DEF Accepts
  <2>6. /\ mq.hold \in [Thread -> Buffer \cup {NULL}] /\ HandsApart(mq.hold)
        /\ mq.data \in [Buffer -> Letter] /\ s \in Seq(Buffer)
    BY <2>1, QueueOKKnown
  <2>7. mq'.hold[me] = NULL /\ \A t \in Thread : t # me => mq'.hold[t] = mq.hold[t]
    BY <1>1, <2>5, <2>6
  <2>8. Usable
    BY <1>1, <1>7, BetweenUsable DEF QueueInv, Between
  <2>9. DetachInv' /\ NoneBetween'
    <3>1. \A t \in Thread : Detaches(pc'[t]) => Detaches(pc[t])
      BY <1>5 DEF Moves, Detaches
    <3> QED
      BY <1>1, <2>8, <3>1, QueueUsable
  <2>10. Unsent'
    BY <1>5, <1>7, UnsentKept DEF QueueInv
  <2>11. Served(mq.entry, receivers)'
    BY <1>5, <1>7, <2>5 DEF Served
  <2>12. o \notin Between /\ o \notin {"fill", "urge"}
    BY <1>5 DEF Between
  <2>13. QueueInv'
    BY <1>1, <1>5, <1>6, <1>7, <2>4, <2>7, <2>9, <2>10, <2>11, <2>12, QueueMoved
  <2>14. /\ LetterQueue = Contents(mq.data, s) /\ LetterQueue' = Contents(mq'.data, l)
         /\ Len(Contents(mq.data, s)) = Len(s)
    BY <2>1, <2>4, <2>6, LettersKnown, ContentsKnown
  <2>15. LetterInHand' = LetterInHand
    <3>1. \A t \in Thread : pc'[t].op = "leave" <=> pc[t].op = "leave"
      BY <1>1, <1>5 DEF Moves
    <3>2. \A t \in Thread : pc[t].op = "leave" => mq'.hold[t] = mq.hold[t] /\ mq.hold[t] # b
      BY <1>1, <2>2, <2>6, <2>7 DEF HandsApart, b
    <3> QED
      BY <2>5, <2>6, <3>1, <3>2, HandsUnread
  <2>16. QueueStep
    BY <2>2, <2>4, <2>5, <2>14, <2>15, LetterPut
  <2> QED
    BY <2>13, <2>16
<1> QED
  BY <1>5, <1>6, <1>7 DEF QueueGood, Steps

(* Either call in an interrupt handler. *)
LEMMA QueueHandler ==
  ASSUME IpcInv, WaitersClear, QueueTypes, NEW m \in Letter, SendLetterInHandler(m)
  PROVE  QueueGood
<1> DEFINE b == mq.free
           p == Popped(mq)
           r == mq'
<1>1. /\ Usable /\ b # NULL /\ (r = LinkLast(p, b, m) \/ r = LinkFirst(p, b, m))
      /\ k' = (IF k.wait[receivers] # <<>> THEN rt_schedule(rt_ipc_list_resume(k, receivers)) ELSE k)
      /\ pc' = pc /\ kind' = kind /\ flag' = flag /\ live' = live /\ arg' = arg
      /\ receivers \in WaitList
  BY ListsKnown DEF SendLetterInHandler, object, kept, Popped
<1> HIDE DEF b, p, r
<1>2. QueueTypes'
  BY <1>1 DEF QueueTypes
<1>3. PICK R : /\ Steps({}, R)
               /\ (k'.wait[receivers] # <<>> /\ QueueInv
                     => mq.entry + 1 <= Cardinality(Woken(receivers)'))
  <2>1. ASSUME QueueInv PROVE Served(mq.entry, receivers) /\ mq.entry \in Int
    BY <2>1, QueueCounted
  <2>2. CASE k.wait[receivers] # <<>>
    <3> DEFINE t == k.wait[receivers][1]
    <3>1. Steps({}, {t}) /\ t \in Thread /\ In(t, k.wait[receivers])
      BY <1>1, <2>2, HandlerWakesOne
    <3> HIDE DEF t
    <3>2. ASSUME QueueInv, k'.wait[receivers] # <<>>
          PROVE  mq.entry + 1 <= Cardinality(Woken(receivers)')
      BY <1>1, <2>1, <3>1, <3>2, ServedMore
    <3> QED
      BY <3>1, <3>2
  <2>3. CASE k.wait[receivers] = <<>>
    <3>1. k' = k
      BY <1>1, <2>3
    <3>2. Steps({}, {})
      BY <1>1, <3>1, StillSteps
    <3> QED
      BY <2>3, <3>1, <3>2
  <2> QED
    BY <2>2, <2>3
<1>4. ASSUME QueueInv PROVE QueueInv' /\ QueueStep
  <2>1. PICK s, f : QueueOK(mq, s, f)
    BY <1>4 DEF QueueInv
  <2>2. /\ Accepts(p, r, s, b, m) /\ p.entry = mq.entry /\ p.data = mq.data /\ p.hold = mq.hold
        /\ b \in Buffer /\ b \notin InHands(mq.hold)
    BY <1>1, <2>1, HandlerLinks DEF b, p
  <2>3. PICK l, g : /\ QueueOK(mq', l, g)
                    /\ \/ Contents(mq'.data, l) = Append(Contents(mq.data, s), m)
                       \/ Contents(mq'.data, l) = Front(m, Contents(mq.data, s))
    BY <2>2 DEF Accepts, r
  <2>4. /\ Len(s) < MQ_MSGS /\ mq'.entry = mq.entry + 1 /\ mq'.hold = mq.hold
        /\ mq'.data = Written(mq.data, b, m)
    BY <2>2 DEF Accepts, r
  <2>5. /\ mq.hold \in [Thread -> Buffer \cup {NULL}] /\ mq.data \in [Buffer -> Letter]
        /\ s \in Seq(Buffer) /\ \A t \in Thread : mq.hold[t] # NULL => mq.hold[t] \in InHands(mq.hold)
    BY <2>1, QueueOKKnown
  <2>6. DetachInv' /\ NoneBetween'
    BY <1>1, QueueUsable
  <2>7. Unsent'
    BY <1>3, <1>4, UnsentKept DEF QueueInv
  <2>8. Served(mq.entry, receivers)'
    BY <1>3, <1>4, <2>4 DEF Served
  <2>9. Holding' /\ Copying'
    BY <1>1, <1>4, <2>4 DEF QueueInv, Holding, Copying
  <2>10. QueueInv'
    BY <2>3, <2>6, <2>7, <2>8, <2>9 DEF QueueInv
  <2>11. /\ LetterQueue = Contents(mq.data, s) /\ LetterQueue' = Contents(mq'.data, l)
         /\ Len(Contents(mq.data, s)) = Len(s)
    BY <2>1, <2>3, <2>5, LettersKnown, ContentsKnown
  <2>12. LetterInHand' = LetterInHand
    <3>1. \A t \in Thread : pc[t].op = "leave" => mq'.hold[t] = mq.hold[t] /\ mq.hold[t] # b
      <4> SUFFICES ASSUME NEW t \in Thread, pc[t].op = "leave" PROVE mq.hold[t] # b
        BY <2>4
      <4>1. mq.hold[t] # NULL
        BY <1>4 DEF QueueInv, Holding, Between
      <4> QED
        BY <2>2, <2>5, <4>1
    <3> QED
      BY <1>1, <2>4, <2>5, <3>1, HandsUnread
  <2>13. QueueStep
    BY <2>3, <2>4, <2>11, <2>12, LetterPut
  <2> QED
    BY <2>10, <2>13
<1> QED
  BY <1>2, <1>3, <1>4 DEF QueueGood, Steps

(* The second section of a receive. *)
LEMMA QueueFree ==
  ASSUME IpcInv, WaitersClear, QueueTypes, RecvFree
  PROVE  QueueGood
<1> DEFINE o == "run"
           S == {}
<1>1. /\ At("leave") /\ mq' = Freed(HandEmptied(mq, me), mq.hold[me]) /\ Return /\ k' = k
      /\ kind' = kind /\ flag' = flag /\ live' = live /\ arg' = arg /\ me \in Thread
      /\ pc[me].op = "leave" /\ receivers \in WaitList
  BY ListsKnown DEF RecvFree, At, object, kept, HandEmptied
<1>2. me # Idle
  BY <1>1 DEF IpcInv, Located
<1>3. Steps({me}, {}) /\ Moves(o, S) /\ o \notin {"detach", "rouse", "leave", "fill", "urge"}
  BY <1>1, <1>2, ReturnWakes
<1> HIDE DEF o, S
<1>4. QueueTypes'
  BY <1>1 DEF QueueTypes
<1>5. ASSUME QueueInv PROVE QueueInv' /\ QueueStep
  <2>1. PICK s, f : QueueOK(mq, s, f)
    BY <1>5 DEF QueueInv
  <2>2. mq.hold[me] # NULL
    BY <1>1, <1>5 DEF QueueInv, Holding, Between
  <2> DEFINE t == me
             r == mq'
             g == Front(mq.hold[me], f)
  <2>3. /\ t \in Thread /\ r = Freed(HandEmptied(mq, t), mq.hold[t]) /\ g = Front(mq.hold[t], f)
        /\ mq.hold[t] # NULL
    BY <1>1, <2>2
  <2> HIDE DEF t, r, g
  <2>4. /\ QueueOK(r, s, g) /\ r.entry = mq.entry /\ r.data = mq.data
        /\ r.hold = [mq.hold EXCEPT ![t] = NULL]
    BY <2>1, <2>3, RecvFrees
  <2>5. /\ mq.hold \in [Thread -> Buffer \cup {NULL}] /\ mq.data \in [Buffer -> Letter]
    BY <2>1, QueueOKKnown
  <2>6. mq'.hold[me] = NULL /\ \A u \in Thread : u # me => mq'.hold[u] = mq.hold[u]
    BY <2>3, <2>4, <2>5 DEF t, r
  <2>7. Usable
    BY <1>1, <1>5, BetweenUsable DEF QueueInv, Between
  <2>8. DetachInv' /\ NoneBetween'
    <3>1. \A u \in Thread : Detaches(pc'[u]) => Detaches(pc[u])
      BY <1>3 DEF Moves, Detaches
    <3> QED
      BY <1>1, <2>7, <3>1, QueueUsable
  <2>9. Unsent'
    BY <1>3, <1>5, UnsentKept DEF QueueInv
  <2>10. Served(mq.entry, receivers)'
    <3>1. Woken(receivers) \cap {me} = {}
      BY <1>1 DEF Woken, Inside
    <3>2. Served(mq.entry, receivers) /\ mq.entry \in Int
      BY <1>5, QueueCounted
    <3>3. k'.wait[receivers] # <<>> => mq.entry <= Cardinality(Woken(receivers)')
      BY <1>1, <1>3, <3>1, <3>2, ServedKept
    <3> QED
      BY <2>4, <3>3 DEF Served, r
  <2>11. \E l, h : QueueOK(mq', l, h)
    BY <2>4 DEF r
  <2>12. QueueInv'
    BY <1>1, <1>3, <1>5, <2>6, <2>8, <2>9, <2>10, <2>11, QueueMoved DEF Between
  <2>13. LetterQueue' = LetterQueue
    BY <2>1, <2>4, LettersKnown DEF r
  <2>14. /\ LetterInHand' = [LetterInHand EXCEPT ![me] = NoData]
         /\ LetterInHand[me] = HandOf(pc, mq, me)
    <3>1. HandOf(pc', mq', me) = NoData
      BY <1>1, <1>3 DEF Moves, HandOf
    <3>2. \A u \in Thread : u # me => HandOf(pc', mq', u) = HandOf(pc, mq, u)
      BY <1>3, <2>4, <2>6 DEF Moves, HandOf, r
    <3> QED
      BY <1>1, <3>1, <3>2, HandsChange
  <2>15. LetterInHand[me] # NoData
    <3>1. HandOf(pc, mq, me) = mq.data[mq.hold[me]] /\ mq.hold[me] \in Buffer
      BY <1>1, <2>2, <2>5 DEF HandOf
    <3>2. mq.data[mq.hold[me]] \in Letter
      BY <2>5, <3>1
    <3> QED
      BY <2>14, <3>1, <3>2, MessageQueueAssumption
  <2>16. QueueStep
    BY <1>1, <2>13, <2>14, <2>15, LetterDeliver
  <2> QED
    BY <2>12, <2>16
<1> QED
  BY <1>3, <1>4, <1>5 DEF QueueGood, Steps

(* The first section of rt_mq_recv: a receive that fails at once, or has   *)
(* waited long enough,                                                     *)
LEMMA QueueEmpty ==
  ASSUME IpcInv, WaitersClear, QueueTypes, NEW p \in {"run", "woken"}, At(p), me # Idle,
         mq.entry = 0, k' = k \/ k' = [k EXCEPT !.error[me] = "ETIMEOUT"], Return, Leave,
         mq' = mq, kind' = kind, flag' = flag, live' = live, "late" \notin Relaxed /\ QueueInv => Usable
  PROVE  QueueGood
<1>1. me \in Thread /\ pc[me].op = p /\ receivers \in WaitList /\ p # "block"
  BY ListsKnown DEF At
<1>2. Steps({me}, {}) /\ Moves("run", {})
  BY <1>1, ReturnWakes, ErrorWakes
<1>3. QueueTypes' /\ \A t \in Thread : t # me => arg'[t] = arg[t]
  <2>1. flag' \in Flags /\ live' \in BOOLEAN /\ NoArg \in [time : Time, data : Letter \cup {NoData}]
    BY QueueArgs DEF QueueTypes
  <2> QED
    BY <2>1, QueueTypesKept DEF Leave
<1>4. ASSUME "late" \notin Relaxed, QueueInv PROVE QueueInv' /\ QueueStep
  <2>1. \A t \in Thread : Detaches(pc'[t]) => Detaches(pc[t])
    BY <1>2 DEF Moves, Detaches
  <2>2. DetachInv' /\ NoneBetween'
    BY <1>4, <2>1, QueueUsable
  <2>3. Unsent'
    BY <1>2, <1>4, UnsentKept DEF QueueInv
  <2>4. k'.wait[receivers] # <<>> => mq.entry <= Cardinality(Woken(receivers)')
    BY ZeroServed
  <2>5. /\ \A t \in Thread : \/ pc'[t].op = pc[t].op
                             \/ pc[t].op \notin Between /\ pc'[t].op \notin Between
        /\ \A t \in Thread : pc[t].op \in Between => arg'[t] = arg[t]
    BY <1>1, <1>2, <1>3 DEF Moves, Between
  <2> QED
    BY <1>4, <2>2, <2>3, <2>4, <2>5, QueueKept
<1> QED
  BY <1>2, <1>3, <1>4 DEF QueueGood, Steps

(* one that waits, *)
LEMMA QueueBlock ==
  ASSUME IpcInv, WaitersClear, QueueTypes, NEW p \in {"run", "woken"}, At(p), me # Idle,
         NEW time \in Time, mq.entry = 0, k' = Block(k, receivers, flag, time),
         Goto("block", receivers), Enter(time, NoData), mq' = mq, kind' = kind, flag' = flag,
         live' = live, "late" \notin Relaxed /\ QueueInv => Usable
  PROVE  QueueGood
<1>1. /\ me \in Thread /\ pc[me].op = p /\ receivers \in WaitList /\ p # "block"
      /\ senders \in WaitList /\ senders # receivers
  BY ListsKnown DEF At
<1>2. /\ IpcInv' /\ WaitersClear' /\ Moves("block", {receivers})
      /\ \A v \in WaitList : v # receivers => k'.wait[v] = k.wait[v]
  BY <1>1, BlockWakes
<1>3. QueueTypes' /\ \A t \in Thread : t # me => arg'[t] = arg[t]
  <2> DEFINE a == [time |-> time, data |-> NoData]
  <2>1. /\ flag' \in Flags /\ live' \in BOOLEAN /\ a \in [time : Time, data : Letter \cup {NoData}]
        /\ arg' = [arg EXCEPT ![me] = a]
    BY QueueArgs DEF QueueTypes, Enter
  <2> HIDE DEF a
  <2> QED
    BY <2>1, QueueTypesKept
<1>4. ASSUME "late" \notin Relaxed, QueueInv PROVE QueueInv' /\ QueueStep
  <2>1. \A t \in Thread : Detaches(pc'[t]) => Detaches(pc[t])
    BY <1>2 DEF Moves, Detaches
  <2>2. DetachInv' /\ NoneBetween'
    BY <1>4, <2>1, QueueUsable
  <2>3. Unsent'
    BY <1>1, <1>2, <1>4 DEF QueueInv, Unsent
  <2>4. k'.wait[receivers] # <<>> => mq.entry <= Cardinality(Woken(receivers)')
    BY ZeroServed
  <2>5. /\ \A t \in Thread : \/ pc'[t].op = pc[t].op
                             \/ pc[t].op \notin Between /\ pc'[t].op \notin Between
        /\ \A t \in Thread : pc[t].op \in Between => arg'[t] = arg[t]
    BY <1>1, <1>2, <1>3 DEF Moves, Between
  <2> QED
    BY <1>4, <2>2, <2>3, <2>4, <2>5, QueueKept
<1> QED
  BY <1>2, <1>3, <1>4 DEF QueueGood

(* and one that takes the first message. *)
LEMMA QueueTake ==
  ASSUME IpcInv, WaitersClear, QueueTypes, NEW p \in {"run", "woken"}, At(p), me # Idle,
         mq.entry # 0, mq' = Received(mq, me), Goto("leave", receivers), Leave, k' = k,
         kind' = kind, flag' = flag, live' = live, "late" \notin Relaxed /\ QueueInv => Usable
  PROVE  QueueGood
<1>1. me \in Thread /\ pc[me].op = p /\ receivers \in WaitList /\ p # "block" /\ p \notin Between
  BY ListsKnown DEF At, Between
<1> DEFINE o == "leave"
           S == {receivers}
<1>2. /\ o \in Op \ {"block", "woken"} /\ S \in SUBSET WaitList /\ o # "run" /\ o = "leave"
      /\ pc' = [pc EXCEPT ![me] = [op |-> o, on |-> S]] /\ o \in Between
  BY <1>1 DEF Goto, Op, Between
<1> HIDE DEF o, S
<1>3. Steps({me}, {}) /\ Moves(o, S)
  BY <1>1, <1>2, GotoWakes
<1>4. QueueTypes' /\ \A t \in Thread : t # me => arg'[t] = arg[t]
  <2>1. flag' \in Flags /\ live' \in BOOLEAN /\ NoArg \in [time : Time, data : Letter \cup {NoData}]
    BY QueueArgs DEF QueueTypes
  <2> QED
    BY <2>1, QueueTypesKept DEF Leave
<1>5. ASSUME "late" \notin Relaxed, QueueInv PROVE QueueInv' /\ QueueStep
  <2>1. PICK s, f : QueueOK(mq, s, f)
    BY <1>5 DEF QueueInv
  <2>2. mq.hold[me] = NULL
    BY <1>1, <1>5 DEF QueueInv, Holding
  <2> DEFINE t == me
             r == mq'
  <2>3. t \in Thread /\ r = Received(mq, t) /\ mq.hold[t] = NULL
    BY <1>1, <2>2
  <2> HIDE DEF t, r
  <2>4. /\ QueueOK(r, Tail(s), f) /\ r.entry = mq.entry - 1 /\ r.data = mq.data
        /\ r.hold = [mq.hold EXCEPT ![t] = mq.head] /\ mq.head \in Buffer
        /\ Contents(mq.data, s) # <<>> /\ Head(Contents(mq.data, s)) = mq.data[mq.head]
        /\ Contents(r.data, Tail(s)) = Tail(Contents(mq.data, s))
    BY <2>1, <2>3, RecvTakes
  <2>5. mq.hold \in [Thread -> Buffer \cup {NULL}] /\ mq.head # NULL
    BY <2>1, <2>4, QueueOKKnown, NullKnown
  <2>6. mq'.hold[me] = mq.head /\ \A u \in Thread : u # me => mq'.hold[u] = mq.hold[u]
    BY <2>3, <2>4, <2>5 DEF t, r
  <2>7. DetachInv' /\ NoneBetween'
    <3>1. \A u \in Thread : Detaches(pc'[u]) => Detaches(pc[u])
      BY <1>2, <1>3 DEF Moves, Detaches
    <3> QED
      BY <1>5, <3>1, QueueUsable
  <2>8. Unsent'
    BY <1>3, <1>5, UnsentKept DEF QueueInv
  <2>9. Served(mq.entry, receivers)'
    <3>1. Served(mq.entry, receivers) /\ mq.entry \in Int
      BY <1>5, QueueCounted
    <3>2. k'.wait[receivers] # <<>> => mq.entry - 1 <= Cardinality(Woken(receivers)')
      BY <1>1, <1>3, <3>1, ServedLess
    <3> QED
      BY <2>4, <3>2 DEF Served, r
  <2>10. \E l, h : QueueOK(mq', l, h)
    BY <2>4 DEF r
  <2>11. QueueInv'
    BY <1>1, <1>2, <1>3, <1>4, <1>5, <2>5, <2>6, <2>7, <2>8, <2>9, <2>10, QueueMoved
  <2>12. LetterQueue' = Tail(LetterQueue) /\ LetterQueue = Contents(mq.data, s)
    BY <2>1, <2>4, LettersKnown DEF r
  <2> DEFINE m == mq.data[mq.head]
  <2>13. HandOf(pc', mq', me) = m
    BY <1>1, <1>2, <1>3, <2>4, <2>5, <2>6 DEF Moves, HandOf, r
  <2>14. \A u \in Thread : u # me => HandOf(pc', mq', u) = HandOf(pc, mq, u)
    BY <1>3, <2>4, <2>6 DEF Moves, HandOf, r
  <2>15. m = Head(LetterQueue) /\ LetterQueue # <<>>
    BY <2>4, <2>12
  <2> HIDE DEF m
  <2>16. LetterInHand' = [LetterInHand EXCEPT ![me] = m] /\ LetterInHand[me] = HandOf(pc, mq, me)
    BY <1>1, <2>13, <2>14, HandsChange
  <2>17. LetterInHand[me] = NoData
    BY <1>1, <2>2, <2>16 DEF HandOf
  <2>18. QueueStep
    BY <1>1, <2>12, <2>15, <2>16, <2>17, LetterTake
  <2> QED
    BY <2>11, <2>18
<1> QED
  BY <1>3, <1>4, <1>5 DEF QueueGood, Steps

(* A step that has no part in the queue or in a detach, of threads outside *)
(* their calls or at the end of them.                                      *)
LEMMA QueueApart ==
  ASSUME IpcInv, QueueInv, mq' = mq, live' = live, NEW L, Steps(L, {}),
         Woken(receivers) \cap L = {},
         \A t \in Thread : \/ pc'[t] = pc[t] \/ (pc[t].op \in Aside /\ pc'[t].op \in Aside)
                           \/ (pc[t].op = "sched" /\ pc'[t].op = "run"),
         \A t \in Thread : pc[t].op \in Between => arg'[t] = arg[t]
  PROVE  QueueInv' /\ QueueStep
<1>1. receivers \in WaitList /\ DetachInv /\ NoneBetween /\ Unsent
  BY ListsKnown DEF QueueInv
<1>2. \A t \in Thread : /\ Detaches(pc'[t]) <=> Detaches(pc[t])
                        /\ Detaches(pc[t]) => pc'[t] = pc[t]
  BY DEF Aside, Detaches
<1>3. DetachInv'
  BY <1>1, <1>2, DetachKept
<1>4. \A t \in Thread : \/ pc'[t].op = pc[t].op
                        \/ pc[t].op \notin Between /\ pc'[t].op \notin Between
  BY DEF Aside, Between
<1>5. NoneBetween'
  <2>1. Detaching' <=> Detaching
    BY <1>2, DetachingKnown
  <2> QED
    BY <1>1, <1>4, <2>1 DEF NoneBetween
<1>6. Unsent'
  BY <1>1, UnsentKept
<1>7. k'.wait[receivers] # <<>> => mq.entry <= Cardinality(Woken(receivers)')
  BY <1>1, QueueCounted, ServedKept
<1> QED
  BY <1>3, <1>4, <1>5, <1>6, <1>7, QueueKept

(* rt_mq_recv *)
LEMMA QueueRecv ==
  ASSUME IpcInv, WaitersClear, QueueTypes, NEW p \in {"run", "woken"}, At(p), me # Idle,
         NEW time \in Time, RecvLetter(time), UNCHANGED kept,
         "late" \notin Relaxed /\ QueueInv => Usable
  PROVE  QueueGood
<1>1. kind' = kind /\ flag' = flag /\ live' = live
  BY DEF kept
<1>2. CASE /\ mq.entry = 0 /\ k' = (IF At("woken") THEN [k EXCEPT !.error[me] = "ETIMEOUT"] ELSE k)
           /\ Return /\ Leave /\ mq' = mq
  <2>1. k' = k \/ k' = [k EXCEPT !.error[me] = "ETIMEOUT"]
    BY <1>2
  <2> QED
    BY <1>1, <1>2, <2>1, QueueEmpty
<1>3. CASE /\ mq.entry = 0 /\ k' = Block(k, receivers, flag, time)
           /\ Goto("block", receivers) /\ Enter(time, NoData) /\ mq' = mq
  BY <1>1, <1>3, QueueBlock
<1>4. CASE mq.entry # 0 /\ mq' = Received(mq, me) /\ Goto("leave", receivers) /\ Leave /\ k' = k
  BY <1>1, <1>4, QueueTake
<1> QED
  BY <1>2, <1>3, <1>4 DEF RecvLetter, Received

(* A thread that a call has woken receives from a queue that is in use. *)
LEMMA QueueAgain ==
  ASSUME IpcInv, WaitersClear, QueueTypes, RecvLetterAgain
  PROVE  QueueGood
<1>1. /\ At("woken") /\ pc[me].on = {receivers} /\ k.error[me] = "EOK" /\ UNCHANGED kept
      /\ receivers \in WaitList /\ me \in Thread /\ pc[me].op = "woken"
  BY ListsKnown DEF RecvLetterAgain, At
<1>2. me # Idle /\ k.stat[me] = "READY"
  BY <1>1, SelfReady DEF IpcInv, Located
<1>3. me \in Woken(receivers)
  BY <1>1, <1>2, ReadyOff DEF Woken, Inside
<1>4. QueueInv => Usable
  BY <1>1, <1>3, WokenUsable DEF QueueInv
<1>5. Remaining(arg[me].time) \subseteq Time
  <2>1. arg[me].time \in Time
    BY <1>1 DEF QueueTypes
  <2> QED
    BY <2>1 DEF Remaining, Time
<1>6. PICK time \in Time : RecvLetter(time)
  BY <1>5 DEF RecvLetterAgain
<1> DEFINE p == "woken"
<1>7. p \in {"run", "woken"} /\ At(p)
  BY <1>1
<1> HIDE DEF p
<1> QED
  BY <1>1, <1>2, <1>4, <1>6, <1>7, QueueRecv

(* A wait that failed ends. *)
LEMMA QueueFails ==
  ASSUME IpcInv, WaitersClear, QueueTypes, WaitFails(receivers), mq' = mq
  PROVE  QueueGood
<1>1. /\ At("woken") /\ k.error[me] # "EOK" /\ Return /\ Leave /\ k' = k /\ receivers \in WaitList
      /\ kind' = kind /\ flag' = flag /\ live' = live /\ me \in Thread /\ pc[me].op = "woken"
  BY ListsKnown DEF WaitFails, kept, At
<1>2. me # Idle
  BY <1>1 DEF IpcInv, Located
<1>3. Steps({me}, {}) /\ Moves("run", {})
  BY <1>1, <1>2, ReturnWakes
<1>4. QueueTypes' /\ \A t \in Thread : t # me => arg'[t] = arg[t]
  <2>1. flag' \in Flags /\ live' \in BOOLEAN /\ NoArg \in [time : Time, data : Letter \cup {NoData}]
    BY <1>1, QueueArgs DEF QueueTypes
  <2> QED
    BY <1>1, <2>1, QueueTypesKept DEF Leave
<1>5. ASSUME QueueInv PROVE QueueInv' /\ QueueStep
  <2>1. Woken(receivers) \cap {me} = {}
    BY <1>1 DEF Woken
  <2>2. \A t \in Thread : pc'[t] = pc[t] \/ (pc[t].op \in Aside /\ pc'[t].op \in Aside)
    BY <1>1, <1>3 DEF Moves, Aside
  <2>3. \A t \in Thread : pc[t].op \in Between => arg'[t] = arg[t]
    BY <1>1, <1>4 DEF Between
  <2> QED
    BY <1>1, <1>3, <1>5, <2>1, <2>2, <2>3, QueueApart
<1> QED
  BY <1>3, <1>4, <1>5 DEF QueueGood, Steps

(* The kernel calls that are not about the queue, and the interrupts. *)
LEMMA QueueAside ==
  ASSUME IpcInv, WaitersClear, QueueTypes, ObjectCall, mq' = mq
  PROVE  QueueGood
<1>1. PICK L \in SUBSET Thread : AsideStep(L)
  BY ObjectCallStep
<1>2. kind' = kind /\ flag' = flag /\ live' = live /\ arg' = arg /\ receivers \in WaitList
  BY ListsKnown DEF ObjectCall, object, kept
<1>3. QueueTypes' /\ Steps(L, {}) /\ Woken(receivers) \cap L = {}
  BY <1>1, <1>2 DEF QueueTypes, AsideStep
<1>4. ASSUME QueueInv PROVE QueueInv' /\ QueueStep
  <2>1. \A t \in Thread : pc'[t] = pc[t] \/ (pc[t].op \in Aside /\ pc'[t].op \in Aside)
    BY <1>1 DEF AsideStep
  <2> QED
    BY <1>2, <1>3, <1>4, <2>1, QueueApart
<1> QED
  BY <1>3, <1>4 DEF QueueGood, Steps

(* The rt_schedule of a send. *)
LEMMA QueueSchedule ==
  ASSUME IpcInv, WaitersClear, QueueTypes, Schedule, UNCHANGED object, mq' = mq
  PROVE  QueueGood
<1>1. Steps({me}, {}) /\ me \in Thread /\ Moves("run", {}) /\ pc[me].op = "sched"
  BY CallWakes DEF rt_thread_sleep, SleepReturn, Schedule, Calls, At
<1>2. kind' = kind /\ flag' = flag /\ live' = live /\ arg' = arg /\ receivers \in WaitList
  BY ListsKnown DEF object, kept
<1>3. QueueTypes' /\ Woken(receivers) \cap {me} = {}
  BY <1>1, <1>2 DEF QueueTypes, Woken, Inside
<1>4. ASSUME QueueInv PROVE QueueInv' /\ QueueStep
  <2>1. \A t \in Thread : pc'[t] = pc[t] \/ (pc[t].op \in Aside /\ pc'[t].op \in Aside)
                          \/ (pc[t].op = "sched" /\ pc'[t].op = "run")
    BY <1>1 DEF Moves
  <2> QED
    BY <1>1, <1>2, <1>3, <1>4, <2>1, QueueApart
<1> QED
  BY <1>1, <1>3, <1>4 DEF QueueGood, Steps

(* A reset wakes the waiters of w with an error. *)
LEMMA RousedFrees ==
  ASSUME IpcInv, NEW w \in WaitList, Roused(k', k, w, {t \in Thread : In(t, k.wait[w])}), NEW L
  PROVE  Frees({}, {t \in Thread : In(t, k.wait[w])}, L)
<1> DEFINE X == {t \in Thread : In(t, k.wait[w])}
<1>1. \A t \in Thread, v \in WaitList : In(t, k'.wait[v]) <=> In(t, k.wait[v]) /\ t \notin X
  <2>1. \A t \in X, v \in WaitList : In(t, k.wait[v]) => v = w
    BY WaiterInside
  <2> QED
    BY <2>1 DEF Roused
<1>2. \A t \in Thread : t \notin X => k'.error[t] = k.error[t]
  BY DEF Roused
<1>3. \A t \in X : k'.error[t] # "EOK"
  BY DEF Roused
<1>4. \A t \in X, v \in WaitList : t \notin Woken(v)
  BY WaiterInside DEF Woken
<1> QED
  BY <1>1, <1>2, <1>3, <1>4 DEF Frees

(* rt_mq_control: every waiter leaves with an error, every message is      *)
(* forgotten.                                                              *)
LEMMA QueueReset ==
  ASSUME IpcInv, WaitersClear, QueueTypes, rt_mq_control
  PROVE  QueueGood
<1> DEFINE X == {t \in Thread : In(t, k.wait[receivers])}
           o == "sched"
           S == {receivers}
<1>1. /\ Calls /\ Usable /\ At("run") /\ me # Idle /\ receivers \in WaitList /\ pc[me].op = "run"
      /\ k' = rt_ipc_list_resume_all(k, receivers) /\ Goto("sched", receivers)
      /\ mq' = ReleaseAll(mq) /\ kind' = kind /\ flag' = flag /\ live' = live /\ arg' = arg
  BY ListsKnown DEF rt_mq_control, Calls, At, object, kept
<1>2. /\ IpcInv' /\ Moves(o, S) /\ me \in Thread /\ k.stat[me] = "READY"
      /\ o \notin {"block", "woken", "detach", "rouse", "fill", "urge", "leave"}
      /\ Roused(k', k, receivers, X) /\ k'.wait[receivers] = <<>>
  BY <1>1, ResetStep
<1> HIDE DEF o, S
<1>3. Frees({}, X, {me})
  BY <1>1, <1>2, RousedFrees
<1>4. Leaves({me})
  BY <1>2, MeLeaves
<1>5. /\ {} \in SUBSET Thread /\ X \in SUBSET Thread /\ {} \cap {me} = {}
      /\ \A u \in {me}, v \in WaitList : ~In(u, k.wait[v])
  BY <1>1, <1>2, ReadyOff
<1> HIDE DEF X
<1>6. Steps({me}, {})
  BY <1>1, <1>2, <1>3, <1>4, <1>5, WokenAfter DEF Steps
<1>7. QueueTypes'
  BY <1>1 DEF QueueTypes
<1>8. ASSUME QueueInv PROVE QueueInv' /\ QueueStep
  <2>1. PICK s, f : QueueOK(mq, s, f)
    BY <1>8 DEF QueueInv
  <2>2. PICK g : /\ QueueOK(mq', <<>>, g) /\ mq'.entry = 0 /\ mq'.data = mq.data /\ mq'.hold = mq.hold
    BY <1>1, <2>1, ReleasesAll
  <2>3. DetachInv' /\ NoneBetween'
    <3>1. \A t \in Thread : Detaches(pc'[t]) => Detaches(pc[t])
      BY <1>2 DEF Moves, Detaches
    <3> QED
      BY <1>1, <3>1, QueueUsable
  <2>4. Unsent' /\ Served(mq.entry, receivers)'
    BY <1>2, <1>6, <1>8, UnsentKept DEF QueueInv, Served
  <2>5. mq.hold[me] = NULL
    BY <1>1, <1>2, <1>8 DEF QueueInv, Holding, Between
  <2>6. QueueInv'
    BY <1>1, <1>2, <1>8, <2>2, <2>3, <2>4, <2>5, QueueMoved DEF Between
  <2>7. LetterQueue' = <<>>
    BY <2>2, LettersKnown DEF Contents
  <2>8. LetterInHand' = LetterInHand
    <3>1. \A t \in Thread : pc'[t].op = "leave" <=> pc[t].op = "leave"
      BY <1>1, <1>2 DEF Moves
    <3> QED
      BY <2>2, <3>1, HandsStill
  <2> QED
    BY <2>6, <2>7, <2>8, LetterClear
<1> QED
  BY <1>6, <1>7, <1>8 DEF QueueGood, Steps

(* rt_mq_detach, rt_mq_delete *)
LEMMA QueueDetach ==
  ASSUME IpcInv, WaitersClear, QueueTypes, rt_mq_detach
  PROVE  QueueGood
<1>1. DetachesOne /\ live \in BOOLEAN /\ receivers \in WaitList /\ mq' = mq
  BY ListsKnown DEF rt_mq_detach, DetachLoop, DetachesOne, QueueTypes
<1>2. /\ Steps({me}, {}) /\ me \in Thread /\ pc[me].op \in {"run", "detach", "rouse"}
      /\ \E o \in {"run", "detach", "rouse"}, S \in SUBSET {receivers} : Moves(o, S)
      /\ kind' = kind /\ flag' = flag /\ arg' = arg /\ live' \in BOOLEAN
      /\ "late" \notin Relaxed /\ DetachInv /\ k.wait[senders] = <<>> => DetachInv'
  BY <1>1, DetachOneStep
<1>3. PICK o, S : o \in {"run", "detach", "rouse"} /\ Moves(o, S)
  BY <1>2
<1>4. QueueTypes'
  BY <1>2 DEF QueueTypes
<1>5. Woken(receivers) \cap {me} = {}
  BY <1>2 DEF Woken, Inside
<1>6. ASSUME "late" \notin Relaxed, QueueInv PROVE QueueInv' /\ QueueStep
  <2>1. DetachInv'
    BY <1>2, <1>6 DEF QueueInv, Unsent
  <2>2. \A t \in Thread : pc[t].op \notin Between
    <3>1. CASE Detach(receivers)
      BY <1>6, <3>1 DEF Detach, Detachable, Between
    <3>2. CASE ~Detach(receivers)
      <4>1. At("detach") \/ At("rouse")
        BY <1>1, <3>2 DEF DetachesOne, DetachTest, DetachBody, DetachObject, DetachEnd
      <4>2. Detaching
        BY <1>2, <4>1 DEF At, Detaching
      <4> QED
        BY <1>6, <4>2 DEF QueueInv, NoneBetween
    <3> QED
      BY <3>1, <3>2
  <2>3. \A t \in Thread : pc'[t].op \notin Between
    BY <1>3, <2>2 DEF Moves, Between
  <2>4. NoneBetween'
    BY <2>3 DEF NoneBetween
  <2>5. Unsent'
    BY <1>2, <1>6, UnsentKept DEF QueueInv
  <2>6. k'.wait[receivers] # <<>> => mq.entry <= Cardinality(Woken(receivers)')
    BY <1>1, <1>2, <1>5, <1>6, QueueCounted, ServedKept
  <2> QED
    BY <1>1, <1>2, <1>6, <2>1, <2>2, <2>3, <2>4, <2>5, <2>6, QueueKept
<1> QED
  BY <1>2, <1>4, <1>6 DEF QueueGood, Steps

(* rt_mq_init, rt_mq_create *)
LEMMA QueueInitialised ==
  ASSUME IpcInv, WaitersClear, QueueTypes, rt_mq_init
  PROVE  QueueGood
<1>1. /\ ~live /\ mq' = FreshQueue(mq.data, mq.hold) /\ k' = k /\ pc' = pc /\ kind' = kind
      /\ flag' \in Flags /\ live' = TRUE /\ arg' = arg /\ receivers \in WaitList
      /\ senders \in WaitList
  BY ListsKnown DEF rt_mq_init, InitObject
<1>2. Steps({}, {}) /\ QueueTypes'
  BY <1>1, StillSteps DEF QueueTypes
<1>3. ASSUME QueueInv PROVE QueueInv' /\ QueueStep
  <2>1. PICK s, f : QueueOK(mq, s, f)
    BY <1>3 DEF QueueInv
  <2>2. \A t \in Thread : pc[t].op \notin Between /\ mq.hold[t] = NULL
    BY <1>1, <1>3 DEF QueueInv, NoneBetween, Holding
  <2>3. mq.hold \in [Thread -> Buffer \cup {NULL}] /\ mq.data \in [Buffer -> Letter]
    BY <2>1, QueueOKKnown
  <2>4. PICK g : /\ QueueOK(mq', <<>>, g) /\ mq'.entry = 0 /\ mq'.data = mq.data /\ mq'.hold = mq.hold
    BY <1>1, <2>2, <2>3, FreshOKQueue
  <2>5. \A t \in Thread : ~Detaches(pc'[t])
    BY <1>1, <1>3, DetachingKnown DEF QueueInv, DetachInv
  <2>6. ~Detaching'
    BY <2>5, DetachingKnown
  <2>7. DetachInv' /\ NoneBetween'
    BY <1>1, <2>5, <2>6 DEF DetachInv, NoneBetween
  <2>8. Unsent' /\ Served(mq.entry, receivers)'
    BY <1>1, <1>3 DEF QueueInv, DetachInv, Unsent, Served
  <2>9. Holding' /\ Copying'
    BY <1>1, <2>2, <2>4 DEF Holding, Copying, Between
  <2>10. QueueInv'
    BY <2>4, <2>7, <2>8, <2>9 DEF QueueInv
  <2>11. LetterQueue' = <<>>
    BY <2>4, LettersKnown DEF Contents
  <2>12. LetterInHand' = LetterInHand
    BY <1>1, <2>4, HandsStill
  <2> QED
    BY <2>10, <2>11, <2>12, LetterClear
<1> QED
  BY <1>2, <1>3 DEF QueueGood, Steps

(* Every step of the message queue is a good one. *)
LEMMA QueueStepGood == IpcInv /\ WaitersClear /\ QueueTypes /\ [QueueNext]_queueVars => QueueGood
<1> SUFFICES ASSUME IpcInv, WaitersClear, QueueTypes, [QueueNext]_queueVars PROVE QueueGood
  OBVIOUS
<1>1. CASE UNCHANGED queueVars
  <2>1. k' = k /\ pc' = pc /\ mq' = mq /\ kind' = kind /\ flag' = flag /\ live' = live /\ arg' = arg
    BY <1>1 DEF queueVars, object, kept
  <2>2. Steps({}, {}) /\ QueueTypes'
    BY <2>1, StillSteps DEF QueueTypes
  <2>3. ASSUME QueueInv PROVE QueueInv' /\ QueueStep
    <3> DEFINE L == {}
    <3>1. Steps(L, {}) /\ Woken(receivers) \cap L = {}
      BY <2>2
    <3> HIDE DEF L
    <3> QED
      BY <2>1, <2>3, <3>1, QueueApart
  <2> QED
    BY <2>2, <2>3 DEF QueueGood, Steps
<1>2. ASSUME NEW m \in Letter, rt_mq_send(m, "fill") \/ rt_mq_send(m, "urge") PROVE QueueGood
  <2>1. PICK o \in {"fill", "urge"} : rt_mq_send(m, o)
    BY <1>2
  <2> QED
    BY <2>1, QueueSend
<1>3. ASSUME NEW time \in Time, rt_mq_recv(time) PROVE QueueGood
  <2> DEFINE p == "run"
  <2>1. /\ p \in {"run", "woken"} /\ At(p) /\ me # Idle /\ Usable /\ RecvLetter(time)
        /\ UNCHANGED kept
    BY <1>3 DEF rt_mq_recv, Calls
  <2> HIDE DEF p
  <2> QED
    BY <2>1, QueueRecv
<1>4. CASE \/ SendLink \/ RecvLetterAgain \/ RecvFree \/ rt_mq_control \/ rt_mq_detach \/ rt_mq_init
           \/ \E m \in Letter : SendLetterInHandler(m)
  BY <1>4, QueueLink, QueueAgain, QueueFree, QueueReset, QueueDetach, QueueInitialised, QueueHandler
<1>5. CASE (ObjectCall \/ WaitFails(receivers) \/ (Schedule /\ UNCHANGED object)) /\ UNCHANGED mq
  BY <1>5, QueueAside, QueueFails, QueueSchedule
<1> QED
  BY <1>1, <1>2, <1>3, <1>4, <1>5 DEF QueueNext

(* The queue starts empty, with every buffer on the free list. *)
LEMMA QueueStarts ==
  QueueInit => /\ IpcInv /\ WaitersClear /\ QueueTypes /\ QueueInv
               /\ LetterQueue = <<>> /\ LetterInHand = [t \in Thread |-> NoData]
<1> SUFFICES ASSUME QueueInit
             PROVE  /\ IpcInv /\ WaitersClear /\ QueueTypes /\ QueueInv
                    /\ LetterQueue = <<>> /\ LetterInHand = [t \in Thread |-> NoData]
  OBVIOUS
<1>1. /\ IpcInv /\ \A w \in WaitList : k.wait[w] = <<>>
      /\ pc = [t \in Thread |-> [op |-> "run", on |-> {}]]
      /\ k.error = [t \in Thread |-> "EOK"]
  BY StartSound DEF QueueInit, ObjectInit
<1>2. /\ kind = "queue" /\ flag \in Flags /\ live = TRUE /\ arg = [t \in Thread |-> NoArg]
      /\ receivers \in WaitList /\ senders \in WaitList
  BY ListsKnown DEF QueueInit, ObjectInit
<1>3. WaitersClear /\ QueueTypes
  BY <1>1, <1>2, QueueArgs DEF WaitersClear, QueueTypes
<1> DEFINE data == [b \in Buffer |-> CHOOSE m \in Letter : TRUE]
           hold == [t \in Thread |-> NULL]
<1>4. /\ mq = FreshQueue(data, hold) /\ data \in [Buffer -> Letter]
      /\ hold \in [Thread -> Buffer \cup {NULL}] /\ \A t \in Thread : hold[t] = NULL
  BY MessageQueueAssumption DEF QueueInit, QueueStart
<1> HIDE DEF data, hold
<1>5. PICK g : QueueOK(mq, <<>>, g) /\ mq.entry = 0 /\ mq.hold = hold
  BY <1>4, FreshOKQueue
<1>6. Holding /\ Copying
  BY <1>1, <1>4, <1>5 DEF Holding, Copying, Between
<1>7. DetachInv /\ NoneBetween
  <2>1. \A t \in Thread : ~Detaches(pc[t])
    BY <1>1 DEF Detaches
  <2>2. ~Detaching
    BY <2>1, DetachingKnown
  <2> QED
    BY <1>2, <2>1, <2>2 DEF DetachInv, NoneBetween
<1>8. QueueInv
  BY <1>1, <1>2, <1>5, <1>6, <1>7 DEF QueueInv, Unsent, Served
<1>9. LetterQueue = <<>>
  BY <1>5, LettersKnown DEF Contents
<1>10. LetterInHand = [t \in Thread |-> NoData]
  BY <1>1 DEF LetterInHand
<1> QED
  BY <1>1, <1>3, <1>8, <1>9, <1>10

-----------------------------------------------------------------------------
(* The theorems *)

(* Each thread is once on the list where its call on the queue left it, up *)
(* to a detach loop that takes the list head for a thread.                 *)
THEOREM QueuePlaces == QueueSpec => []Places
<1>1. IpcInv /\ WaitersClear /\ QueueTypes /\ [QueueNext]_queueVars
        => IpcInv' /\ WaitersClear' /\ QueueTypes'
  BY QueueStepGood DEF QueueGood
<1>2. IpcInv => Places
  BY PlacesKnown
<1> QED
  BY <1>1, <1>2, QueueStarts, PTL DEF QueueSpec

(* The inductive invariant of a queue that nobody detaches while a thread  *)
(* is between its sections or still to look at it.                         *)
LEMMA QueueSafe ==
  ASSUME "late" \notin Relaxed
  PROVE  QueueSpec => [](IpcInv /\ WaitersClear /\ QueueTypes /\ QueueInv)
<1>1. IpcInv /\ WaitersClear /\ QueueTypes /\ QueueInv /\ [QueueNext]_queueVars
        => IpcInv' /\ WaitersClear' /\ QueueTypes' /\ QueueInv'
  BY QueueStepGood DEF QueueGood
<1> QED
  BY <1>1, QueueStarts, PTL DEF QueueSpec

(* The pointers of the queue stay inside its buffers, and mq->entry        *)
(* between 0 and mq->max_msgs.                                             *)
THEOREM QueueTypeCorrect ==
  ASSUME "late" \notin Relaxed
  PROVE  QueueSpec => []QueueTypeOK
<1>1. IpcInv /\ QueueTypes /\ QueueInv => QueueTypeOK
  <2> SUFFICES ASSUME IpcInv, QueueTypes, QueueInv PROVE QueueTypeOK
    OBVIOUS
  <2>1. ObjectTypeOK(Letter)
    BY DEF IpcInv, QueueTypes, ObjectTypeOK, Kind
  <2>2. PICK s, f : QueueOK(mq, s, f)
    BY DEF QueueInv
  <2>3. /\ mq = Mq(mq.head, mq.tail, mq.free, mq.entry, mq.next, mq.data, mq.hold)
        /\ mq.data \in [Buffer -> Letter] /\ mq.hold \in [Thread -> Buffer \cup {NULL}]
        /\ Chains(mq.head, mq.tail, mq.free, mq.next, s, f, InHands(mq.hold))
    BY <2>2 DEF QueueOK, Loose
  <2>4. mq.entry \in 0 .. MQ_MSGS
    BY QueueCounted
  <2>5. /\ s \in Seq(Buffer) /\ f \in Seq(Buffer) /\ mq.next \in [Buffer -> Buffer \cup {NULL}]
        /\ mq.head = (IF s = <<>> THEN NULL ELSE s[1])
        /\ mq.free = (IF f = <<>> THEN NULL ELSE f[1])
        /\ mq.tail = (IF s = <<>> THEN NULL ELSE s[Len(s)])
    BY <2>3 DEF Chains, Linked
  <2>6. ASSUME NEW l \in Seq(Buffer), l # <<>> PROVE l[1] \in Buffer /\ l[Len(l)] \in Buffer
    <3>1. Len(l) \in Nat /\ Len(l) # 0
      BY <2>6
    <3>2. 1 \in 1 .. Len(l) /\ Len(l) \in 1 .. Len(l)
      BY <3>1
    <3> QED
      BY <2>6, <3>2
  <2>7. /\ mq.head \in Buffer \cup {NULL} /\ mq.tail \in Buffer \cup {NULL}
        /\ mq.free \in Buffer \cup {NULL}
    BY <2>5, <2>6
  <2>8. mq \in [ head : Buffer \cup {NULL}, tail : Buffer \cup {NULL},
                 free : Buffer \cup {NULL}, entry : 0 .. MQ_MSGS,
                 next : [Buffer -> Buffer \cup {NULL}], data : [Buffer -> Letter],
                 hold : [Thread -> Buffer \cup {NULL}] ]
    BY <2>3, <2>4, <2>5, <2>7 DEF Mq
  <2> QED
    BY <2>1, <2>8 DEF QueueTypeOK
<1> QED
  BY <1>1, QueueSafe, PTL

(* Who waits on the queue is served: no wake-up is lost, although a send   *)
(* wakes the receiver in another section than the one that took a buffer.  *)
THEOREM QueueNoLostWakeup ==
  ASSUME "late" \notin Relaxed
  PROVE  QueueSpec => []LetterServed
<1>1. QueueInv => LetterServed
  BY DEF QueueInv, LetterServed
<1> QED
  BY <1>1, QueueSafe, PTL

(* The message queue implements the channel with urgent messages: what a   *)
(* send copies into its buffer is what one receive copies out of it, and   *)
(* in order, whoever runs between the sections of the two.                 *)
THEOREM QueueRefines ==
  ASSUME "late" \notin Relaxed
  PROVE  QueueSpec => QueueIsChannel
<1>1. QueueInit => QueueChannel!Init
  BY QueueStarts DEF QueueChannel!Init
<1>2. IpcInv /\ WaitersClear /\ QueueTypes /\ QueueInv /\ [QueueNext]_queueVars
        => [QueueChannel!Fifo \/ \E m \in Letter : QueueChannel!PutFirst(m)]_<<LetterQueue, LetterInHand>>
  BY QueueStepGood DEF QueueGood, QueueStep
<1>3. QueueSpec => [](IpcInv /\ WaitersClear /\ QueueTypes /\ QueueInv)
  BY QueueSafe
<1> QED
  BY <1>1, <1>2, <1>3, PTL DEF QueueSpec, QueueIsChannel, QueueChannel!UrgentSpec

(* Where buffer b is. *)
PlacesOf(s, f, hold, b) ==
  {x \in {<<"queue", i>> : i \in DOMAIN s} : s[x[2]] = b}
  \cup {x \in {<<"free", i>> : i \in DOMAIN f} : f[x[2]] = b}
  \cup {x \in {<<"hand", t>> : t \in Thread} : hold[x[2]] = b}

(* It is in one place. *)
LEMMA InOnePlace ==
  ASSUME NEW s, NEW f, NEW hold, NEW b \in Buffer, Once(s), Once(f), HandsApart(hold),
         In(b, s) => ~In(b, f), b \in InHands(hold) <=> ~In(b, s) /\ ~In(b, f)
  PROVE  Cardinality(PlacesOf(s, f, hold, b)) = 1
<1>1. \A x : x \in PlacesOf(s, f, hold, b) <=>
               \/ \E i \in DOMAIN s : x = <<"queue", i>> /\ s[i] = b
               \/ \E i \in DOMAIN f : x = <<"free", i>> /\ f[i] = b
               \/ \E t \in Thread : x = <<"hand", t>> /\ hold[t] = b
  BY DEF PlacesOf
<1>2. b \in InHands(hold) <=> \E t \in Thread : hold[t] = b
  BY DEF InHands
<1>3. \E y : PlacesOf(s, f, hold, b) = {y}
  <2>1. CASE In(b, s)
    <3>1. PICK i \in DOMAIN s : s[i] = b
      BY <2>1 DEF In
    <3>2. \A j \in DOMAIN s : s[j] = b => j = i
      BY <3>1 DEF Once
    <3>3. \A j \in DOMAIN f : f[j] # b
      BY <2>1 DEF In
    <3>4. \A t \in Thread : hold[t] # b
      BY <1>2, <2>1
    <3>5. \A x : x \in PlacesOf(s, f, hold, b) <=> x = <<"queue", i>>
      BY <1>1, <3>1, <3>2, <3>3, <3>4
    <3>6. PlacesOf(s, f, hold, b) = {<<"queue", i>>}
      BY <3>5
    <3> QED
      BY <3>6
  <2>2. CASE In(b, f)
    <3>1. PICK i \in DOMAIN f : f[i] = b
      BY <2>2 DEF In
    <3>2. \A j \in DOMAIN f : f[j] = b => j = i
      BY <3>1 DEF Once
    <3>3. \A j \in DOMAIN s : s[j] # b
      BY <2>2 DEF In
    <3>4. \A t \in Thread : hold[t] # b
      BY <1>2, <2>2
    <3>5. \A x : x \in PlacesOf(s, f, hold, b) <=> x = <<"free", i>>
      BY <1>1, <3>1, <3>2, <3>3, <3>4
    <3>6. PlacesOf(s, f, hold, b) = {<<"free", i>>}
      BY <3>5
    <3> QED
      BY <3>6
  <2>3. CASE ~In(b, s) /\ ~In(b, f)
    <3>1. PICK t \in Thread : hold[t] = b
      BY <1>2, <2>3
    <3>2. \A u \in Thread : hold[u] = b => u = t
      BY <3>1, NullKnown DEF HandsApart
    <3>3. (\A j \in DOMAIN s : s[j] # b) /\ (\A j \in DOMAIN f : f[j] # b)
      BY <2>3 DEF In
    <3>4. \A x : x \in PlacesOf(s, f, hold, b) <=> x = <<"hand", t>>
      BY <1>1, <3>1, <3>2, <3>3
    <3>5. PlacesOf(s, f, hold, b) = {<<"hand", t>>}
      BY <3>4
    <3> QED
      BY <3>5
  <2> QED
    BY <2>1, <2>2, <2>3
<1> QED
  BY <1>3, FS_Singleton

(* No buffer is lost, and none is in two places: not while messages are    *)
(* copied with interrupts enabled, and not after a reset.                  *)
THEOREM QueueAccounted ==
  ASSUME "late" \notin Relaxed
  PROVE  QueueSpec => []BuffersAccounted
<1>1. QueueInv => BuffersAccounted
  <2> SUFFICES ASSUME QueueInv PROVE BuffersAccounted
    OBVIOUS
  <2>1. PICK s, f : QueueOK(mq, s, f)
    BY DEF QueueInv
  <2>2. Chain(mq.head) = s /\ Chain(mq.free) = f
    <3>1. \A b : Chain(b) = ChainOf(mq.next, b)
      BY DEF Chain, ChainOf
    <3>2. /\ s \in Seq(Buffer) /\ Once(s) /\ Linked(mq.next, mq.head, s)
          /\ f \in Seq(Buffer) /\ Once(f) /\ Linked(mq.next, mq.free, f)
      BY <2>1 DEF QueueOK, Loose, Chains
    <3> QED
      BY <3>1, <3>2, ChainIs
  <2>3. mq.entry = Len(s) /\ mq.tail = (IF s = <<>> THEN NULL ELSE s[Len(s)])
    BY <2>1 DEF QueueOK, Loose, Chains
  <2>4. \A b \in Buffer : Cardinality(PlacesOf(s, f, mq.hold, b)) = 1
    BY <2>1, QueueOKKnown, InOnePlace
  <2> QED
    BY <2>2, <2>3, <2>4 DEF BuffersAccounted, PlacesOf
<1> QED
  BY <1>1, QueueSafe, PTL
-----------------------------------------------------------------------------
(* One object of each kind *)

(* What holds of an object of each kind, whoever detaches it when. *)
QueueBase == IpcInv /\ WaitersClear /\ QueueTypes
PoolBase == IpcInv /\ PoolTypes

(* An object starts as one of its kind, *)
LEMMA ObjectsStart ==
  ASSUME Init
  PROVE  \/ EventInit /\ EventInv
         \/ MailboxInit /\ MailInv
         \/ QueueInit /\ QueueBase
         \/ PoolInit /\ PoolBase
<1>1. PICK c \in Kind : ObjectInit(c)
  BY ObjectsAssumption DEF Init
<1>2. EventInit \/ MailboxInit \/ QueueInit \/ PoolInit
  BY <1>1 DEF Init, Kind, EventInit, MailboxInit, QueueInit, PoolInit
<1> QED
  BY <1>2, EventStarts, MailStart, QueueStarts, PoolStarts DEF QueueBase, PoolBase

(* and its steps are steps of its kind. *)
LEMMA ObjectsStep ==
  ASSUME [Next]_vars
  PROVE  /\ EventInv => EventInv' /\ [EventNext]_eventVars
         /\ MailInv => MailInv' /\ [MailboxNext]_mailboxVars
         /\ QueueBase => QueueBase' /\ [QueueNext]_queueVars
         /\ PoolBase => PoolBase' /\ [PoolNext]_poolVars
<1>1. UNCHANGED vars => /\ UNCHANGED eventVars /\ UNCHANGED mailboxVars
                        /\ UNCHANGED queueVars /\ UNCHANGED poolVars
  BY DEF vars, eventVars, mailboxVars, queueVars, poolVars
<1>2. /\ kind = "event" => [EventNext]_eventVars
      /\ kind = "mailbox" => [MailboxNext]_mailboxVars
      /\ kind = "queue" => [QueueNext]_queueVars
      /\ kind = "pool" => [PoolNext]_poolVars
  BY <1>1 DEF Next
<1>3. EventInv => kind = "event"
  BY DEF EventInv, EventTypes
<1>4. MailInv => kind = "mailbox"
  BY DEF MailInv, MailTypes
<1>5. QueueBase => kind = "queue"
  BY DEF QueueBase, QueueTypes
<1>6. PoolBase => kind = "pool"
  BY DEF PoolBase, PoolTypes
<1>7. ASSUME EventInv PROVE EventInv' /\ [EventNext]_eventVars
  BY <1>2, <1>3, <1>7, EventStepGood DEF EventGood
<1>8. ASSUME MailInv PROVE MailInv' /\ [MailboxNext]_mailboxVars
  BY <1>2, <1>4, <1>8, MailStepGood DEF MailGood
<1>9. ASSUME QueueBase PROVE QueueBase' /\ [QueueNext]_queueVars
  BY <1>2, <1>5, <1>9, QueueStepGood DEF QueueGood, QueueBase
<1>10. ASSUME PoolBase PROVE PoolBase' /\ [PoolNext]_poolVars
  BY <1>2, <1>6, <1>10, PoolStepGood DEF PoolGood, PoolBase
<1> QED
  BY <1>7, <1>8, <1>9, <1>10

(* A behaviour with one object of any kind is a behaviour of that kind. *)
LEMMA ObjectsSplit ==
  Spec => \/ EventSpec /\ [](kind = "event")
          \/ MailboxSpec /\ [](kind = "mailbox")
          \/ QueueSpec /\ [](kind = "queue")
          \/ PoolSpec /\ [](kind = "pool")
<1>1. /\ EventInv => kind = "event"
      /\ MailInv => kind = "mailbox"
      /\ QueueBase => kind = "queue"
      /\ PoolBase => kind = "pool"
  BY DEF EventInv, EventTypes, MailInv, MailTypes, QueueBase, QueueTypes, PoolBase, PoolTypes
<1> QED
  BY <1>1, ObjectsStart, ObjectsStep, PTL
     DEF Spec, EventSpec, MailboxSpec, QueueSpec, PoolSpec

(* Each thread is once on the list where its call on the object left it,   *)
(* up to a step that takes a list head for a thread or follows a null      *)
(* block.                                                                  *)
THEOREM ObjectsPlaces == Spec => []Places
BY ObjectsSplit, EventPlaces, MailPlaces, QueuePlaces, PoolPlaces, PTL

(* Every variable has its type, whatever the kind of the object. *)
THEOREM ObjectsTypeCorrect ==
  ASSUME "late" \notin Relaxed
  PROVE  Spec => []TypeOK
<1>1. /\ kind = "event" /\ EventTypeOK => TypeOK
      /\ kind = "mailbox" /\ MailboxTypeOK => TypeOK
      /\ kind = "queue" /\ QueueTypeOK => TypeOK
      /\ kind = "pool" /\ PoolTypeOK => TypeOK
  BY DEF TypeOK
<1>2. QueueSpec => []QueueTypeOK
  BY QueueTypeCorrect
<1>3. PoolSpec => []PoolTypeOK
  BY PoolTypeCorrect
<1> QED
  BY <1>1, <1>2, <1>3, ObjectsSplit, EventTypeCorrect, MailTypeCorrect, PTL

(* No wake-up is lost, on any list of an object that holds messages. *)
THEOREM ObjectsNoLostWakeup ==
  ASSUME "late" \notin Relaxed
  PROVE  Spec => []NoLostWakeup
<1>1. /\ MailServed /\ kind = "mailbox" => NoLostWakeup
      /\ LetterServed /\ kind = "queue" => NoLostWakeup
      /\ kind = "event" \/ kind = "pool" => NoLostWakeup
  BY DEF NoLostWakeup, MailServed, LetterServed
<1>2. QueueSpec => []LetterServed
  BY QueueNoLostWakeup
<1>3. MailboxSpec => []MailServed
  BY MailNoLostWakeup
<1> QED
  BY <1>1, <1>2, <1>3, ObjectsSplit, PTL

=============================================================================
