---------------------------- MODULE MutexProofs -----------------------------
(***************************************************************************)
(* Proofs about mutexes, for any threads, priorities, number of mutexes    *)
(* and depth of recursion.  MutInv is the inductive invariant under any    *)
(* use; InheritInv is what priority inheritance needs when every thread    *)
(* takes one mutex at a time and the waiters queue by priority.            *)
(***************************************************************************)
EXTENDS Mutex, IpcProofs

MutTypes ==
  /\ mtx \in [WaitList -> [value : {0, 1}, owner : Thread \cup {NoThread},
                           original_priority : Priority \cup {NO_PRIORITY},
                           hold : 0 .. MaxHold]]
  /\ flag \in {"FIFO", "PRIO"}
  /\ held \in [Thread -> [WaitList -> 0 .. MaxHold]]

(* A waiter has no error yet, *)
WaitersClear == \A m \in WaitList : \A t \in Thread : In(t, k.wait[m]) => k.error[t] = "EOK"

(* a thread that waits for a mutex does not hold it, *)
WaitsForOther == \A m \in WaitList : \A t \in Thread : Inside(t, m) => held[t][m] = 0

(* and an owned mutex knows what priority to restore. *)
OriginalKnown == \A m \in WaitList : mtx[m].owner # NoThread => mtx[m].original_priority \in Priority

MutInv ==
  MutTypes /\ MutualExclusion /\ WaitOK /\ WaitersClear /\ WaitsForOther /\ OriginalKnown

(* Nobody is no thread, and the bound on recursion is a number. *)
LEMMA MutexConstants == NoThread \notin Thread /\ MaxHold \in Nat \ {0}
BY KernelAssumption, MutexAssumption

(* Steps that change no mutex and move no waiter. *)
LEMMA StillStep ==
  ASSUME MutInv, UNCHANGED own, k'.wait = k.wait,
         \A t \in Thread, m \in WaitList :
           In(t, k.wait[m]) \/ Inside(t, m) => k'.error[t] = k.error[t],
         \A t \in Thread, m \in WaitList : Inside(t, m)' <=> Inside(t, m)
  PROVE  MutInv'
<1>1. MutTypes' /\ WaitersClear' /\ WaitsForOther' /\ OriginalKnown'
  BY DEF MutInv, MutTypes, WaitersClear, WaitsForOther, OriginalKnown, own
<1>2. MutualExclusion'
  BY DEF MutInv, MutualExclusion, own
<1>3. WaitOK'
  BY DEF MutInv, WaitOK, own
<1> QED
  BY <1>1, <1>2, <1>3 DEF MutInv

(* The timer of a waiter expires: its call will return an error, and it    *)
(* does not own the mutex.                                                 *)
LEMMA FailStep ==
  ASSUME IpcInv, MutInv, UNCHANGED own, NEW t \in Thread, k.stat[t] = "SUSPEND",
         k'.wait = Unwait(k, t), k'.error = [k.error EXCEPT ![t] = "ETIMEOUT"],
         \A u \in Thread, m \in WaitList : Inside(u, m)' <=> Inside(u, m)
  PROVE  MutInv'
<1>1. Sound(k) /\ Located(k, pc) /\ k.error \in [Thread -> Error]
  BY DEF IpcInv, Sound, KernelState
<1>2. \A u \in Thread, m \in WaitList : In(u, k'.wait[m]) <=> In(u, k.wait[m]) /\ u # t
  BY <1>1, UnwaitIn
<1>3. k'.error[t] = "ETIMEOUT" /\ \A u \in Thread : u # t => k'.error[u] = k.error[u]
  BY <1>1
<1>4. \A m \in WaitList : Inside(t, m) => In(t, k.wait[m])
  BY <1>1 DEF Located, Inside
<1>5. ASSUME NEW m \in WaitList, k.wait[m] = <<>> PROVE k'.wait[m] = <<>>
  BY <1>5, WithoutAbsent DEF Unwait, In
<1>6. MutTypes' /\ WaitersClear' /\ WaitsForOther' /\ OriginalKnown'
  BY <1>2, <1>3
     DEF MutInv, MutTypes, WaitersClear, WaitsForOther, OriginalKnown, own
<1>7. MutualExclusion'
  <2> SUFFICES ASSUME NEW m \in WaitList, NEW u \in Thread
               PROVE  IF mtx[m].owner = u
                      THEN \/ held[u][m] = mtx[m].hold /\ held[u][m] > 0
                           \/ held[u][m] = 0 /\ mtx[m].hold = 1 /\ Inside(u, m)
                              /\ k'.error[u] = "EOK" /\ ~In(u, k'.wait[m])
                      ELSE held[u][m] = 0
    BY DEF MutualExclusion, own
  <2>1. CASE u = t
    BY <1>4, <2>1 DEF MutInv, MutualExclusion
  <2>2. CASE u # t
    BY <1>2, <1>3, <2>2 DEF MutInv, MutualExclusion
  <2> QED
    BY <2>1, <2>2
<1>8. WaitOK'
  <2> SUFFICES ASSUME NEW m \in WaitList
               PROVE  /\ mtx[m].owner = NoThread <=> mtx[m].value = 1
                      /\ mtx[m].owner = NoThread => mtx[m] = Free /\ k'.wait[m] = <<>>
                      /\ ~In(mtx[m].owner, k'.wait[m])
                      /\ \A u \in Thread : Inside(u, m) /\ ~In(u, k'.wait[m]) =>
                           (k'.error[u] = "EOK" <=> mtx[m].owner = u)
    BY DEF WaitOK, own
  <2>1. /\ mtx[m].owner = NoThread <=> mtx[m].value = 1
        /\ mtx[m].owner = NoThread => mtx[m] = Free /\ k'.wait[m] = <<>>
    BY <1>5 DEF MutInv, WaitOK
  <2>2. ~In(mtx[m].owner, k'.wait[m])
    <3>1. CASE mtx[m].owner = NoThread
      BY <2>1, <3>1 DEF In
    <3>2. CASE mtx[m].owner \in Thread
      BY <1>2, <3>2 DEF MutInv, WaitOK
    <3> QED
      BY <3>1, <3>2 DEF MutInv, MutTypes
  <2>3. ASSUME NEW u \in Thread, Inside(u, m), ~In(u, k'.wait[m])
        PROVE  k'.error[u] = "EOK" <=> mtx[m].owner = u
    <3>1. CASE u = t
      BY <1>3, <1>4, <2>3, <3>1 DEF MutInv, WaitOK
    <3>2. CASE u # t
      BY <1>2, <1>3, <2>3, <3>2 DEF MutInv, WaitOK
    <3> QED
      BY <3>1, <3>2
  <2> QED
    BY <2>1, <2>2, <2>3
<1> QED
  BY <1>6, <1>7, <1>8 DEF MutInv

(* What the invariant says of one mutex. *)
MutexOK(m) ==
  /\ \A t \in Thread :
       IF mtx[m].owner = t
       THEN \/ held[t][m] = mtx[m].hold /\ held[t][m] > 0
            \/ held[t][m] = 0 /\ mtx[m].hold = 1 /\ Inside(t, m)
               /\ k.error[t] = "EOK" /\ ~In(t, k.wait[m])
       ELSE held[t][m] = 0
  /\ mtx[m].owner = NoThread <=> mtx[m].value = 1
  /\ mtx[m].owner = NoThread => mtx[m] = Free /\ k.wait[m] = <<>>
  /\ ~In(mtx[m].owner, k.wait[m])
  /\ \A t \in Thread : Inside(t, m) /\ ~In(t, k.wait[m]) =>
       (k.error[t] = "EOK" <=> mtx[m].owner = t)
  /\ \A t \in Thread : In(t, k.wait[m]) => k.error[t] = "EOK"
  /\ \A t \in Thread : Inside(t, m) => held[t][m] = 0
  /\ mtx[m].owner # NoThread => mtx[m].original_priority \in Priority

(* The invariant is about one mutex at a time. *)
LEMMA OneAtATime == MutInv <=> MutTypes /\ \A m \in WaitList : MutexOK(m)
BY DEF MutInv, MutualExclusion, WaitOK, WaitersClear, WaitsForOther, OriginalKnown, MutexOK

(* ... after a step too. *)
LEMMA OneAtATimeNext == MutInv' <=> MutTypes' /\ \A m \in WaitList : MutexOK(m)'
BY DEF MutInv, MutualExclusion, WaitOK, WaitersClear, WaitsForOther, OriginalKnown, MutexOK

(* A step about another mutex. *)
LEMMA OtherMutex ==
  ASSUME NEW n \in WaitList, MutexOK(n), mtx'[n] = mtx[n],
         \A u \in Thread : held'[u][n] = held[u][n], k'.wait[n] = k.wait[n],
         \A u \in Thread : Inside(u, n)' <=> Inside(u, n),
         \A u \in Thread : In(u, k.wait[n]) \/ Inside(u, n) => k'.error[u] = k.error[u]
  PROVE  MutexOK(n)'
BY DEF MutexOK

(* A thread that runs application code is in no call and on no list. *)
LEMMA CallerOut ==
  ASSUME IpcInv, At("run")
  PROVE  /\ me \in Thread /\ \A n \in WaitList : ~Inside(me, n) /\ ~In(me, k.wait[n])
<1>1. me \in Thread /\ k.stat[me] = "READY" /\ pc[me].op = "run"
  BY SelfReady DEF At
<1> QED
  BY <1>1 DEF Inside, IpcInv, Sound

(* A call that ends at once and only sets the error of its thread. *)
LEMMA ErrorStep ==
  ASSUME IpcInv, At("run"), NEW e \in Error, k' = [k EXCEPT !.error[me] = e], pc' = pc
  PROVE  /\ IpcInv' /\ k'.stat = k.stat /\ k'.wait = k.wait /\ k'.prio = k.prio /\ k'.timer = k.timer
         /\ k'.current = k.current
         /\ \A t \in Thread : t # me => k'.error[t] = k.error[t]
<1>1. Sound(k) /\ me \in Thread /\ k.error \in [Thread -> Error]
  BY CallerOut DEF IpcInv, Sound, KernelState
<1>2. /\ Sound(k') /\ k'.error = [k.error EXCEPT ![me] = e]
      /\ k'.stat = k.stat /\ k'.wait = k.wait /\ k'.timer = k.timer
      /\ k'.prio = k.prio /\ k'.current = k.current
  BY <1>1, ErrorSound
<1>3. Wakes(k', k)
  BY <1>2, SameWakes
<1>4. IpcInv'
  BY <1>2, <1>3, InterruptPlaces
<1>5. \A t \in Thread : t # me => k'.error[t] = k.error[t]
  BY <1>1, <1>2
<1> QED
  BY <1>2, <1>4, <1>5

(* Only the mutex m, and what its caller holds of it, change. *)
LEMMA CallAboutOne ==
  ASSUME IpcInv, MutInv, At("run"), NEW m \in WaitList, MutTypes', MutexOK(m)',
         \A n \in WaitList : n # m => mtx'[n] = mtx[n],
         \A u \in Thread, n \in WaitList : n # m => held'[u][n] = held[u][n],
         \A n \in WaitList : n # m => k'.wait[n] = k.wait[n],
         \A u \in Thread, n \in WaitList : n # m => (Inside(u, n)' <=> Inside(u, n)),
         \A u \in Thread : u # me => k'.error[u] = k.error[u]
  PROVE  MutInv'
<1>1. ASSUME NEW n \in WaitList, n # m PROVE MutexOK(n)'
  <2>1. MutexOK(n)
    BY OneAtATime
  <2>2. ~Inside(me, n) /\ ~In(me, k.wait[n])
    BY CallerOut
  <2> QED
    BY <1>1, <2>1, <2>2, OtherMutex
<1> QED
  BY <1>1, OneAtATimeNext

(* The fields of one mutex are set. *)
MutexRecord(v, o, p, h) == [value |-> v, owner |-> o, original_priority |-> p, hold |-> h]

Put(m, v, o, p, h) == [mtx EXCEPT ![m] = MutexRecord(v, o, p, h)]

(* ... what that makes of the table of mutexes. *)
LEMMA SetMutex ==
  ASSUME MutTypes, NEW m \in WaitList, NEW v \in {0, 1}, NEW o \in Thread \cup {NoThread},
         NEW p \in Priority \cup {NO_PRIORITY}, NEW h \in 0 .. MaxHold,
         mtx' = Put(m, v, o, p, h), flag' = flag,
         held' \in [Thread -> [WaitList -> 0 .. MaxHold]]
  PROVE  /\ MutTypes' /\ mtx'[m].value = v /\ mtx'[m].owner = o
         /\ mtx'[m].original_priority = p /\ mtx'[m].hold = h
         /\ \A n \in WaitList : n # m => mtx'[n] = mtx[n]
<1>1. MutexRecord(v, o, p, h) \in
        [value : {0, 1}, owner : Thread \cup {NoThread},
         original_priority : Priority \cup {NO_PRIORITY}, hold : 0 .. MaxHold]
  BY DEF MutexRecord
<1>2. MutTypes'
  BY <1>1 DEF MutTypes, Put
<1> QED
  BY <1>2 DEF MutTypes, MutexRecord, Put

(* A mutex is the record of its fields. *)
LEMMA MutexFields ==
  ASSUME MutTypes, NEW m \in WaitList
  PROVE  /\ mtx[m].value \in {0, 1} /\ mtx[m].owner \in Thread \cup {NoThread}
         /\ mtx[m].original_priority \in Priority \cup {NO_PRIORITY}
         /\ mtx[m].hold \in 0 .. MaxHold
         /\ mtx[m] = MutexRecord(mtx[m].value, mtx[m].owner, mtx[m].original_priority,
                                 mtx[m].hold)
BY DEF MutTypes, MutexRecord

(* The hold count is set. *)
LEMMA HoldSet ==
  ASSUME MutTypes, NEW m \in WaitList, NEW h
  PROVE  [mtx EXCEPT ![m].hold = h]
           = Put(m, mtx[m].value, mtx[m].owner, mtx[m].original_priority, h)
<1>1. PICK v, o, p, g : mtx[m] = MutexRecord(v, o, p, g)
  BY MutexFields
<1>2. mtx[m].value = v /\ mtx[m].owner = o /\ mtx[m].original_priority = p
  BY <1>1 DEF MutexRecord
<1>3. [MutexRecord(v, o, p, g) EXCEPT !.hold = h] = MutexRecord(v, o, p, h)
  BY DEF MutexRecord
<1>4. [mtx EXCEPT ![m].hold = h] = [mtx EXCEPT ![m] = MutexRecord(v, o, p, h)]
  BY <1>1, <1>3
<1> QED
  BY <1>2, <1>4 DEF Put

(* Take, and the assignment after it. *)
LEMMA TakeSet ==
  ASSUME MutTypes, NEW m \in WaitList, NEW t, NEW x
  PROVE  /\ [Take(m, t, x) EXCEPT ![m].value = @ - 1]
              = Put(m, mtx[m].value - 1, t, x.prio[t], mtx[m].hold + 1)
         /\ [Take(m, t, x) EXCEPT ![m].hold = 1]
              = Put(m, mtx[m].value, t, x.prio[t], 1)
<1>1. PICK v, o, p, h : mtx[m] = MutexRecord(v, o, p, h)
  BY MutexFields
<1>2. PICK S : mtx \in [WaitList -> S]
  BY DEF MutTypes
<1> DEFINE q == x.prio[t]
           R(r) == [n \in WaitList |-> IF n = m THEN r ELSE mtx[n]]
           g1 == [mtx EXCEPT ![m].owner = t]
           g2 == [g1 EXCEPT ![m].original_priority = q]
           g3 == [g2 EXCEPT ![m].hold = mtx[m].hold + 1]
<1>3. mtx[m].value = v /\ mtx[m].hold = h
  BY <1>1 DEF MutexRecord
<1>4. [MutexRecord(v, o, p, h) EXCEPT !.owner = t] = MutexRecord(v, t, p, h)
  BY DEF MutexRecord
<1>5. [MutexRecord(v, t, p, h) EXCEPT !.original_priority = q] = MutexRecord(v, t, q, h)
  BY DEF MutexRecord
<1>6. [MutexRecord(v, t, q, h) EXCEPT !.hold = mtx[m].hold + 1]
        = MutexRecord(v, t, q, mtx[m].hold + 1)
  BY DEF MutexRecord
<1>7. [MutexRecord(v, t, q, mtx[m].hold + 1) EXCEPT !.hold = 1] = MutexRecord(v, t, q, 1)
  BY DEF MutexRecord
<1>8. [MutexRecord(v, t, q, mtx[m].hold + 1) EXCEPT !.value = @ - 1]
        = MutexRecord(v - 1, t, q, mtx[m].hold + 1)
  BY DEF MutexRecord
<1>9. g1 = R(MutexRecord(v, t, p, h))
  BY <1>1, <1>2, <1>4
<1>10. g2 = R(MutexRecord(v, t, q, h))
  <2> HIDE DEF g1
  <2> QED
    BY <1>5, <1>9
<1>11. g3 = R(MutexRecord(v, t, q, mtx[m].hold + 1))
  <2> HIDE DEF g2
  <2> QED
    BY <1>6, <1>10
<1>12. Take(m, t, x) = g3
  BY DEF Take
<1> HIDE DEF g3
<1>13. [g3 EXCEPT ![m].hold = 1] = R(MutexRecord(v, t, q, 1))
  BY <1>7, <1>11
<1>14. [g3 EXCEPT ![m].value = @ - 1] = R(MutexRecord(v - 1, t, q, mtx[m].hold + 1))
  <2>1. g3[m].value = v
    BY <1>11 DEF MutexRecord
  <2>2. [MutexRecord(v, t, q, mtx[m].hold + 1) EXCEPT !.value = v - 1]
          = MutexRecord(v - 1, t, q, mtx[m].hold + 1)
    BY DEF MutexRecord
  <2>3. [g3 EXCEPT ![m].value = v - 1] = R(MutexRecord(v - 1, t, q, mtx[m].hold + 1))
    BY <1>11, <2>2
  <2> QED
    BY <2>1, <2>3
<1>15. \A r : R(r) = [mtx EXCEPT ![m] = r]
  BY <1>2
<1> HIDE DEF R
<1> QED
  BY <1>3, <1>12, <1>13, <1>14, <1>15 DEF Put

(* What a thread holds is counted up or down. *)
Count(t, m, h) == [held EXCEPT ![t][m] = h]

(* ... for one thread and one mutex. *)
LEMMA SetHeld ==
  ASSUME MutTypes, NEW t \in Thread, NEW m \in WaitList, NEW h \in 0 .. MaxHold,
         held' = Count(t, m, h)
  PROVE  /\ held' \in [Thread -> [WaitList -> 0 .. MaxHold]] /\ held'[t][m] = h
         /\ \A u \in Thread, n \in WaitList : n # m \/ u # t => held'[u][n] = held[u][n]
BY DEF MutTypes, Count

(* What the owner that runs application code holds is what the mutex counts. *)
LEMMA OwnerHolds ==
  ASSUME IpcInv, MutInv, At("run"), NEW m \in WaitList
  PROVE  /\ mtx[m].owner = me => held[me][m] = mtx[m].hold /\ mtx[m].hold > 0
         /\ mtx[m].owner # me => held[me][m] = 0
         /\ held[me][m] \in 0 .. MaxHold
<1>1. MutTypes /\ MutexOK(m) /\ me \in Thread /\ ~Inside(me, m)
  BY OneAtATime, CallerOut
<1> QED
  BY <1>1 DEF MutexOK, MutTypes

(* What the steps of a call that neither blocks nor wakes leave alone. *)
Still ==
  /\ k'.wait = k.wait /\ \A t \in Thread : t # me => k'.error[t] = k.error[t]
  /\ \A u \in Thread, n \in WaitList : Inside(u, n)' <=> Inside(u, n)

(* The caller's count and the mutex change together; a count of 0 frees    *)
(* the mutex.                                                              *)
LEMMA CountStep ==
  ASSUME IpcInv, MutInv, At("run"), NEW m \in WaitList, Still, flag' = flag,
         mtx[m].owner \in {me, NoThread}, NEW p \in Priority, NEW h \in 1 .. MaxHold,
         mtx' = Put(m, 0, me, p, h), held' = Count(me, m, h)
  PROVE  MutInv'
<1>1. /\ MutTypes /\ MutexOK(m) /\ ~Inside(me, m) /\ ~In(me, k.wait[m]) /\ me \in Thread
      /\ me # NoThread /\ me \in Thread \cup {NoThread} /\ p \in Priority \cup {NO_PRIORITY}
      /\ h \in 0 .. MaxHold /\ h > 0 /\ 0 \in {0, 1} /\ h \in Nat
  BY OneAtATime, CallerOut, MutexConstants
<1>2. /\ held' \in [Thread -> [WaitList -> 0 .. MaxHold]] /\ held'[me][m] = h
      /\ \A u \in Thread, n \in WaitList : n # m \/ u # me => held'[u][n] = held[u][n]
  BY <1>1, SetHeld
<1>3. /\ MutTypes' /\ mtx'[m].value = 0 /\ mtx'[m].owner = me
      /\ mtx'[m].original_priority = p /\ mtx'[m].hold = h
      /\ \A n \in WaitList : n # m => mtx'[n] = mtx[n]
  BY <1>1, <1>2, SetMutex
<1>4. \A t \in Thread : t # me => held'[t][m] = 0 /\ mtx[m].owner # t
  BY <1>1, <1>2, MutexConstants DEF MutexOK
<1>5. \A t \in Thread : Inside(t, m) => t # me
  BY <1>1
<1>6. MutexOK(m)'
  <2>1. ~In(mtx'[m].owner, k'.wait[m])
    BY <1>1, <1>3 DEF Still
  <2>2. \A t \in Thread :
         IF mtx'[m].owner = t THEN held'[t][m] = mtx'[m].hold /\ held'[t][m] > 0
         ELSE held'[t][m] = 0
    BY <1>1, <1>2, <1>3, <1>4
  <2>3. \A t \in Thread : Inside(t, m)' /\ ~In(t, k'.wait[m]) =>
          (k'.error[t] = "EOK" <=> mtx'[m].owner = t)
    BY <1>1, <1>3, <1>4, <1>5 DEF Still, MutexOK
  <2>4. \A t \in Thread : In(t, k'.wait[m]) => k'.error[t] = "EOK"
    BY <1>1 DEF Still, MutexOK
  <2>5. \A t \in Thread : Inside(t, m)' => held'[t][m] = 0
    BY <1>4, <1>5 DEF Still
  <2> QED
    BY <1>1, <1>3, <2>1, <2>2, <2>3, <2>4, <2>5 DEF MutexOK
<1> QED
  BY <1>2, <1>3, <1>6, CallAboutOne DEF Still

(* The last release of a mutex nobody waits for frees it. *)
LEMMA FreeStep ==
  ASSUME IpcInv, MutInv, At("run"), NEW m \in WaitList, Still, flag' = flag,
         mtx[m].owner = me, k.wait[m] = <<>>,
         mtx' = Put(m, 1, NoThread, NO_PRIORITY, 0), held' = Count(me, m, 0)
  PROVE  MutInv'
<1>1. /\ MutTypes /\ MutexOK(m) /\ ~Inside(me, m) /\ me \in Thread /\ 0 \in 0 .. MaxHold
      /\ NO_PRIORITY \in Priority \cup {NO_PRIORITY} /\ NoThread \in Thread \cup {NoThread}
      /\ 1 \in {0, 1} /\ \A t \in Thread : t # NoThread
  BY OneAtATime, CallerOut, MutexConstants
<1>2. /\ held' \in [Thread -> [WaitList -> 0 .. MaxHold]] /\ held'[me][m] = 0
      /\ \A u \in Thread, n \in WaitList : n # m \/ u # me => held'[u][n] = held[u][n]
  BY <1>1, SetHeld
<1>3. /\ MutTypes' /\ mtx'[m].value = 1 /\ mtx'[m].owner = NoThread
      /\ mtx'[m].original_priority = NO_PRIORITY /\ mtx'[m].hold = 0
      /\ \A n \in WaitList : n # m => mtx'[n] = mtx[n]
  BY <1>1, <1>2, SetMutex
<1>4. mtx'[m] = Free
  BY <1>1 DEF MutTypes, Put, Free, MutexRecord
<1>5. \A t \in Thread : held'[t][m] = 0 /\ (t # me => mtx[m].owner # t)
  BY <1>1, <1>2 DEF MutexOK
<1>6. \A t \in Thread : ~In(t, k'.wait[m]) /\ ~In(NoThread, k'.wait[m]) /\ k'.wait[m] = <<>>
  BY DEF Still, In
<1>7. \A t \in Thread : Inside(t, m)' => k'.error[t] # "EOK"
  <2> SUFFICES ASSUME NEW t \in Thread, Inside(t, m)
               PROVE  k'.error[t] # "EOK"
    BY DEF Still
  <2>1. t # me
    BY <1>1
  <2>2. ~In(t, k.wait[m])
    BY DEF In
  <2>3. k.error[t] # "EOK"
    BY <1>1, <1>5, <2>1, <2>2 DEF MutexOK
  <2> QED
    BY <2>1, <2>3 DEF Still
<1>8. MutexOK(m)'
  BY <1>1, <1>3, <1>4, <1>5, <1>6, <1>7 DEF MutexOK
<1> QED
  BY <1>2, <1>3, <1>8, CallAboutOne DEF Still

(* The last release hands the mutex over to the first waiter. *)
LEMMA HandOverStep ==
  ASSUME IpcInv, MutInv, At("run"), NEW m \in WaitList, flag' = flag, mtx[m].owner = me,
         NEW t \in Thread, In(t, k.wait[m]), k'.wait = Unwait(k, t), k'.error = k.error,
         Moves("sched", {m}), NEW p \in Priority,
         mtx' = Put(m, mtx[m].value, t, p, 1), held' = Count(me, m, 0)
  PROVE  MutInv'
<1>1. /\ MutTypes /\ MutexOK(m) /\ me \in Thread /\ ~Inside(me, m) /\ ~In(me, k.wait[m])
      /\ 0 \in 0 .. MaxHold /\ \A u \in Thread : u # NoThread
  BY OneAtATime, CallerOut, MutexConstants
<1>2. /\ t \in Thread \cup {NoThread} /\ p \in Priority \cup {NO_PRIORITY} /\ 1 \in 0 .. MaxHold
      /\ mtx[m].value \in {0, 1} /\ mtx[m].value # 1
  BY <1>1, MutexConstants, MutexFields DEF MutexOK
<1>3. /\ held' \in [Thread -> [WaitList -> 0 .. MaxHold]] /\ held'[me][m] = 0
      /\ \A u \in Thread, n \in WaitList : n # m \/ u # me => held'[u][n] = held[u][n]
  BY <1>1, SetHeld
<1>4. /\ MutTypes' /\ mtx'[m].value = mtx[m].value /\ mtx'[m].owner = t
      /\ mtx'[m].original_priority = p /\ mtx'[m].hold = 1
      /\ \A n \in WaitList : n # m => mtx'[n] = mtx[n]
  BY <1>1, <1>2, <1>3, SetMutex
<1>5. \A u \in Thread, n \in WaitList : Inside(u, n)' <=> Inside(u, n)
  BY CallerOut DEF Moves, Inside
<1>6. /\ Sound(k) /\ k.stat[t] = "SUSPEND" /\ t # me /\ Inside(t, m) /\ k.error[t] = "EOK"
  <2>1. Sound(k) /\ Located(k, pc)
    BY DEF IpcInv
  <2>2. k.stat[t] = "SUSPEND"
    BY <2>1 DEF Sound
  <2>3. pc[t].op \in {"block", "woken"} /\ pc[t].on = {w \in WaitList : In(t, k.wait[w])}
    BY <2>1, <2>2 DEF Located
  <2> QED
    BY <1>1, <2>1, <2>2, <2>3 DEF Inside, MutexOK
<1>7. \A u \in Thread, n \in WaitList : In(u, k'.wait[n]) <=> In(u, k.wait[n]) /\ u # t
  BY <1>6, UnwaitIn
<1>8. \A u \in Thread : held'[u][m] = 0 /\ (u # me => mtx[m].owner # u)
  <2>1. \A u \in Thread : u # me => held[u][m] = 0
    BY <1>1 DEF MutexOK
  <2> QED
    BY <1>3, <2>1
<1>9. MutexOK(m)'
  <2>1. \A u \in Thread : IF mtx'[m].owner = u
                          THEN /\ held'[u][m] = 0 /\ mtx'[m].hold = 1 /\ Inside(u, m)'
                               /\ k'.error[u] = "EOK" /\ ~In(u, k'.wait[m])
                          ELSE held'[u][m] = 0
    BY <1>4, <1>5, <1>6, <1>7, <1>8
  <2>2. \A u \in Thread : Inside(u, m)' /\ ~In(u, k'.wait[m]) =>
          (k'.error[u] = "EOK" <=> mtx'[m].owner = u)
    BY <1>1, <1>4, <1>5, <1>6, <1>7, <1>8 DEF MutexOK
  <2>3. \A u \in Thread : In(u, k'.wait[m]) => k'.error[u] = "EOK"
    BY <1>1, <1>7 DEF MutexOK
  <2>4. ~In(mtx'[m].owner, k'.wait[m])
    BY <1>4, <1>7
  <2>5. mtx'[m].owner # NoThread /\ mtx'[m].value # 1 /\ mtx'[m].original_priority \in Priority
    BY <1>1, <1>2, <1>4
  <2> QED
    BY <1>8, <2>1, <2>2, <2>3, <2>4, <2>5 DEF MutexOK
<1>10. ASSUME NEW n \in WaitList, n # m PROVE k'.wait[n] = k.wait[n]
  <2>1. ~In(t, k.wait[n])
    BY <1>6, <1>10 DEF Sound
  <2> QED
    BY <2>1, WithoutAbsent DEF Unwait
<1> QED
  BY <1>3, <1>4, <1>5, <1>9, <1>10, CallAboutOne

(* rt_mutex_take of a mutex that another thread owns blocks. *)
LEMMA WaitStep ==
  ASSUME IpcInv, MutInv, At("run"), NEW m \in WaitList, UNCHANGED own,
         mtx[m].owner # me, mtx[m].value = 0, NEW x, Alike(x, k), Moves("block", {m}),
         NEW time, Blocked(k', x, m, me, flag, time)
  PROVE  MutInv'
<1>1. /\ MutTypes /\ MutexOK(m) /\ me \in Thread /\ ~Inside(me, m) /\ ~In(me, k.wait[m])
      /\ k.error \in [Thread -> Error]
  BY OneAtATime, CallerOut DEF IpcInv, Sound, KernelState
<1>2. mtx[m].owner \in Thread /\ held[me][m] = 0
  BY <1>1, MutexFields DEF MutexOK
<1>3. /\ \A u \in Thread, n \in WaitList :
           In(u, k'.wait[n]) <=> In(u, k.wait[n]) \/ (u = me /\ n = m)
      /\ k'.error = [k.error EXCEPT ![me] = "EOK"]
  BY DEF Blocked, Alike
<1>4. /\ k'.error[me] = "EOK" /\ \A u \in Thread : u # me => k'.error[u] = k.error[u]
  BY <1>1, <1>3
<1>5. \A u \in Thread, n \in WaitList :
        Inside(u, n)' <=> Inside(u, n) \/ (u = me /\ n = m)
  BY CallerOut DEF Moves, Inside
<1>6. \A n \in WaitList : n # m => k'.wait[n] = k.wait[n]
  <2>1. k.wait \in [WaitList -> Seq(Thread)]
    BY DEF IpcInv, Sound, KernelState
  <2>2. k'.wait = [k.wait EXCEPT ![m] = Enqueued(x, m, me, flag)]
    BY DEF Blocked, Alike
  <2> QED
    BY <2>1, <2>2
<1>7. MutexOK(m)'
  <2>1. ~In(mtx[m].owner, k'.wait[m]) /\ mtx[m].owner # NoThread
    BY <1>1, <1>2, <1>3, MutexConstants DEF MutexOK
  <2>2. \A u \in Thread :
          IF mtx[m].owner = u
          THEN \/ held[u][m] = mtx[m].hold /\ held[u][m] > 0
               \/ held[u][m] = 0 /\ mtx[m].hold = 1 /\ Inside(u, m)'
                  /\ k'.error[u] = "EOK" /\ ~In(u, k'.wait[m])
          ELSE held[u][m] = 0
    BY <1>1, <1>3, <1>4, <1>5 DEF MutexOK
  <2>3. \A u \in Thread : Inside(u, m)' /\ ~In(u, k'.wait[m]) =>
          (k'.error[u] = "EOK" <=> mtx[m].owner = u)
    BY <1>1, <1>3, <1>4, <1>5 DEF MutexOK
  <2>4. \A u \in Thread : In(u, k'.wait[m]) => k'.error[u] = "EOK"
    BY <1>1, <1>3, <1>4 DEF MutexOK
  <2>5. \A u \in Thread : Inside(u, m)' => held[u][m] = 0
    BY <1>1, <1>2, <1>5 DEF MutexOK
  <2>6. mtx[m].original_priority \in Priority /\ mtx' = mtx /\ held' = held
    BY <1>1, <2>1 DEF MutexOK, own
  <2> QED
    BY <2>1, <2>2, <2>3, <2>4, <2>5, <2>6 DEF MutexOK
<1>8. MutTypes' /\ mtx' = mtx /\ held' = held
  BY <1>1 DEF MutTypes, own
<1> QED
  BY <1>4, <1>5, <1>6, <1>7, <1>8, CallAboutOne

(* rt_mutex_take returns after a wait. *)
LEMMA TakeReturnStep ==
  ASSUME IpcInv, MutInv, NEW m \in WaitList, TakeReturn(m)
  PROVE  IpcInv' /\ MutInv'
<1>1. /\ At("woken") /\ pc[me].on = {m} /\ k' = k /\ mtx' = mtx /\ flag' = flag
      /\ pc' = [pc EXCEPT ![me] = [op |-> "run", on |-> {}]]
      /\ held' = IF k.error[me] = "EOK" THEN [held EXCEPT ![me][m] = @ + 1] ELSE held
  BY DEF TakeReturn, Return
<1>2. /\ "run" \in Op /\ {} \in SUBSET WaitList /\ "woken" # "block" /\ me # Idle
  BY <1>1 DEF Op, IpcInv, Located, At
<1>3. IpcInv' /\ Moves("run", {}) /\ me \in Thread /\ k.stat[me] = "READY"
  BY <1>1, <1>2, GotoStep, Zenon
<1>4. /\ MutTypes /\ MutexOK(m) /\ Inside(me, m) /\ ~In(me, k.wait[m])
      /\ \A u \in Thread, n \in WaitList : Inside(u, n)' <=> Inside(u, n) /\ u # me
      /\ \A n \in WaitList : Inside(me, n) => n = m
  <2>1. Inside(me, m) /\ \A n \in WaitList : Inside(me, n) => n = m
    BY <1>1 DEF Inside, At
  <2>2. ~In(me, k.wait[m])
    BY <1>3 DEF IpcInv, Sound
  <2>3. \A u \in Thread, n \in WaitList : Inside(u, n)' <=> Inside(u, n) /\ u # me
    BY <1>3 DEF Moves, Inside
  <2> QED
    BY <2>1, <2>2, <2>3, OneAtATime
<1>5. /\ held[me][m] = 0
      /\ k.error[me] = "EOK" <=> mtx[m].owner = me
      /\ mtx[m].owner = me => mtx[m].hold = 1
  BY <1>3, <1>4 DEF MutexOK
<1>6. /\ held'[me][m] = (IF mtx[m].owner = me THEN 1 ELSE 0)
      /\ \A u \in Thread, n \in WaitList : n # m \/ u # me => held'[u][n] = held[u][n]
      /\ held' \in [Thread -> [WaitList -> 0 .. MaxHold]]
  <2>1. CASE k.error[me] = "EOK"
    <3>1. held' = Count(me, m, 1) /\ 1 \in 0 .. MaxHold
      BY <1>1, <1>5, <2>1, MutexConstants DEF Count
    <3> QED
      BY <1>3, <1>4, <1>5, <2>1, <3>1, SetHeld
  <2>2. CASE k.error[me] # "EOK"
    BY <1>1, <1>4, <1>5, <2>2 DEF MutTypes
  <2> QED
    BY <2>1, <2>2
<1>7. MutTypes'
  BY <1>1, <1>4, <1>6 DEF MutTypes
<1>8. MutexOK(m)'
  <2>1. \A u \in Thread :
          IF mtx[m].owner = u
          THEN \/ held'[u][m] = mtx[m].hold /\ held'[u][m] > 0
               \/ held'[u][m] = 0 /\ mtx[m].hold = 1 /\ Inside(u, m)'
                  /\ k.error[u] = "EOK" /\ ~In(u, k.wait[m])
          ELSE held'[u][m] = 0
    BY <1>4, <1>5, <1>6 DEF MutexOK
  <2>2. \A u \in Thread : Inside(u, m)' => held'[u][m] = 0
    BY <1>4, <1>6 DEF MutexOK
  <2>3. \A u \in Thread : Inside(u, m)' /\ ~In(u, k.wait[m]) =>
          (k.error[u] = "EOK" <=> mtx[m].owner = u)
    BY <1>4 DEF MutexOK
  <2> QED
    BY <1>1, <1>4, <2>1, <2>2, <2>3 DEF MutexOK
<1>9. ASSUME NEW n \in WaitList, n # m PROVE MutexOK(n)'
  <2>1. MutexOK(n) /\ ~Inside(me, n)
    BY <1>4, <1>9, OneAtATime
  <2>2. \A u \in Thread : Inside(u, n)' <=> Inside(u, n)
    BY <1>4, <2>1
  <2> QED
    BY <1>1, <1>6, <1>9, <2>1, <2>2, OtherMutex
<1> QED
  BY <1>3, <1>7, <1>8, <1>9, OneAtATimeNext

(* What ends a call and the tick changes no mutex. *)
LEMMA CallEndMutex ==
  ASSUME IpcInv, MutInv, CallEnd \/ Sleep \/ Interrupt
  PROVE  IpcInv' /\ MutInv'
<1>1. CASE BlockSchedule /\ UNCHANGED own
  <2>1. IpcInv' /\ Quiet /\ Moves("woken", pc[me].on) /\ pc[me].op = "block"
    BY <1>1, BlockScheduleStep
  <2>2. \A t \in Thread, m \in WaitList : Inside(t, m)' <=> Inside(t, m)
    BY <2>1 DEF Moves, Inside
  <2> QED
    BY <1>1, <2>1, <2>2, StillStep DEF Quiet
<1>2. CASE Schedule /\ UNCHANGED own
  <2>1. IpcInv' /\ Quiet /\ Moves("run", {}) /\ pc[me].op = "sched"
    BY <1>2, ScheduleStep
  <2>2. \A t \in Thread, m \in WaitList : Inside(t, m)' <=> Inside(t, m)
    BY <2>1 DEF Moves, Inside
  <2> QED
    BY <1>2, <2>1, <2>2, StillStep DEF Quiet
<1>3. CASE SleepReturn /\ UNCHANGED own
  <2>1. /\ IpcInv' /\ Moves("run", {}) /\ pc[me].op = "woken" /\ pc[me].on = {}
        /\ k'.wait = k.wait /\ me \in Thread /\ k.stat[me] = "READY"
        /\ \A t \in Thread : t # me => k'.error[t] = k.error[t]
    BY <1>3, SleepReturnStep
  <2>2. \A t \in Thread, m \in WaitList : Inside(t, m)' <=> Inside(t, m)
    BY <2>1 DEF Moves, Inside
  <2>3. \A m \in WaitList : ~Inside(me, m) /\ ~In(me, k.wait[m])
    BY <2>1 DEF Inside, IpcInv, Sound
  <2> QED
    BY <1>3, <2>1, <2>2, <2>3, StillStep
<1>4. CASE Sleep
  <2>1. /\ IpcInv' /\ Moves("block", {}) /\ pc[me].op = "run" /\ k'.wait = k.wait
        /\ k'.error = k.error /\ UNCHANGED own
    BY <1>4, SleepStep DEF Sleep
  <2>2. \A t \in Thread, m \in WaitList : Inside(t, m)' <=> Inside(t, m)
    BY <2>1 DEF Moves, Inside
  <2> QED
    BY <2>1, <2>2, StillStep
<1>5. CASE Interrupt
  <2>1. IpcInv' /\ Quiet /\ pc' = pc /\ UNCHANGED own
    BY <1>5, TickStep, TickEndStep DEF Interrupt
  <2>2. \A t \in Thread, m \in WaitList : Inside(t, m)' <=> Inside(t, m)
    BY <2>1 DEF Inside
  <2> QED
    BY <2>1, <2>2, StillStep DEF Quiet
<1> QED
  BY <1>1, <1>2, <1>3, <1>4, <1>5 DEF CallEnd

(* Raising the owner of a mutex moves nobody, *)
LEMMA InheritStill ==
  ASSUME IpcInv, MutInv, me \in Thread, NEW m \in WaitList, mtx[m].value = 0
  PROVE  LET x == Inherit(m)
         IN  /\ Sound(x) /\ Alike(x, k)
             /\ x.prio = k.prio \/ (/\ k.prio[me] < k.prio[mtx[m].owner]
                                    /\ x.prio = [k.prio EXCEPT ![mtx[m].owner] = k.prio[me]])
             /\ k.prio[me] < k.prio[mtx[m].owner] =>
                  x.prio = [k.prio EXCEPT ![mtx[m].owner] = k.prio[me]]
<1>1. Sound(k) /\ k.prio[me] \in Priority
  BY DEF IpcInv, Sound, KernelState
<1>2. MutTypes /\ MutexOK(m)
  BY OneAtATime
<1>3. mtx[m].owner \in Thread
  BY <1>2, MutexFields DEF MutexOK
<1> QED
  BY <1>1, <1>3, ControlSound DEF Inherit, Alike

(* ... and lowering the caller when it releases. *)
LEMMA RestoreStill ==
  ASSUME IpcInv, MutInv, me \in Thread, NEW m \in WaitList, mtx[m].owner = me
  PROVE  LET x == Restore(m)
         IN  /\ Sound(x) /\ Alike(x, k)
             /\ x.prio = [k.prio EXCEPT ![me] = mtx[m].original_priority]
<1>1. Sound(k) /\ k.prio \in [Thread -> Priority]
  BY DEF IpcInv, Sound, KernelState
<1>2. MutexOK(m) /\ me # NoThread
  BY OneAtATime, MutexConstants
<1>3. mtx[m].original_priority \in Priority
  BY <1>2 DEF MutexOK
<1>4. CASE mtx[m].original_priority # k.prio[me]
  BY <1>1, <1>3, <1>4, ControlSound DEF Restore, Alike
<1>5. CASE mtx[m].original_priority = k.prio[me]
  <2>1. Restore(m) = k
    BY <1>5 DEF Restore
  <2>2. k.prio = [k.prio EXCEPT ![me] = mtx[m].original_priority]
    BY <1>1, <1>5
  <2> QED
    BY <1>1, <2>1, <2>2 DEF Alike
<1> QED
  BY <1>4, <1>5

(* rt_mutex_take. *)
LEMMA TakeStep ==
  ASSUME IpcInv, MutInv, NEW m \in WaitList, NEW time, rt_mutex_take(m, time)
  PROVE  IpcInv' /\ MutInv'
<1>1. /\ At("run") /\ me # Idle /\ me \in Thread /\ flag' = flag /\ me # NoThread
      /\ "EOK" \in Error /\ "ETIMEOUT" \in Error
  BY CallerOut, MutexConstants DEF rt_mutex_take, Calls, Error
<1>2. MutTypes /\ MutexOK(m) /\ 0 \in Nat /\ MaxHold \in Nat \ {0}
  BY OneAtATime, MutexConstants
<1>3. ASSUME NEW e \in Error, k' = [k EXCEPT !.error[me] = e], pc' = pc
      PROVE  /\ IpcInv' /\ Still
  <2>1. IpcInv' /\ k'.wait = k.wait /\ \A t \in Thread : t # me => k'.error[t] = k.error[t]
    BY <1>1, <1>3, ErrorStep
  <2>2. \A u \in Thread, n \in WaitList : Inside(u, n)' <=> Inside(u, n)
    BY <1>3 DEF Inside
  <2> QED
    BY <2>1, <2>2 DEF Still
<1>4. CASE /\ mtx[m].owner = me /\ mtx[m].hold < MaxHold
           /\ mtx' = [mtx EXCEPT ![m].hold = @ + 1]
           /\ held' = [held EXCEPT ![me][m] = @ + 1]
           /\ k' = [k EXCEPT !.error[me] = "EOK"]
           /\ UNCHANGED pc
  <2>1. IpcInv' /\ Still
    BY <1>1, <1>3, <1>4
  <2>2. /\ held[me][m] = mtx[m].hold /\ mtx[m].hold + 1 \in 1 .. MaxHold
        /\ mtx[m].original_priority \in Priority /\ mtx[m].value = 0
    <3>1. held[me][m] = mtx[m].hold /\ mtx[m].hold > 0
      BY <1>1, <1>4, OwnerHolds
    <3>2. mtx[m].hold + 1 \in 1 .. MaxHold
      BY <1>2, <1>4, MutexFields
    <3>3. mtx[m].original_priority \in Priority /\ mtx[m].value = 0
      BY <1>1, <1>2, <1>4, MutexFields DEF MutexOK
    <3> QED
      BY <3>1, <3>2, <3>3
  <2>3. mtx' = Put(m, mtx[m].value, mtx[m].owner, mtx[m].original_priority, mtx[m].hold + 1)
    BY <1>2, <1>4, HoldSet
  <2>4. held' = Count(me, m, mtx[m].hold + 1)
    BY <1>4, <2>2 DEF Count
  <2>5. mtx' = Put(m, 0, me, mtx[m].original_priority, mtx[m].hold + 1)
        /\ mtx[m].owner \in {me, NoThread}
    BY <1>4, <2>2, <2>3
  <2> QED
    BY <1>1, <2>1, <2>2, <2>4, <2>5, CountStep
<1>5. CASE /\ mtx[m].owner # me /\ mtx[m].value > 0
           /\ mtx' = [Take(m, me, k) EXCEPT ![m].value = @ - 1]
           /\ held' = [held EXCEPT ![me][m] = @ + 1]
           /\ k' = [k EXCEPT !.error[me] = "EOK"]
           /\ UNCHANGED pc
  <2>1. IpcInv' /\ Still
    BY <1>1, <1>3, <1>5
  <2>2. /\ mtx[m].value = 1 /\ mtx[m].owner = NoThread /\ mtx[m] = Free /\ mtx[m].hold = 0
        /\ held[me][m] = 0
    BY <1>1, <1>2, <1>5, MutexFields DEF MutexOK, Free
  <2>3. k.prio[me] \in Priority
    BY <1>1 DEF IpcInv, Sound, KernelState
  <2>4. mtx' = Put(m, mtx[m].value - 1, me, k.prio[me], mtx[m].hold + 1)
    BY <1>2, <1>5, TakeSet
  <2>5. mtx' = Put(m, 0, me, k.prio[me], 1) /\ mtx[m].owner \in {me, NoThread}
    BY <2>2, <2>4
  <2>6. held' = Count(me, m, 1) /\ 1 \in 1 .. MaxHold
    BY <1>2, <1>5, <2>2 DEF Count
  <2> QED
    BY <1>1, <2>1, <2>3, <2>5, <2>6, CountStep
<1>6. CASE /\ k' = [k EXCEPT !.error[me] = "ETIMEOUT"] /\ UNCHANGED <<pc, mtx, held>>
  <2>1. IpcInv' /\ Still
    BY <1>1, <1>3, <1>6
  <2> QED
    BY <1>1, <1>6, <2>1, CallerOut, StillStep DEF Still, own
<1>7. CASE /\ mtx[m].owner # me /\ mtx[m].value = 0 /\ time # "none"
           /\ k' = Block(Inherit(m), m, flag, time)
           /\ Goto("block", m) /\ UNCHANGED <<mtx, held>>
  <2>1. Sound(Inherit(m)) /\ Alike(Inherit(m), k)
    BY <1>1, <1>7, InheritStill
  <2>2. IpcInv' /\ Moves("block", {m}) /\ Blocked(k', Inherit(m), m, me, flag, time)
    BY <1>1, <1>7, <2>1, BlockFromStep
  <2> QED
    BY <1>1, <1>7, <2>1, <2>2, WaitStep DEF own
<1> QED
  BY <1>4, <1>5, <1>6, <1>7 DEF rt_mutex_take

(* rt_mutex_release by the owner. *)
LEMMA ReleaseStep ==
  ASSUME IpcInv, MutInv, NEW m \in WaitList, rt_mutex_release(m)
  PROVE  IpcInv' /\ MutInv'
<1>1. /\ At("run") /\ me # Idle /\ me \in Thread /\ flag' = flag /\ me # NoThread
      /\ mtx[m].owner = me /\ held' = [held EXCEPT ![me][m] = @ - 1]
  BY CallerOut, MutexConstants DEF rt_mutex_release, Calls
<1>2. /\ MutTypes /\ MutexOK(m) /\ MaxHold \in Nat \ {0} /\ held[me][m] = mtx[m].hold
      /\ mtx[m].hold \in 0 .. MaxHold
      /\ mtx[m].original_priority \in Priority /\ mtx[m].value = 0
  BY <1>1, OneAtATime, OwnerHolds, MutexFields, MutexConstants DEF MutexOK
<1>3. Sound(Restore(m)) /\ Alike(Restore(m), k)
  BY <1>1, RestoreStill
<1>4. CASE mtx[m].hold > 1 /\ mtx' = [mtx EXCEPT ![m].hold = @ - 1] /\ UNCHANGED <<k, pc>>
  <2>1. IpcInv'
    BY <1>4 DEF IpcInv, IpcTypeOK
  <2>2. Still
    BY <1>4 DEF Still, Inside
  <2>3. mtx' = Put(m, mtx[m].value, mtx[m].owner, mtx[m].original_priority, mtx[m].hold - 1)
    BY <1>2, <1>4, HoldSet
  <2>4. held' = Count(me, m, mtx[m].hold - 1) /\ mtx[m].hold - 1 \in 1 .. MaxHold
    BY <1>1, <1>2, <1>4 DEF Count
  <2>5. mtx' = Put(m, 0, me, mtx[m].original_priority, mtx[m].hold - 1)
        /\ mtx[m].owner \in {me, NoThread}
    BY <1>1, <1>2, <2>3
  <2> QED
    BY <1>1, <1>2, <2>1, <2>2, <2>4, <2>5, CountStep
<1>5. CASE /\ mtx[m].hold = 1 /\ k.wait[m] # <<>>
           /\ mtx' = [Take(m, Restore(m).wait[m][1], Restore(m)) EXCEPT ![m].hold = 1]
           /\ k' = rt_ipc_list_resume(Restore(m), m)
           /\ Goto("sched", m)
  <2> DEFINE x == Restore(m)
             t == k.wait[m][1]
  <2>1. x.wait[m][1] = t /\ x.prio \in [Thread -> Priority]
    BY <1>3 DEF Alike, Sound, KernelState
  <2>2. /\ IpcInv' /\ Moves("sched", {m}) /\ t \in Thread /\ In(t, k.wait[m])
        /\ k'.wait = Unwait(k, t) /\ k'.error = k.error
    BY <1>1, <1>3, <1>5, ResumeFromStep
  <2>3. mtx' = Put(m, mtx[m].value, x.wait[m][1], x.prio[x.wait[m][1]], 1)
    BY <1>2, <1>5, TakeSet
  <2>4. mtx' = Put(m, mtx[m].value, t, x.prio[t], 1) /\ x.prio[t] \in Priority
    BY <2>1, <2>2, <2>3
  <2>5. held' = Count(me, m, 0)
    BY <1>1, <1>2, <1>5 DEF Count
  <2> HIDE DEF x, t
  <2> QED
    BY <1>1, <2>2, <2>4, <2>5, HandOverStep
<1>6. CASE /\ mtx[m].hold = 1 /\ k.wait[m] = <<>> /\ mtx' = [mtx EXCEPT ![m] = Free]
           /\ k' = Restore(m) /\ UNCHANGED pc
  <2>1. Sound(k') /\ k'.stat = k.stat /\ k'.wait = k.wait /\ k'.error = k.error
        /\ k'.current = k.current
    BY <1>3, <1>6 DEF Alike
  <2>2. IpcInv'
    BY <1>6, <2>1, SameWakes, InterruptPlaces
  <2>3. Still
    BY <1>6, <2>1 DEF Still, Inside
  <2>4. mtx' = Put(m, 1, NoThread, NO_PRIORITY, 0) /\ held' = Count(me, m, 0)
    BY <1>1, <1>2, <1>6 DEF Put, MutexRecord, Free, Count
  <2> QED
    BY <1>1, <1>6, <2>2, <2>3, <2>4, FreeStep
<1> QED
  BY <1>4, <1>5, <1>6 DEF rt_mutex_release

(* rt_mutex_release by another thread. *)
LEMMA ReleaseByOtherStep ==
  ASSUME IpcInv, MutInv, NEW m \in WaitList, ReleaseByOther(m)
  PROVE  IpcInv' /\ MutInv'
<1>1. /\ At("run") /\ "ERROR" \in Error /\ k' = [k EXCEPT !.error[me] = "ERROR"] /\ pc' = pc
      /\ UNCHANGED own
  BY DEF ReleaseByOther, Calls, Error
<1>2. IpcInv' /\ k'.wait = k.wait /\ \A t \in Thread : t # me => k'.error[t] = k.error[t]
  BY <1>1, ErrorStep
<1>3. \A u \in Thread, n \in WaitList : Inside(u, n)' <=> Inside(u, n)
  BY <1>1 DEF Inside
<1> QED
  BY <1>1, <1>2, <1>3, CallerOut, StillStep

(* The timer of a waiter expires. *)
LEMMA ExpireStep ==
  ASSUME IpcInv, MutInv, NEW t \in Thread, Expire(t)
  PROVE  IpcInv' /\ MutInv'
<1>1. /\ IpcInv' /\ pc' = pc /\ k.stat[t] = "SUSPEND" /\ k'.wait = Unwait(k, t)
      /\ k'.error = [k.error EXCEPT ![t] = "ETIMEOUT"] /\ UNCHANGED own
  BY TimeoutStep DEF Expire
<1>2. \A u \in Thread, n \in WaitList : Inside(u, n)' <=> Inside(u, n)
  BY <1>1 DEF Inside
<1> QED
  BY <1>1, <1>2, FailStep

(* When the scheduler starts every mutex is free. *)
LEMMA MutStart == Init => IpcInv /\ MutInv
<1> SUFFICES ASSUME Init
             PROVE  IpcInv /\ MutInv
  OBVIOUS
<1>1. /\ IpcInv /\ \A w \in WaitList : k.wait[w] = <<>>
      /\ pc = [t \in Thread |-> [op |-> "run", on |-> {}]] /\ k.error = [t \in Thread |-> "EOK"]
  BY StartSound DEF Init
<1>2. /\ mtx = [m \in WaitList |-> Free] /\ flag \in {"FIFO", "PRIO"}
      /\ held = [t \in Thread |-> [m \in WaitList |-> 0]]
  BY DEF Init
<1>3. MutTypes
  BY <1>2, MutexConstants DEF MutTypes, Free
<1>4. ASSUME NEW m \in WaitList PROVE MutexOK(m)
  <2>1. \A t \in Thread : ~Inside(t, m) /\ held[t][m] = 0 /\ t # NoThread
    BY <1>1, <1>2, MutexConstants DEF Inside
  <2>2. mtx[m] = Free /\ mtx[m].owner = NoThread /\ mtx[m].value = 1
    BY <1>2 DEF Free
  <2>3. k.wait[m] = <<>> /\ ~In(NoThread, k.wait[m]) /\ \A t \in Thread : ~In(t, k.wait[m])
    BY <1>1 DEF In
  <2> QED
    BY <2>1, <2>2, <2>3 DEF MutexOK
<1> QED
  BY <1>1, <1>3, <1>4, OneAtATime

(* Every step keeps the invariant. *)
LEMMA MutStep == IpcInv /\ MutInv /\ [Next]_vars => IpcInv' /\ MutInv'
<1> SUFFICES ASSUME IpcInv, MutInv, [Next]_vars
             PROVE  IpcInv' /\ MutInv'
  OBVIOUS
<1>1. CASE UNCHANGED vars
  <2>1. k' = k /\ pc' = pc /\ UNCHANGED own
    BY <1>1 DEF vars, own
  <2>2. IpcInv'
    BY <2>1 DEF IpcInv, IpcTypeOK
  <2>3. \A u \in Thread, n \in WaitList : Inside(u, n)' <=> Inside(u, n)
    BY <2>1 DEF Inside
  <2>4. MutInv'
    BY <2>1, <2>3, StillStep
  <2> QED
    BY <2>2, <2>4
<1>2. ASSUME NEW m \in WaitList, NEW time \in Time, rt_mutex_take(m, time)
      PROVE  IpcInv' /\ MutInv'
  BY <1>2, TakeStep
<1>3. ASSUME NEW m \in WaitList, TakeReturn(m) PROVE IpcInv' /\ MutInv'
  BY <1>3, TakeReturnStep
<1>4. ASSUME NEW m \in WaitList, rt_mutex_release(m) PROVE IpcInv' /\ MutInv'
  BY <1>4, ReleaseStep
<1>5. ASSUME NEW m \in WaitList, ReleaseByOther(m) PROVE IpcInv' /\ MutInv'
  BY <1>5, ReleaseByOtherStep
<1>6. CASE Sleep \/ CallEnd \/ Interrupt
  BY <1>6, CallEndMutex
<1>7. ASSUME NEW t \in Thread, Expire(t) PROVE IpcInv' /\ MutInv'
  BY <1>7, ExpireStep
<1> QED
  BY <1>1, <1>2, <1>3, <1>4, <1>5, <1>6, <1>7 DEF Next

(* ... so it always holds. *)
THEOREM MutInvariant == Spec => [](IpcInv /\ MutInv)
BY MutStart, MutStep, PTL DEF Spec

(* Every variable has its type; the recursion count never passes MaxHold   *)
(* and never goes below 0.                                                 *)
THEOREM MutTypeCorrect == Spec => []TypeOK
<1>1. IpcInv /\ MutInv => TypeOK
  BY DEF IpcInv, MutInv, MutTypes, TypeOK
<1> QED
  BY <1>1, MutInvariant, PTL

(* Every thread is in one place, once, whatever priorities the mutexes     *)
(* give it.                                                                *)
THEOREM MutPlaces == Spec => []Places
BY PlacesKnown, MutInvariant, PTL

(* Mutual exclusion, as the return codes of rt_mutex_take and              *)
(* rt_mutex_release tell it to the threads, with timeouts and hand-over.   *)
THEOREM MutExcludes == Spec => []MutualExclusion
<1>1. MutInv => MutualExclusion
  BY DEF MutInv
<1> QED
  BY <1>1, MutInvariant, PTL

(* Nobody waits for a free mutex or for itself, and a thread that has left *)
(* the list returns RT_EOK exactly when it owns the mutex.                 *)
THEOREM MutWaitsRight == Spec => []WaitOK
<1>1. MutInv => WaitOK
  BY DEF MutInv
<1> QED
  BY <1>1, MutInvariant, PTL

-----------------------------------------------------------------------------
(* Priority inheritance, when every thread takes one mutex at a time and   *)
(* the waiters queue by priority.                                          *)

(* A thread owns one mutex at most, *)
OwnsOne ==
  \A m, n \in WaitList : mtx[m].owner \in Thread /\ mtx[n].owner = mtx[m].owner => m = n

(* and none while it waits for another, so an owner is on no list. *)
WaitsOwningNone ==
  \A t \in Thread, m, n \in WaitList : Inside(t, m) /\ mtx[n].owner = t => n = m

(* The priority to restore is the one the owner was created with. *)
Originals ==
  \A m \in WaitList : mtx[m].owner \in Thread =>
    mtx[m].original_priority = init_priority(mtx[m].owner)

Sorted == \A m \in WaitList : Ordered(k.wait[m], k.prio)

(* Inherited, of the threads on the list in place of its positions. *)
Raised ==
  \A m \in WaitList : \A u \in Thread : In(u, k.wait[m]) => k.prio[mtx[m].owner] <= k.prio[u]

InheritInv ==
  /\ flag = "PRIO"
  /\ OwnsOne /\ WaitsOwningNone /\ Originals /\ Sorted /\ Raised /\ InheritanceEnds

(* Raised says what Inherited says. *)
LEMMA RaisedInherited == IpcInv /\ Raised => Inherited
<1> SUFFICES ASSUME IpcInv, Raised, NEW m \in WaitList, NEW i \in DOMAIN k.wait[m]
             PROVE  k.prio[mtx[m].owner] <= k.prio[k.wait[m][i]]
  BY DEF Inherited
<1>1. k.wait[m] \in Seq(Thread)
  BY DEF IpcInv, Sound, KernelState
<1>2. k.wait[m][i] \in Thread /\ In(k.wait[m][i], k.wait[m])
  BY <1>1 DEF In
<1> QED
  BY <1>2 DEF Raised

(* No mutex changes hands, no priority changes, and threads only leave the *)
(* lists.                                                                  *)
LEMMA NoHandInherit ==
  ASSUME InheritInv, flag' = flag, k'.prio = k.prio,
         \A m \in WaitList : mtx'[m].owner = mtx[m].owner,
         \A m \in WaitList : mtx'[m].original_priority = mtx[m].original_priority,
         \A u \in Thread, m \in WaitList : Inside(u, m)' => Inside(u, m),
         \A u \in Thread, m \in WaitList : In(u, k'.wait[m]) => In(u, k.wait[m]),
         \A m \in WaitList : Ordered(k'.wait[m], k.prio)
  PROVE  InheritInv'
<1>1. (flag = "PRIO")' /\ OwnsOne' /\ WaitsOwningNone' /\ Originals'
  BY DEF InheritInv, OwnsOne, WaitsOwningNone, Originals, init_priority
<1>2. Sorted' /\ Raised' /\ InheritanceEnds'
  BY DEF InheritInv, Sorted, Raised, InheritanceEnds, init_priority
<1> QED
  BY <1>1, <1>2 DEF InheritInv

(* A thread that owns nothing and waits for nothing takes a free mutex. *)
LEMMA TakeInherit ==
  ASSUME IpcInv, MutInv, InheritInv, At("run"), NEW m \in WaitList, mtx[m].owner = NoThread,
         \A n \in WaitList : n # m => mtx[n].owner # me,
         flag' = flag, Still, k'.prio = k.prio,
         mtx'[m].owner = me, mtx'[m].original_priority = k.prio[me],
         \A n \in WaitList : n # m => mtx'[n] = mtx[n]
  PROVE  InheritInv'
<1>1. me \in Thread /\ me # NoThread /\ k.wait[m] = <<>> /\ \A n \in WaitList : ~Inside(me, n)
  BY CallerOut, MutexConstants, OneAtATime DEF MutexOK
<1>2. k.prio[me] = init_priority(me)
  BY <1>1 DEF InheritInv, InheritanceEnds
<1>3. OwnsOne'
  BY <1>1 DEF InheritInv, OwnsOne
<1>4. WaitsOwningNone'
  BY <1>1 DEF InheritInv, WaitsOwningNone, Still
<1>5. Originals'
  BY <1>1, <1>2 DEF InheritInv, Originals, init_priority
<1>6. Sorted'
  BY DEF InheritInv, Sorted, Still
<1>7. Raised'
  <2>1. \A u \in Thread : ~In(u, k.wait[m])
    BY <1>1 DEF In
  <2> QED
    BY <2>1 DEF InheritInv, Raised, Still
<1>8. InheritanceEnds'
  <2> SUFFICES ASSUME NEW u \in Thread, \A n \in WaitList : mtx'[n].owner # u
               PROVE  k'.prio[u] = init_priority(u)
    BY DEF InheritanceEnds, init_priority
  <2>1. \A n \in WaitList : mtx[n].owner # u
    BY MutexConstants
  <2> QED
    BY <2>1 DEF InheritInv, InheritanceEnds
<1> QED
  BY <1>3, <1>4, <1>5, <1>6, <1>7, <1>8 DEF InheritInv

(* The caller gives m up; it goes back to the priority it was created      *)
(* with, and t, a thread that owned nothing, is the next owner, or nobody. *)
LEMMA GiveInherit ==
  ASSUME IpcInv, MutInv, InheritInv, At("run"), NEW m \in WaitList, mtx[m].owner = me,
         k'.prio = [k.prio EXCEPT ![me] = mtx[m].original_priority],
         flag' = flag, NEW t \in Thread \cup {NoThread}, mtx'[m].owner = t,
         t \in Thread => mtx'[m].original_priority = k'.prio[t] /\ In(t, k.wait[m])
                         /\ \A u \in Thread : In(u, k'.wait[m]) => k.prio[t] <= k.prio[u],
         t = NoThread => k.wait[m] = <<>>,
         \A n \in WaitList : n # m => mtx'[n] = mtx[n],
         \A u \in Thread, n \in WaitList : Inside(u, n)' <=> Inside(u, n),
         \A u \in Thread, n \in WaitList : In(u, k'.wait[n]) => In(u, k.wait[n]),
         \A n \in WaitList : k'.wait[n] \in Seq(Thread) /\ Ordered(k'.wait[n], k.prio)
  PROVE  InheritInv'
<1>1. /\ me \in Thread /\ me # NoThread
      /\ \A n \in WaitList : ~Inside(me, n) /\ ~In(me, k.wait[n])
      /\ k.prio \in [Thread -> Priority] /\ Located(k, pc) /\ Sound(k)
  <2>1. me \in Thread /\ \A n \in WaitList : ~Inside(me, n) /\ ~In(me, k.wait[n])
    BY CallerOut
  <2>2. k.prio \in [Thread -> Priority] /\ Located(k, pc) /\ Sound(k)
    BY DEF IpcInv, Sound, KernelState
  <2> QED
    BY <2>1, <2>2, MutexConstants
<1>2. /\ \A n \in WaitList : n # m => mtx[n].owner # me
      /\ mtx[m].original_priority = init_priority(me)
  BY <1>1 DEF InheritInv, OwnsOne, Originals
<1>3. /\ k'.prio[me] = init_priority(me)
      /\ \A u \in Thread : u # me => k'.prio[u] = k.prio[u]
  BY <1>1, <1>2
<1>4. t \in Thread => Inside(t, m) /\ t # me /\ \A n \in WaitList : mtx[n].owner # t
  <2> SUFFICES ASSUME t \in Thread
               PROVE  Inside(t, m) /\ t # me /\ \A n \in WaitList : mtx[n].owner # t
    OBVIOUS
  <2>1. t # me /\ k.stat[t] = "SUSPEND"
    BY <1>1 DEF Sound
  <2>2. pc[t].op \in {"block", "woken"} /\ pc[t].on = {w \in WaitList : In(t, k.wait[w])}
    BY <1>1, <2>1 DEF Located
  <2>3. Inside(t, m)
    BY <2>2 DEF Inside
  <2> QED
    BY <2>1, <2>3 DEF InheritInv, WaitsOwningNone
<1>5. OwnsOne'
  <2>1. CASE t \in Thread
    BY <1>4, <2>1 DEF InheritInv, OwnsOne
  <2>2. CASE t = NoThread
    BY <2>2, MutexConstants DEF InheritInv, OwnsOne
  <2> QED
    BY <2>1, <2>2
<1>6. WaitsOwningNone'
  <2> SUFFICES ASSUME NEW u \in Thread, NEW w \in WaitList, NEW n \in WaitList,
                      Inside(u, w), mtx'[n].owner = u
               PROVE  n = w
    BY DEF WaitsOwningNone
  <2>1. CASE n = m
    <3>1. u = t /\ pc[t].on = {v \in WaitList : In(t, k.wait[v])} /\ In(t, k.wait[m])
      BY <1>1, <2>1 DEF Located, Sound
    <3> QED
      BY <1>1, <2>1, <3>1 DEF Inside, Sound
  <2>2. CASE n # m
    BY <2>2 DEF InheritInv, WaitsOwningNone
  <2> QED
    BY <2>1, <2>2
<1>7. Originals'
  <2>1. t \in Thread => k.prio[t] = init_priority(t)
    BY <1>4 DEF InheritInv, InheritanceEnds
  <2> QED
    BY <1>3, <1>4, <2>1 DEF InheritInv, Originals, init_priority
<1>8. Sorted'
  <2> SUFFICES ASSUME NEW n \in WaitList, NEW i \in DOMAIN k'.wait[n],
                      NEW j \in DOMAIN k'.wait[n], i < j
               PROVE  k'.prio[k'.wait[n][i]] <= k'.prio[k'.wait[n][j]]
    BY DEF Sorted, Ordered
  <2>1. k'.wait[n] \in Seq(Thread)
    OBVIOUS
  <2>2. k'.wait[n][i] \in Thread /\ In(k'.wait[n][i], k'.wait[n])
    BY <2>1 DEF In
  <2>3. k'.wait[n][j] \in Thread /\ In(k'.wait[n][j], k'.wait[n])
    BY <2>1 DEF In
  <2>4. k'.wait[n][i] # me /\ k'.wait[n][j] # me
    BY <1>1, <2>2, <2>3
  <2>5. k.prio[k'.wait[n][i]] <= k.prio[k'.wait[n][j]]
    BY DEF Ordered
  <2> QED
    BY <1>3, <2>2, <2>3, <2>4, <2>5
<1>9. Raised'
  <2> SUFFICES ASSUME NEW n \in WaitList, NEW u \in Thread, In(u, k'.wait[n])
               PROVE  k'.prio[mtx'[n].owner] <= k'.prio[u]
    BY DEF Raised
  <2>1. In(u, k.wait[n]) /\ u # me /\ k'.prio[u] = k.prio[u]
    BY <1>1, <1>3
  <2>2. CASE n = m
    <3>1. t \in Thread
      BY <2>1, <2>2 DEF In
    <3> QED
      BY <1>3, <1>4, <2>1, <2>2, <3>1
  <2>3. CASE n # m
    <3>1. k.prio[mtx[n].owner] <= k.prio[u] /\ mtx'[n] = mtx[n] /\ mtx[n].owner # me
      BY <1>2, <2>1, <2>3 DEF InheritInv, Raised
    <3>2. mtx[n].owner \in Thread
      <4>1. MutTypes /\ MutexOK(n)
        BY OneAtATime
      <4>2. k.wait[n] # <<>>
        BY <2>1 DEF In
      <4> QED
        BY <4>1, <4>2, MutexFields DEF MutexOK
    <3> QED
      BY <1>3, <2>1, <3>1, <3>2
  <2> QED
    BY <2>2, <2>3
<1>10. InheritanceEnds'
  <2> SUFFICES ASSUME NEW u \in Thread, \A n \in WaitList : mtx'[n].owner # u
               PROVE  k'.prio[u] = init_priority(u)
    BY DEF InheritanceEnds, init_priority
  <2>1. CASE u = me
    BY <1>3, <2>1
  <2>2. CASE u # me
    <3>1. \A n \in WaitList : mtx[n].owner # u
      BY <2>2
    <3> QED
      BY <1>3, <2>2, <3>1 DEF InheritInv, InheritanceEnds
  <2> QED
    BY <2>1, <2>2
<1> QED
  BY <1>5, <1>6, <1>7, <1>8, <1>9, <1>10 DEF InheritInv

(* Priorities are numbers. *)
LEMMA PriorityNumbers == Priority \subseteq Nat
BY KernelAssumption DEF Priority

(* The thread that is about to wait has raised the owner. *)
LEMMA WaitInherit ==
  ASSUME IpcInv, MutInv, InheritInv, At("run"), NEW m \in WaitList, UNCHANGED own,
         mtx[m].value = 0, \A n \in WaitList : mtx[n].owner # me,
         NEW x, x = Inherit(m), NEW time, Blocked(k', x, m, me, flag, time), Moves("block", {m})
  PROVE  InheritInv'
<1> DEFINE o == mtx[m].owner
<1>1. /\ me \in Thread /\ \A n \in WaitList : ~Inside(me, n) /\ ~In(me, k.wait[n])
      /\ k.prio \in [Thread -> Priority] /\ Located(k, pc) /\ Sound(k)
      /\ k.wait \in [WaitList -> Seq(Thread)]
  BY CallerOut DEF IpcInv, Sound, KernelState
<1>2. /\ Sound(x) /\ x.wait = k.wait
      /\ x.prio = k.prio \/ (k.prio[me] < k.prio[o] /\ x.prio = [k.prio EXCEPT ![o] = k.prio[me]])
      /\ k.prio[me] < k.prio[o] => x.prio = [k.prio EXCEPT ![o] = k.prio[me]]
  BY <1>1, InheritStill DEF Alike
<1>3. o \in Thread /\ o # me /\ ~In(o, k.wait[m])
  BY OneAtATime, MutexFields DEF MutexOK
<1>4. ASSUME NEW n \in WaitList, In(o, k.wait[n]) PROVE FALSE
  <2>1. k.stat[o] = "SUSPEND"
    BY <1>1, <1>3, <1>4 DEF Sound
  <2>2. pc[o].op \in {"block", "woken"} /\ pc[o].on = {w \in WaitList : In(o, k.wait[w])}
    BY <1>1, <1>3, <2>1 DEF Located
  <2>3. Inside(o, n)
    BY <1>4, <2>2 DEF Inside
  <2>4. m = n
    BY <1>3, <2>3 DEF InheritInv, WaitsOwningNone
  <2> QED
    BY <1>3, <1>4, <2>4
<1>5. /\ \A u \in Thread : u # o => x.prio[u] = k.prio[u]
      /\ x.prio \in [Thread -> Priority] /\ k'.prio = x.prio
  <2>1. x.prio \in [Thread -> Priority] /\ k.prio \in [Thread -> Priority]
    BY <1>1, <1>2 DEF Sound, KernelState
  <2>2. k'.prio = x.prio
    BY DEF Blocked
  <2> QED
    BY <1>2, <2>1, <2>2
<1>6. /\ x.prio[o] <= k.prio[me] /\ \A u \in Thread : x.prio[u] <= k.prio[u]
  <2>1. \A u \in Thread : k.prio[u] \in Nat /\ k.prio[u] <= k.prio[u]
    <3> SUFFICES ASSUME NEW u \in Thread
                 PROVE  k.prio[u] \in Nat /\ k.prio[u] <= k.prio[u]
      OBVIOUS
    <3>1. k.prio[u] \in Priority
      BY <1>1
    <3>2. k.prio[u] \in Nat
      BY <3>1, PriorityNumbers
    <3> QED
      BY <3>2
  <2>2. CASE k.prio[me] < k.prio[o]
    <3>1. x.prio[o] = k.prio[me]
      <4>1. x.prio = [k.prio EXCEPT ![o] = k.prio[me]]
        BY <1>2, <2>2
      <4> QED
        BY <1>1, <1>3, <4>1
    <3>2. k.prio[me] \in Nat /\ k.prio[o] \in Nat
      BY <1>1, <1>3, <2>1, Zenon
    <3>3. x.prio[o] <= k.prio[me] /\ x.prio[o] <= k.prio[o]
      BY <2>2, <3>1, <3>2
    <3> HIDE DEF o
    <3>4. ASSUME NEW u \in Thread PROVE x.prio[u] <= k.prio[u]
      BY <1>5, <2>1, <3>3
    <3> QED
      BY <3>3, <3>4
  <2>3. CASE ~(k.prio[me] < k.prio[o])
    BY <1>1, <1>2, <1>3, <2>1, <2>3
  <2> QED
    BY <2>2, <2>3
<1>7. /\ \A u \in Thread, n \in WaitList :
           In(u, k'.wait[n]) <=> In(u, k.wait[n]) \/ (u = me /\ n = m)
      /\ k'.wait = [k.wait EXCEPT ![m] = InsertByPriority(k.wait[m], me, x.prio)]
  BY <1>2 DEF Blocked, Enqueued, InheritInv
<1>8. \A u \in Thread, n \in WaitList :
        Inside(u, n)' <=> Inside(u, n) \/ (u = me /\ n = m)
  BY CallerOut DEF Moves, Inside
<1>9. mtx' = mtx /\ flag' = flag /\ \A u : init_priority(u)' = init_priority(u)
  BY DEF own, init_priority
<1>10. ASSUME NEW n \in WaitList PROVE Ordered(k.wait[n], x.prio)
  <2> SUFFICES ASSUME NEW i \in DOMAIN k.wait[n], NEW j \in DOMAIN k.wait[n], i < j
               PROVE  x.prio[k.wait[n][i]] <= x.prio[k.wait[n][j]]
    BY DEF Ordered
  <2>1. k.wait[n][i] \in Thread /\ In(k.wait[n][i], k.wait[n])
    BY <1>1 DEF In
  <2>2. k.wait[n][j] \in Thread /\ In(k.wait[n][j], k.wait[n])
    BY <1>1 DEF In
  <2>3. k.wait[n][i] # o /\ k.wait[n][j] # o
    BY <1>4, <2>1, <2>2
  <2>4. k.prio[k.wait[n][i]] <= k.prio[k.wait[n][j]]
    BY DEF InheritInv, Sorted, Ordered
  <2> QED
    BY <1>5, <2>1, <2>2, <2>3, <2>4
<1>11. Sorted'
  <2> SUFFICES ASSUME NEW n \in WaitList
               PROVE  Ordered(k'.wait[n], x.prio)
    BY <1>5 DEF Sorted
  <2>1. CASE n = m
    <3>1. Ordered(InsertByPriority(k.wait[m], me, x.prio), x.prio)
      BY <1>1, <1>5, <1>10, InsertElements
    <3> QED
      BY <1>1, <1>7, <2>1, <3>1
  <2>2. CASE n # m
    BY <1>1, <1>7, <1>10, <2>2
  <2> QED
    BY <2>1, <2>2
<1>12. Raised'
  <2> SUFFICES ASSUME NEW n \in WaitList, NEW u \in Thread, In(u, k'.wait[n])
               PROVE  x.prio[mtx[n].owner] <= x.prio[u]
    BY <1>5, <1>9 DEF Raised
  <2>1. CASE u = me /\ n = m
    BY <1>3, <1>5, <1>6, <2>1
  <2>2. CASE In(u, k.wait[n])
    <3>1. k.prio[mtx[n].owner] <= k.prio[u] /\ u # o
      BY <1>4, <2>2 DEF InheritInv, Raised
    <3>2. mtx[n].owner \in Thread
      <4>1. MutTypes /\ MutexOK(n)
        BY OneAtATime
      <4>2. k.wait[n] # <<>>
        BY <2>2 DEF In
      <4> QED
        BY <4>1, <4>2, MutexFields DEF MutexOK
    <3>3. /\ x.prio[mtx[n].owner] <= k.prio[mtx[n].owner] /\ x.prio[u] = k.prio[u]
          /\ x.prio[mtx[n].owner] \in Nat /\ k.prio[mtx[n].owner] \in Nat /\ k.prio[u] \in Nat
      BY <1>1, <1>5, <1>6, <3>1, <3>2, PriorityNumbers
    <3> QED
      BY <3>1, <3>3
  <2> QED
    BY <1>7, <2>1, <2>2
<1>13. InheritanceEnds'
  <2> SUFFICES ASSUME NEW u \in Thread, \A n \in WaitList : mtx[n].owner # u
               PROVE  x.prio[u] = init_priority(u)
    BY <1>5, <1>9 DEF InheritanceEnds
  <2> QED
    BY <1>5 DEF InheritInv, InheritanceEnds
<1>14. (flag = "PRIO")' /\ OwnsOne' /\ Originals'
  BY <1>9 DEF InheritInv, OwnsOne, Originals
<1>15. WaitsOwningNone'
  BY <1>8, <1>9 DEF InheritInv, WaitsOwningNone
<1> QED
  BY <1>11, <1>12, <1>13, <1>14, <1>15 DEF InheritInv

(* Every step keeps what priority inheritance needs. *)
LEMMA InheritStep ==
  ASSUME "nested" \notin Relaxed, IpcInv, MutInv, InheritInv, [Next]_vars
  PROVE  InheritInv'
<1>1. /\ Sound(k) /\ \A m \in WaitList : k.wait[m] \in Seq(Thread) /\ Ordered(k.wait[m], k.prio)
      /\ k.prio \in [Thread -> Priority]
  BY DEF IpcInv, Sound, KernelState, InheritInv, Sorted
<1>2. MutTypes /\ \A m \in WaitList : MutexOK(m)
  BY OneAtATime
<1>3. ASSUME UNCHANGED own, k'.wait = k.wait, k'.prio = k.prio,
             \A u \in Thread, m \in WaitList : Inside(u, m)' => Inside(u, m)
      PROVE  InheritInv'
  BY <1>1, <1>3, NoHandInherit DEF own
<1>4. CASE UNCHANGED vars
  <2>1. k' = k /\ pc' = pc /\ UNCHANGED own
    BY <1>4 DEF vars, own
  <2>2. \A u \in Thread, m \in WaitList : Inside(u, m)' => Inside(u, m)
    BY <2>1 DEF Inside
  <2> QED
    BY <1>3, <2>1, <2>2
<1>5. ASSUME NEW m \in WaitList, NEW time \in Time, rt_mutex_take(m, time)
      PROVE  InheritInv'
  <2>1. /\ At("run") /\ me # Idle /\ me \in Thread /\ flag' = flag
        /\ "EOK" \in Error /\ "ETIMEOUT" \in Error
        /\ \A n \in WaitList : n # m => mtx[n].owner # me
    BY <1>5, CallerOut DEF rt_mutex_take, Calls, Error, MayTake
  <2>2. ASSUME NEW e \in Error, k' = [k EXCEPT !.error[me] = e], pc' = pc
        PROVE  Still /\ k'.prio = k.prio
    <3>1. /\ k'.wait = k.wait /\ k'.prio = k.prio
          /\ \A t \in Thread : t # me => k'.error[t] = k.error[t]
      BY <2>1, <2>2, ErrorStep
    <3>2. \A u \in Thread, n \in WaitList : Inside(u, n)' <=> Inside(u, n)
      BY <2>2 DEF Inside
    <3> QED
      BY <3>1, <3>2 DEF Still
  <2>3. CASE /\ mtx[m].owner = me
             /\ mtx' = [mtx EXCEPT ![m].hold = @ + 1]
             /\ k' = [k EXCEPT !.error[me] = "EOK"]
             /\ UNCHANGED pc
    <3>1. Still /\ k'.prio = k.prio
      BY <2>1, <2>2, <2>3
    <3>2. \A n \in WaitList : /\ mtx'[n].owner = mtx[n].owner
                              /\ mtx'[n].original_priority = mtx[n].original_priority
      BY <1>2, <2>3 DEF MutTypes
    <3> QED
      BY <1>1, <2>1, <3>1, <3>2, NoHandInherit DEF Still
  <2>4. CASE /\ mtx[m].owner # me /\ mtx[m].value > 0
             /\ mtx' = [Take(m, me, k) EXCEPT ![m].value = @ - 1]
             /\ k' = [k EXCEPT !.error[me] = "EOK"]
             /\ UNCHANGED pc
    <3>1. Still /\ k'.prio = k.prio
      BY <2>1, <2>2, <2>4
    <3>2. mtx[m].owner = NoThread
      BY <1>2, <2>4, MutexFields DEF MutexOK
    <3>3. mtx' = Put(m, mtx[m].value - 1, me, k.prio[me], mtx[m].hold + 1)
      BY <1>2, <2>4, TakeSet
    <3>4. /\ mtx'[m].owner = me /\ mtx'[m].original_priority = k.prio[me]
          /\ \A n \in WaitList : n # m => mtx'[n] = mtx[n]
      BY <1>2, <3>3 DEF Put, MutexRecord, MutTypes
    <3> QED
      BY <2>1, <3>1, <3>2, <3>4, TakeInherit
  <2>5. CASE /\ k' = [k EXCEPT !.error[me] = "ETIMEOUT"] /\ UNCHANGED <<pc, mtx, held>>
    <3>1. Still /\ k'.prio = k.prio
      BY <2>1, <2>2, <2>5
    <3> QED
      BY <1>3, <2>1, <2>5, <3>1 DEF Still, own
  <2>6. CASE /\ mtx[m].owner # me /\ mtx[m].value = 0 /\ time # "none"
             /\ k' = Block(Inherit(m), m, flag, time)
             /\ Goto("block", m) /\ UNCHANGED <<mtx, held>>
    <3>1. Sound(Inherit(m)) /\ Alike(Inherit(m), k)
      BY <2>1, <2>6, InheritStill
    <3>2. Moves("block", {m}) /\ Blocked(k', Inherit(m), m, me, flag, time)
      BY <2>1, <2>6, <3>1, BlockFromStep
    <3>3. UNCHANGED own /\ \A n \in WaitList : mtx[n].owner # me
      BY <2>1, <2>6 DEF own
    <3> QED
      BY <2>1, <2>6, <3>2, <3>3, WaitInherit
  <2> QED
    BY <1>5, <2>3, <2>4, <2>5, <2>6 DEF rt_mutex_take
<1>6. ASSUME NEW m \in WaitList, TakeReturn(m) PROVE InheritInv'
  <2>1. k' = k /\ mtx' = mtx /\ flag' = flag /\ pc' = [pc EXCEPT ![me] = [op |-> "run", on |-> {}]]
    BY <1>6 DEF TakeReturn, Return
  <2>2. \A u \in Thread, n \in WaitList : Inside(u, n)' => Inside(u, n)
    <3>1. Moves("run", {})
      BY <2>1, MovesIntro
    <3> QED
      BY <3>1 DEF Moves, Inside
  <2> QED
    BY <1>1, <2>1, <2>2, NoHandInherit
<1>7. ASSUME NEW m \in WaitList, rt_mutex_release(m) PROVE InheritInv'
  <2>1. /\ At("run") /\ me # Idle /\ me \in Thread /\ flag' = flag /\ mtx[m].owner = me
    BY <1>7, CallerOut DEF rt_mutex_release, Calls
  <2>2. /\ Sound(Restore(m)) /\ Alike(Restore(m), k)
        /\ Restore(m).prio = [k.prio EXCEPT ![me] = mtx[m].original_priority]
    BY <2>1, RestoreStill
  <2>3. CASE mtx' = [mtx EXCEPT ![m].hold = @ - 1] /\ UNCHANGED <<k, pc>>
    <3>1. \A n \in WaitList : /\ mtx'[n].owner = mtx[n].owner
                              /\ mtx'[n].original_priority = mtx[n].original_priority
      BY <1>2, <2>3 DEF MutTypes
    <3>2. \A u \in Thread, n \in WaitList : Inside(u, n)' => Inside(u, n)
      BY <2>3 DEF Inside
    <3> QED
      BY <1>1, <2>1, <2>3, <3>1, <3>2, NoHandInherit
  <2>4. CASE /\ mtx[m].hold = 1 /\ k.wait[m] # <<>>
             /\ mtx' = [Take(m, Restore(m).wait[m][1], Restore(m)) EXCEPT ![m].hold = 1]
             /\ k' = rt_ipc_list_resume(Restore(m), m)
             /\ Goto("sched", m)
    <3> DEFINE x == Restore(m)
               t == k.wait[m][1]
    <3>1. x.wait[m][1] = t
      BY <2>2 DEF Alike
    <3>2. /\ Moves("sched", {m}) /\ t \in Thread /\ In(t, k.wait[m])
          /\ k'.wait = Unwait(k, t) /\ k'.prio = x.prio
      BY <2>1, <2>2, <2>4, ResumeFromStep
    <3>3. mtx' = Put(m, mtx[m].value, x.wait[m][1], x.prio[x.wait[m][1]], 1)
      BY <1>2, <2>4, TakeSet
    <3>4. /\ mtx'[m].owner = t /\ mtx'[m].original_priority = k'.prio[t]
          /\ \A n \in WaitList : n # m => mtx'[n] = mtx[n]
      BY <1>2, <3>1, <3>2, <3>3 DEF Put, MutexRecord, MutTypes
    <3>5. \A u \in Thread, n \in WaitList : Inside(u, n)' <=> Inside(u, n)
      BY <2>1, <3>2, CallerOut DEF Moves, Inside
    <3>6. \A u \in Thread, n \in WaitList : In(u, k'.wait[n]) => In(u, k.wait[n])
      BY <1>1, <3>2, UnwaitIn
    <3>7. \A n \in WaitList : k'.wait[n] \in Seq(Thread) /\ Ordered(k'.wait[n], k.prio)
      BY <1>1, <3>2, WithoutType, WithoutOrdered DEF Unwait
    <3>8. \A u \in Thread : In(u, k'.wait[m]) => k.prio[t] <= k.prio[u]
      <4> SUFFICES ASSUME NEW u \in Thread, In(u, k.wait[m])
                   PROVE  k.prio[t] <= k.prio[u]
        BY <3>6
      <4>1. PICK i \in DOMAIN k.wait[m] : k.wait[m][i] = u
        BY DEF In
      <4>2. k.wait[m] \in Seq(Thread) /\ Ordered(k.wait[m], k.prio)
        BY <1>1
      <4>3. i = 1 \/ 1 < i
        BY <4>1, <4>2
      <4>4. k.prio[u] \in Nat
        BY <1>1, PriorityNumbers
      <4> QED
        BY <4>1, <4>2, <4>3, <4>4 DEF Ordered
    <3>9. k'.prio = [k.prio EXCEPT ![me] = mtx[m].original_priority]
      BY <2>2, <3>2
    <3> HIDE DEF x, t
    <3> QED
      BY <2>1, <2>4, <3>2, <3>4, <3>5, <3>6, <3>7, <3>8, <3>9, MutexConstants, GiveInherit
  <2>5. CASE /\ mtx[m].hold = 1 /\ k.wait[m] = <<>> /\ mtx' = [mtx EXCEPT ![m] = Free]
             /\ k' = Restore(m) /\ UNCHANGED pc
    <3>1. k'.wait = k.wait /\ k'.prio = [k.prio EXCEPT ![me] = mtx[m].original_priority]
      BY <2>2, <2>5 DEF Alike
    <3>2. /\ mtx'[m].owner = NoThread /\ NoThread \in Thread \cup {NoThread}
          /\ NoThread \notin Thread
          /\ \A n \in WaitList : n # m => mtx'[n] = mtx[n]
      BY <1>2, <2>5, MutexConstants DEF Free, MutTypes
    <3>3. \A u \in Thread, n \in WaitList : Inside(u, n)' <=> Inside(u, n)
      BY <2>5 DEF Inside
    <3> QED
      BY <1>1, <2>1, <2>5, <3>1, <3>2, <3>3, GiveInherit
  <2> QED
    BY <1>7, <2>3, <2>4, <2>5 DEF rt_mutex_release
<1>8. ASSUME NEW m \in WaitList, ReleaseByOther(m) PROVE InheritInv'
  <2>1. /\ At("run") /\ "ERROR" \in Error /\ k' = [k EXCEPT !.error[me] = "ERROR"] /\ pc' = pc
        /\ UNCHANGED own
    BY <1>8 DEF ReleaseByOther, Calls, Error
  <2>2. k'.wait = k.wait /\ k'.prio = k.prio
    BY <2>1, ErrorStep
  <2>3. \A u \in Thread, n \in WaitList : Inside(u, n)' => Inside(u, n)
    BY <2>1 DEF Inside
  <2> QED
    BY <1>3, <2>1, <2>2, <2>3
<1>9. CASE Sleep \/ CallEnd \/ Interrupt
  <2>1. UNCHANGED own /\ k'.wait = k.wait /\ k'.prio = k.prio
    BY <1>9, SleepStep, BlockScheduleStep, ScheduleStep, SleepReturnStep, TickStep, TickEndStep
       DEF Sleep, CallEnd, Interrupt, Quiet
  <2>2. \/ Moves("block", {}) \/ (Moves("woken", pc[me].on) /\ pc[me].op = "block")
        \/ Moves("run", {}) \/ pc' = pc
    BY <1>9, SleepStep, BlockScheduleStep, ScheduleStep, SleepReturnStep, TickStep, TickEndStep
       DEF Sleep, CallEnd, Interrupt
  <2>3. \A u \in Thread, n \in WaitList : Inside(u, n)' => Inside(u, n)
    BY <2>2 DEF Moves, Inside
  <2> QED
    BY <1>3, <2>1, <2>3
<1>10. ASSUME NEW t \in Thread, Expire(t) PROVE InheritInv'
  <2>1. pc' = pc /\ k'.wait = Unwait(k, t) /\ k'.prio = k.prio /\ UNCHANGED own
    BY <1>10, TimeoutStep DEF Expire
  <2>2. \A u \in Thread, n \in WaitList : Inside(u, n)' => Inside(u, n)
    BY <2>1 DEF Inside
  <2>3. \A u \in Thread, n \in WaitList : In(u, k'.wait[n]) => In(u, k.wait[n])
    BY <1>1, <2>1, UnwaitIn
  <2>4. \A n \in WaitList : Ordered(k'.wait[n], k.prio)
    BY <1>1, <2>1, WithoutOrdered DEF Unwait
  <2> QED
    BY <2>1, <2>2, <2>3, <2>4, NoHandInherit DEF own
<1> QED
  BY <1>4, <1>5, <1>6, <1>7, <1>8, <1>9, <1>10 DEF Next

(* When the scheduler starts nobody owns a mutex. *)
LEMMA InheritStart ==
  ASSUME "fifo" \notin Relaxed, Init
  PROVE  InheritInv
<1>1. /\ \A w \in WaitList : k.wait[w] = <<>>
      /\ pc = [t \in Thread |-> [op |-> "run", on |-> {}]]
      /\ k.prio = [t \in Thread |-> init_priority(t)]
  BY StartSound DEF Init
<1>2. flag = "PRIO" /\ \A m \in WaitList : mtx[m].owner = NoThread
  BY DEF Init, Free
<1>3. \A t \in Thread, m \in WaitList : ~Inside(t, m) /\ ~In(t, k.wait[m])
  BY <1>1 DEF Inside, In
<1>4. Sorted
  BY <1>1 DEF Sorted, Ordered
<1> QED
  BY <1>1, <1>2, <1>3, <1>4, MutexConstants
     DEF InheritInv, OwnsOne, WaitsOwningNone, Originals, Raised, InheritanceEnds

(* ... so it always holds under the rules of use. *)
LEMMA InheritInvariant ==
  ASSUME "nested" \notin Relaxed, "fifo" \notin Relaxed
  PROVE  Spec => [](IpcInv /\ MutInv /\ InheritInv)
<1>1. Init => IpcInv /\ MutInv /\ InheritInv
  BY MutStart, InheritStart
<1>2. IpcInv /\ MutInv /\ InheritInv /\ [Next]_vars => IpcInv' /\ MutInv' /\ InheritInv'
  BY MutStep, InheritStep
<1> QED
  BY <1>1, <1>2, PTL DEF Spec

(* Priority inheritance of rt_mutex_take: whoever owns a mutex has at      *)
(* least the priority of every thread that waits for it.                   *)
THEOREM MutInherited ==
  ASSUME "nested" \notin Relaxed, "fifo" \notin Relaxed
  PROVE  Spec => []Inherited
<1>1. IpcInv /\ InheritInv => Inherited
  BY RaisedInherited DEF InheritInv
<1> QED
  BY <1>1, InheritInvariant, PTL

(* ... and rt_mutex_release takes the inherited priority back: a thread    *)
(* that owns no mutex has the priority it was created with.                *)
THEOREM MutInheritanceEnds ==
  ASSUME "nested" \notin Relaxed, "fifo" \notin Relaxed
  PROVE  Spec => []InheritanceEnds
<1>1. InheritInv => InheritanceEnds
  BY DEF InheritInv
<1> QED
  BY <1>1, InheritInvariant, PTL

=============================================================================
