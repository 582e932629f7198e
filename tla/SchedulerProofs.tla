-------------------------- MODULE SchedulerProofs ---------------------------
(***************************************************************************)
(* Proofs about the thread API of Scheduler, for any number of threads and *)
(* priorities and any time slice.  The inductive invariant Inv states the  *)
(* ready queue once in terms of membership (Queue), and adds what a call   *)
(* still relies on after it has enabled interrupts (CallInv): without the  *)
(* latter no second half of a call preserves the queue.                    *)
(*                                                                         *)
(* The module goes from the invariant to one lemma XInv per action X, and  *)
(* ends with the theorems.  What the operators of RtKernel do is in        *)
(* KernelLemmas.                                                           *)
(***************************************************************************)
EXTENDS Scheduler, KernelLemmas

(* The inductive invariant *)

Off == {t \in Thread : BeingDeleted(t)}

Inv == TypeOK /\ Queue(k, Off) /\ TimeoutOnlySuspended /\ CallInv

(* What every step needs of the invariant: the idle thread is ready, the   *)
(* running thread is on the processor by right, and threads that are not   *)
(* READY are off the ready lists.                                          *)
LEMMA Basics ==
  ASSUME Inv
  PROVE  /\ me \in Thread \ Off
         /\ Idle \in Thread \ Off /\ k.stat[Idle] = "READY"
         /\ \A t \in Thread : k.stat[t] # "CLOSE" => ~In(t, k.defunct)
         /\ \A t \in Thread : k.stat[t] # "READY" => OffLists(k, t)
         /\ k \in KernelState /\ Queue(k, Off)
         /\ \A o \in Op \ {"sched", "sleep", "exit"} : At(o) => k.stat[me] = "READY"
<1>1. me \in Thread /\ Idle \in Thread /\ k.stat[Idle] = "READY" /\ k \in KernelState /\ Queue(k, Off)
  BY SchedulerAssumption DEF Inv, TypeOK, CallInv, CurrentOK, IdleOK, me
<1>2. ASSUME NEW t \in Off PROVE t # me /\ t # Idle
  <2>1. PICK u \in Thread : pc[u] = [op |-> "delete", arg |-> t]
    BY <1>2 DEF Off, BeingDeleted
  <2>2. Pending(u) /\ pc[u].op = "delete" /\ pc[u].arg = t
    BY <2>1 DEF Inv, CallInv
  <2> QED
    BY <2>2 DEF Pending, me
<1>3. \A t \in Thread : k.stat[t] # "CLOSE" => ~In(t, k.defunct)
  BY DEF Inv, CallInv, DefunctOK, In
<1>4. \A t \in Thread : k.stat[t] # "READY" => OffLists(k, t)
  BY <1>1 DEF Queue, OffLists
<1>5. \A o \in Op \ {"sched", "sleep", "exit"} : At(o) => k.stat[me] = "READY"
  BY DEF Inv, CallInv, CurrentOK, At, me
<1> QED
  BY <1>1, <1>2, <1>3, <1>4, <1>5

(* Off changes only with a program counter at "delete". *)
LEMMA OffSame ==
  ASSUME TypeOK, NEW m \in Thread, NEW o \in Op \ {"delete"}, NEW a \in Thread,
         pc' = [pc EXCEPT ![m] = [op |-> o, arg |-> a]], pc[m].op # "delete"
  PROVE  Off' = Off
<1>1. \A u \in Thread : u # m => pc'[u] = pc[u]
  BY DEF TypeOK
<1>2. pc'[m].op = o /\ pc'[m].arg = a
  BY DEF TypeOK
<1> QED
  BY <1>1, <1>2 DEF Off, BeingDeleted

(* The check of rt_thread_resume preserves the invariant.                  *)
LEMMA ResumeInv ==
  ASSUME Inv, Relaxed = {}, NEW t \in Thread, Resume(t) PROVE Inv'
<1>1. me \in Thread \ {Idle} /\ pc[me].op = "run" /\ k.stat[me] = "READY" /\ t # me
  BY Basics DEF Resume, Calls, At, Op
<1>2. k' = k /\ pc' = [pc EXCEPT ![me] = [op |-> "resume", arg |-> t]]
  BY DEF Resume, Goto
<1>3. t # Idle /\ t \notin k.timer /\ Alone(t) /\ k.stat[t] = "SUSPEND"
  BY DEF Resume, MayManage
<1>4. Off' = Off
  BY <1>1, <1>2, OffSame DEF Inv, Op
<1>5. TypeOK'
  BY <1>1, <1>2 DEF Resume, Inv, TypeOK, Op
<1>6. ASSUME NEW u \in Thread PROVE Pending(u)'
  BY <1>1, <1>2, <1>3 DEF Inv, CallInv, TypeOK, Pending, Alone, me
<1>7. Queue(k, Off)'
  BY <1>2, <1>4 DEF Inv
<1>8. (MaskOK /\ DefunctOK /\ TimeoutOnlySuspended)'
  BY <1>2 DEF Inv, CallInv, MaskOK, DefunctOK, TimeoutOnlySuspended
<1>9. (IdleOK /\ CurrentOK /\ LockOK)'
  BY <1>1, <1>2 DEF Inv, CallInv, TypeOK, IdleOK, CurrentOK, LockOK, me
<1> QED
  BY <1>5, <1>6, <1>7, <1>8, <1>9 DEF Inv, CallInv

(* rt_thread_init and rt_thread_create preserve the invariant, whatever    *)
(* number_mask holds.                                                      *)
LEMMA CreateInv ==
  ASSUME Inv, Relaxed = {}, NEW t \in Thread \ {Idle}, NEW p \in Priority, Create(t, p) PROVE Inv'
<1>1. me \in Thread \ {Idle} /\ pc[me].op = "run" /\ k.stat[me] = "READY"
  BY Basics DEF Create, Calls, At, Op
<1>2. /\ k.stat[t] \in {"FREE", "CLOSE"} /\ ~In(t, k.defunct) /\ t # me
      /\ \A u \in Thread \ {t} : pc[u].arg # t
  BY <1>1, Basics DEF Create
<1>3. PICK m \in SUBSET Priority :
        k' = [k EXCEPT !.stat[t] = "INIT", !.prio[t] = p, !.mask[t] = m,
                       !.error[t] = "EOK", !.slice[t] = INIT_TICK]
  <2>1. k.mask[t] \in SUBSET Priority
    BY DEF Inv, TypeOK, KernelState
  <2> QED
    BY <2>1 DEF Create
<1>4. INIT_TICK \in 1 .. INIT_TICK
  BY KernelAssumption
<1>5. /\ k' \in KernelState /\ k'.ready = k.ready /\ k'.group = k.group
      /\ k'.stat = [k.stat EXCEPT ![t] = "INIT"] /\ k'.prio = [k.prio EXCEPT ![t] = p]
      /\ k'.mask = [k.mask EXCEPT ![t] = m] /\ k'.defunct = k.defunct
      /\ k'.timer = k.timer /\ k'.current = k.current /\ k'.nest = k.nest
  BY <1>3, <1>4 DEF Inv, TypeOK, KernelState, Stat, Error
<1>6. /\ k'.stat[t] = "INIT" /\ \A u \in Thread \ {t} : k'.stat[u] = k.stat[u]
      /\ \A u \in Thread \ {t} : k'.prio[u] = k.prio[u] /\ k'.mask[u] = k.mask[u]
  BY <1>5 DEF Inv, TypeOK, KernelState
<1>7. pc' = [pc EXCEPT ![t] = [op |-> "run", arg |-> t]]
  BY DEF Create
<1>8. pc[t].op # "delete"
  BY <1>2 DEF Inv, CallInv, Pending
<1>9. Off' = Off
  BY <1>7, <1>8, OffSame DEF Inv, Op
<1>10. TypeOK'
  BY <1>5, <1>7 DEF Create, Inv, TypeOK, Op
<1>11. Queue(k, Off)'
  BY <1>2, <1>5, <1>6, <1>9 DEF Inv, Queue
<1>12. ASSUME NEW u \in Thread PROVE Pending(u)'
  BY <1>1, <1>2, <1>5, <1>6, <1>7 DEF Inv, CallInv, TypeOK, Pending, me
<1>13. (MaskOK /\ DefunctOK /\ TimeoutOnlySuspended)'
  <2>1. MaskOK'
    BY <1>2, <1>5, <1>6 DEF Inv, CallInv, MaskOK
  <2>2. DefunctOK'
    <3>1. \A i \in DOMAIN k.defunct : k.defunct[i] \in Thread \ {t}
      BY <1>2, <1>5, <1>6 DEF Inv, TypeOK, KernelState, In
    <3> QED
      BY <3>1, <1>2, <1>5, <1>6 DEF Inv, CallInv, DefunctOK
  <2>3. TimeoutOnlySuspended'
    <3>1. k.timer \subseteq Thread
      BY DEF Inv, TypeOK, KernelState
    <3> QED
      BY <3>1, <1>2, <1>5, <1>6 DEF Inv, TimeoutOnlySuspended
  <2> QED
    BY <2>1, <2>2, <2>3
<1>14. (IdleOK /\ CurrentOK /\ LockOK)'
  BY <1>1, <1>2, <1>5, <1>6, <1>7, SchedulerAssumption
     DEF Inv, CallInv, TypeOK, IdleOK, CurrentOK, LockOK, me
<1> QED
  BY <1>10, <1>11, <1>12, <1>13, <1>14 DEF Inv, CallInv

(* What the rules of use say of a thread that is managed by another.       *)
LEMMA ManageFacts ==
  ASSUME Inv, Relaxed = {}, NEW t \in Thread, MayManage(t)
  PROVE  /\ t # Idle /\ t \notin k.timer /\ t \notin Off
         /\ pc[t].arg = t /\ \A u \in Thread \ {t} : pc[u].arg # t
<1>1. /\ t # Idle /\ t \notin k.timer
      /\ pc[t].arg = t /\ \A u \in Thread \ {t} : pc[u].arg # t
  BY DEF MayManage, Alone
<1>2. t \notin Off
  BY <1>1 DEF Off, BeingDeleted, Inv, CallInv, Pending
<1> QED
  BY <1>1, <1>2

(* rt_thread_control preserves the invariant.                              *)
LEMMA ControlInv ==
  ASSUME Inv, Relaxed = {}, NEW t \in Thread, NEW p \in Priority, Control(t, p) PROVE Inv'
<1>1. me \in Thread /\ k' = rt_thread_control(k, t, p) /\ pc' = pc /\ init_priority' = init_priority
  BY DEF Control, Calls, At
<1>2. t # Idle /\ t \notin Off
  BY ManageFacts DEF Control
<1>3. k.stat[t] = "READY" => k.mask[t] = {k.prio[t]} /\ ~In(t, k.defunct)
  BY Basics DEF Inv, CallInv, MaskOK
<1>4. /\ k' \in KernelState /\ SameRest(k', k) /\ Queue(k', Off)
      /\ k'.stat = k.stat /\ k'.timer = k.timer
      /\ k'.prio = [k.prio EXCEPT ![t] = p] /\ k'.mask = [k.mask EXCEPT ![t] = {p}]
  BY <1>1, <1>2, <1>3, Basics, ControlFields
<1>5. /\ k'.prio[t] = p /\ k'.mask[t] = {p}
      /\ \A u \in Thread \ {t} : k'.prio[u] = k.prio[u] /\ k'.mask[u] = k.mask[u]
  BY <1>4 DEF Inv, TypeOK, KernelState
<1>6. Off' = Off
  BY <1>1 DEF Off, BeingDeleted
<1>7. TypeOK'
  BY <1>1, <1>4 DEF Inv, TypeOK
<1>8. Queue(k, Off)'
  BY <1>4, <1>6
<1>9. ASSUME NEW u \in Thread PROVE Pending(u)'
  <2>1. pc[u].op = "delete" => pc[u].arg \in Off /\ pc[u].arg \in Thread
    BY DEF Off, BeingDeleted, Inv, TypeOK
  <2>2. pc[u].op = "delete" => \A q \in Priority : ~In(pc[u].arg, k'.ready[q])
    BY <1>4, <2>1 DEF Queue
  <2> QED
    BY <1>1, <1>4, <2>2 DEF Inv, CallInv, TypeOK, Pending, SameRest
<1>10. (MaskOK /\ DefunctOK /\ TimeoutOnlySuspended)'
  BY <1>4, <1>5 DEF Inv, CallInv, MaskOK, DefunctOK, TimeoutOnlySuspended, SameRest
<1>11. (IdleOK /\ CurrentOK /\ LockOK)'
  BY <1>1, <1>2, <1>4, <1>5, SchedulerAssumption DEF Inv, CallInv, IdleOK, CurrentOK, LockOK, SameRest
<1> QED
  BY <1>7, <1>8, <1>9, <1>10, <1>11 DEF Inv, CallInv

(* rt_thread_startup, up to the first section of its resume, preserves     *)
(* the invariant.                                                          *)
LEMMA StartupInv ==
  ASSUME Inv, Relaxed = {}, NEW t \in Thread, Startup(t) PROVE Inv'
<1> DEFINE y == [k EXCEPT !.prio[t] = init_priority[t], !.mask[t] = {init_priority[t]},
                          !.stat[t] = "SUSPEND"]
<1>1. me \in Thread \ {Idle} /\ pc[me].op = "run" /\ k.stat[me] = "READY" /\ t # me
  BY Basics DEF Startup, Calls, At, Op
<1>2. /\ t # Idle /\ t \notin k.timer /\ t \notin Off
      /\ pc[t].arg = t /\ \A u \in Thread \ {t} : pc[u].arg # t
  BY ManageFacts DEF Startup
<1>3. /\ y \in KernelState /\ y.ready = k.ready /\ y.group = k.group
      /\ y.stat = [k.stat EXCEPT ![t] = "SUSPEND"]
      /\ y.prio = [k.prio EXCEPT ![t] = init_priority[t]]
      /\ y.mask = [k.mask EXCEPT ![t] = {init_priority[t]}] /\ y.defunct = k.defunct
      /\ y.timer = k.timer /\ y.current = k.current /\ y.nest = k.nest
  <2>1. k \in KernelState /\ init_priority[t] \in Priority
    BY DEF Inv, TypeOK
  <2> QED
    BY <2>1 DEF KernelState, Stat
<1>4. k' = Unlink(y, t)
  BY DEF Startup
<1>5. k.stat[t] = "INIT" /\ OffLists(k, t) /\ ~In(t, k.defunct)
  BY Basics DEF Startup
<1> HIDE DEF y
<1>6. OffLists(y, t) /\ ~In(t, y.defunct)
  BY <1>3, <1>5 DEF OffLists
<1>7. /\ k' \in KernelState /\ SameRest(k', y)
      /\ k'.ready = y.ready /\ k'.group = y.group
      /\ k'.stat = y.stat /\ k'.prio = y.prio /\ k'.mask = y.mask
      /\ k'.timer = y.timer \ {t}
  BY <1>3, <1>4, <1>6, UnlinkFields
<1>8. /\ k'.ready = k.ready /\ k'.group = k.group /\ k'.defunct = k.defunct
      /\ k'.timer = k.timer /\ k'.current = k.current /\ k'.nest = k.nest
      /\ k'.stat[t] = "SUSPEND" /\ k'.mask[t] = {k'.prio[t]}
      /\ \A u \in Thread \ {t} : /\ k'.stat[u] = k.stat[u]
                                 /\ k'.prio[u] = k.prio[u] /\ k'.mask[u] = k.mask[u]
  BY <1>2, <1>3, <1>7 DEF Inv, TypeOK, KernelState, SameRest
<1>9. pc' = [pc EXCEPT ![me] = [op |-> "startup", arg |-> t]] /\ init_priority' = init_priority
  BY DEF Startup, Goto
<1>10. Off' = Off
  BY <1>1, <1>9, OffSame DEF Inv, Op
<1>11. TypeOK'
  BY <1>1, <1>7, <1>9 DEF Inv, TypeOK, Op
<1>12. Queue(k, Off)'
  BY <1>5, <1>8, <1>10 DEF Inv, Queue
<1>13. ASSUME NEW u \in Thread PROVE Pending(u)'
  BY <1>1, <1>2, <1>5, <1>8, <1>9 DEF Inv, CallInv, TypeOK, Pending, me
<1>14. (MaskOK /\ DefunctOK /\ TimeoutOnlySuspended)'
  <2>1. MaskOK'
    BY <1>2, <1>5, <1>8 DEF Inv, CallInv, MaskOK
  <2>2. DefunctOK'
    <3>1. \A i \in DOMAIN k.defunct : k.defunct[i] \in Thread \ {t}
      BY <1>2, <1>5, <1>8 DEF Inv, TypeOK, KernelState, In
    <3> QED
      BY <3>1, <1>2, <1>5, <1>8 DEF Inv, CallInv, DefunctOK
  <2>3. TimeoutOnlySuspended'
    <3>1. k.timer \subseteq Thread
      BY DEF Inv, TypeOK, KernelState
    <3> QED
      BY <3>1, <1>2, <1>5, <1>8 DEF Inv, TimeoutOnlySuspended
  <2> QED
    BY <2>1, <2>2, <2>3
<1>15. (IdleOK /\ CurrentOK /\ LockOK)'
  BY <1>1, <1>2, <1>8, <1>9, SchedulerAssumption
     DEF Inv, CallInv, TypeOK, IdleOK, CurrentOK, LockOK, me
<1> QED
  BY <1>11, <1>12, <1>13, <1>14, <1>15 DEF Inv, CallInv

(* DefunctOK of kernel state x, by membership. *)
Defunct(x) == Once(x.defunct) /\ \A t \in Thread : In(t, x.defunct) => x.stat[t] = "CLOSE"

(* DefunctOK in terms of Once and In.                                      *)
LEMMA DefunctIs ==
  ASSUME k \in KernelState PROVE DefunctOK <=> Defunct(k)
<1>1. \A i \in DOMAIN k.defunct : k.defunct[i] \in Thread
  BY DEF KernelState
<1> QED
  BY <1>1 DEF DefunctOK, Defunct, Once, In

(* The same in the next state.                                             *)
LEMMA DefunctIsNext ==
  ASSUME k' \in KernelState PROVE DefunctOK' <=> Defunct(k')
<1>1. \A i \in DOMAIN k'.defunct : k'.defunct[i] \in Thread
  BY DEF KernelState
<1> QED
  BY <1>1 DEF DefunctOK, Defunct, Once, In

(* The arguments of the pending calls that are about another thread. *)
LEMMA PendingFacts ==
  ASSUME Inv, NEW u \in Thread, pc[u].arg # u
  PROVE  /\ pc[u].arg \in Thread \ {Idle} /\ pc[u].arg # k.current
         /\ pc[u].arg \notin k.timer
         /\ \A v \in Thread \ {u} : v # pc[u].arg => pc[v].arg # pc[u].arg
         /\ pc[pc[u].arg].arg = pc[u].arg
         /\ k.stat[u] = "READY"
         /\ pc[u].op # "delete" => pc[u].arg \notin Off
         /\ pc[u].op = "delete" => pc[u].arg \in Off
<1>1. /\ pc[u].arg \in Thread \ {Idle} /\ pc[u].arg # k.current
      /\ pc[u].arg \notin k.timer
      /\ \A v \in Thread \ {u} : v # pc[u].arg => pc[v].arg # pc[u].arg
      /\ pc[pc[u].arg].arg = pc[u].arg
      /\ k.stat[u] = "READY"
  BY DEF Inv, TypeOK, CallInv, Pending
<1>2. pc[u].op = "delete" => pc[u].arg \in Off
  BY <1>1 DEF Off, BeingDeleted, Inv, TypeOK
<1>3. ASSUME pc[u].op # "delete", pc[u].arg \in Off PROVE FALSE
  <2>1. PICK v \in Thread : pc[v] = [op |-> "delete", arg |-> pc[u].arg]
    BY <1>3 DEF Off, BeingDeleted
  <2>2. v # u /\ pc[v].arg = pc[u].arg /\ pc[v].op = "delete"
    BY <1>3, <2>1
  <2>3. Pending(v)
    BY DEF Inv, CallInv
  <2> QED
    BY <1>1, <2>2, <2>3 DEF Pending
<1> QED
  BY <1>1, <1>2, <1>3

(* A thread being deleted is on no ready list. *)
LEMMA DeleteOff ==
  ASSUME TypeOK', Queue(k, Off)', NEW u \in Thread, pc'[u].op = "delete"
  PROVE  \A q \in Priority : ~In(pc'[u].arg, k'.ready[q])
<1>1. pc'[u].arg \in Off' /\ pc'[u].arg \in Thread
  BY DEF Off, BeingDeleted, TypeOK
<1> QED
  BY <1>1 DEF Queue

(* The first section of rt_thread_resume preserves the invariant.          *)
LEMMA ResumeUnlinkInv ==
  ASSUME Inv, ResumeUnlink PROVE Inv'
<1> DEFINE t == pc[me].arg
<1>1. me \in Thread \ {Idle} /\ pc[me].op = "resume" /\ k.stat[me] = "READY"
  BY Basics DEF ResumeUnlink, At, Op, Inv, CallInv, IdleOK
<1>2. t # me /\ k.stat[t] = "SUSPEND"
  BY <1>1 DEF Inv, CallInv, Pending
<1>3. /\ t \in Thread \ {Idle} /\ t \notin k.timer /\ t \notin Off /\ pc[t].arg = t
      /\ \A v \in Thread \ {me} : v # t => pc[v].arg # t
  BY <1>1, <1>2, PendingFacts
<1>4. k' = Unlink(k, t) /\ init_priority' = init_priority
  BY DEF ResumeUnlink
<1>5. OffLists(k, t) /\ ~In(t, k.defunct) /\ k \in KernelState
  BY <1>2, <1>3, Basics
<1>6. pc' = [pc EXCEPT ![me] = [op |-> "insert", arg |-> t]]
  BY DEF ResumeUnlink, Goto
<1> HIDE DEF t
<1>7. /\ k' \in KernelState /\ SameRest(k', k)
      /\ k'.ready = k.ready /\ k'.group = k.group
      /\ k'.stat = k.stat /\ k'.prio = k.prio /\ k'.mask = k.mask
      /\ k'.timer = k.timer
  <2>1. k.timer \ {t} = k.timer
    BY <1>3
  <2> QED
    BY <1>3, <1>4, <1>5, <2>1, UnlinkFields
<1>8. Off' = Off
  BY <1>1, <1>3, <1>6, OffSame DEF Inv, Op
<1>9. TypeOK'
  BY <1>1, <1>3, <1>4, <1>6, <1>7 DEF Inv, TypeOK, Op
<1>10. Queue(k, Off)'
  BY <1>7, <1>8 DEF Inv, Queue
<1>11. ASSUME NEW u \in Thread PROVE Pending(u)'
  BY <1>1, <1>2, <1>3, <1>6, <1>7 DEF Inv, CallInv, TypeOK, Pending, SameRest, me
<1>12. (MaskOK /\ DefunctOK /\ TimeoutOnlySuspended)'
  BY <1>7 DEF Inv, CallInv, MaskOK, DefunctOK, TimeoutOnlySuspended, SameRest
<1>13. (IdleOK /\ CurrentOK /\ LockOK)'
  BY <1>1, <1>6, <1>7, SchedulerAssumption
     DEF Inv, CallInv, TypeOK, IdleOK, CurrentOK, LockOK, SameRest, me
<1> QED
  BY <1>9, <1>10, <1>11, <1>12, <1>13 DEF Inv, CallInv

(* The insertion at the end of rt_thread_resume preserves the invariant.   *)
LEMMA ResumeInsertInv ==
  ASSUME Inv, ResumeInsert PROVE Inv'
<1> DEFINE t == pc[me].arg
<1>1. me \in Thread \ {Idle} /\ pc[me].op \in {"insert", "startup"} /\ k.stat[me] = "READY"
  BY Basics DEF ResumeInsert, At, Op, Inv, CallInv, IdleOK
<1>2. t # me /\ k.stat[t] = "SUSPEND"
  BY <1>1 DEF Inv, CallInv, Pending
<1>3. /\ t \in Thread \ {Idle} /\ t \notin k.timer /\ t \notin Off /\ pc[t].arg = t
      /\ \A v \in Thread \ {me} : v # t => pc[v].arg # t
  BY <1>1, <1>2, PendingFacts
<1>4. k' = rt_schedule_insert_thread(k, t) /\ init_priority' = init_priority
  BY DEF ResumeInsert
<1>5. OffLists(k, t) /\ ~In(t, k.defunct) /\ k \in KernelState /\ Queue(k, Off)
  BY <1>2, <1>3, Basics
<1>6. PICK o \in {"sched", "run"} : pc' = [pc EXCEPT ![me] = [op |-> o, arg |-> me]]
  BY DEF ResumeInsert, Goto, Return
<1> HIDE DEF t
<1>7. /\ k' \in KernelState /\ SameRest(k', k) /\ k'.stat = [k.stat EXCEPT ![t] = "READY"]
      /\ k'.prio = k.prio /\ k'.mask = k.mask /\ k'.timer = k.timer
  BY <1>3, <1>4, <1>5, InsertFields DEF SameRest
<1>8. k'.stat[t] = "READY" /\ \A u \in Thread \ {t} : k'.stat[u] = k.stat[u]
  BY <1>3, <1>5, <1>7 DEF KernelState
<1>9. Off' = Off
  BY <1>1, <1>3, <1>6, OffSame DEF Inv, Op
<1>10. Queue(k, Off)'
  <2>1. k.mask[t] = {k.prio[t]}
    BY <1>2, <1>3 DEF Inv, CallInv, MaskOK
  <2>2. Queue(k', Off \ {t})
    BY <1>3, <1>4, <1>5, <2>1, InsertQueue DEF OffLists
  <2>3. Off \ {t} = Off
    BY <1>3
  <2> QED
    BY <1>9, <2>2, <2>3
<1>11. TypeOK'
  BY <1>1, <1>4, <1>6, <1>7 DEF Inv, TypeOK, Op
<1>12. ASSUME NEW u \in Thread PROVE Pending(u)'
  BY <1>1, <1>2, <1>3, <1>6, <1>7, <1>8, <1>10, <1>11, DeleteOff
     DEF Inv, CallInv, TypeOK, Pending, SameRest, me
<1>13. (MaskOK /\ TimeoutOnlySuspended)'
  <2>1. MaskOK'
    BY <1>2, <1>3, <1>7, <1>8 DEF Inv, CallInv, MaskOK
  <2>2. k.timer \subseteq Thread
    BY DEF Inv, TypeOK, KernelState
  <2>3. TimeoutOnlySuspended'
    BY <1>3, <1>7, <1>8, <2>2 DEF Inv, TimeoutOnlySuspended
  <2> QED
    BY <2>1, <2>3
<1>14. DefunctOK'
  <2>1. Defunct(k)
    BY <1>5, DefunctIs DEF Inv, CallInv
  <2>2. Defunct(k')
    BY <1>5, <1>7, <1>8, <2>1 DEF Defunct, SameRest
  <2> QED
    BY <1>7, <2>2, DefunctIsNext
<1>15. (IdleOK /\ CurrentOK /\ LockOK)'
  BY <1>1, <1>2, <1>3, <1>6, <1>7, <1>8, SchedulerAssumption
     DEF Inv, CallInv, TypeOK, IdleOK, CurrentOK, LockOK, SameRest, me
<1> QED
  BY <1>10, <1>11, <1>12, <1>13, <1>14, <1>15 DEF Inv, CallInv

(* The check of rt_thread_suspend preserves the invariant.                 *)
LEMMA SuspendInv ==
  ASSUME Inv, Relaxed = {}, NEW t \in Thread, Suspend(t) PROVE Inv'
<1>1. me \in Thread \ {Idle} /\ pc[me].op = "run" /\ k.stat[me] = "READY"
  BY Basics DEF Suspend, Calls, At, Op
<1>2. /\ t # Idle /\ t \notin k.timer /\ t \notin Off
      /\ pc[t].arg = t /\ \A u \in Thread \ {t} : pc[u].arg # t
  BY ManageFacts DEF Suspend
<1>3. /\ k.stat[t] = "READY" /\ k.nest \in Nat
      /\ IF t = me THEN k.nest = 0 ELSE k.nest > 0
  BY DEF Suspend, MayBlock, Inv, TypeOK, KernelState
<1>4. k' = k /\ init_priority' = init_priority
      /\ pc' = [pc EXCEPT ![me] = [op |-> "suspend", arg |-> t]]
  BY DEF Suspend, Goto
<1>5. Off' = Off
  BY <1>1, <1>4, OffSame DEF Inv, Op
<1>6. TypeOK'
  BY <1>1, <1>4 DEF Inv, TypeOK, Op
<1>7. Queue(k, Off)'
  BY <1>4, <1>5 DEF Inv
<1>8. ASSUME NEW u \in Thread PROVE Pending(u)'
  BY <1>1, <1>2, <1>3, <1>4 DEF Inv, CallInv, TypeOK, Pending, me
<1>9. (MaskOK /\ DefunctOK /\ TimeoutOnlySuspended)'
  BY <1>4 DEF Inv, CallInv, MaskOK, DefunctOK, TimeoutOnlySuspended
<1>10. (IdleOK /\ CurrentOK /\ LockOK)'
  BY <1>1, <1>3, <1>4, SchedulerAssumption DEF Inv, CallInv, TypeOK, IdleOK, CurrentOK, LockOK, me
<1> QED
  BY <1>6, <1>7, <1>8, <1>9, <1>10 DEF Inv, CallInv

(* The rest of rt_thread_suspend preserves the invariant, on the checks    *)
(* made before it.                                                         *)
LEMMA SuspendUnlinkInv ==
  ASSUME Inv, SuspendUnlink PROVE Inv'
<1> DEFINE t == pc[me].arg
<1>1. me \in Thread \ {Idle} /\ pc[me].op = "suspend" /\ k.stat[me] = "READY"
  BY Basics DEF SuspendUnlink, At, Op, Inv, CallInv, IdleOK
<1>2. /\ t \in Thread \ {Idle} /\ k.stat[t] = "READY" /\ t \notin Off
      /\ \A v \in Thread \ {me} : v # t => pc[v].arg # t
  <2>1. CASE t = me
    BY <1>1, <2>1, Basics DEF Inv, CallInv, Pending, me
  <2>2. CASE t # me
    BY <1>1, <2>2, PendingFacts DEF Inv, CallInv, Pending
  <2> QED
    BY <2>1, <2>2
<1>3. k.nest \in Nat /\ (t = me => k.nest = 0)
  <2>1. pc[me] = [op |-> pc[me].op, arg |-> pc[me].arg] /\ k.nest \in Nat
    BY <1>1 DEF Inv, TypeOK, KernelState
  <2> QED
    BY <1>1, <2>1 DEF Inv, CallInv, LockOK, me
<1>4. k' = rt_thread_suspend(k, t) /\ init_priority' = init_priority
  BY DEF SuspendUnlink
<1>5. /\ k \in KernelState /\ Queue(k, Off) /\ ~In(t, k.defunct) /\ k.mask[t] = {k.prio[t]}
      /\ t \notin k.timer /\ k.timer \subseteq Thread
  BY <1>2, Basics DEF Inv, CallInv, MaskOK, TimeoutOnlySuspended, KernelState
<1>6. PICK o \in {"sched", "run"} : /\ pc' = [pc EXCEPT ![me] = [op |-> o, arg |-> me]]
                                    /\ t = me => o = "sched"
  BY DEF SuspendUnlink, Goto, Return
<1> HIDE DEF t
<1>7. /\ k' \in KernelState /\ SameRest(k', k) /\ Queue(k', Off)
      /\ k'.stat = [k.stat EXCEPT ![t] = "SUSPEND"]
      /\ k'.prio = k.prio /\ k'.mask = k.mask /\ k'.timer = k.timer
  BY <1>2, <1>4, <1>5, SuspendFields
<1>8. k'.stat[t] = "SUSPEND" /\ \A u \in Thread \ {t} : k'.stat[u] = k.stat[u]
  BY <1>2, <1>5, <1>7 DEF KernelState
<1>9. Off' = Off
  BY <1>1, <1>6, OffSame DEF Inv, Op
<1>10. Queue(k, Off)'
  BY <1>7, <1>9
<1>11. TypeOK'
  BY <1>1, <1>4, <1>6, <1>7 DEF Inv, TypeOK, Op
<1>12. ASSUME NEW u \in Thread PROVE Pending(u)'
  <2>1. t # me => pc[t].arg = t
    BY <1>1, PendingFacts DEF t
  <2> QED
    BY <1>1, <1>2, <1>6, <1>7, <1>8, <1>10, <1>11, <2>1, DeleteOff
       DEF Inv, CallInv, TypeOK, Pending, SameRest, me
<1>13. (MaskOK /\ TimeoutOnlySuspended)'
  <2>1. MaskOK'
    BY <1>2, <1>7, <1>8 DEF Inv, CallInv, MaskOK
  <2>2. TimeoutOnlySuspended'
    BY <1>5, <1>7, <1>8 DEF Inv, TimeoutOnlySuspended
  <2> QED
    BY <2>1, <2>2
<1>14. DefunctOK'
  <2>1. Defunct(k)
    BY <1>5, DefunctIs DEF Inv, CallInv
  <2>2. Defunct(k')
    BY <1>5, <1>7, <1>8, <2>1 DEF Defunct, SameRest
  <2> QED
    BY <1>7, <2>2, DefunctIsNext
<1>15. (IdleOK /\ CurrentOK /\ LockOK)'
  BY <1>1, <1>2, <1>3, <1>6, <1>7, <1>8, SchedulerAssumption
     DEF Inv, CallInv, TypeOK, IdleOK, CurrentOK, LockOK, SameRest, me
<1> QED
  BY <1>10, <1>11, <1>12, <1>13, <1>14, <1>15 DEF Inv, CallInv

(* The first section of rt_thread_delete and rt_thread_detach preserves    *)
(* the invariant.                                                          *)
LEMMA DeleteInv ==
  ASSUME Inv, Relaxed = {}, NEW t \in Thread, Delete(t) PROVE Inv'
<1>1. me \in Thread \ {Idle} /\ pc[me].op = "run" /\ k.stat[me] = "READY" /\ t # me
  BY Basics DEF Delete, Calls, At, Op
<1>2. /\ t # Idle /\ t \notin k.timer /\ t \notin Off
      /\ pc[t].arg = t /\ \A u \in Thread \ {t} : pc[u].arg # t
  BY ManageFacts DEF Delete
<1>3. k.stat[t] \in {"READY", "SUSPEND"} /\ k' = rt_schedule_remove_thread(k, t)
      /\ init_priority' = init_priority
      /\ pc' = [pc EXCEPT ![me] = [op |-> "delete", arg |-> t]]
  BY DEF Delete, Goto
<1>4. k \in KernelState /\ Queue(k, Off) /\ ~In(t, k.defunct) /\ k.mask[t] = {k.prio[t]}
  BY <1>3, Basics DEF Inv, CallInv, MaskOK
<1>5. /\ k' \in KernelState /\ SameRest(k', k)
      /\ k'.stat = k.stat /\ k'.prio = k.prio /\ k'.mask = k.mask /\ k'.timer = k.timer
  <2>1. Without(k.defunct, t) = k.defunct
    BY <1>4, WithoutAbsent
  <2> QED
    BY <1>3, <1>4, <2>1, RemoveFields DEF SameRest
<1>6. Off' = Off \cup {t}
  <2>1. pc'[me] = [op |-> "delete", arg |-> t] /\ \A u \in Thread \ {me} : pc'[u] = pc[u]
    BY <1>1, <1>3 DEF Inv, TypeOK
  <2>2. ASSUME NEW v \in Thread PROVE v \in Off' <=> v \in Off \cup {t}
    BY <1>1, <2>1 DEF Off, BeingDeleted
  <2> QED
    BY <2>2 DEF Off
<1>7. Queue(k, Off)'
  BY <1>3, <1>4, <1>6, RemoveQueue
<1>8. TypeOK'
  BY <1>1, <1>3, <1>5 DEF Inv, TypeOK, Op
<1>9. ASSUME NEW u \in Thread PROVE Pending(u)'
  BY <1>1, <1>2, <1>3, <1>5, <1>7, <1>8, DeleteOff
     DEF Inv, CallInv, TypeOK, Pending, SameRest, me
<1>10. (MaskOK /\ DefunctOK /\ TimeoutOnlySuspended)'
  BY <1>5 DEF Inv, CallInv, MaskOK, DefunctOK, TimeoutOnlySuspended, SameRest
<1>11. (IdleOK /\ CurrentOK /\ LockOK)'
  BY <1>1, <1>3, <1>5, SchedulerAssumption
     DEF Inv, CallInv, TypeOK, IdleOK, CurrentOK, LockOK, SameRest, me
<1> QED
  BY <1>7, <1>8, <1>9, <1>10, <1>11 DEF Inv, CallInv

(* Stopping the timer and marking CLOSE preserves the invariant.           *)
LEMMA DeleteCloseInv ==
  ASSUME Inv, DeleteClose PROVE Inv'
<1> DEFINE t == pc[me].arg
<1>1. me \in Thread \ {Idle} /\ pc[me].op = "delete" /\ k.stat[me] = "READY"
  BY Basics DEF DeleteClose, At, Op, Inv, CallInv, IdleOK
<1>2. /\ t # me /\ k.stat[t] \in {"READY", "SUSPEND"} /\ t \in Thread \ {Idle}
      /\ t \in Off /\ t \notin k.timer /\ pc[t].arg = t
      /\ \A v \in Thread \ {me} : v # t => pc[v].arg # t
  BY <1>1, PendingFacts DEF Inv, CallInv, Pending
<1>3. k \in KernelState /\ Queue(k, Off) /\ ~In(t, k.defunct)
  BY <1>2, Basics
<1>4. k' = [k EXCEPT !.timer = @ \ {t}, !.stat[t] = "CLOSE"] /\ init_priority' = init_priority
  BY DEF DeleteClose
<1>5. PICK o \in {"run", "defunct"}, a \in {me, t} :
        /\ pc' = [pc EXCEPT ![me] = [op |-> o, arg |-> a]]
        /\ a = IF o = "run" THEN me ELSE t
  BY DEF DeleteClose, Return, Goto
<1> HIDE DEF t
<1>6. /\ k' \in KernelState /\ SameRest(k', k) /\ k'.ready = k.ready /\ k'.group = k.group
      /\ k'.stat = [k.stat EXCEPT ![t] = "CLOSE"]
      /\ k'.prio = k.prio /\ k'.mask = k.mask /\ k'.timer = k.timer \ {t}
  BY <1>2, <1>3, <1>4 DEF KernelState, Stat, SameRest
<1>7. k'.stat[t] = "CLOSE" /\ \A u \in Thread \ {t} : k'.stat[u] = k.stat[u]
  BY <1>2, <1>3, <1>6 DEF KernelState
<1>8. /\ pc'[me].op = o /\ pc'[me].arg = a /\ \A u \in Thread \ {me} : pc'[u] = pc[u]
      /\ pc[me] = [op |-> "delete", arg |-> t]
  BY <1>1, <1>5 DEF Inv, TypeOK, t
<1>9. Off' = Off \ {t}
  <2>1. ASSUME NEW v \in Thread PROVE v \in Off' <=> v \in Off \ {t}
    <3>1. BeingDeleted(v)' <=> \E u \in Thread \ {me} : pc[u] = [op |-> "delete", arg |-> v]
      BY <1>1, <1>5, <1>8 DEF BeingDeleted
    <3>2. BeingDeleted(v) <=> v = t \/ \E u \in Thread \ {me} : pc[u] = [op |-> "delete", arg |-> v]
      BY <1>1, <1>8 DEF BeingDeleted
    <3>3. ~ \E u \in Thread \ {me} : pc[u] = [op |-> "delete", arg |-> t]
      BY <1>2 DEF Inv, CallInv, Pending
    <3> QED
      BY <3>1, <3>2, <3>3 DEF Off
  <2> QED
    BY <2>1 DEF Off
<1>10. Queue(k, Off)'
  BY <1>2, <1>3, <1>6, <1>7, <1>9 DEF Queue
<1>11. TypeOK'
  BY <1>1, <1>2, <1>4, <1>5, <1>6 DEF Inv, TypeOK, Op
<1>12. ASSUME NEW u \in Thread PROVE Pending(u)'
  BY <1>1, <1>2, <1>3, <1>5, <1>6, <1>7, <1>8 DEF Inv, CallInv, TypeOK, Pending, SameRest, me
<1>13. (MaskOK /\ TimeoutOnlySuspended)'
  <2>1. MaskOK'
    BY <1>2, <1>6, <1>7 DEF Inv, CallInv, MaskOK
  <2>2. k.timer \subseteq Thread
    BY <1>3 DEF KernelState
  <2>3. TimeoutOnlySuspended'
    BY <1>6, <1>7, <2>2 DEF Inv, TimeoutOnlySuspended
  <2> QED
    BY <2>1, <2>3
<1>14. DefunctOK'
  <2>1. Defunct(k)
    BY <1>3, DefunctIs DEF Inv, CallInv
  <2>2. Defunct(k')
    BY <1>6, <1>7, <2>1 DEF Defunct, SameRest
  <2> QED
    BY <1>6, <2>2, DefunctIsNext
<1>15. (IdleOK /\ CurrentOK /\ LockOK)'
  BY <1>1, <1>2, <1>5, <1>6, <1>7, <1>8, SchedulerAssumption
     DEF Inv, CallInv, TypeOK, IdleOK, CurrentOK, LockOK, SameRest, me
<1> QED
  BY <1>10, <1>11, <1>12, <1>13, <1>14, <1>15 DEF Inv, CallInv

(* The last section of rt_thread_delete preserves the invariant.           *)
LEMMA DeleteDefunctInv ==
  ASSUME Inv, DeleteDefunct PROVE Inv'
<1> DEFINE t == pc[me].arg
<1>1. me \in Thread \ {Idle} /\ pc[me].op = "defunct" /\ k.stat[me] = "READY"
  BY Basics DEF DeleteDefunct, At, Op, Inv, CallInv, IdleOK
<1>2. /\ t # me /\ k.stat[t] = "CLOSE" /\ ~In(t, k.defunct) /\ t \in Thread \ {Idle}
      /\ t \notin k.timer /\ pc[t].arg = t
      /\ \A v \in Thread \ {me} : v # t => pc[v].arg # t
  BY <1>1, PendingFacts DEF Inv, CallInv, Pending
<1>3. k \in KernelState /\ Queue(k, Off)
  BY Basics
<1>4. /\ k' = [k EXCEPT !.defunct = <<t>> \o @] /\ init_priority' = init_priority
      /\ pc' = [pc EXCEPT ![me] = [op |-> "run", arg |-> me]]
  BY DEF DeleteDefunct, Return
<1> HIDE DEF t
<1>5. k.defunct \in Seq(Thread)
  BY <1>3 DEF KernelState
<1>6. /\ <<t>> \o k.defunct \in Seq(Thread)
      /\ \A u \in Thread : In(u, <<t>> \o k.defunct) <=> u = t \/ In(u, k.defunct)
      /\ Once(k.defunct) => Once(<<t>> \o k.defunct)
  BY <1>2, <1>5, PrependElements
<1>7. /\ k' \in KernelState /\ k'.ready = k.ready /\ k'.group = k.group
      /\ k'.defunct = <<t>> \o k.defunct /\ k'.stat = k.stat /\ k'.prio = k.prio
      /\ k'.mask = k.mask /\ k'.timer = k.timer /\ k'.current = k.current /\ k'.nest = k.nest
  BY <1>3, <1>4, <1>6 DEF KernelState
<1>8. Off' = Off
  BY <1>1, <1>4, OffSame DEF Inv, Op
<1>9. Queue(k, Off)'
  BY <1>3, <1>7, <1>8 DEF Queue
<1>10. TypeOK'
  BY <1>1, <1>4, <1>7 DEF Inv, TypeOK, Op
<1>11. ASSUME NEW u \in Thread PROVE Pending(u)'
  <2>1. \A v \in Thread : v # t => (In(v, k'.defunct) <=> In(v, k.defunct))
    BY <1>6, <1>7
  <2> QED
    BY <1>1, <1>2, <1>4, <1>7, <2>1 DEF Inv, CallInv, TypeOK, Pending, me
<1>12. (MaskOK /\ TimeoutOnlySuspended)'
  BY <1>7 DEF Inv, CallInv, MaskOK, TimeoutOnlySuspended
<1>13. DefunctOK'
  <2>1. Defunct(k)
    BY <1>3, DefunctIs DEF Inv, CallInv
  <2>2. Defunct(k')
    BY <1>2, <1>6, <1>7, <2>1 DEF Defunct
  <2> QED
    BY <1>7, <2>2, DefunctIsNext
<1>14. (IdleOK /\ CurrentOK /\ LockOK)'
  BY <1>1, <1>4, <1>7, SchedulerAssumption
     DEF Inv, CallInv, TypeOK, IdleOK, CurrentOK, LockOK, me
<1> QED
  BY <1>9, <1>10, <1>11, <1>12, <1>13, <1>14 DEF Inv, CallInv

(* A step of the running thread that leaves every thread where it is. *)
LEMMA SelfInv ==
  ASSUME Inv, k' \in KernelState, Queue(k', Off), k'.stat = k.stat, k'.prio = k.prio,
         k'.mask = k.mask, k'.timer = k.timer, k'.defunct = k.defunct, k'.current = k.current,
         me \in Thread, k.stat[me] = "READY", pc[me].arg = me, pc[me].op # "delete",
         NEW o \in {"run", "sched"}, me = Idle => o = "run",
         pc' = [pc EXCEPT ![me] = [op |-> o, arg |-> me]], init_priority' = init_priority
  PROVE  Inv'
<1>1. Off' = Off
  BY OffSame DEF Inv, Op
<1>2. Queue(k, Off)'
  BY <1>1
<1>3. TypeOK'
  BY DEF Inv, TypeOK, Op
<1>4. ASSUME NEW u \in Thread PROVE Pending(u)'
  BY <1>2, <1>3, DeleteOff DEF Inv, CallInv, TypeOK, Pending, me
<1>5. (MaskOK /\ DefunctOK /\ TimeoutOnlySuspended)'
  BY DEF Inv, CallInv, MaskOK, DefunctOK, TimeoutOnlySuspended
<1>6. (IdleOK /\ CurrentOK /\ LockOK)'
  BY SchedulerAssumption DEF Inv, CallInv, TypeOK, IdleOK, CurrentOK, LockOK, me
<1> QED
  BY <1>2, <1>3, <1>4, <1>5, <1>6 DEF Inv, CallInv

(* rt_thread_yield preserves the invariant.                                *)
LEMMA YieldInv ==
  ASSUME Inv, Yield PROVE Inv'
<1>1. /\ me \in Thread \ {Idle} /\ pc[me].op = "run" /\ k.stat[me] = "READY" /\ me \notin Off
      /\ ~In(me, k.defunct) /\ k \in KernelState /\ Queue(k, Off)
  BY Basics DEF Yield, Calls, At, Op
<1>2. pc[me].arg = me /\ k.mask[me] = {k.prio[me]}
  BY <1>1 DEF Inv, CallInv, Pending, MaskOK
<1>3. /\ k' = Requeue(k, me) /\ init_priority' = init_priority
      /\ pc' = [pc EXCEPT ![me] = [op |-> "sched", arg |-> me]]
  BY DEF Yield, Goto
<1>4. /\ k' \in KernelState /\ SameRest(k', k) /\ Queue(k', Off)
      /\ k'.stat = k.stat /\ k'.timer = k.timer /\ k'.prio = k.prio /\ k'.mask = k.mask
  BY <1>1, <1>2, <1>3, RequeueFields
<1> QED
  BY <1>1, <1>2, <1>3, <1>4, SelfInv DEF SameRest

(* The end of rt_thread_sleep preserves the invariant.                     *)
LEMMA SleepReturnInv ==
  ASSUME Inv, SleepReturn PROVE Inv'
<1>1. /\ me \in Thread \ {Idle} /\ pc[me].op = "slept" /\ k.stat[me] = "READY"
      /\ k \in KernelState /\ Queue(k, Off)
  BY Basics DEF SleepReturn, At, Op, Inv, CallInv, IdleOK
<1>2. pc[me].arg = me
  BY <1>1 DEF Inv, CallInv, Pending
<1>3. /\ k' = [k EXCEPT !.error[me] = IF @ = "ETIMEOUT" THEN "EOK" ELSE @]
      /\ init_priority' = init_priority
      /\ pc' = [pc EXCEPT ![me] = [op |-> "run", arg |-> me]]
  BY DEF SleepReturn, Return
<1>4. /\ k' \in KernelState /\ k'.ready = k.ready /\ k'.group = k.group /\ k'.defunct = k.defunct
      /\ k'.stat = k.stat /\ k'.timer = k.timer /\ k'.prio = k.prio /\ k'.mask = k.mask
      /\ k'.current = k.current
  BY <1>1, <1>3 DEF KernelState, Error
<1>5. Queue(k', Off)
  BY <1>1, <1>4 DEF Queue
<1> QED
  BY <1>1, <1>2, <1>3, <1>4, <1>5, SelfInv

(* rt_enter_critical and rt_exit_critical preserve the invariant.          *)
LEMMA CriticalInv ==
  ASSUME Inv, rt_enter_critical \/ rt_exit_critical PROVE Inv'
<1>1. /\ me \in Thread \ {Idle} /\ pc[me].op = "run" /\ k.stat[me] = "READY"
      /\ k \in KernelState /\ Queue(k, Off) /\ k.nest \in Nat
  BY Basics DEF rt_enter_critical, rt_exit_critical, Calls, At, Op, KernelState
<1>2. pc[me].arg = me /\ pc = [pc EXCEPT ![me] = [op |-> "run", arg |-> me]]
  BY <1>1 DEF Inv, TypeOK, CallInv, Pending
<1>3. PICK n \in Nat : k' = [k EXCEPT !.nest = n]
  BY <1>1 DEF rt_enter_critical, rt_exit_critical
<1>4. PICK o \in {"run", "sched"} : pc' = [pc EXCEPT ![me] = [op |-> o, arg |-> me]]
  BY <1>2 DEF rt_enter_critical, rt_exit_critical, Goto
<1>5. /\ k' \in KernelState /\ k'.ready = k.ready /\ k'.group = k.group /\ k'.defunct = k.defunct
      /\ k'.stat = k.stat /\ k'.timer = k.timer /\ k'.prio = k.prio /\ k'.mask = k.mask
      /\ k'.current = k.current
  BY <1>1, <1>3 DEF KernelState
<1>6. Queue(k', Off)
  BY <1>1, <1>5 DEF Queue
<1>7. init_priority' = init_priority
  BY DEF rt_enter_critical, rt_exit_critical
<1> QED
  BY <1>1, <1>2, <1>4, <1>5, <1>6, <1>7, SelfInv

(* A step that at most switches threads and times out suspended ones. *)
LEMMA SwitchInv ==
  ASSUME Inv, k' \in KernelState, Queue(k', Off), Switch(k', k, Off), k'.prio = k.prio,
         k'.mask = k.mask, k'.defunct = k.defunct, k'.nest = k.nest, k'.timer \subseteq k.timer,
         \A u \in Thread : \/ k'.stat[u] = k.stat[u]
                           \/ k.stat[u] = "SUSPEND" /\ k'.stat[u] = "READY"
                              /\ u \in k.timer /\ u \notin k'.timer,
         pc' \in [Thread -> [op : Op, arg : Thread]], Off' = Off, init_priority' = init_priority,
         \A u \in Thread \ {me} : pc'[u] = pc[u],
         \/ pc'[me] = pc[me]
         \/ /\ pc[me].arg = me /\ pc[me].op \in {"sched", "sleep"}
            /\ pc'[me].arg = me /\ pc'[me].op \in {"run", "slept"}
            /\ k.nest = 0 => Best(k', Off, k'.current)
  PROVE  Inv'
<1>1. TypeOK'
  BY DEF Inv, TypeOK
<1>2. Queue(k, Off)'
  OBVIOUS
<1>3. k.nest \in Nat /\ me \in Thread /\ k.timer \subseteq Thread /\ k'.timer \subseteq Thread
  BY Basics DEF KernelState
<1>4. k'.current # k.current => /\ k'.current \in Thread \ Off /\ k.nest = 0
                                /\ k'.stat[k'.current] = "READY"
  BY DEF Switch, Best
<1>5. ASSUME NEW u \in Thread PROVE Pending(u)'
  <2>1. CASE pc[u].arg # u
    <3> DEFINE t == pc[u].arg
    <3>1. pc'[u] = pc[u]
      BY <2>1
    <3>2. /\ t \in Thread \ {Idle} /\ t # k.current /\ t \notin k.timer /\ k.stat[u] = "READY"
          /\ \A v \in Thread \ {u} : v # t => pc[v].arg # t
          /\ pc[t].arg = t
          /\ pc[u].op # "delete" => t \notin Off
          /\ pc[u].op = "delete" => t \in Off
      BY <2>1, PendingFacts
    <3>3. k'.stat[t] = k.stat[t] /\ k'.stat[u] = "READY" /\ t \notin k'.timer
      BY <3>2
    <3>4. t # k'.current
      BY <1>3, <1>4, <2>1, <3>2, <3>3 DEF Inv, TypeOK, CallInv, Pending, Op
    <3>5. \A v \in Thread : pc'[v].arg = pc[v].arg
      OBVIOUS
    <3>6. pc[u].op = "suspend" => k'.current = u /\ k.nest > 0
      BY <1>3, <1>4, <2>1 DEF Inv, CallInv, Pending
    <3> QED
      BY <1>1, <1>2, <2>1, <3>1, <3>2, <3>3, <3>4, <3>5, <3>6, DeleteOff
         DEF Inv, CallInv, Pending
  <2>2. CASE pc[u].arg = u
    BY <1>3, <2>2 DEF Inv, CallInv, Pending
  <2> QED
    BY <2>1, <2>2
<1>6. MaskOK'
  BY DEF Inv, CallInv, MaskOK
<1>7. TimeoutOnlySuspended'
  BY <1>3 DEF Inv, TimeoutOnlySuspended
<1>8. DefunctOK'
  <2>1. Defunct(k)
    BY Basics, DefunctIs DEF Inv, CallInv
  <2>2. Defunct(k')
    BY <2>1 DEF Defunct
  <2> QED
    BY <2>2, DefunctIsNext
<1>9. IdleOK'
  BY SchedulerAssumption DEF Inv, CallInv, IdleOK
<1>10. (CurrentOK /\ LockOK)'
  <2>1. CASE k'.current = k.current /\ pc'[me] = pc[me]
    BY <1>3, <2>1 DEF Inv, CallInv, CurrentOK, LockOK, me
  <2>2. CASE k'.current = k.current /\ pc'[me] # pc[me]
    <3>1. k'.stat[me] = "READY"
      <4>1. CASE k.nest = 0
        BY <2>2, <4>1 DEF Best, me
      <4>2. CASE k.nest # 0
        BY <1>3, <4>2 DEF Inv, CallInv, LockOK, me
      <4> QED
        BY <4>1, <4>2
    <3> QED
      BY <1>3, <2>2, <3>1 DEF CurrentOK, LockOK, me
  <2>3. CASE k'.current # k.current
    BY <1>4, <2>3 DEF CurrentOK, LockOK
  <2> QED
    BY <2>1, <2>2, <2>3
<1> QED
  BY <1>1, <1>2, <1>5, <1>6, <1>7, <1>8, <1>9, <1>10 DEF Inv, CallInv

(* The rt_schedule at the end of a call preserves the invariant.           *)
LEMMA ScheduleInv ==
  ASSUME Inv, ExitSchedule \/ SleepSchedule \/ Schedule PROVE Inv'
<1>1. /\ me \in Thread \ Off /\ pc[me].op \in {"exit", "sleep", "sched"}
      /\ k' = rt_schedule(k) /\ init_priority' = init_priority
  BY Basics DEF ExitSchedule, SleepSchedule, Schedule, At
<1>2. pc[me].arg = me
  BY <1>1 DEF Inv, CallInv, Pending
<1>3. PICK o \in {"exit", "slept", "run"} :
        /\ pc' = [pc EXCEPT ![me] = [op |-> o, arg |-> me]]
        /\ IF o = "exit" THEN pc[me].op = "exit" ELSE pc[me].op \in {"sched", "sleep"}
  <2>1. ASSUME pc[me].op = "exit" PROVE pc = [pc EXCEPT ![me] = [op |-> "exit", arg |-> me]]
    BY <1>1, <1>2, <2>1 DEF Inv, TypeOK
  <2> QED
    BY <2>1 DEF ExitSchedule, SleepSchedule, Schedule, At, Goto, Return
<1>4. /\ k \in KernelState /\ Queue(k, Off) /\ Idle \in Thread \ Off /\ k.stat[Idle] = "READY"
  BY Basics
<1>5. /\ k' \in KernelState /\ Queue(k', Off) /\ Switch(k', k, Off)
      /\ k.nest = 0 => Best(k', Off, k'.current)
      /\ k'.stat = k.stat /\ k'.prio = k.prio /\ k'.mask = k.mask /\ k'.defunct = k.defunct
      /\ k'.timer = k.timer /\ k'.nest = k.nest
  BY <1>1, <1>4, ScheduleSwitch
<1>6. Off' = Off
  BY <1>1, <1>3, OffSame DEF Inv, Op
<1>7. pc \in [Thread -> [op : Op, arg : Thread]]
  BY DEF Inv, TypeOK
<1>8. /\ pc' \in [Thread -> [op : Op, arg : Thread]] /\ \A u \in Thread \ {me} : pc'[u] = pc[u]
      /\ pc'[me].op = o /\ pc'[me].arg = me /\ (o = "exit" => pc'[me] = pc[me])
  BY <1>1, <1>2, <1>3, <1>7 DEF Op
<1> QED
  BY <1>1, <1>2, <1>3, <1>5, <1>6, <1>8, SwitchInv

(* The timeout of a thread in the tick interrupt preserves the invariant.  *)
LEMMA TimeoutInv ==
  ASSUME Inv, NEW t \in Thread, Timeout(t) PROVE Inv'
<1>1. k' = rt_thread_timeout(k, t) /\ pc' = pc /\ init_priority' = init_priority /\ t \in k.timer
  BY DEF Timeout
<1>2. k.stat[t] = "SUSPEND" /\ k.mask[t] = {k.prio[t]}
  BY <1>1 DEF Inv, CallInv, MaskOK, TimeoutOnlySuspended
<1>3. t \notin Off
  <2>1. SUFFICES ASSUME NEW u \in Thread, pc[u] = [op |-> "delete", arg |-> t] PROVE FALSE
    BY DEF Off, BeingDeleted
  <2>2. pc[u].op = "delete" /\ pc[u].arg = t
    BY <2>1
  <2> QED
    BY <1>1, <2>2 DEF Inv, CallInv, Pending
<1>4. /\ k \in KernelState /\ Queue(k, Off) /\ Idle \in Thread \ Off /\ k.stat[Idle] = "READY"
      /\ ~In(t, k.defunct)
  BY <1>2, Basics
<1>5. /\ k' \in KernelState /\ Queue(k', Off) /\ Switch(k', k, Off)
      /\ k'.stat = [k.stat EXCEPT ![t] = "READY"] /\ k'.timer = k.timer \ {t}
      /\ k'.prio = k.prio /\ k'.mask = k.mask /\ k'.defunct = k.defunct
      /\ k'.nest = k.nest
  BY <1>1, <1>2, <1>3, <1>4, TimeoutFields
<1>6. k'.stat[t] = "READY" /\ \A u \in Thread \ {t} : k'.stat[u] = k.stat[u]
  BY <1>4, <1>5 DEF KernelState
<1>7. Off' = Off /\ pc' \in [Thread -> [op : Op, arg : Thread]]
  BY <1>1 DEF Off, BeingDeleted, Inv, TypeOK
<1> QED
  BY <1>1, <1>2, <1>5, <1>6, <1>7, SwitchInv

(* The time slice part of the tick interrupt preserves the invariant.      *)
LEMMA TickInv ==
  ASSUME Inv, Tick PROVE Inv'
<1> DEFINE x == rt_tick_increase(k)
<1>1. k' = [x EXCEPT !.isr = TRUE] /\ pc' = pc /\ init_priority' = init_priority
  BY DEF Tick
<1>2. /\ k \in KernelState /\ Queue(k, Off) /\ Idle \in Thread \ Off /\ k.stat[Idle] = "READY"
      /\ k.current \in Thread \ Off
      /\ k.stat[k.current] = "READY" =>
           k.mask[k.current] = {k.prio[k.current]} /\ ~In(k.current, k.defunct)
  BY Basics DEF Inv, CallInv, MaskOK, me
<1>3. /\ x \in KernelState /\ Queue(x, Off) /\ Switch(x, k, Off)
      /\ x.stat = k.stat /\ x.timer = k.timer
      /\ x.prio = k.prio /\ x.mask = k.mask /\ x.defunct = k.defunct
      /\ x.nest = k.nest
  BY <1>2, TickFields
<1> HIDE DEF x
<1>4. /\ k' \in KernelState /\ k'.ready = x.ready /\ k'.group = x.group /\ k'.stat = x.stat
      /\ k'.timer = x.timer /\ k'.prio = x.prio /\ k'.mask = x.mask /\ k'.defunct = x.defunct
      /\ k'.nest = x.nest /\ k'.current = x.current
  BY <1>1, <1>3 DEF KernelState
<1>5. Queue(k', Off)
  BY <1>3, <1>4 DEF Queue
<1>6. Switch(k', k, Off)
  BY <1>3, <1>4 DEF Switch, Best
<1>7. Off' = Off /\ pc' \in [Thread -> [op : Op, arg : Thread]]
  BY <1>1 DEF Off, BeingDeleted, Inv, TypeOK
<1> QED
  BY <1>1, <1>3, <1>4, <1>5, <1>6, <1>7, SwitchInv

(* The end of the tick interrupt preserves the invariant.                  *)
LEMMA TickEndInv ==
  ASSUME Inv, TickEnd PROVE Inv'
<1>1. k' = [k EXCEPT !.isr = FALSE] /\ pc' = pc /\ init_priority' = init_priority
  BY DEF TickEnd
<1>2. k \in KernelState /\ Queue(k, Off)
  BY Basics
<1>3. /\ k' \in KernelState /\ k'.ready = k.ready /\ k'.group = k.group /\ k'.stat = k.stat
      /\ k'.timer = k.timer /\ k'.prio = k.prio /\ k'.mask = k.mask /\ k'.defunct = k.defunct
      /\ k'.nest = k.nest /\ k'.current = k.current
  BY <1>1, <1>2 DEF KernelState
<1>4. Queue(k', Off)
  BY <1>2, <1>3 DEF Queue
<1>5. Switch(k', k, Off)
  BY <1>3 DEF Switch
<1>6. Off' = Off /\ pc' \in [Thread -> [op : Op, arg : Thread]]
  BY <1>1 DEF Off, BeingDeleted, Inv, TypeOK
<1> QED
  BY <1>1, <1>3, <1>4, <1>5, <1>6, SwitchInv

(* The first section of rt_thread_sleep preserves the invariant.           *)
LEMMA SleepInv ==
  ASSUME Inv, Relaxed = {}, Sleep PROVE Inv'
<1> DEFINE s == rt_thread_suspend(k, me)
<1>1. /\ me \in Thread \ {Idle} /\ pc[me].op = "run" /\ k.stat[me] = "READY" /\ me \notin Off
      /\ ~In(me, k.defunct) /\ k \in KernelState /\ Queue(k, Off)
  BY Basics DEF Sleep, Calls, At, Op
<1>2. pc[me].arg = me /\ k.mask[me] = {k.prio[me]} /\ k.timer \subseteq Thread
  BY <1>1 DEF Inv, CallInv, Pending, MaskOK, KernelState
<1>3. /\ k' = [s EXCEPT !.timer = @ \cup {me}] /\ init_priority' = init_priority
      /\ pc' = [pc EXCEPT ![me] = [op |-> "sleep", arg |-> me]] /\ k.nest = 0
  BY <1>1 DEF Sleep, Goto, MayBlock
<1>4. /\ s \in KernelState /\ SameRest(s, k) /\ Queue(s, Off)
      /\ s.stat = [k.stat EXCEPT ![me] = "SUSPEND"]
      /\ s.prio = k.prio /\ s.mask = k.mask /\ s.timer = k.timer
  BY <1>1, <1>2, SuspendFields
<1> HIDE DEF s
<1>5. /\ k' \in KernelState /\ k'.ready = s.ready /\ k'.group = s.group /\ k'.stat = s.stat
      /\ k'.prio = k.prio /\ k'.mask = k.mask /\ k'.timer = k.timer \cup {me}
      /\ k'.defunct = k.defunct /\ k'.current = k.current /\ k'.nest = k.nest
  BY <1>1, <1>3, <1>4 DEF KernelState, SameRest
<1>6. k'.stat[me] = "SUSPEND" /\ \A u \in Thread \ {me} : k'.stat[u] = k.stat[u]
  BY <1>1, <1>4, <1>5 DEF KernelState
<1>7. Off' = Off
  BY <1>1, <1>3, OffSame DEF Inv, Op
<1>8. Queue(k, Off)'
  <2>1. s.prio = k'.prio
    BY <1>4, <1>5
  <2> QED
    BY <1>4, <1>5, <1>7, <2>1 DEF Queue
<1>9. TypeOK'
  BY <1>1, <1>3, <1>5 DEF Inv, TypeOK, Op
<1>10. ASSUME NEW u \in Thread PROVE Pending(u)'
  BY <1>1, <1>2, <1>3, <1>5, <1>6, <1>8, <1>9, DeleteOff DEF Inv, CallInv, TypeOK, Pending, me
<1>11. MaskOK'
  BY <1>1, <1>5, <1>6 DEF Inv, CallInv, MaskOK
<1>12. TimeoutOnlySuspended'
  BY <1>2, <1>5, <1>6 DEF Inv, TimeoutOnlySuspended
<1>13. DefunctOK'
  <2>1. Defunct(k)
    BY <1>1, DefunctIs DEF Inv, CallInv
  <2>2. Defunct(k')
    BY <1>1, <1>5, <1>6, <2>1 DEF Defunct
  <2> QED
    BY <1>5, <2>2, DefunctIsNext
<1>14. (IdleOK /\ CurrentOK /\ LockOK)'
  BY <1>1, <1>3, <1>5, <1>6, SchedulerAssumption
     DEF Inv, CallInv, TypeOK, IdleOK, CurrentOK, LockOK, me
<1> QED
  BY <1>8, <1>9, <1>10, <1>11, <1>12, <1>13, <1>14 DEF Inv, CallInv

(* rt_thread_exit, up to its rt_schedule, preserves the invariant.         *)
LEMMA ExitInv ==
  ASSUME Inv, Relaxed = {}, Exit PROVE Inv'
<1> DEFINE r == rt_schedule_remove_thread(k, me)
           d == IF me \in Static /\ me \notin Cleanup THEN k.defunct ELSE <<me>> \o k.defunct
<1>1. /\ me \in Thread \ {Idle} /\ pc[me].op = "run" /\ k.stat[me] = "READY" /\ me \notin Off
      /\ ~In(me, k.defunct) /\ k \in KernelState /\ Queue(k, Off)
  BY Basics DEF Exit, Calls, At, Op
<1>2. /\ pc[me].arg = me /\ k.mask[me] = {k.prio[me]} /\ k.timer \subseteq Thread /\ me \notin k.timer
      /\ k.defunct \in Seq(Thread) /\ Without(k.defunct, me) = k.defunct
  BY <1>1, WithoutAbsent DEF Inv, CallInv, Pending, MaskOK, TimeoutOnlySuspended, KernelState
<1>3. /\ r \in KernelState /\ r.defunct = k.defunct
      /\ r.stat = k.stat /\ r.prio = k.prio /\ r.mask = k.mask /\ r.timer = k.timer
      /\ r.current = k.current /\ r.nest = k.nest
  BY <1>1, <1>2, RemoveFields
<1>4. Queue(r, Off \cup {me})
  BY <1>1, <1>2, RemoveQueue
<1>5. /\ k' = [r EXCEPT !.stat[me] = "CLOSE", !.timer = @ \ {me},
                        !.defunct = IF me \in Static /\ me \notin Cleanup
                                    THEN @ ELSE <<me>> \o @]
      /\ init_priority' = init_priority
      /\ pc' = [pc EXCEPT ![me] = [op |-> "exit", arg |-> me]] /\ k.nest = 0
  BY <1>1 DEF Exit, Goto, MayBlock
<1>6. /\ d \in Seq(Thread) /\ (Once(k.defunct) => Once(d))
      /\ \A u \in Thread \ {me} : In(u, d) <=> In(u, k.defunct)
  BY <1>1, <1>2, PrependElements
<1> HIDE DEF r
<1>7. k' = [r EXCEPT !.stat[me] = "CLOSE", !.timer = @ \ {me}, !.defunct = d]
  BY <1>3, <1>5
<1> HIDE DEF d
<1>8. /\ k' \in KernelState /\ k'.ready = r.ready /\ k'.group = r.group
      /\ k'.stat = [r.stat EXCEPT ![me] = "CLOSE"]
      /\ k'.prio = k.prio /\ k'.mask = k.mask /\ k'.timer = k.timer
      /\ k'.defunct = d /\ k'.current = k.current /\ k'.nest = k.nest
  <2>1. k.timer \ {me} = k.timer
    BY <1>2
  <2> QED
    BY <1>1, <1>3, <1>6, <1>7, <2>1 DEF KernelState, Stat
<1>9. k'.stat[me] = "CLOSE" /\ \A u \in Thread \ {me} : k'.stat[u] = k.stat[u]
  BY <1>1, <1>3, <1>8 DEF KernelState
<1>10. Off' = Off
  BY <1>1, <1>5, OffSame DEF Inv, Op
<1>11. Queue(k, Off)'
  <2>1. k'.prio = r.prio /\ \A u \in Thread \ {me} : k'.stat[u] = r.stat[u]
    BY <1>3, <1>8, <1>9
  <2> QED
    BY <1>4, <1>8, <1>9, <1>10, <2>1 DEF Queue
<1>12. TypeOK'
  BY <1>1, <1>5, <1>8 DEF Inv, TypeOK, Op
<1>13. ASSUME NEW u \in Thread PROVE Pending(u)'
  <2>1. \A v \in Thread \ {me} : pc[v].arg # me
    BY DEF Inv, CallInv, Pending, me
  <2>2. pc'[me].op = "exit" /\ pc'[me].arg = me /\ \A v \in Thread \ {me} : pc'[v] = pc[v]
    BY <1>1, <1>5 DEF Inv, TypeOK
  <2>3. CASE u = me
    BY <2>2, <2>3 DEF Pending
  <2>4. CASE u # me
    <3>1. Pending(u) /\ pc[u].arg \in Thread \ {me} /\ pc'[u] = pc[u]
      BY <2>1, <2>2, <2>4 DEF Inv, CallInv, TypeOK
    <3> QED
      BY <1>6, <1>8, <1>9, <1>11, <1>12, <2>1, <2>2, <2>4, <3>1, DeleteOff DEF Pending, me
  <2> QED
    BY <2>3, <2>4
<1>14. MaskOK'
  BY <1>1, <1>8, <1>9 DEF Inv, CallInv, MaskOK
<1>15. TimeoutOnlySuspended'
  BY <1>2, <1>8, <1>9 DEF Inv, TimeoutOnlySuspended
<1>16. DefunctOK'
  <2>1. Defunct(k)
    BY <1>1, DefunctIs DEF Inv, CallInv
  <2>2. Defunct(k')
    BY <1>1, <1>6, <1>8, <1>9, <2>1 DEF Defunct
  <2> QED
    BY <1>8, <2>2, DefunctIsNext
<1>17. (IdleOK /\ CurrentOK /\ LockOK)'
  BY <1>1, <1>5, <1>8, <1>9, SchedulerAssumption
     DEF Inv, CallInv, TypeOK, IdleOK, CurrentOK, LockOK, me
<1> QED
  BY <1>11, <1>12, <1>13, <1>14, <1>15, <1>16, <1>17 DEF Inv, CallInv

(* The idle thread's unlinking of a defunct thread preserves the           *)
(* invariant.                                                              *)
LEMMA IdleExcuteInv ==
  ASSUME Inv, IdleExcute PROVE Inv'
<1> DEFINE t == k.defunct[1]
<1>1. /\ me = Idle /\ me \in Thread /\ pc[me].op = "run" /\ k.stat[me] = "READY"
      /\ k \in KernelState /\ Queue(k, Off) /\ k.defunct # <<>>
  BY Basics DEF IdleExcute, At
<1>2. k.defunct \in Seq(Thread) /\ Defunct(k)
  BY <1>1, DefunctIs DEF KernelState, Inv, CallInv
<1>3. t \in Thread /\ In(t, k.defunct)
  <2>1. Len(k.defunct) \in Nat /\ Len(k.defunct) # 0 /\ DOMAIN k.defunct = 1 .. Len(k.defunct)
    BY <1>1, <1>2
  <2> QED
    BY <1>2, <2>1 DEF In
<1>4. k.stat[t] = "CLOSE" /\ t # Idle /\ OffLists(k, t)
  BY <1>1, <1>2, <1>3, Basics DEF Defunct
<1>5. pc[me].arg = me
  BY <1>1 DEF Inv, CallInv, Pending
<1>6. \A u \in Thread : u # t => pc[u].arg # t
  BY <1>3, <1>4 DEF Inv, TypeOK, CallInv, Pending, Op
<1>7. pc[t].arg = t
  BY <1>3, <1>4 DEF Inv, CallInv, Pending
<1>8. PICK o \in {"run", "free"}, a \in {me, t} :
        /\ pc' = [pc EXCEPT ![me] = [op |-> o, arg |-> a]]
        /\ a = IF o = "run" THEN me ELSE t
  <2>1. pc = [pc EXCEPT ![me] = [op |-> "run", arg |-> me]]
    BY <1>1, <1>5 DEF Inv, TypeOK
  <2> QED
    BY <2>1 DEF IdleExcute, Goto
<1>9. k' = rt_list_remove(k, t) /\ init_priority' = init_priority
  BY DEF IdleExcute
<1> HIDE DEF t
<1>10. /\ k' \in KernelState /\ k'.ready = k.ready /\ k'.group = k.group
       /\ k'.defunct = Without(k.defunct, t)
       /\ k'.stat = k.stat /\ k'.prio = k.prio /\ k'.mask = k.mask
       /\ k'.timer = k.timer /\ k'.current = k.current /\ k'.nest = k.nest
  BY <1>1, <1>3, <1>4, <1>9, ListRemoveFields
<1>11. /\ Once(k'.defunct)
       /\ \A u \in Thread : In(u, k'.defunct) <=> In(u, k.defunct) /\ u # t
  BY <1>2, <1>3, <1>10, WithoutElements DEF Defunct
<1>12. Off' = Off
  BY <1>1, <1>3, <1>8, OffSame DEF Inv, Op
<1>13. Queue(k, Off)'
  BY <1>1, <1>10, <1>12 DEF Queue
<1>14. TypeOK'
  BY <1>1, <1>3, <1>8, <1>9, <1>10 DEF Inv, TypeOK, Op
<1>15. ASSUME NEW u \in Thread PROVE Pending(u)'
  <2>1. t # k.current /\ t \notin k.timer
    BY <1>1, <1>4 DEF me, Inv, TimeoutOnlySuspended
  <2> QED
    BY <1>1, <1>3, <1>4, <1>5, <1>6, <1>7, <1>8, <1>10, <1>11, <2>1
       DEF Inv, CallInv, TypeOK, Pending, me
<1>16. (MaskOK /\ TimeoutOnlySuspended)'
  BY <1>10 DEF Inv, CallInv, MaskOK, TimeoutOnlySuspended
<1>17. DefunctOK'
  <2>1. Defunct(k')
    BY <1>2, <1>10, <1>11 DEF Defunct
  <2> QED
    BY <1>10, <2>1, DefunctIsNext
<1>18. (IdleOK /\ CurrentOK /\ LockOK)'
  BY <1>1, <1>3, <1>4, <1>5, <1>8, <1>10, SchedulerAssumption
     DEF Inv, CallInv, TypeOK, IdleOK, CurrentOK, LockOK, me
<1> QED
  BY <1>13, <1>14, <1>15, <1>16, <1>17, <1>18 DEF Inv, CallInv

(* Freeing the memory of a closed thread preserves the invariant.          *)
LEMMA IdleFreeInv ==
  ASSUME Inv, IdleFree PROVE Inv'
<1> DEFINE t == pc[me].arg
<1>1. /\ me \in Thread /\ pc[me].op = "free" /\ k.stat[me] = "READY"
      /\ k \in KernelState /\ Queue(k, Off)
  BY Basics DEF IdleFree, At, Op
<1>2. /\ t # me /\ k.stat[t] = "CLOSE" /\ ~In(t, k.defunct) /\ t \in Thread \ {Idle}
      /\ t \notin k.timer /\ t # k.current /\ pc[t].arg = t
      /\ \A v \in Thread \ {me} : v # t => pc[v].arg # t
  BY <1>1, PendingFacts DEF Inv, CallInv, Pending
<1>3. /\ k' = [k EXCEPT !.stat[t] = "FREE"] /\ init_priority' = init_priority
      /\ pc' = [pc EXCEPT ![me] = [op |-> "run", arg |-> me]]
  BY DEF IdleFree, Return
<1> HIDE DEF t
<1>4. /\ k' \in KernelState /\ k'.ready = k.ready /\ k'.group = k.group
      /\ k'.defunct = k.defunct /\ k'.stat = [k.stat EXCEPT ![t] = "FREE"]
      /\ k'.prio = k.prio /\ k'.mask = k.mask
      /\ k'.timer = k.timer /\ k'.current = k.current /\ k'.nest = k.nest
  BY <1>1, <1>2, <1>3 DEF KernelState, Stat
<1>5. k'.stat[t] = "FREE" /\ \A u \in Thread \ {t} : k'.stat[u] = k.stat[u]
  BY <1>1, <1>2, <1>4 DEF KernelState
<1>6. Off' = Off
  BY <1>1, <1>3, OffSame DEF Inv, Op
<1>7. Queue(k, Off)'
  BY <1>1, <1>2, <1>4, <1>5, <1>6 DEF Queue
<1>8. TypeOK'
  BY <1>1, <1>3, <1>4 DEF Inv, TypeOK, Op
<1>9. ASSUME NEW u \in Thread PROVE Pending(u)'
  BY <1>1, <1>2, <1>3, <1>4, <1>5 DEF Inv, CallInv, TypeOK, Pending, me
<1>10. MaskOK'
  BY <1>2, <1>4, <1>5 DEF Inv, CallInv, MaskOK
<1>11. TimeoutOnlySuspended'
  <2>1. k.timer \subseteq Thread
    BY <1>1 DEF KernelState
  <2> QED
    BY <1>2, <1>4, <1>5, <2>1 DEF Inv, TimeoutOnlySuspended
<1>12. DefunctOK'
  <2>1. Defunct(k)
    BY <1>1, DefunctIs DEF Inv, CallInv
  <2>2. Defunct(k')
    BY <1>2, <1>4, <1>5, <2>1 DEF Defunct
  <2> QED
    BY <1>4, <2>2, DefunctIsNext
<1>13. (IdleOK /\ CurrentOK /\ LockOK)'
  BY <1>1, <1>2, <1>3, <1>4, <1>5, SchedulerAssumption
     DEF Inv, CallInv, TypeOK, IdleOK, CurrentOK, LockOK, me
<1> QED
  BY <1>7, <1>8, <1>9, <1>10, <1>11, <1>12, <1>13 DEF Inv, CallInv

(* The invariant holds when rt_system_scheduler_start has started the      *)
(* first thread.                                                           *)
LEMMA InitInv == Init => Inv
<1> SUFFICES ASSUME Init PROVE Inv
  OBVIOUS
<1>1. /\ IDLE_PRIORITY \in Priority /\ MainPriority \in Priority /\ MainPriority # IDLE_PRIORITY
      /\ Idle \in Thread /\ Main \in Thread /\ Idle # Main
  BY KernelAssumption, SchedulerAssumption DEF Priority, IDLE_PRIORITY
<1>2. \A p \in Priority : k.ready[p] = IF p = IDLE_PRIORITY THEN <<Idle>>
                                       ELSE IF p = MainPriority THEN <<Main>> ELSE <<>>
  BY DEF Init
<1>3. /\ k.stat = [t \in Thread |-> IF t \in {Idle, Main} THEN "READY" ELSE "FREE"]
      /\ k.prio = [t \in Thread |-> Boot(t)] /\ k.mask = [t \in Thread |-> {Boot(t)}]
      /\ k.timer = {} /\ k.current = Main /\ k.nest = 0 /\ k.defunct = <<>>
      /\ k.group = {IDLE_PRIORITY, MainPriority}
      /\ pc = [t \in Thread |-> [op |-> "run", arg |-> t]]
  BY DEF Init
<1>4. \A t \in Thread : Boot(t) \in Priority
  BY <1>1 DEF Boot
<1>5. TypeOK
  <2>1. k.ready \in [Priority -> Seq(Thread)]
    <3>1. <<Idle>> \in Seq(Thread) /\ <<Main>> \in Seq(Thread) /\ <<>> \in Seq(Thread)
      BY <1>1
    <3> QED
      BY <3>1 DEF Init
  <2>2. INIT_TICK \in 1 .. INIT_TICK
    BY KernelAssumption
  <2>3. k \in KernelState
    <3> DEFINE rd == [p \in Priority |-> IF p = IDLE_PRIORITY THEN <<Idle>>
                                         ELSE IF p = MainPriority THEN <<Main>> ELSE <<>>]
    <3>1. rd \in [Priority -> Seq(Thread)]
      BY <2>1 DEF Init
    <3>2. k = [ ready |-> rd, group |-> {IDLE_PRIORITY, MainPriority},
                wait |-> [w \in WaitList |-> <<>>], defunct |-> <<>>,
                stat |-> [t \in Thread |-> IF t \in {Idle, Main} THEN "READY" ELSE "FREE"],
                prio |-> [t \in Thread |-> Boot(t)], mask |-> [t \in Thread |-> {Boot(t)}],
                error |-> [t \in Thread |-> "EOK"], slice |-> [t \in Thread |-> INIT_TICK],
                timer |-> {}, current |-> Main, nest |-> 0, isr |-> FALSE,
                astray |-> FALSE ]
      BY DEF Init
    <3> HIDE DEF rd
    <3> QED
      BY <1>1, <1>4, <2>2, <3>1, <3>2 DEF KernelState, Stat, Error
  <2>4. init_priority \in [Thread -> Priority]
    BY <1>4 DEF Init
  <2> QED
    BY <1>3, <2>3, <2>4 DEF TypeOK, Op
<1>6. Off = {}
  BY <1>3 DEF Off, BeingDeleted
<1>7. /\ Once(<<Idle>>) /\ Once(<<Main>>) /\ Once(<<>>)
      /\ \A t \in Thread : /\ In(t, <<Idle>>) <=> t = Idle
                           /\ In(t, <<Main>>) <=> t = Main
                           /\ ~In(t, <<>>)
  <2>1. \A t : DOMAIN <<t>> = {1} /\ <<t>>[1] = t
    OBVIOUS
  <2>2. DOMAIN <<>> = {}
    OBVIOUS
  <2>3. \A t : Once(<<t>>) /\ \A u : In(u, <<t>>) <=> u = t
    <3> SUFFICES ASSUME NEW t PROVE Once(<<t>>) /\ \A u : In(u, <<t>>) <=> u = t
      OBVIOUS
    <3> DEFINE s == <<t>>
    <3>1. DOMAIN s = {1} /\ s[1] = t
      BY <2>1
    <3> HIDE DEF s
    <3>2. Once(s) /\ \A u : In(u, s) <=> u = t
      BY <3>1 DEF Once, In
    <3> QED
      BY <3>2 DEF s
  <2>4. Once(<<>>) /\ \A u : ~In(u, <<>>)
    BY <2>2 DEF Once, In
  <2> QED
    BY <2>3, <2>4
<1>8. \A t \in Thread : /\ k.stat[t] = "READY" <=> t \in {Idle, Main}
                        /\ k.prio[t] = IF t = Main THEN MainPriority ELSE IDLE_PRIORITY
  BY <1>3 DEF Boot
<1>9. Queue(k, Off)
  <2>1. \A p \in Priority : Once(k.ready[p])
    BY <1>2, <1>7
  <2>2. \A t \in Thread, p \in Priority :
          In(t, k.ready[p]) <=> k.stat[t] = "READY" /\ k.prio[t] = p /\ t \notin Off
    BY <1>1, <1>2, <1>6, <1>7, <1>8
  <2>3. k.group = {p \in Priority : k.ready[p] # <<>>}
    <3>1. <<Idle>> # <<>> /\ <<Main>> # <<>>
      OBVIOUS
    <3> QED
      BY <1>1, <1>2, <1>3, <3>1
  <2> QED
    BY <2>1, <2>2, <2>3 DEF Queue
<1>10. TimeoutOnlySuspended /\ DefunctOK /\ \A u \in Thread : Pending(u)
  <2>1. TimeoutOnlySuspended
    BY <1>3 DEF TimeoutOnlySuspended
  <2>2. DefunctOK
    <3>1. DOMAIN k.defunct = {}
      BY <1>3
    <3> QED
      BY <3>1 DEF DefunctOK
  <2>3. ASSUME NEW u \in Thread PROVE Pending(u)
    <3>1. pc[u].op = "run" /\ pc[u].arg = u
      BY <1>3
    <3> QED
      BY <3>1 DEF Pending
  <2> QED
    BY <2>1, <2>2, <2>3
<1>11. MaskOK /\ IdleOK /\ CurrentOK /\ LockOK
  BY <1>1, <1>3, <1>8 DEF MaskOK, IdleOK, CurrentOK, LockOK, Boot
<1> QED
  BY <1>5, <1>9, <1>10, <1>11 DEF Inv, CallInv

(* A step that changes nothing preserves the invariant.                    *)
LEMMA StutterInv ==
  ASSUME Inv, UNCHANGED vars PROVE Inv'
<1>1. k' = k /\ pc' = pc /\ init_priority' = init_priority
  BY DEF vars
<1>2. Off' = Off
  BY <1>1 DEF Off, BeingDeleted
<1>3. TypeOK' /\ TimeoutOnlySuspended' /\ Queue(k, Off)'
  BY <1>1, <1>2 DEF Inv, TypeOK, TimeoutOnlySuspended
<1>4. \A u \in Thread : Pending(u)'
  BY <1>1 DEF Inv, CallInv, Pending
<1>5. (MaskOK /\ IdleOK /\ CurrentOK /\ LockOK /\ DefunctOK)'
  BY <1>1 DEF Inv, CallInv, MaskOK, IdleOK, CurrentOK, LockOK, DefunctOK
<1> QED
  BY <1>3, <1>4, <1>5 DEF Inv, CallInv

(* Every step preserves the invariant: one lemma per action.               *)
LEMMA NextInv ==
  ASSUME Inv, Relaxed = {}, [Next]_vars PROVE Inv'
<1>1. CASE UNCHANGED vars
  BY <1>1, StutterInv
<1>2. ASSUME NEW t \in Thread \ {Idle}, NEW p \in Priority, Create(t, p) \/ Control(t, p)
      PROVE  Inv'
  BY <1>2, CreateInv, ControlInv
<1>3. ASSUME NEW t \in Thread \ {Idle}, Startup(t) \/ Resume(t) \/ Suspend(t) \/ Delete(t)
      PROVE  Inv'
  BY <1>3, StartupInv, ResumeInv, SuspendInv, DeleteInv
<1>4. CASE ResumeUnlink \/ ResumeInsert \/ SuspendUnlink \/ DeleteClose \/ DeleteDefunct
  BY <1>4, ResumeUnlinkInv, ResumeInsertInv, SuspendUnlinkInv, DeleteCloseInv, DeleteDefunctInv
<1>5. CASE Exit \/ Yield \/ Sleep \/ SleepReturn \/ rt_enter_critical \/ rt_exit_critical
  BY <1>5, ExitInv, YieldInv, SleepInv, SleepReturnInv, CriticalInv
<1>6. CASE ExitSchedule \/ SleepSchedule \/ Schedule
  BY <1>6, ScheduleInv
<1>7. CASE IdleExcute \/ IdleFree
  BY <1>7, IdleExcuteInv, IdleFreeInv
<1>8. ASSUME Tick \/ TickEnd \/ \E t \in Thread : Timeout(t) PROVE Inv'
  BY <1>8, TickInv, TickEndInv, TimeoutInv
<1> QED
  BY <1>1, <1>2, <1>3, <1>4, <1>5, <1>6, <1>7, <1>8 DEF Next, ThreadStep

(* The invariant holds in every state of every behaviour, if the rules of  *)
(* use are kept.                                                           *)
LEMMA InvariantHolds == Relaxed = {} => (Spec => []Inv)
<1> SUFFICES ASSUME Relaxed = {} PROVE Spec => []Inv
  OBVIOUS
<1>1. Inv /\ [Next]_vars => Inv'
  BY NextInv
<1> QED
  BY InitInv, <1>1, PTL DEF Spec

(* The invariant gives the properties of the lists: ReadyQueueOK and ClosedStaysOut. *)
LEMMA InvImplies ==
  ASSUME Inv PROVE ReadyQueueOK /\ ClosedStaysOut
<1>1. k \in KernelState /\ Queue(k, Off) /\ Defunct(k) /\ Idle \in Thread \ Off
      /\ k.stat[Idle] = "READY"
  BY Basics, DefunctIs DEF Inv, CallInv
<1>2. ReadyLists
  <2>1. ASSUME NEW p \in Priority, NEW i \in DOMAIN k.ready[p]
        PROVE  /\ k.stat[k.ready[p][i]] = "READY"
               /\ k.prio[k.ready[p][i]] = p
               /\ \A j \in DOMAIN k.ready[p] : k.ready[p][j] = k.ready[p][i] => j = i
    <3>1. k.ready[p][i] \in Thread /\ In(k.ready[p][i], k.ready[p]) /\ Once(k.ready[p])
      BY <1>1, <2>1 DEF KernelState, In, Queue
    <3> QED
      BY <1>1, <2>1, <3>1 DEF Queue, Once
  <2>2. ASSUME NEW t \in Thread, k.stat[t] = "READY", ~BeingDeleted(t)
        PROVE  In(t, k.ready[k.prio[t]])
    <3>1. k.prio[t] \in Priority /\ t \notin Off
      BY <1>1, <2>2 DEF KernelState, Off
    <3> QED
      BY <1>1, <2>2, <3>1 DEF Queue
  <2> QED
    BY <2>1, <2>2 DEF ReadyLists
<1>3. Bitmap
  <2>1. k.prio[Idle] \in Priority /\ k.ready[k.prio[Idle]] \in Seq(Thread)
    BY <1>1 DEF KernelState
  <2>2. In(Idle, k.ready[k.prio[Idle]])
    BY <1>1, <2>1 DEF Queue
  <2>3. k.ready[k.prio[Idle]] # <<>>
    BY <1>1, <2>1, <2>2, EmptyIn
  <2> QED
    BY <1>1, <2>1, <2>3 DEF Queue, Bitmap
<1>4. ASSUME NEW t \in Thread, k.stat[t] \in {"CLOSE", "FREE"}
      PROVE  /\ \A p \in Priority : ~In(t, k.ready[p])
             /\ t \notin k.timer
             /\ k.current = t => pc[t].op = "exit"
             /\ \A i, j \in DOMAIN k.defunct : k.defunct[i] = t /\ k.defunct[j] = t => i = j
             /\ k.stat[t] = "FREE" => ~In(t, k.defunct)
  <2>1. \A p \in Priority : ~In(t, k.ready[p])
    BY <1>1, <1>4 DEF Queue
  <2>2. t \notin k.timer /\ (k.current = t => pc[t].op = "exit")
    BY <1>4 DEF Inv, CallInv, CurrentOK, TimeoutOnlySuspended
  <2>3. \A i, j \in DOMAIN k.defunct : k.defunct[i] = t /\ k.defunct[j] = t => i = j
    BY <1>1 DEF Defunct, Once
  <2>4. k.stat[t] = "FREE" => ~In(t, k.defunct)
    BY <1>1 DEF Defunct
  <2> QED
    BY <2>1, <2>2, <2>3, <2>4
<1> QED
  BY <1>2, <1>3, <1>4 DEF ReadyQueueOK, ClosedStaysOut

(* Only rt_schedule gives the processor away, and only while unlocked. *)
LEMMA NextSwitch ==
  ASSUME Inv, Relaxed = {}, [Next]_vars
  PROVE  k'.current = k.current \/ (k'.nest = 0 /\ Best(k', Off', k'.current))
<1>0. /\ k \in KernelState /\ Queue(k, Off) /\ Idle \in Thread \ Off /\ k.stat[Idle] = "READY"
      /\ me \in Thread /\ pc[me].arg \in Thread
  BY Basics DEF Inv, TypeOK
<1>1. CASE UNCHANGED vars
  BY <1>1 DEF vars
<1>2. ASSUME NEW t \in Thread \ {Idle}, NEW p \in Priority, Create(t, p)
      PROVE  k'.current = k.current
  BY <1>0, <1>2 DEF Create, KernelState
<1>3. ASSUME NEW t \in Thread \ {Idle}, NEW p \in Priority, Control(t, p)
      PROVE  k'.current = k.current
  <2>1. k' = rt_thread_control(k, t, p) /\ t \notin Off
    BY <1>3, ManageFacts DEF Control
  <2>2. k.stat[t] = "READY" => k.mask[t] = {k.prio[t]} /\ ~In(t, k.defunct)
    BY Basics DEF Inv, CallInv, MaskOK
  <2>3. SameRest(k', k)
    BY <1>0, <1>3, <2>1, <2>2, ControlFields
  <2> QED
    BY <2>3 DEF SameRest
<1>4. ASSUME NEW t \in Thread \ {Idle}, Startup(t) \/ Resume(t) \/ Suspend(t) \/ Delete(t)
      PROVE  k'.current = k.current
  BY <1>0, <1>4 DEF Startup, Resume, Suspend, Delete, Unlink, rt_list_remove,
                    rt_schedule_remove_thread, KernelState
<1>5. CASE ResumeUnlink \/ ResumeInsert \/ SuspendUnlink \/ DeleteClose \/ DeleteDefunct
  <2>1. CASE SuspendUnlink
    BY <1>0, <2>1 DEF SuspendUnlink, rt_thread_suspend, rt_schedule_remove_thread,
                      rt_list_remove, KernelState
  <2>2. CASE ResumeUnlink \/ ResumeInsert \/ DeleteClose \/ DeleteDefunct
    BY <1>0, <2>2 DEF ResumeUnlink, ResumeInsert, DeleteClose, DeleteDefunct, Unlink,
         rt_list_remove, rt_schedule_insert_thread, KernelState
  <2> QED
    BY <1>5, <2>1, <2>2
<1>6. CASE Exit \/ SleepReturn \/ rt_enter_critical \/ rt_exit_critical \/ IdleExcute \/ IdleFree
  BY <1>0, <1>6 DEF Exit, SleepReturn, rt_enter_critical, rt_exit_critical, IdleExcute, IdleFree,
       rt_schedule_remove_thread, rt_list_remove, KernelState
<1>7. CASE Yield \/ Sleep
  BY <1>0, <1>7 DEF Yield, Sleep, Requeue, rt_thread_suspend, rt_schedule_remove_thread,
       rt_list_remove, KernelState
<1>8. CASE ExitSchedule \/ SleepSchedule \/ Schedule
  <2>1. k' = rt_schedule(k)
    BY <1>8 DEF ExitSchedule, SleepSchedule, Schedule
  <2>2. Off' = Off
    <3>1. CASE pc' = pc
      BY <3>1 DEF Off, BeingDeleted
    <3>2. CASE SleepSchedule \/ Schedule
      BY <1>0, <3>2, OffSame DEF SleepSchedule, Schedule, At, Goto, Return, Inv, Op
    <3> QED
      BY <1>8, <3>1, <3>2 DEF ExitSchedule
  <2> QED
    BY <1>0, <2>1, <2>2, ScheduleSwitch DEF Switch
<1>9. CASE Tick
  <2> DEFINE x == rt_tick_increase(k)
  <2>1. k' = [x EXCEPT !.isr = TRUE] /\ Off' = Off
    BY <1>9 DEF Tick, Off, BeingDeleted
  <2>2. /\ k.current \in Thread \ Off
        /\ k.stat[k.current] = "READY" =>
             k.mask[k.current] = {k.prio[k.current]} /\ ~In(k.current, k.defunct)
    BY Basics DEF Inv, CallInv, MaskOK, me
  <2>3. x \in KernelState /\ Switch(x, k, Off) /\ x.nest = k.nest
    BY <1>0, <2>2, TickFields
  <2> HIDE DEF x
  <2>4. k'.current = x.current /\ k'.nest = x.nest /\ k'.stat = x.stat /\ k'.prio = x.prio
    BY <2>1, <2>3 DEF KernelState
  <2> QED
    BY <2>1, <2>3, <2>4 DEF Switch, Best
<1>10. ASSUME NEW t \in Thread, Timeout(t)
       PROVE  k'.current = k.current \/ (k'.nest = 0 /\ Best(k', Off', k'.current))
  <2>1. k' = rt_thread_timeout(k, t) /\ Off' = Off /\ t \in k.timer
    BY <1>10 DEF Timeout, Off, BeingDeleted
  <2>2. k.stat[t] = "SUSPEND" /\ k.mask[t] = {k.prio[t]}
    BY <2>1 DEF Inv, CallInv, MaskOK, TimeoutOnlySuspended
  <2>3. t \notin Off
    <3>1. SUFFICES ASSUME NEW u \in Thread, pc[u] = [op |-> "delete", arg |-> t] PROVE FALSE
      BY DEF Off, BeingDeleted
    <3>2. pc[u].op = "delete" /\ pc[u].arg = t
      BY <3>1
    <3> QED
      BY <2>1, <3>2 DEF Inv, CallInv, Pending
  <2>4. ~In(t, k.defunct)
    BY <2>2, Basics
  <2>5. Switch(k', k, Off) /\ k'.nest = k.nest
    BY <1>0, <2>1, <2>2, <2>3, <2>4, TimeoutFields
  <2> QED
    BY <2>1, <2>5 DEF Switch
<1>11. CASE TickEnd
  BY <1>0, <1>11 DEF TickEnd, KernelState
<1> QED
  BY <1>1, <1>2, <1>3, <1>4, <1>5, <1>6, <1>7, <1>8, <1>9, <1>10, <1>11 DEF Next, ThreadStep

-----------------------------------------------------------------------------
(* The theorems: what callers that keep the rules of use can rely on. *)

(* The type invariant, for any number of threads and priorities. *)
THEOREM TypeCorrect == Relaxed = {} => (Spec => []TypeOK)
<1>1. Inv => TypeOK
  BY DEF Inv
<1> QED
  BY InvariantHolds, <1>1, PTL

(* The ready lists, the priority bitmap and the states of the threads      *)
(* agree between any two interrupt-disabled sections of the thread API and *)
(* the tick interrupt: rt_schedule always finds a READY thread of the      *)
(* highest ready priority at the head of the list it looks at.             *)
THEOREM ReadyQueueSafe == Relaxed = {} => (Spec => []ReadyQueueOK)
<1>1. Inv => ReadyQueueOK
  BY InvImplies
<1> QED
  BY InvariantHolds, <1>1, PTL

(* The assertion of rt_thread_timeout never fails. *)
THEOREM TimeoutSafe == Relaxed = {} => (Spec => []TimeoutOnlySuspended)
<1>1. Inv => TimeoutOnlySuspended
  BY DEF Inv
<1> QED
  BY InvariantHolds, <1>1, PTL

(* What a call relies on after it has enabled interrupts holds until its   *)
(* next section: the thread it is about is where the call left it, and the *)
(* idle thread, number_mask, the scheduler lock and the defunct list are   *)
(* as every call assumes.                                                  *)
THEOREM CallSafe == Relaxed = {} => (Spec => []CallInv)
<1>1. Inv => CallInv
  BY DEF Inv
<1> QED
  BY InvariantHolds, <1>1, PTL

(* A closed or freed thread is never again on a ready list, in a timer or  *)
(* on the processor past rt_thread_exit, and is queued once for the idle   *)
(* thread.                                                                 *)
THEOREM ClosedSafe == Relaxed = {} => (Spec => []ClosedStaysOut)
<1>1. Inv => ClosedStaysOut
  BY InvImplies
<1> QED
  BY InvariantHolds, <1>1, PTL

(* Every context switch, of a thread's own rt_schedule or of the tick      *)
(* interrupt, goes to a READY thread of the highest ready priority, and    *)
(* none happens while the scheduler is locked.                             *)
THEOREM SwitchSafe == Relaxed = {} => (Spec => SwitchToHighest)
<1> SUFFICES ASSUME Relaxed = {} PROVE Spec => SwitchToHighest
  OBVIOUS
<1> DEFINE A == k'.current # k.current =>
                  /\ k'.nest = 0
                  /\ k'.current \in Thread
                  /\ k'.stat[k'.current] = "READY"
                  /\ \A t \in Thread : k'.stat[t] = "READY" =>
                       k'.prio[k'.current] <= k'.prio[t] \/ BeingDeleted(t)'
<1>1. ASSUME Inv, [Next]_vars PROVE [A]_vars
  <2>1. k'.current = k.current \/ (k'.nest = 0 /\ Best(k', Off', k'.current))
    BY <1>1, NextSwitch
  <2>2. \A t \in Thread : t \in Off' <=> BeingDeleted(t)'
    BY DEF Off
  <2> QED
    BY <2>1, <2>2 DEF Best
<1>2. Spec => []Inv
  BY InvariantHolds
<1> QED
  BY <1>1, <1>2, PTL DEF Spec, SwitchToHighest
=============================================================================
