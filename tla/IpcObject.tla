----------------------------- MODULE IpcObject ------------------------------
(***************************************************************************)
(* What the IPC objects that carry data (event, mailbox, message queue,    *)
(* memory pool) share on top of IpcThreads: one object, its life from      *)
(* initialisation to detach, the arguments of the calls that wait on it,   *)
(* and the retry of a wait with the waiting time that is left.             *)
(***************************************************************************)
EXTENDS IpcThreads, FiniteSets

CONSTANTS receivers, \* parent.suspend_thread of the object
          senders,   \* suspend_sender_thread, which only a mailbox has
          Flags,     \* the values of parent.parent.flag
          NoData     \* the argument of a call that has none

ASSUME IpcObjectAssumption ==
  /\ WaitList = {receivers, senders} /\ receivers # senders
  /\ Flags \subseteq {"FIFO", "PRIO"}
  /\ Relaxed \subseteq {"late"}
  /\ IsFiniteSet(Thread)

VARIABLES kind, \* parent.parent.type: the class of the object
          flag, \* parent.parent.flag
          live, \* the object is initialised
          arg   \* the local variables of the call a thread is in: timeout and
                \* the data it sends or wants

kept == <<kind, flag, live>>
object == <<kept, arg>>

Kind == {"event", "mailbox", "queue", "pool"}

NoArg == [time |-> "none", data |-> NoData]

ObjectInit(c) ==
  /\ KernelInit
  /\ kind = c /\ flag \in Flags /\ live = TRUE
  /\ arg = [t \in Thread |-> NoArg]

ObjectTypeOK(Data) ==
  /\ IpcTypeOK
  /\ kind \in Kind /\ flag \in Flags /\ live \in BOOLEAN
  /\ arg \in [Thread -> [time : Time, data : Data \cup {NoData}]]

(* Threads that a call has taken off the list w and that have not gone on  *)
(* with theirs: they will look at the object once more.                    *)
Woken(w) == {t \in Thread : Inside(t, w) /\ ~In(t, k.wait[w]) /\ k.error[t] = "EOK"}

Detaching == \E t \in Thread : pc[t].op \in {"detach", "rouse"}

(* Rules of use the kernel does not enforce: the object is used between    *)
(* initialisation and detach, and it is not detached while a thread that   *)
(* was woken is still to look at it ("late").                              *)
Usable == live /\ ~Detaching

Detachable ==
  \/ "late" \in Relaxed
  \/ /\ \A w \in WaitList : Woken(w) = {}
     /\ \A t \in Thread : pc[t].op \notin {"fill", "urge", "leave"}

(* timeout -= tick_delta, and not below 0: what a waiter that was woken has *)
(* left of its waiting time.                                                *)
Remaining(time) == IF time = "ticks" THEN {"none", "ticks"} ELSE {time}

Enter(time, data) == arg' = [arg EXCEPT ![me] = [time |-> time, data |-> data]]

Leave == arg' = [arg EXCEPT ![me] = NoArg]

(* The end of a wait that failed: the call returns thread->error. *)
WaitFails(w) ==
  /\ At("woken") /\ pc[me].on = {w} /\ k.error[me] # "EOK"
  /\ Return /\ Leave
  /\ UNCHANGED <<k, kept>>

(* The end of a section that made way for a waiter on w: wake the first    *)
(* one, and schedule; or return.                                           *)
WakeOne(w, op) ==
  IF k.wait[w] # <<>>
  THEN k' = rt_ipc_list_resume(k, w) /\ Goto("sched", w)
  ELSE /\ IF op = "run" THEN Return ELSE Goto(op, w)
       /\ UNCHANGED k

(* The detach call, and its loop on one of the lists. *)
Detach(w) ==
  /\ Calls /\ Usable /\ Detachable
  /\ Goto("detach", w)
  /\ UNCHANGED <<k, object>>

DetachLoop(w) == (DetachTest(w) \/ DetachBody(w)) /\ UNCHANGED object

DetachObject(w) ==
  /\ DetachEnd(w)
  /\ live' = FALSE
  /\ UNCHANGED <<kind, flag, arg>>

(* Initialisation or creation. *)
InitObject ==
  /\ Calls /\ ~live
  /\ flag' \in Flags /\ live' = TRUE
  /\ UNCHANGED <<k, pc, kind, arg>>

ObjectCall ==
  /\ \/ BlockSchedule \/ rt_thread_sleep \/ SleepReturn
     \/ Tick \/ TickEnd
     \/ \E t \in Thread : Timeout(t)
  /\ UNCHANGED object
-----------------------------------------------------------------------------
(* No lost wake-up: as long as anybody waits on w, each of the n things to *)
(* be had (messages, or room for them) has a woken thread on its way to    *)
(* it, even if other threads get there first.                              *)
Served(n, w) == k.wait[w] # <<>> => n <= Cardinality(Woken(w))

=============================================================================
