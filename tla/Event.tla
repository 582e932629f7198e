------------------------------- MODULE Event --------------------------------
(***************************************************************************)
(* An event object (the rt_event calls of ipc.c): a set of flags that      *)
(* threads and interrupt handlers set and threads wait for, all (AND) or   *)
(* any (OR) of a wanted set, with or without clearing what they get.  One  *)
(* send may serve several waiters, each seeing what the ones before it     *)
(* left.                                                                   *)
(***************************************************************************)
EXTENDS IpcObject

CONSTANTS EventFlag, \* the bits of an event set
          Request    \* what receivers ask for: want, all (AND, else OR), clear

ASSUME EventAssumption ==
  Request \subseteq [want : (SUBSET EventFlag) \ {{}}, all : BOOLEAN, clear : BOOLEAN]

VARIABLE ev \* event->set

eventVars == <<k, pc, object, ev>>

(* The data of a waiting call: the request, and got, the event_set in the  *)
(* thread: what it waits for, and once it is served what it receives.      *)
Wait(r, got) == [want |-> r.want, all |-> r.all, clear |-> r.clear, got |-> got]

WaitData == {Wait(r, got) : r \in Request, got \in SUBSET EventFlag}

ASSUME WaitDataAssumption == NoData \notin WaitData

(* Mutant: any flag will do. *)
SatisfiedByAny(all, want, set) == want \cap set # {}

Satisfied(all, want, set) == IF all THEN want \subseteq set ELSE want \cap set # {}

(* The walk of rt_event_send over the first n waiters, as the set that is  *)
(* left, what each of them received, and the kernel state.                 *)
Walk(set, n) ==
  LET list == k.wait[receivers]
      F[i \in 0 .. n] ==
        IF i = 0 THEN [set |-> set, arg |-> arg, k |-> k, woke |-> FALSE]
        ELSE LET w == F[i - 1]
                 t == list[i]
                 d == w.arg[t].data
                 got == IF d.all THEN d.got ELSE d.got \cap w.set
             IN  IF ~Satisfied(d.all, d.got, w.set) THEN w
                 ELSE [ set |-> IF d.clear THEN w.set \ got ELSE w.set,
                        arg |-> [w.arg EXCEPT ![t].data.got = got],
                        k |-> rt_thread_resume(w.k, t), woke |-> TRUE ]
  IN  F[n]

(* Mutant: serves the first waiter only. *)
SendEventToFirst(set) ==
  Walk(ev \cup set, IF k.wait[receivers] = <<>> THEN 0 ELSE 1)

SendEvent(set) == Walk(ev \cup set, Len(k.wait[receivers]))

rt_event_send(set) ==
  /\ Calls /\ Usable /\ set # {}
  /\ LET w == SendEvent(set)
     IN  /\ ev' = w.set /\ arg' = w.arg /\ k' = w.k
         /\ IF w.woke THEN Goto("sched", receivers) ELSE UNCHANGED pc
  /\ UNCHANGED kept

SendEventInHandler(set) ==
  /\ k.isr /\ Usable /\ set # {}
  /\ LET w == SendEvent(set)
     IN  /\ ev' = w.set /\ arg' = w.arg
         /\ k' = IF w.woke THEN rt_schedule(w.k) ELSE w.k
  /\ UNCHANGED <<pc, kept>>

(* Mutant: clears whether asked to or not. *)
RecvClears(r, time) ==
  /\ Calls /\ Usable
  /\ Satisfied(r.all, r.want, ev)
  /\ ev' = ev \ r.want
  /\ k' = [k EXCEPT !.error[me] = "EOK"]
  /\ Goto("leave", receivers) /\ Enter("none", Wait(r, ev \cap r.want))
  /\ UNCHANGED kept

rt_event_recv(r, time) ==
  /\ Calls /\ Usable
  /\ \/ /\ Satisfied(r.all, r.want, ev)
        /\ ev' = IF r.clear THEN ev \ r.want ELSE ev
        /\ k' = [k EXCEPT !.error[me] = "EOK"]
        /\ Goto("leave", receivers) /\ Enter("none", Wait(r, ev \cap r.want))
     \/ /\ ~Satisfied(r.all, r.want, ev) /\ time = "none"
        /\ k' = [k EXCEPT !.error[me] = "ETIMEOUT"]
        /\ UNCHANGED <<pc, arg, ev>>
     \/ /\ ~Satisfied(r.all, r.want, ev) /\ time # "none"
        /\ k' = Block(k, receivers, flag, time)
        /\ Goto("block", receivers) /\ Enter(time, Wait(r, r.want))
        /\ UNCHANGED ev
  /\ UNCHANGED kept

(* The call returns *recved: after a wait, the event_set in the thread. *)
RecvEventReturn ==
  /\ At("leave") \/ (At("woken") /\ pc[me].on = {receivers} /\ k.error[me] = "EOK")
  /\ Return /\ Leave
  /\ UNCHANGED <<k, kept, ev>>

(* rt_event_control(RT_IPC_CMD_RESET) *)
rt_event_control ==
  /\ Calls /\ Usable
  /\ k' = rt_ipc_list_resume_all(k, receivers)
  /\ ev' = {}
  /\ Goto("sched", receivers)
  /\ UNCHANGED object

(* rt_event_detach, rt_event_delete *)
rt_event_detach ==
  /\ Detach(receivers) \/ DetachLoop(receivers) \/ DetachObject(receivers)
  /\ UNCHANGED ev

(* rt_event_init, rt_event_create *)
rt_event_init == InitObject /\ ev' = {}

EventInit == ObjectInit("event") /\ ev = {}

EventNext ==
  \/ \E set \in SUBSET EventFlag : rt_event_send(set) \/ SendEventInHandler(set)
  \/ \E r \in Request, time \in Time : rt_event_recv(r, time)
  \/ RecvEventReturn \/ rt_event_control \/ rt_event_detach \/ rt_event_init
  \/ (ObjectCall \/ WaitFails(receivers) \/ (Schedule /\ UNCHANGED object)) /\ UNCHANGED ev

EventSpec == EventInit /\ [][EventNext]_eventVars
-----------------------------------------------------------------------------
EventTypeOK == ObjectTypeOK(WaitData) /\ ev \subseteq EventFlag

(* A receiver waits exactly as long as the flags do not meet its request,  *)
(* and what a served one is about to return is what it asked for: all it   *)
(* wanted, or a part of it, although thread->event_set first holds the     *)
(* request and then the answer, and sends may follow the one that served.  *)
EventMatched ==
  kind = "event" => \A t \in Thread :
    /\ In(t, k.wait[receivers]) =>
         ~Satisfied(arg[t].data.all, arg[t].data.want, ev) \/ Detaching
    /\ t \in Woken(receivers) \/ pc[t].op = "leave" =>
         LET d == arg[t].data
         IN  IF d.all THEN d.got = d.want ELSE d.got # {} /\ d.got \subseteq d.want

(* Flags are neither lost nor received twice: but for a reset and a new    *)
(* initialisation, a flag goes out only to a receiver that clears it, and  *)
(* to only one.                                                            *)
EventsKept ==
  [][rt_event_control \/ rt_event_init \/
     \A e \in ev \ ev' :
       \E t \in Thread :
         /\ arg'[t].data # NoData /\ arg'[t].data.clear /\ e \in arg'[t].data.got
         /\ ~In(t, k'.wait[receivers])
         /\ \A u \in Thread \ {t} :
              In(u, k.wait[receivers]) /\ ~In(u, k'.wait[receivers]) =>
                ~(arg'[u].data.clear /\ e \in arg'[u].data.got)]_eventVars

=============================================================================
