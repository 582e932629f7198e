---------------------------- MODULE KernelLemmas ----------------------------
(***************************************************************************)
(* Facts about the operators of RtKernel, for any number of threads and    *)
(* priorities and any time slice.  The module goes from lists to the       *)
(* operators: a lemma XFields says what operator X does to each field of   *)
(* the kernel state, and that it keeps the ready queue consistent.         *)
(***************************************************************************)
EXTENDS RtKernel, SequenceTheorems, WellFoundedInduction, TLAPS

(* Removing a node from a list of threads (rt_list_remove) leaves a list   *)
(* of threads.                                                             *)
LEMMA WithoutType ==
  ASSUME NEW s \in Seq(Thread), NEW t \in Thread
  PROVE  Without(s, t) \in Seq(Thread)
<1>1. CASE \E i \in DOMAIN s : s[i] = t
  <2> DEFINE i == CHOOSE i \in DOMAIN s : s[i] = t
  <2>1. i \in 1 .. Len(s) /\ Len(s) \in Nat
    BY <1>1
  <2>2. Without(s, t) = [j \in 1 .. Len(s) - 1 |-> IF j < i THEN s[j] ELSE s[j + 1]]
    BY <1>1 DEF Without
  <2> HIDE DEF i
  <2>3. \A j \in 1 .. Len(s) - 1 : (IF j < i THEN s[j] ELSE s[j + 1]) \in Thread
    BY <2>1
  <2> QED
    BY <2>1, <2>2, <2>3
<1>2. CASE ~ \E i \in DOMAIN s : s[i] = t
  BY <1>2 DEF Without
<1> QED
  BY <1>1, <1>2

(* No element occurs twice in s. *)
Once(s) == \A i, j \in DOMAIN s : s[i] = s[j] => i = j

(* From a list without repetition, rt_list_remove takes exactly the one    *)
(* thread.                                                                 *)
LEMMA WithoutElements ==
  ASSUME NEW s \in Seq(Thread), NEW t \in Thread, Once(s)
  PROVE  /\ Once(Without(s, t))
         /\ \A u \in Thread : In(u, Without(s, t)) <=> In(u, s) /\ u # t
<1>1. CASE \E i \in DOMAIN s : s[i] = t
  <2> DEFINE i == CHOOSE i \in DOMAIN s : s[i] = t
             w == Without(s, t)
  <2>1. i \in 1 .. Len(s) /\ Len(s) \in Nat /\ s[i] = t /\ DOMAIN s = 1 .. Len(s)
    BY <1>1
  <2>2. w = [j \in 1 .. Len(s) - 1 |-> IF j < i THEN s[j] ELSE s[j + 1]]
    BY <1>1 DEF Without
  <2> HIDE DEF i, w
  <2>3. DOMAIN w = 1 .. Len(s) - 1
    BY <2>2
  <2>4. \A j \in DOMAIN w : w[j] = IF j < i THEN s[j] ELSE s[j + 1]
    BY <2>2, <2>3
  <2>5. Once(w)
    BY <2>1, <2>3, <2>4 DEF Once
  <2>6. ASSUME NEW u \in Thread, In(u, w) PROVE In(u, s) /\ u # t
    BY <2>1, <2>3, <2>4, <2>6 DEF In, Once
  <2>7. ASSUME NEW u \in Thread, In(u, s), u # t PROVE In(u, w)
    <3>1. PICK j \in 1 .. Len(s) : s[j] = u
      BY <2>1, <2>7 DEF In
    <3>2. CASE j < i
      <4>1. j \in DOMAIN w /\ w[j] = u
        BY <2>1, <2>3, <2>4, <3>1, <3>2
      <4> QED
        BY <4>1 DEF In
    <3>3. CASE j > i
      <4>1. j - 1 \in DOMAIN w /\ w[j - 1] = u
        BY <2>1, <2>3, <2>4, <3>1, <3>3
      <4> QED
        BY <4>1 DEF In
    <3>4. j # i
      BY <2>1, <2>7, <3>1
    <3> QED
      BY <2>1, <3>1, <3>2, <3>3, <3>4
  <2> QED
    BY <2>5, <2>6, <2>7 DEF w
<1>2. CASE ~ \E i \in DOMAIN s : s[i] = t
  BY <1>2 DEF Without, In, Once
<1> QED
  BY <1>1, <1>2

(* rt_list_insert_before the head adds exactly the one thread, at the      *)
(* end.                                                                    *)
LEMMA AppendElements ==
  ASSUME NEW s \in Seq(Thread), NEW t \in Thread
  PROVE  /\ Append(s, t) \in Seq(Thread) /\ Append(s, t) # <<>>
         /\ \A u \in Thread : In(u, Append(s, t)) <=> In(u, s) \/ u = t
         /\ Once(s) /\ ~In(t, s) => Once(Append(s, t))
<1> DEFINE a == Append(s, t)
<1>1. a \in Seq(Thread) /\ Len(a) = Len(s) + 1 /\ Len(s) \in Nat /\ a # <<>>
  OBVIOUS
<1>2. \A i \in 1 .. Len(a) : a[i] = IF i <= Len(s) THEN s[i] ELSE t
  BY <1>1
<1>3. DOMAIN a = 1 .. Len(s) + 1 /\ DOMAIN s = 1 .. Len(s)
  BY <1>1
<1> HIDE DEF a
<1>4. \A u \in Thread : In(u, s) => In(u, a)
  BY <1>1, <1>2, <1>3 DEF In
<1>5. In(t, a)
  <2>1. Len(s) + 1 \in DOMAIN a /\ a[Len(s) + 1] = t
    BY <1>1, <1>2, <1>3
  <2> QED
    BY <2>1 DEF In
<1>6. \A u \in Thread : In(u, a) => In(u, s) \/ u = t
  BY <1>1, <1>2, <1>3 DEF In
<1>7. Once(s) /\ ~In(t, s) => Once(a)
  BY <1>1, <1>2, <1>3 DEF In, Once
<1> QED
  BY <1>1, <1>4, <1>5, <1>6, <1>7 DEF a

(* rt_list_insert_after the head adds exactly the one thread, in front.    *)
LEMMA PrependElements ==
  ASSUME NEW s \in Seq(Thread), NEW t \in Thread
  PROVE  /\ <<t>> \o s \in Seq(Thread)
         /\ \A u \in Thread : In(u, <<t>> \o s) <=> u = t \/ In(u, s)
         /\ Once(s) /\ ~In(t, s) => Once(<<t>> \o s)
<1> DEFINE a == <<t>> \o s
<1>1. a \in Seq(Thread) /\ Len(a) = Len(s) + 1 /\ Len(s) \in Nat
  OBVIOUS
<1>2. \A i \in 1 .. Len(s) + 1 : a[i] = IF i = 1 THEN t ELSE s[i - 1]
  OBVIOUS
<1>3. DOMAIN a = 1 .. Len(s) + 1 /\ DOMAIN s = 1 .. Len(s)
  BY <1>1
<1> HIDE DEF a
<1>4. ASSUME NEW u \in Thread, In(u, s) PROVE In(u, a)
  <2>1. PICK i \in 1 .. Len(s) : s[i] = u
    BY <1>3, <1>4 DEF In
  <2>2. i + 1 \in DOMAIN a /\ a[i + 1] = u
    BY <1>1, <1>2, <1>3, <2>1
  <2> QED
    BY <2>2 DEF In
<1>5. In(t, a)
  <2>1. 1 \in DOMAIN a /\ a[1] = t
    BY <1>1, <1>2, <1>3
  <2> QED
    BY <2>1 DEF In
<1>6. \A u \in Thread : In(u, a) => u = t \/ In(u, s)
  BY <1>1, <1>2, <1>3 DEF In
<1>7. ASSUME Once(s), ~In(t, s), NEW i \in DOMAIN a, NEW j \in DOMAIN a, a[i] = a[j] PROVE i = j
  <2>1. \A n \in DOMAIN s : s[n] # t
    BY <1>7 DEF In
  <2>2. \A n \in DOMAIN a : n # 1 => n - 1 \in DOMAIN s /\ a[n] = s[n - 1]
    BY <1>1, <1>2, <1>3
  <2> QED
    BY <1>1, <1>2, <1>3, <1>7, <2>1, <2>2 DEF Once
<1> QED
  BY <1>1, <1>4, <1>5, <1>6, <1>7 DEF a, Once

-----------------------------------------------------------------------------
(* The ready queue of kernel state x, where the threads of X are off the   *)
(* lists whatever their stat.                                              *)
Queue(x, X) ==
  /\ \A p \in Priority : Once(x.ready[p])
  /\ \A t \in Thread, p \in Priority :
       In(t, x.ready[p]) <=> x.stat[t] = "READY" /\ x.prio[t] = p /\ t \notin X
  /\ x.group = {p \in Priority : x.ready[p] # <<>>}

(* A list is not empty exactly when some thread is in it                   *)
(* (rt_list_isempty).                                                      *)
LEMMA EmptyIn ==
  ASSUME NEW s \in Seq(Thread)
  PROVE  s # <<>> <=> \E t \in Thread : In(t, s)
<1>1. Len(s) \in Nat /\ DOMAIN s = 1 .. Len(s) /\ \A i \in 1 .. Len(s) : s[i] \in Thread
  OBVIOUS
<1>2. s = <<>> <=> Len(s) = 0
  OBVIOUS
<1>3. Len(s) # 0 => In(s[1], s) /\ s[1] \in Thread
  BY <1>1 DEF In
<1>4. ASSUME NEW t \in Thread, In(t, s) PROVE Len(s) # 0
  BY <1>1, <1>4 DEF In
<1> QED
  BY <1>2, <1>3, <1>4

(* What rt_schedule_remove_thread does to each field of the kernel state.  *)
LEMMA RemoveFields ==
  ASSUME NEW x \in KernelState, NEW t \in Thread
  PROVE  LET r == rt_schedule_remove_thread(x, t)
         IN  /\ r \in KernelState
             /\ r.ready = [p \in Priority |-> Without(x.ready[p], t)]
             /\ r.wait = [w \in WaitList |-> Without(x.wait[w], t)]
             /\ r.defunct = Without(x.defunct, t)
             /\ r.group = IF r.ready[x.prio[t]] = <<>> THEN x.group \ x.mask[t] ELSE x.group
             /\ r.stat = x.stat /\ r.prio = x.prio /\ r.mask = x.mask /\ r.error = x.error
             /\ r.slice = x.slice /\ r.timer = x.timer /\ r.current = x.current
             /\ r.nest = x.nest /\ r.isr = x.isr
<1>1. \A p \in Priority : Without(x.ready[p], t) \in Seq(Thread)
  BY WithoutType DEF KernelState
<1>2. \A w \in WaitList : Without(x.wait[w], t) \in Seq(Thread)
  BY WithoutType DEF KernelState
<1>3. Without(x.defunct, t) \in Seq(Thread)
  BY WithoutType DEF KernelState
<1> QED
  BY <1>1, <1>2, <1>3 DEF rt_schedule_remove_thread, rt_list_remove, KernelState

(* What rt_schedule_insert_thread does to each field of the kernel state.  *)
LEMMA InsertFields ==
  ASSUME NEW x \in KernelState, NEW t \in Thread
  PROVE  LET r == rt_schedule_insert_thread(x, t)
         IN  /\ r \in KernelState
             /\ r.ready = [x.ready EXCEPT ![x.prio[t]] = Append(@, t)]
             /\ r.group = x.group \cup x.mask[t]
             /\ r.stat = [x.stat EXCEPT ![t] = "READY"]
             /\ r.wait = x.wait /\ r.defunct = x.defunct
             /\ r.prio = x.prio /\ r.mask = x.mask /\ r.error = x.error
             /\ r.slice = x.slice /\ r.timer = x.timer /\ r.current = x.current
             /\ r.nest = x.nest /\ r.isr = x.isr
<1>1. Append(x.ready[x.prio[t]], t) \in Seq(Thread)
  BY AppendElements DEF KernelState
<1> QED
  BY <1>1 DEF rt_schedule_insert_thread, KernelState, Stat

(* After rt_schedule_remove_thread the ready queue is consistent without   *)
(* t, if number_mask is the bit of t's priority.                           *)
LEMMA RemoveQueue ==
  ASSUME NEW x \in KernelState, NEW t \in Thread, NEW X, Queue(x, X), x.mask[t] = {x.prio[t]}
  PROVE  Queue(rt_schedule_remove_thread(x, t), X \cup {t})
<1> DEFINE r == rt_schedule_remove_thread(x, t)
<1>1. /\ r.ready = [p \in Priority |-> Without(x.ready[p], t)]
      /\ r.group = IF r.ready[x.prio[t]] = <<>> THEN x.group \ x.mask[t] ELSE x.group
      /\ r.stat = x.stat /\ r.prio = x.prio /\ r \in KernelState
  BY RemoveFields
<1>2. x.prio[t] \in Priority /\ \A p \in Priority : x.ready[p] \in Seq(Thread) /\ r.ready[p] \in Seq(Thread)
  BY <1>1 DEF KernelState
<1> HIDE DEF r
<1>3. \A p \in Priority : Once(r.ready[p])
  BY <1>1, <1>2, WithoutElements DEF Queue
<1>4. \A u \in Thread, p \in Priority : In(u, r.ready[p]) <=> In(u, x.ready[p]) /\ u # t
  BY <1>1, <1>2, WithoutElements DEF Queue
<1>5. \A u \in Thread, p \in Priority :
        In(u, r.ready[p]) <=> r.stat[u] = "READY" /\ r.prio[u] = p /\ u \notin X \cup {t}
  BY <1>1, <1>4 DEF Queue
<1>6. ASSUME NEW p \in Priority, p # x.prio[t] PROVE r.ready[p] # <<>> <=> x.ready[p] # <<>>
  <2>1. ~In(t, x.ready[p])
    BY <1>6 DEF Queue
  <2> QED
    BY <1>2, <1>4, <2>1, EmptyIn
<1>7. r.ready[x.prio[t]] # <<>> => x.ready[x.prio[t]] # <<>>
  BY <1>2, <1>4, EmptyIn
<1>8. r.group = {p \in Priority : r.ready[p] # <<>>}
  <2>1. x.group = {p \in Priority : x.ready[p] # <<>>}
    BY DEF Queue
  <2>2. CASE r.ready[x.prio[t]] = <<>>
    <3>1. r.group = x.group \ {x.prio[t]}
      BY <1>1, <2>2
    <3> QED
      BY <1>6, <2>1, <2>2, <3>1
  <2>3. CASE r.ready[x.prio[t]] # <<>>
    BY <1>1, <1>6, <1>7, <2>1, <2>3
  <2> QED
    BY <2>2, <2>3
<1> QED
  BY <1>3, <1>5, <1>8 DEF Queue, r

(* rt_schedule_insert_thread keeps the ready queue consistent, if t was    *)
(* on no list and number_mask is the bit of its priority.                  *)
LEMMA InsertQueue ==
  ASSUME NEW x \in KernelState, NEW t \in Thread, NEW X, Queue(x, X),
         x.mask[t] = {x.prio[t]}, \A p \in Priority : ~In(t, x.ready[p])
  PROVE  Queue(rt_schedule_insert_thread(x, t), X \ {t})
<1> DEFINE r == rt_schedule_insert_thread(x, t)
<1>1. /\ r.ready = [x.ready EXCEPT ![x.prio[t]] = Append(@, t)]
      /\ r.group = x.group \cup x.mask[t]
      /\ r.stat = [x.stat EXCEPT ![t] = "READY"]
      /\ r.prio = x.prio /\ r \in KernelState
  BY InsertFields
<1>2. /\ x.prio[t] \in Priority
      /\ \A p \in Priority : x.ready[p] \in Seq(Thread) /\ r.ready[p] \in Seq(Thread)
      /\ r.ready[x.prio[t]] = Append(x.ready[x.prio[t]], t)
      /\ \A p \in Priority : p # x.prio[t] => r.ready[p] = x.ready[p]
      /\ r.stat[t] = "READY" /\ \A u \in Thread : u # t => r.stat[u] = x.stat[u]
  BY <1>1 DEF KernelState
<1> DEFINE s == x.ready[x.prio[t]]
<1>a. /\ \A u \in Thread : In(u, Append(s, t)) <=> In(u, s) \/ u = t
      /\ Once(s) /\ ~In(t, s) => Once(Append(s, t))
      /\ Append(s, t) # <<>>
  BY <1>2, AppendElements
<1> HIDE DEF r
<1>3. \A p \in Priority : Once(r.ready[p])
  BY <1>2, <1>a DEF Queue
<1>4. \A u \in Thread, p \in Priority :
        In(u, r.ready[p]) <=> In(u, x.ready[p]) \/ (u = t /\ p = x.prio[t])
  BY <1>2, <1>a
<1>5. \A u \in Thread, p \in Priority :
        In(u, r.ready[p]) <=> r.stat[u] = "READY" /\ r.prio[u] = p /\ u \notin X \ {t}
  BY <1>1, <1>2, <1>4 DEF Queue
<1>6. r.group = {p \in Priority : r.ready[p] # <<>>}
  <2>1. x.group = {p \in Priority : x.ready[p] # <<>>}
    BY DEF Queue
  <2>2. r.ready[x.prio[t]] # <<>>
    BY <1>2, <1>a
  <2> QED
    BY <1>1, <1>2, <2>1, <2>2
<1> QED
  BY <1>3, <1>5, <1>6 DEF Queue, r

(* A non-empty set of naturals has a least element: rt_lowest_bitmap       *)
(* finds a bit.                                                            *)
LEMMA LeastNatural ==
  ASSUME NEW S \in SUBSET Nat, S # {}
  PROVE  \E m \in S : \A n \in S : m <= n
<1> DEFINE R == OpToRel(<, Nat)
<1>1. IsWellFoundedOn(R, Nat)
  BY NatLessThanWellFounded
<1>2. \A x, y \in Nat : <<y, x>> \in R <=> y < x
  BY DEF OpToRel
<1> HIDE DEF R
<1>3. PICK x \in S : \A y \in S : ~(<<y, x>> \in R)
  BY <1>1, WFMin
<1>4. ASSUME NEW n \in S PROVE x <= n
  <2>1. n \in Nat /\ x \in Nat
    BY <1>3
  <2>2. ~(n < x)
    BY <1>2, <1>3, <2>1
  <2> QED
    BY <2>1, <2>2
<1> QED
  BY <1>3, <1>4

(* t may be on the processor: it is READY, on its list, and nobody on a    *)
(* list has a higher priority.                                             *)
Best(x, X, t) ==
  /\ t \in Thread \ X /\ x.stat[t] = "READY"
  /\ \A u \in Thread \ X : x.stat[u] = "READY" => x.prio[t] <= x.prio[u]

(* On a consistent queue rt_schedule changes only the current thread, and  *)
(* unlocked it picks a best one.                                           *)
LEMMA ScheduleFields ==
  ASSUME NEW x \in KernelState, NEW X, Queue(x, X),
         NEW i \in Thread \ X, x.stat[i] = "READY"
  PROVE  LET r == rt_schedule(x)
         IN  /\ r \in KernelState
             /\ r = [x EXCEPT !.current = r.current]
             /\ x.nest # 0 => r.current = x.current
             /\ x.nest = 0 => Best(x, X, r.current)
<1>1. CASE x.nest # 0
  BY <1>1 DEF rt_schedule, KernelState
<1>2. CASE x.nest = 0
  <2> DEFINE h == HighestReady(x.group)
             c == FirstThread(x.ready[h])
  <2>1. x.group \in SUBSET Nat /\ x.group \subseteq Priority
    BY DEF KernelState, Priority
  <2>2. x.prio[i] \in x.group
    <3>1. In(i, x.ready[x.prio[i]]) /\ x.prio[i] \in Priority /\ x.ready[x.prio[i]] \in Seq(Thread)
      BY DEF Queue, KernelState
    <3> QED
      BY <3>1, EmptyIn DEF Queue
  <2>3. h \in x.group /\ \A q \in x.group : h <= q
    <3>1. \E p \in x.group : \A q \in x.group : p <= q
      BY <2>1, <2>2, LeastNatural
    <3> QED
      BY <2>2, <3>1 DEF HighestReady
  <2>4. h \in Priority /\ x.ready[h] # <<>> /\ x.ready[h] \in Seq(Thread)
    BY <2>1, <2>3 DEF Queue, KernelState
  <2> HIDE DEF h
  <2>5. c = x.ready[h][1] /\ c \in Thread /\ In(c, x.ready[h])
    <3>1. Len(x.ready[h]) >= 1 /\ 1 \in DOMAIN x.ready[h]
      BY <2>4
    <3> QED
      BY <2>4, <3>1 DEF FirstThread, In
  <2> HIDE DEF c
  <2>6. c \in Thread \ X /\ x.stat[c] = "READY" /\ x.prio[c] = h
    BY <2>4, <2>5 DEF Queue
  <2>7. ASSUME NEW u \in Thread \ X, x.stat[u] = "READY" PROVE h <= x.prio[u]
    <3>1. In(u, x.ready[x.prio[u]]) /\ x.prio[u] \in Priority /\ x.ready[x.prio[u]] \in Seq(Thread)
      BY <2>7 DEF Queue, KernelState
    <3> QED
      BY <2>3, <3>1, EmptyIn DEF Queue
  <2>8. Best(x, X, c)
    BY <2>6, <2>7 DEF Best
  <2>9. rt_schedule(x) = [x EXCEPT !.current = c]
    BY <1>2 DEF rt_schedule, c, h
  <2>10. rt_schedule(x) \in KernelState /\ rt_schedule(x).current = c
    BY <2>5, <2>9 DEF KernelState
  <2> QED
    BY <1>2, <2>8, <2>9, <2>10
<1> QED
  BY <1>1, <1>2

(* Everything in a kernel state but the ready queue, the thread's stat,    *)
(* priority and error, and the timers.                                     *)
SameRest(r, x) ==
  /\ r.defunct = x.defunct /\ r.current = x.current /\ r.nest = x.nest /\ r.isr = x.isr

OffLists(x, t) == \A p \in Priority : ~In(t, x.ready[p])

(* The suspend lists of x without t. *)
Unwait(x, t) == [w \in WaitList |-> Without(x.wait[w], t)]

(* rt_list_remove of a node that is not in the list changes nothing.       *)
LEMMA WithoutAbsent ==
  ASSUME NEW s, NEW t, ~In(t, s)
  PROVE  Without(s, t) = s
BY DEF Without, In

(* rt_list_remove of a thread on no ready list leaves the ready queue      *)
(* alone.                                                                  *)
LEMMA ListRemoveFields ==
  ASSUME NEW x \in KernelState, NEW t \in Thread, OffLists(x, t)
  PROVE  LET r == rt_list_remove(x, t)
         IN  /\ r \in KernelState
             /\ r.ready = x.ready /\ r.group = x.group
             /\ r.defunct = Without(x.defunct, t) /\ r.wait = Unwait(x, t)
             /\ r.stat = x.stat /\ r.prio = x.prio /\ r.mask = x.mask /\ r.error = x.error
             /\ r.slice = x.slice /\ r.timer = x.timer /\ r.current = x.current
             /\ r.nest = x.nest /\ r.isr = x.isr
<1>1. \A w \in WaitList : Without(x.wait[w], t) \in Seq(Thread)
  BY WithoutType DEF KernelState
<1>2. Without(x.defunct, t) \in Seq(Thread)
  BY WithoutType DEF KernelState
<1>3. [p \in Priority |-> Without(x.ready[p], t)] = x.ready
  BY WithoutAbsent DEF OffLists, KernelState
<1> QED
  BY <1>1, <1>2, <1>3 DEF rt_list_remove, KernelState, Unwait

(* The first section of rt_thread_resume, on a thread that is on no list:  *)
(* only its timer stops.                                                   *)
LEMMA UnlinkFields ==
  ASSUME NEW x \in KernelState, NEW t \in Thread, OffLists(x, t), ~In(t, x.defunct)
  PROVE  LET r == Unlink(x, t)
         IN  /\ r \in KernelState /\ SameRest(r, x)
             /\ r.ready = x.ready /\ r.group = x.group
             /\ r.stat = x.stat /\ r.prio = x.prio /\ r.mask = x.mask
             /\ r.timer = x.timer \ {t}
             /\ r.wait = Unwait(x, t) /\ r.error = x.error /\ r.slice = x.slice
<1> DEFINE m == rt_list_remove(x, t)
<1>1. /\ m \in KernelState
      /\ m.ready = x.ready /\ m.group = x.group
      /\ m.defunct = x.defunct
      /\ m.stat = x.stat /\ m.prio = x.prio /\ m.mask = x.mask
      /\ m.wait = Unwait(x, t) /\ m.error = x.error /\ m.slice = x.slice
      /\ m.timer = x.timer /\ m.current = x.current
      /\ m.nest = x.nest /\ m.isr = x.isr
  BY ListRemoveFields, WithoutAbsent
<1>2. Unlink(x, t) = [m EXCEPT !.timer = @ \ {t}]
  BY DEF Unlink
<1> HIDE DEF m
<1> QED
  BY <1>1, <1>2 DEF KernelState, SameRest

(* rt_thread_suspend keeps the queue consistent and takes the thread off   *)
(* every list.                                                             *)
LEMMA SuspendFields ==
  ASSUME NEW x \in KernelState, NEW t \in Thread, NEW X, Queue(x, X),
         x.mask[t] = {x.prio[t]}, ~In(t, x.defunct)
  PROVE  LET r == rt_thread_suspend(x, t)
         IN  /\ r \in KernelState /\ SameRest(r, x) /\ Queue(r, X) /\ OffLists(r, t)
             /\ r.stat = [x.stat EXCEPT ![t] = "SUSPEND"]
             /\ r.prio = x.prio /\ r.mask = x.mask /\ r.timer = x.timer
             /\ r.wait = Unwait(x, t) /\ r.error = x.error /\ r.slice = x.slice
<1> DEFINE y == [x EXCEPT !.stat[t] = "SUSPEND"]
           r == rt_schedule_remove_thread(y, t)
           q == rt_schedule_remove_thread(x, t)
<1>1. /\ y \in KernelState /\ y.stat = [x.stat EXCEPT ![t] = "SUSPEND"]
      /\ y.ready = x.ready /\ y.group = x.group /\ y.wait = x.wait /\ y.defunct = x.defunct
      /\ y.prio = x.prio /\ y.mask = x.mask /\ y.timer = x.timer /\ y.current = x.current
      /\ y.nest = x.nest /\ y.isr = x.isr /\ y.error = x.error /\ y.slice = x.slice
  BY DEF KernelState, Stat
<1>2. Queue(q, X \cup {t})
  BY RemoveQueue
<1>3. /\ q.ready = [p \in Priority |-> Without(x.ready[p], t)] /\ q \in KernelState
      /\ q.group = IF q.ready[x.prio[t]] = <<>> THEN x.group \ x.mask[t] ELSE x.group
      /\ q.stat = x.stat /\ q.prio = x.prio
  BY RemoveFields
<1> HIDE DEF y
<1>4. /\ r \in KernelState
      /\ r.ready = [p \in Priority |-> Without(y.ready[p], t)]
      /\ r.defunct = Without(y.defunct, t)
      /\ r.group = IF r.ready[y.prio[t]] = <<>> THEN y.group \ y.mask[t] ELSE y.group
      /\ r.stat = y.stat /\ r.prio = y.prio /\ r.mask = y.mask
      /\ r.timer = y.timer /\ r.current = y.current
      /\ r.nest = y.nest /\ r.isr = y.isr /\ r.error = y.error /\ r.slice = y.slice
      /\ r.wait = Unwait(y, t)
  BY <1>1, RemoveFields DEF Unwait
<1>5. rt_thread_suspend(x, t) = r
  BY DEF rt_thread_suspend, y
<1> HIDE DEF q, r
<1>6. r.ready = q.ready /\ r.group = q.group /\ r.prio = q.prio
  BY <1>1, <1>3, <1>4
<1>7. r.defunct = x.defunct
  BY <1>1, <1>4, WithoutAbsent
<1>8. r.stat[t] = "SUSPEND" /\ \A u \in Thread \ {t} : r.stat[u] = q.stat[u]
  BY <1>1, <1>3, <1>4 DEF KernelState
<1>9. OffLists(r, t)
  BY <1>2, <1>6 DEF Queue, OffLists
<1>10. Queue(r, X)
  BY <1>2, <1>6, <1>8 DEF Queue
<1> QED
  BY <1>1, <1>4, <1>5, <1>7, <1>9, <1>10 DEF SameRest, Unwait

(* rt_thread_control (change of priority) keeps the queue consistent.      *)
LEMMA ControlFields ==
  ASSUME NEW x \in KernelState, NEW t \in Thread, NEW p \in Priority, NEW X, Queue(x, X),
         t \notin X, x.stat[t] = "READY" => x.mask[t] = {x.prio[t]} /\ ~In(t, x.defunct)
  PROVE  LET r == rt_thread_control(x, t, p)
         IN  /\ r \in KernelState /\ SameRest(r, x) /\ Queue(r, X)
             /\ r.stat = x.stat /\ r.timer = x.timer
             /\ r.prio = [x.prio EXCEPT ![t] = p] /\ r.mask = [x.mask EXCEPT ![t] = {p}]
             /\ r.wait = (IF x.stat[t] = "READY" THEN Unwait(x, t) ELSE x.wait)
             /\ r.error = x.error /\ r.slice = x.slice
<1> DEFINE r == rt_thread_control(x, t, p)
<1>1. CASE x.stat[t] = "READY"
  <2> DEFINE q == rt_schedule_remove_thread(x, t)
             y == [q EXCEPT !.prio[t] = p, !.mask[t] = {p}]
             z == rt_schedule_insert_thread(y, t)
  <2>1. /\ q \in KernelState /\ q.defunct = x.defunct
        /\ q.stat = x.stat /\ q.prio = x.prio /\ q.mask = x.mask
        /\ q.timer = x.timer /\ q.current = x.current
        /\ q.nest = x.nest /\ q.isr = x.isr /\ q.error = x.error /\ q.slice = x.slice
        /\ q.wait = Unwait(x, t)
    <3>1. Without(x.defunct, t) = x.defunct
      BY <1>1, WithoutAbsent
    <3> QED
      BY <3>1, RemoveFields DEF Unwait
  <2>2. Queue(q, X \cup {t})
    BY <1>1, RemoveQueue
  <2>3. r = z
    BY <1>1 DEF rt_thread_control
  <2> HIDE DEF q, r
  <2>4. /\ y \in KernelState /\ y.ready = q.ready /\ y.group = q.group /\ y.stat = q.stat
        /\ y.defunct = q.defunct /\ y.prio = [q.prio EXCEPT ![t] = p]
        /\ y.mask = [q.mask EXCEPT ![t] = {p}] /\ y.timer = q.timer
        /\ y.current = q.current /\ y.nest = q.nest /\ y.isr = q.isr
        /\ y.wait = q.wait /\ y.error = q.error /\ y.slice = q.slice
    BY <2>1 DEF KernelState
  <2>5. y.prio[t] = p /\ y.mask[t] = {p} /\ \A u \in Thread \ {t} : y.prio[u] = q.prio[u]
    BY <2>1, <2>4 DEF KernelState
  <2> HIDE DEF y
  <2>6. Queue(y, X \cup {t})
    BY <2>2, <2>4, <2>5 DEF Queue
  <2>7. \A o \in Priority : ~In(t, y.ready[o])
    BY <2>6 DEF Queue
  <2>8. Queue(z, X)
    <3>1. Queue(z, (X \cup {t}) \ {t})
      BY <2>4, <2>5, <2>6, <2>7, InsertQueue
    <3>2. (X \cup {t}) \ {t} = X
      OBVIOUS
    <3> QED
      BY <3>1, <3>2
  <2>9. /\ z \in KernelState /\ z.stat = [y.stat EXCEPT ![t] = "READY"]
        /\ z.defunct = y.defunct /\ z.prio = y.prio /\ z.mask = y.mask
        /\ z.timer = y.timer /\ z.current = y.current /\ z.nest = y.nest /\ z.isr = y.isr
        /\ z.wait = y.wait /\ z.error = y.error /\ z.slice = y.slice
    BY <2>4, InsertFields
  <2>10. z.stat = x.stat
    BY <1>1, <2>1, <2>4, <2>9 DEF KernelState
  <2> HIDE DEF z
  <2> QED
    BY <1>1, <2>1, <2>3, <2>4, <2>8, <2>9, <2>10 DEF SameRest, r
<1>2. CASE x.stat[t] # "READY"
  <2>1. r = [x EXCEPT !.prio[t] = p, !.mask[t] = {p}]
    BY <1>2 DEF rt_thread_control
  <2> HIDE DEF r
  <2>2. /\ r \in KernelState /\ SameRest(r, x) /\ r.ready = x.ready /\ r.group = x.group
        /\ r.stat = x.stat /\ r.timer = x.timer
        /\ r.prio = [x.prio EXCEPT ![t] = p] /\ r.mask = [x.mask EXCEPT ![t] = {p}]
        /\ r.wait = x.wait /\ r.error = x.error /\ r.slice = x.slice
    BY <2>1 DEF KernelState, SameRest
  <2>3. \A u \in Thread : u # t => r.prio[u] = x.prio[u]
    BY <2>2 DEF KernelState
  <2>4. Queue(r, X)
    BY <1>2, <2>2, <2>3 DEF Queue
  <2> QED
    BY <1>2, <2>2, <2>4 DEF r
<1> QED
  BY <1>1, <1>2

(* rt_thread_yield keeps the queue consistent.                             *)
LEMMA RequeueFields ==
  ASSUME NEW x \in KernelState, NEW t \in Thread, NEW X, Queue(x, X), t \notin X,
         x.stat[t] = "READY", x.mask[t] = {x.prio[t]}, ~In(t, x.defunct)
  PROVE  LET r == Requeue(x, t)
         IN  /\ r \in KernelState /\ SameRest(r, x) /\ Queue(r, X)
             /\ r.stat = x.stat /\ r.timer = x.timer /\ r.prio = x.prio /\ r.mask = x.mask
             /\ r.wait = Unwait(x, t) /\ r.error = x.error /\ r.slice = x.slice
<1> DEFINE q == rt_schedule_remove_thread(x, t)
           z == rt_schedule_insert_thread(q, t)
           l == rt_list_remove(x, t)
           r == Requeue(x, t)
           p == x.prio[t]
<1>1. /\ q \in KernelState /\ q.ready = [o \in Priority |-> Without(x.ready[o], t)]
      /\ q.stat = x.stat /\ q.prio = x.prio /\ q.mask = x.mask
  BY RemoveFields
<1>2. Queue(q, X \cup {t})
  BY RemoveQueue
<1> HIDE DEF q
<1>3. \A o \in Priority : ~In(t, q.ready[o])
  BY <1>2 DEF Queue
<1>4. Queue(z, X)
  <2>1. Queue(z, (X \cup {t}) \ {t})
    BY <1>1, <1>2, <1>3, InsertQueue
  <2>2. (X \cup {t}) \ {t} = X
    OBVIOUS
  <2> QED
    BY <2>1, <2>2
<1>5. /\ z \in KernelState /\ z.ready = [q.ready EXCEPT ![q.prio[t]] = Append(@, t)]
      /\ z.stat = [q.stat EXCEPT ![t] = "READY"] /\ z.prio = q.prio
  BY <1>1, InsertFields
<1> HIDE DEF z
<1>6. \A o \in Priority : Without(x.ready[o], t) \in Seq(Thread)
  BY WithoutType DEF KernelState
<1>7. \A w \in WaitList : Without(x.wait[w], t) \in Seq(Thread)
  BY WithoutType DEF KernelState
<1>8. Without(x.defunct, t) = x.defunct
  BY WithoutAbsent
<1>9. /\ l \in KernelState /\ l.ready = [o \in Priority |-> Without(x.ready[o], t)]
      /\ l.group = x.group /\ l.defunct = x.defunct
      /\ l.stat = x.stat /\ l.prio = x.prio /\ l.mask = x.mask
      /\ l.timer = x.timer /\ l.current = x.current /\ l.nest = x.nest /\ l.isr = x.isr
      /\ l.wait = Unwait(x, t) /\ l.error = x.error /\ l.slice = x.slice
  BY <1>6, <1>7, <1>8 DEF rt_list_remove, KernelState, Unwait
<1>10. r = [l EXCEPT !.ready[p] = Append(l.ready[p], t)]
  BY DEF Requeue
<1> HIDE DEF l, r
<1>11. p \in Priority /\ Append(l.ready[p], t) \in Seq(Thread)
  BY <1>9, AppendElements DEF KernelState
<1>12. /\ r \in KernelState /\ r.ready = [l.ready EXCEPT ![p] = Append(l.ready[p], t)]
       /\ r.group = x.group /\ SameRest(r, x)
       /\ r.stat = x.stat /\ r.timer = x.timer /\ r.prio = x.prio /\ r.mask = x.mask
       /\ r.wait = Unwait(x, t) /\ r.error = x.error /\ r.slice = x.slice
  BY <1>9, <1>10, <1>11 DEF KernelState, SameRest
<1>13. r.ready = z.ready
  BY <1>1, <1>5, <1>9, <1>12
<1>14. z.stat = x.stat /\ z.prio = x.prio
  BY <1>1, <1>5 DEF KernelState
<1>15. z.group = x.group
  <2>1. \A o \in Priority : x.ready[o] \in Seq(Thread) /\ z.ready[o] \in Seq(Thread)
    BY <1>5 DEF KernelState
  <2>2. \A o \in Priority, u \in Thread : In(u, z.ready[o]) <=> In(u, x.ready[o])
    BY <1>4, <1>14 DEF Queue
  <2>3. \A o \in Priority : z.ready[o] # <<>> <=> x.ready[o] # <<>>
    BY <2>1, <2>2, EmptyIn
  <2> QED
    BY <1>4, <2>3 DEF Queue
<1>16. Queue(r, X)
  <2>1. r.stat = z.stat /\ r.prio = z.prio /\ r.group = z.group /\ r.ready = z.ready
    BY <1>12, <1>13, <1>14, <1>15
  <2> QED
    BY <1>4, <2>1 DEF Queue
<1> QED
  BY <1>12, <1>16 DEF r

(* The processor stays with its thread or goes to a best one. *)
Switch(r, x, X) == r.current = x.current \/ (x.nest = 0 /\ Best(r, X, r.current))

(* rt_schedule keeps the queue consistent and makes only a legal switch.   *)
LEMMA ScheduleSwitch ==
  ASSUME NEW x \in KernelState, NEW X, Queue(x, X),
         NEW i \in Thread \ X, x.stat[i] = "READY"
  PROVE  LET r == rt_schedule(x)
         IN  /\ r \in KernelState /\ Queue(r, X) /\ Switch(r, x, X)
             /\ x.nest = 0 => Best(r, X, r.current)
             /\ r.ready = x.ready /\ r.group = x.group /\ r.defunct = x.defunct
             /\ r.stat = x.stat /\ r.prio = x.prio /\ r.mask = x.mask
             /\ r.timer = x.timer /\ r.nest = x.nest /\ r.isr = x.isr
             /\ r.wait = x.wait /\ r.error = x.error /\ r.slice = x.slice
<1> DEFINE r == rt_schedule(x)
<1>1. /\ r \in KernelState
      /\ r = [x EXCEPT !.current = r.current]
      /\ x.nest # 0 => r.current = x.current
      /\ x.nest = 0 => Best(x, X, r.current)
  BY ScheduleFields
<1> HIDE DEF r
<1> DEFINE c == r.current
<1> HIDE DEF c
<1>a. r = [x EXCEPT !.current = c]
  BY <1>1 DEF c
<1>2. /\ r.ready = x.ready /\ r.group = x.group /\ r.defunct = x.defunct
      /\ r.stat = x.stat /\ r.prio = x.prio /\ r.mask = x.mask
      /\ r.timer = x.timer /\ r.nest = x.nest /\ r.isr = x.isr
      /\ r.wait = x.wait /\ r.error = x.error /\ r.slice = x.slice
  BY <1>a DEF KernelState
<1>3. Queue(r, X)
  BY <1>2 DEF Queue
<1>4. x.nest = 0 => Best(r, X, r.current)
  BY <1>1, <1>2 DEF Best
<1>5. Switch(r, x, X)
  BY <1>1, <1>4 DEF Switch
<1> QED
  BY <1>1, <1>2, <1>3, <1>4, <1>5 DEF r

(* rt_thread_timeout of a suspended thread makes it READY and makes only   *)
(* a legal switch.                                                         *)
LEMMA TimeoutFields ==
  ASSUME NEW x \in KernelState, NEW t \in Thread, NEW X, Queue(x, X), t \notin X,
         x.stat[t] = "SUSPEND", x.mask[t] = {x.prio[t]}, ~In(t, x.defunct),
         NEW i \in Thread \ X, x.stat[i] = "READY"
  PROVE  LET r == rt_thread_timeout(x, t)
         IN  /\ r \in KernelState /\ Queue(r, X) /\ Switch(r, x, X)
             /\ r.stat = [x.stat EXCEPT ![t] = "READY"] /\ r.timer = x.timer \ {t}
             /\ r.prio = x.prio /\ r.mask = x.mask /\ r.defunct = x.defunct
             /\ r.nest = x.nest /\ r.isr = x.isr /\ r.wait = Unwait(x, t)
             /\ r.error = [x.error EXCEPT ![t] = "ETIMEOUT"]
             /\ x.nest = 0 => Best(r, X, r.current)
<1> DEFINE y == [x EXCEPT !.timer = @ \ {t}, !.error[t] = "ETIMEOUT"]
           l == rt_list_remove(y, t)
           z == rt_schedule_insert_thread(l, t)
           r == rt_schedule(z)
<1>1. /\ y \in KernelState /\ y.ready = x.ready /\ y.group = x.group /\ y.stat = x.stat
      /\ y.prio = x.prio /\ y.mask = x.mask /\ y.defunct = x.defunct
      /\ y.timer = x.timer \ {t} /\ y.current = x.current /\ y.nest = x.nest /\ y.isr = x.isr
      /\ y.wait = x.wait /\ y.error = [x.error EXCEPT ![t] = "ETIMEOUT"]
  BY DEF KernelState, Error
<1> HIDE DEF y
<1>2. OffLists(y, t)
  BY <1>1 DEF Queue, OffLists
<1>3. Without(y.defunct, t) = y.defunct
  BY <1>1, WithoutAbsent
<1>4. /\ l \in KernelState /\ l.ready = x.ready /\ l.group = x.group /\ l.stat = x.stat
      /\ l.prio = x.prio /\ l.mask = x.mask /\ l.defunct = x.defunct
      /\ l.timer = x.timer \ {t} /\ l.current = x.current /\ l.nest = x.nest /\ l.isr = x.isr
      /\ l.wait = Unwait(x, t) /\ l.error = [x.error EXCEPT ![t] = "ETIMEOUT"]
  BY <1>1, <1>2, <1>3, ListRemoveFields DEF Unwait
<1> HIDE DEF l
<1>5. Queue(l, X)
  BY <1>4 DEF Queue
<1>6. \A p \in Priority : ~In(t, l.ready[p])
  BY <1>1, <1>2, <1>4 DEF OffLists
<1>7. Queue(z, X)
  <2>1. Queue(z, X \ {t})
    BY <1>4, <1>5, <1>6, InsertQueue
  <2>2. X \ {t} = X
    OBVIOUS
  <2> QED
    BY <2>1, <2>2
<1>8. /\ z \in KernelState /\ z.stat = [l.stat EXCEPT ![t] = "READY"]
      /\ z.defunct = l.defunct /\ z.prio = l.prio /\ z.mask = l.mask
      /\ z.timer = l.timer /\ z.current = l.current /\ z.nest = l.nest /\ z.isr = l.isr
      /\ z.wait = l.wait /\ z.error = l.error
  BY <1>4, InsertFields
<1> HIDE DEF z
<1>9. z.stat[i] = "READY"
  BY <1>4, <1>8 DEF KernelState
<1>10. /\ r \in KernelState /\ Queue(r, X) /\ Switch(r, z, X)
       /\ r.defunct = z.defunct
       /\ r.stat = z.stat /\ r.prio = z.prio /\ r.mask = z.mask
       /\ r.timer = z.timer /\ r.nest = z.nest /\ r.isr = z.isr
       /\ r.wait = z.wait /\ r.error = z.error /\ (z.nest = 0 => Best(r, X, r.current))
  BY <1>7, <1>8, <1>9, ScheduleSwitch
<1>11. rt_thread_timeout(x, t) = r
  BY DEF rt_thread_timeout, z, l, y
<1> HIDE DEF r
<1>12. Switch(r, x, X)
  BY <1>4, <1>8, <1>10 DEF Switch
<1> QED
  BY <1>4, <1>8, <1>10, <1>11, <1>12

(* rt_tick_increase keeps the queue consistent and makes only a legal      *)
(* switch.                                                                 *)
LEMMA TickFields ==
  ASSUME NEW x \in KernelState, NEW X, Queue(x, X), x.current \in Thread \ X,
         x.stat[x.current] = "READY" =>
           x.mask[x.current] = {x.prio[x.current]} /\ ~In(x.current, x.defunct),
         NEW i \in Thread \ X, x.stat[i] = "READY"
  PROVE  LET r == rt_tick_increase(x)
         IN  /\ r \in KernelState /\ Queue(r, X) /\ Switch(r, x, X)
             /\ r.stat = x.stat /\ r.timer = x.timer
             /\ r.prio = x.prio /\ r.mask = x.mask /\ r.defunct = x.defunct
             /\ r.nest = x.nest /\ r.isr = x.isr /\ r.error = x.error
             /\ r.wait = x.wait \/ (x.stat[x.current] = "READY" /\ r.wait = Unwait(x, x.current))
<1> DEFINE t == x.current
           r == rt_tick_increase(x)
           y == [x EXCEPT !.slice[t] = INIT_TICK]
           n == [x EXCEPT !.slice[t] = @ - 1]
<1>1. /\ y \in KernelState /\ y.ready = x.ready /\ y.group = x.group /\ y.stat = x.stat
      /\ y.prio = x.prio /\ y.mask = x.mask /\ y.defunct = x.defunct
      /\ y.timer = x.timer /\ y.current = x.current /\ y.nest = x.nest /\ y.isr = x.isr
      /\ y.wait = x.wait /\ y.error = x.error
  <2>1. INIT_TICK \in 1 .. INIT_TICK
    BY KernelAssumption
  <2> QED
    BY <2>1 DEF KernelState
<1>2. CASE x.slice[t] > 1
  <2>1. x.slice[t] - 1 \in 1 .. INIT_TICK
    BY <1>2, KernelAssumption DEF KernelState
  <2>2. /\ n \in KernelState /\ n.ready = x.ready /\ n.group = x.group /\ n.stat = x.stat
        /\ n.prio = x.prio /\ n.mask = x.mask /\ n.defunct = x.defunct
        /\ n.timer = x.timer /\ n.current = x.current /\ n.nest = x.nest /\ n.isr = x.isr
        /\ n.wait = x.wait /\ n.error = x.error
    BY <2>1 DEF KernelState
  <2>3. r = n
    BY <1>2 DEF rt_tick_increase
  <2> HIDE DEF n, r
  <2> QED
    BY <2>2, <2>3 DEF Queue, Switch, r
<1>3. CASE ~(x.slice[t] > 1) /\ ~Shares(x, t)
  <2>1. r = y
    BY <1>3 DEF rt_tick_increase
  <2> HIDE DEF y, r
  <2> QED
    BY <1>1, <2>1 DEF Queue, Switch, r
<1>4. CASE ~(x.slice[t] > 1) /\ Shares(x, t)
  <2> DEFINE q == Requeue(y, t)
  <2>1. r = rt_schedule(q)
    BY <1>4 DEF rt_tick_increase
  <2>2. x.stat[t] = "READY"
    BY <1>4 DEF Shares
  <2> HIDE DEF y, r
  <2>3. Queue(y, X)
    BY <1>1 DEF Queue
  <2>4. /\ q \in KernelState /\ SameRest(q, y) /\ Queue(q, X)
        /\ q.stat = y.stat /\ q.timer = y.timer /\ q.prio = y.prio /\ q.mask = y.mask
        /\ q.wait = Unwait(y, t) /\ q.error = y.error
    BY <1>1, <2>2, <2>3, RequeueFields
  <2> HIDE DEF q
  <2>5. /\ r \in KernelState /\ Queue(r, X) /\ Switch(r, q, X)
        /\ r.defunct = q.defunct
        /\ r.stat = q.stat /\ r.prio = q.prio /\ r.mask = q.mask
        /\ r.timer = q.timer /\ r.nest = q.nest /\ r.isr = q.isr
        /\ r.wait = q.wait /\ r.error = q.error
    BY <1>1, <2>1, <2>4, ScheduleSwitch
  <2>6. Switch(r, x, X)
    BY <1>1, <2>4, <2>5 DEF Switch, SameRest
  <2> QED
    BY <1>1, <2>2, <2>4, <2>5, <2>6 DEF SameRest, Unwait, r
<1> QED
  BY <1>2, <1>3, <1>4

-----------------------------------------------------------------------------
(* The threads of s are in the order of their priorities. *)
Ordered(s, prio) == \A i, j \in DOMAIN s : i < j => prio[s[i]] <= prio[s[j]]

(* The place where rt_ipc_list_suspend inserts a thread by priority: those *)
(* in front of it have no lower priority, the one behind it has.           *)
LEMMA InsertPlace ==
  ASSUME NEW s \in Seq(Thread), NEW t \in Thread, NEW prio \in [Thread -> Priority]
  PROVE  \E i \in 1 .. Len(s) + 1 :
           /\ InsertByPriority(s, t, prio) =
                [j \in 1 .. Len(s) + 1 |-> IF j < i THEN s[j] ELSE IF j = i THEN t ELSE s[j - 1]]
           /\ \A j \in 1 .. i - 1 : prio[s[j]] <= prio[t]
           /\ i <= Len(s) => prio[t] < prio[s[i]]
<1> DEFINE Later(i) == \E j \in 1 .. i : prio[t] < prio[s[j]]
           First == CHOOSE j \in 1 .. Len(s) : Later(j) /\ ~Later(j - 1)
           n == IF Later(Len(s)) THEN First ELSE Len(s) + 1
<1>1. Len(s) \in Nat /\ \A j \in 1 .. Len(s) : s[j] \in Thread
  OBVIOUS
<1>2. \A u \in Thread : prio[u] \in Int
  BY KernelAssumption DEF Priority
<1>3. CASE Later(Len(s))
  <2> DEFINE S == {j \in 1 .. Len(s) : prio[t] < prio[s[j]]}
  <2>1. S \in SUBSET Nat /\ S # {}
    BY <1>1, <1>3
  <2>2. PICK m \in S : \A j \in S : m <= j
    BY <2>1, LeastNatural
  <2>3. m \in 1 .. Len(s) /\ Later(m) /\ ~Later(m - 1)
    BY <1>1, <2>2
  <2>4. First \in 1 .. Len(s) /\ Later(First) /\ ~Later(First - 1)
    BY <2>3
  <2>5. n = First
    BY <1>3
  <2> HIDE DEF First
  <2>6. \A j \in 1 .. First - 1 : prio[s[j]] <= prio[t]
    BY <1>1, <1>2, <2>4
  <2>7. prio[t] < prio[s[First]]
    <3>1. PICK j \in 1 .. First : prio[t] < prio[s[j]]
      BY <2>4
    <3>2. j \notin 1 .. First - 1
      BY <2>4, <3>1
    <3>3. j = First
      BY <2>4, <3>1, <3>2
    <3> QED
      BY <3>1, <3>3
  <2>8. InsertByPriority(s, t, prio) =
          [j \in 1 .. Len(s) + 1 |-> IF j < n THEN s[j] ELSE IF j = n THEN t ELSE s[j - 1]]
    BY DEF InsertByPriority, First
  <2>9. First \in 1 .. Len(s) + 1
    BY <1>1, <2>4
  <2> HIDE DEF n
  <2> QED
    BY <2>5, <2>6, <2>7, <2>8, <2>9
<1>4. CASE ~Later(Len(s))
  <2>1. n = Len(s) + 1 /\ n \in 1 .. Len(s) + 1
    BY <1>1, <1>4
  <2>2. InsertByPriority(s, t, prio) =
          [j \in 1 .. Len(s) + 1 |-> IF j < n THEN s[j] ELSE IF j = n THEN t ELSE s[j - 1]]
    BY DEF InsertByPriority
  <2> HIDE DEF n
  <2>3. \A j \in 1 .. n - 1 : prio[s[j]] <= prio[t]
    BY <1>1, <1>2, <1>4, <2>1
  <2>4. ~(n <= Len(s))
    BY <1>1, <2>1
  <2> QED
    BY <2>1, <2>2, <2>3, <2>4
<1> QED
  BY <1>3, <1>4

(* rt_ipc_list_suspend by priority adds exactly the one thread and keeps   *)
(* the order.                                                              *)
LEMMA InsertElements ==
  ASSUME NEW s \in Seq(Thread), NEW t \in Thread, NEW prio \in [Thread -> Priority]
  PROVE  LET r == InsertByPriority(s, t, prio)
         IN  /\ r \in Seq(Thread) /\ r # <<>>
             /\ \A u \in Thread : In(u, r) <=> In(u, s) \/ u = t
             /\ Once(s) /\ ~In(t, s) => Once(r)
             /\ Ordered(s, prio) => Ordered(r, prio)
<1> DEFINE r == InsertByPriority(s, t, prio)
<1>1. Len(s) \in Nat /\ DOMAIN s = 1 .. Len(s) /\ \A j \in 1 .. Len(s) : s[j] \in Thread
  OBVIOUS
<1>2. \A u \in Thread : prio[u] \in Int
  BY KernelAssumption DEF Priority
<1>3. PICK i \in 1 .. Len(s) + 1 :
        /\ r = [j \in 1 .. Len(s) + 1 |-> IF j < i THEN s[j] ELSE IF j = i THEN t ELSE s[j - 1]]
        /\ \A j \in 1 .. i - 1 : prio[s[j]] <= prio[t]
        /\ i <= Len(s) => prio[t] < prio[s[i]]
  BY InsertPlace
<1> HIDE DEF r
<1>4. DOMAIN r = 1 .. Len(s) + 1 /\ i \in Int
  BY <1>3
<1>5. \A j \in 1 .. Len(s) + 1 : r[j] = IF j < i THEN s[j] ELSE IF j = i THEN t ELSE s[j - 1]
  BY <1>3
<1>6. \A j \in 1 .. Len(s) + 1 : r[j] \in Thread
  <2>1. ASSUME NEW j \in 1 .. Len(s) + 1 PROVE r[j] \in Thread
    <3>1. CASE j < i
      BY <1>1, <1>3, <1>5, <3>1
    <3>2. CASE j = i
      BY <1>5, <3>2
    <3>3. CASE j > i
      <4>1. j - 1 \in 1 .. Len(s)
        BY <1>1, <1>3, <3>3
      <4> QED
        BY <1>1, <1>4, <1>5, <3>3, <4>1
    <3> QED
      BY <1>4, <3>1, <3>2, <3>3
  <2> QED
    BY <2>1
<1>7. r \in Seq(Thread) /\ r # <<>>
  <2>1. r \in [1 .. Len(s) + 1 -> Thread]
    BY <1>3, <1>5, <1>6
  <2>2. Len(s) + 1 \in Nat
    BY <1>1
  <2>3. r \in Seq(Thread)
    BY <2>1, <2>2
  <2> QED
    BY <1>1, <1>4, <2>3
<1>8. ASSUME NEW u \in Thread, In(u, s) PROVE In(u, r)
  <2>1. PICK j \in 1 .. Len(s) : s[j] = u
    BY <1>1, <1>8 DEF In
  <2>2. CASE j < i
    <3>1. j \in 1 .. Len(s) + 1 /\ r[j] = u
      BY <1>1, <1>5, <2>1, <2>2
    <3> QED
      BY <1>4, <3>1 DEF In
  <2>3. CASE ~(j < i)
    <3>1. j + 1 \in 1 .. Len(s) + 1 /\ ~(j + 1 < i) /\ j + 1 # i /\ (j + 1) - 1 = j
      BY <1>1, <1>4, <2>3
    <3>2. r[j + 1] = u
      BY <1>5, <2>1, <3>1
    <3> QED
      BY <1>4, <3>1, <3>2 DEF In
  <2> QED
    BY <2>2, <2>3
<1>9. In(t, r)
  <2>1. r[i] = t
    BY <1>3, <1>4, <1>5
  <2> QED
    BY <1>3, <1>4, <2>1 DEF In
<1>10. ASSUME NEW u \in Thread, In(u, r) PROVE In(u, s) \/ u = t
  <2>1. PICK j \in 1 .. Len(s) + 1 : r[j] = u
    BY <1>4, <1>10 DEF In
  <2>2. CASE j < i
    <3>1. j \in 1 .. Len(s) /\ s[j] = u
      BY <1>1, <1>3, <1>5, <2>1, <2>2
    <3> QED
      BY <1>1, <3>1 DEF In
  <2>3. CASE j > i
    <3>1. j - 1 \in 1 .. Len(s) /\ s[j - 1] = u
      BY <1>1, <1>3, <1>4, <1>5, <2>1, <2>3
    <3> QED
      BY <1>1, <3>1 DEF In
  <2>4. CASE j = i
    BY <1>5, <2>1, <2>4
  <2> QED
    BY <1>4, <2>2, <2>3, <2>4
<1>11. ASSUME Once(s), ~In(t, s) PROVE Once(r)
  <2>1. \A j \in 1 .. Len(s) : s[j] # t
    BY <1>1, <1>11 DEF In
  <2>2. \A j \in 1 .. Len(s) + 1 :
          \/ j < i /\ j \in 1 .. Len(s) /\ r[j] = s[j]
          \/ j = i /\ r[j] = t
          \/ j > i /\ j - 1 \in 1 .. Len(s) /\ r[j] = s[j - 1]
    BY <1>1, <1>3, <1>4, <1>5
  <2>3. ASSUME NEW a \in 1 .. Len(s) + 1, NEW b \in 1 .. Len(s) + 1, r[a] = r[b]
        PROVE  a = b
    BY <1>1, <1>4, <1>11, <2>1, <2>2, <2>3 DEF Once
  <2> QED
    BY <1>4, <2>3 DEF Once
<1>12. ASSUME Ordered(s, prio) PROVE Ordered(r, prio)
  <2>1. \A j \in 1 .. Len(s) + 1 :
          \/ j < i /\ j \in 1 .. Len(s) /\ r[j] = s[j]
          \/ j = i /\ r[j] = t
          \/ j > i /\ j - 1 \in 1 .. Len(s) /\ r[j] = s[j - 1]
    BY <1>1, <1>3, <1>4, <1>5
  <2>2. \A a, b \in 1 .. Len(s) : a < b => prio[s[a]] <= prio[s[b]]
    BY <1>1, <1>12 DEF Ordered
  <2>3. \A a \in 1 .. Len(s) : a < i => prio[s[a]] <= prio[t]
    BY <1>1, <1>3, <1>4
  <2>4. ASSUME NEW b \in 1 .. Len(s), b >= i PROVE prio[t] <= prio[s[b]]
    <3>1. i \in 1 .. Len(s) /\ prio[t] < prio[s[i]]
      BY <1>1, <1>3, <2>4
    <3>2. prio[s[i]] <= prio[s[b]]
      <4>1. CASE i = b
        BY <1>1, <1>2, <4>1
      <4>2. CASE i < b
        BY <2>2, <3>1, <4>2
      <4> QED
        BY <1>4, <2>4, <4>1, <4>2
    <3> QED
      BY <1>1, <1>2, <3>1, <3>2
  <2>5. ASSUME NEW a \in 1 .. Len(s) + 1, NEW b \in 1 .. Len(s) + 1, a < b
        PROVE  prio[r[a]] <= prio[r[b]]
    <3>1. CASE a < i /\ b < i
      BY <1>1, <2>1, <2>2, <2>5, <3>1
    <3>2. CASE a < i /\ b = i
      BY <1>1, <2>1, <2>3, <3>2
    <3>3. CASE a < i /\ b > i
      <4>1. r[a] = s[a] /\ r[b] = s[b - 1] /\ a \in 1 .. Len(s) /\ b - 1 \in 1 .. Len(s)
        BY <1>1, <1>4, <2>1, <3>3
      <4>2. a < b - 1
        BY <1>4, <3>3, <2>5
      <4> QED
        BY <2>2, <4>1, <4>2
    <3>4. CASE a = i
      <4>1. r[a] = t /\ r[b] = s[b - 1] /\ b - 1 \in 1 .. Len(s) /\ b - 1 >= i
        BY <1>1, <1>4, <2>1, <2>5, <3>4
      <4> QED
        BY <2>4, <4>1
    <3>5. CASE a > i
      <4>1. /\ r[a] = s[a - 1] /\ r[b] = s[b - 1] /\ a - 1 < b - 1
            /\ a - 1 \in 1 .. Len(s) /\ b - 1 \in 1 .. Len(s)
        BY <1>1, <1>4, <2>1, <2>5, <3>5
      <4> QED
        BY <2>2, <4>1
    <3> QED
      BY <1>4, <3>1, <3>2, <3>3, <3>4, <3>5
  <2> QED
    BY <1>4, <2>5 DEF Ordered
<1> QED
  BY <1>7, <1>8, <1>9, <1>10, <1>11, <1>12 DEF r

(* rt_list_remove keeps the order of the others. *)
LEMMA WithoutOrdered ==
  ASSUME NEW s \in Seq(Thread), NEW t \in Thread, NEW prio, Ordered(s, prio)
  PROVE  Ordered(Without(s, t), prio)
<1>1. CASE \E i \in DOMAIN s : s[i] = t
  <2> DEFINE i == CHOOSE i \in DOMAIN s : s[i] = t
             w == Without(s, t)
  <2>1. i \in 1 .. Len(s) /\ Len(s) \in Nat /\ DOMAIN s = 1 .. Len(s)
    BY <1>1
  <2>2. w = [j \in 1 .. Len(s) - 1 |-> IF j < i THEN s[j] ELSE s[j + 1]]
    BY <1>1 DEF Without
  <2> HIDE DEF i, w
  <2>3. DOMAIN w = 1 .. Len(s) - 1
    BY <2>2
  <2>4. \A j \in DOMAIN w :
          \/ j < i /\ j \in DOMAIN s /\ w[j] = s[j]
          \/ j >= i /\ j + 1 \in DOMAIN s /\ w[j] = s[j + 1]
    BY <2>1, <2>2, <2>3
  <2>5. ASSUME NEW a \in DOMAIN w, NEW b \in DOMAIN w, a < b PROVE prio[w[a]] <= prio[w[b]]
    <3>1. a \in Int /\ b \in Int /\ i \in Int
      BY <2>1, <2>3
    <3>2. CASE b < i
      BY <2>4, <2>5, <3>1, <3>2 DEF Ordered
    <3>3. CASE a < i /\ b >= i
      <4>1. w[a] = s[a] /\ w[b] = s[b + 1] /\ a \in DOMAIN s /\ b + 1 \in DOMAIN s /\ a < b + 1
        BY <2>4, <2>5, <3>1, <3>3
      <4> QED
        BY <4>1 DEF Ordered
    <3>4. CASE a >= i
      <4>1. /\ w[a] = s[a + 1] /\ w[b] = s[b + 1] /\ a + 1 < b + 1
            /\ a + 1 \in DOMAIN s /\ b + 1 \in DOMAIN s
        BY <2>4, <2>5, <3>1, <3>4
      <4> QED
        BY <4>1 DEF Ordered
    <3> QED
      BY <2>5, <3>1, <3>2, <3>3, <3>4
  <2> QED
    BY <2>5 DEF Ordered, w
<1>2. CASE ~ \E i \in DOMAIN s : s[i] = t
  BY <1>2 DEF Without
<1> QED
  BY <1>1, <1>2

-----------------------------------------------------------------------------
(* Ring buffers: the indices of mailboxes and of the serial driver.        *)

(* An index that has wrapped once at most. *)
Wrap(a, S) == a % S

(* The next index, and the distance of two. *)
LEMMA RingIndex ==
  ASSUME NEW S \in Nat \ {0}
  PROVE  /\ \A a \in 0 .. 2 * S - 1 : Wrap(a, S) = (IF a >= S THEN a - S ELSE a)
         /\ \A a \in 1 - S .. -1 : Wrap(a, S) = a + S
<1>1. ASSUME NEW a \in 0 .. 2 * S - 1 PROVE Wrap(a, S) = (IF a >= S THEN a - S ELSE a)
  BY DEF Wrap
<1>2. ASSUME NEW a \in 1 - S .. -1 PROVE Wrap(a, S) = a + S
  BY DEF Wrap
<1> QED
  BY <1>1, <1>2

(* The n elements of a ring of S places from out on. *)
Ring(pool, out, n, S) == [i \in 1 .. n |-> pool[Wrap(out + i - 1, S)]]

(* It is a sequence. *)
LEMMA RingSeq ==
  ASSUME NEW D, NEW S \in Nat \ {0}, NEW pool \in [0 .. S - 1 -> D], NEW out \in 0 .. S - 1,
         NEW n \in 0 .. S
  PROVE  Ring(pool, out, n, S) \in Seq(D) /\ Len(Ring(pool, out, n, S)) = n
<1>1. ASSUME NEW i \in 1 .. n PROVE pool[Wrap(out + i - 1, S)] \in D
  <2>1. out + i - 1 \in 0 .. 2 * S - 1
    OBVIOUS
  <2>2. Wrap(out + i - 1, S) \in 0 .. S - 1
    BY <2>1, RingIndex
  <2> QED
    BY <2>2
<1>2. Ring(pool, out, n, S) \in [1 .. n -> D]
  BY <1>1 DEF Ring
<1> QED
  BY <1>2

(* The ring with m behind its n elements. *)
RingPut(pool, out, n, S, m) == [pool EXCEPT ![Wrap(out + n, S)] = m]

Appends(pool, out, n, S, m) ==
  Ring(RingPut(pool, out, n, S, m), out, n + 1, S) = Append(Ring(pool, out, n, S), m)

(* A store behind the last element. *)
LEMMA RingAppend ==
  ASSUME NEW D, NEW S \in Nat \ {0}, NEW pool \in [0 .. S - 1 -> D], NEW out \in 0 .. S - 1,
         NEW n \in 0 .. S - 1, NEW m \in D
  PROVE  Appends(pool, out, n, S, m)
<1> DEFINE in == Wrap(out + n, S)
           q == [pool EXCEPT ![in] = m]
           r == Ring(pool, out, n, S)
           s == Ring(q, out, n + 1, S)
<1>1. in \in 0 .. S - 1 /\ in = (IF out + n >= S THEN out + n - S ELSE out + n)
  <2>1. out + n \in 0 .. 2 * S - 1
    OBVIOUS
  <2> QED
    BY <2>1, RingIndex
<1>2. r \in Seq(D) /\ Len(r) = n
  <2>1. n \in 0 .. S
    OBVIOUS
  <2> QED
    BY <2>1, RingSeq
<1>3. DOMAIN s = 1 .. n + 1 /\ \A i \in 1 .. n + 1 : s[i] = q[Wrap(out + i - 1, S)]
  BY DEF Ring
<1>4. \A i \in 1 .. n : r[i] = pool[Wrap(out + i - 1, S)]
  BY DEF Ring
<1>5. ASSUME NEW i \in 1 .. n + 1
      PROVE  s[i] = (IF i <= n THEN r[i] ELSE m)
  <2> DEFINE j == Wrap(out + i - 1, S)
  <2>1. j \in 0 .. S - 1 /\ j = (IF out + (i - 1) >= S THEN out + (i - 1) - S ELSE out + (i - 1))
    <3>1. out + i - 1 \in 0 .. 2 * S - 1 /\ out + i - 1 = out + (i - 1)
      OBVIOUS
    <3> QED
      BY <3>1, RingIndex
  <2>2. s[i] = q[j]
    BY <1>3
  <2> HIDE DEF j, in
  <2>3. CASE i = n + 1
    <3>1. j = in
      BY <1>1, <2>1, <2>3
    <3> QED
      BY <1>1, <2>2, <2>3, <3>1
  <2>4. CASE i <= n
    <3>1. j # in
      BY <1>1, <2>1, <2>4
    <3>2. q[j] = pool[j]
      BY <1>1, <2>1, <3>1
    <3>3. r[i] = pool[j]
      BY <1>4, <2>4 DEF j
    <3> QED
      BY <2>2, <2>4, <3>2, <3>3
  <2> QED
    BY <2>3, <2>4
<1> HIDE DEF q, r, s
<1>6. Append(r, m) = [i \in 1 .. n + 1 |-> IF i <= n THEN r[i] ELSE m]
  BY <1>2
<1>7. s = [i \in 1 .. n + 1 |-> s[i]]
  BY <1>3 DEF s, Ring
<1>8. s = Append(r, m)
  BY <1>5, <1>6, <1>7
<1> QED
  BY <1>8 DEF r, s, q, in, RingPut, Appends

(* The first element leaves. *)
LEMMA RingTail ==
  ASSUME NEW D, NEW S \in Nat \ {0}, NEW pool \in [0 .. S - 1 -> D], NEW out \in 0 .. S - 1,
         NEW n \in 1 .. S
  PROVE  /\ Ring(pool, out, n, S) # <<>> /\ Head(Ring(pool, out, n, S)) = pool[out]
         /\ Ring(pool, Wrap(out + 1, S), n - 1, S) = Tail(Ring(pool, out, n, S))
<1> DEFINE next == Wrap(out + 1, S)
           r == Ring(pool, out, n, S)
           s == Ring(pool, next, n - 1, S)
<1>1. next \in 0 .. S - 1 /\ next = (IF out + 1 >= S THEN out + 1 - S ELSE out + 1)
  <2>1. out + 1 \in 0 .. 2 * S - 1
    OBVIOUS
  <2> QED
    BY <2>1, RingIndex
<1>2. r \in Seq(D) /\ Len(r) = n
  <2>1. n \in 0 .. S
    OBVIOUS
  <2> QED
    BY <2>1, RingSeq
<1>3. \A i \in 1 .. n : r[i] = pool[Wrap(out + i - 1, S)]
  BY DEF Ring
<1>4. r # <<>> /\ Head(r) = pool[out]
  <2>1. out + 1 - 1 \in 0 .. 2 * S - 1 /\ out + 1 - 1 = out /\ ~(out >= S)
    OBVIOUS
  <2>3. Wrap(out + 1 - 1, S) = out
    BY <2>1, RingIndex
  <2>2. r[1] = pool[out]
    BY <1>3, <2>3
  <2> HIDE DEF r
  <2> QED
    BY <1>2, <2>2
<1>5. ASSUME NEW i \in 1 .. n - 1 PROVE s[i] = r[i + 1]
  <2> DEFINE a == next + i - 1
  <2>1. s[i] = pool[Wrap(a, S)] /\ r[i + 1] = pool[Wrap(out + i, S)]
    BY DEF Ring
  <2>2. Wrap(out + i, S) = (IF out + i >= S THEN out + i - S ELSE out + i)
    <3>1. out + i \in 0 .. 2 * S - 1
      OBVIOUS
    <3> QED
      BY <3>1, RingIndex
  <2> HIDE DEF next
  <2>3. a = next + i - 1 /\ a \in 0 .. 2 * S - 1
    BY <1>1
  <2> HIDE DEF a
  <2>4. Wrap(a, S) = (IF a >= S THEN a - S ELSE a)
    BY <2>3, RingIndex
  <2>5. Wrap(a, S) = Wrap(out + i, S)
    BY <1>1, <2>2, <2>3, <2>4
  <2> QED
    BY <2>1, <2>5
<1>6. s \in Seq(D) /\ Len(s) = n - 1
  <2> DEFINE l == n - 1
  <2>1. l \in 0 .. S
    OBVIOUS
  <2> HIDE DEF next, l
  <2>2. next \in 0 .. S - 1
    BY <1>1
  <2>3. Ring(pool, next, l, S) \in Seq(D) /\ Len(Ring(pool, next, l, S)) = l
    BY <2>1, <2>2, RingSeq
  <2> QED
    BY <2>3 DEF l
<1> HIDE DEF r, s
<1>7. /\ Tail(r) \in Seq(D) /\ Len(Tail(r)) = n - 1
      /\ \A i \in 1 .. n - 1 : Tail(r)[i] = r[i + 1]
  BY <1>2, <1>4, HeadTailProperties
<1>8. s = Tail(r)
  BY <1>5, <1>6, <1>7, SeqEqual
<1> QED
  BY <1>4, <1>8 DEF r, s, next

=============================================================================
