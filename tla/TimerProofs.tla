---------------------------- MODULE TimerProofs -----------------------------
(***************************************************************************)
(* Proofs about the timers: for any number of them and any width of the    *)
(* tick, the lists and flags agree, hard timers are in the order in which  *)
(* they are due, and no timer fires early or, in the interrupt, late.      *)
(***************************************************************************)
EXTENDS Timer, WellFoundedInduction, TLAPS

(* The half range: what is less than this ahead is in the future. *)
Half == TICK_MAX \div 2

(* The constants as the proofs use them. *)
LEMMA TicksKnown ==
  /\ TickRange \in Nat /\ Half \in Nat /\ 2 * Half < TickRange
  /\ TICK_MAX = TickRange - 1 /\ 0 .. TICK_MAX = 0 .. TickRange - 1
  /\ MaxLag \in Nat /\ MaxLag + 1 < Half /\ Late = -MaxLag - 2 /\ Late \in Int
  /\ \A n \in Ticks : n \in Nat /\ n + MaxLag < Half
<1> DEFINE N == TickRange
<1>1. N \in Nat \ {0} /\ TICK_MAX = N - 1
  BY TimerAssumption DEF TICK_MAX
<1> HIDE DEF N
<1>2. (N - 1) \div 2 \in Nat /\ 2 * ((N - 1) \div 2) < N
  BY <1>1
<1> QED
  BY <1>1, <1>2, TimerAssumption DEF Half, N, Late

(* a is the tick x, which has wrapped once at most in either direction. *)
Near(a, x) == a = x \/ a = x + TickRange \/ a = x - TickRange

(* The tick after n ticks. *)
LEMMA Wrapped ==
  ASSUME NEW a \in 0 .. TICK_MAX, NEW n \in Nat, n < TickRange
  PROVE  (a + n) % TickRange \in 0 .. TICK_MAX /\ Near((a + n) % TickRange, a + n)
<1> DEFINE N == TickRange
<1>1. N \in Nat \ {0} /\ a \in 0 .. N - 1 /\ n < N /\ TICK_MAX = N - 1
  BY TicksKnown
<1> HIDE DEF N
<1>2. (a + n) % N = (IF a + n >= N THEN a + n - N ELSE a + n)
  BY <1>1
<1>3. (a + n) % N \in 0 .. N - 1 /\ ((a + n) % N = a + n \/ (a + n) % N = a + n - N)
  BY <1>1, <1>2
<1> QED
  BY <1>1, <1>3 DEF Near, N

(* The comparison in timer.c tells the order of two times that are less    *)
(* than half the range apart.                                              *)
LEMMA ReachedKnown ==
  ASSUME NEW a \in 0 .. TICK_MAX, NEW b \in 0 .. TICK_MAX, NEW z \in 0 .. TICK_MAX,
         NEW x \in Int, NEW y \in Int, Near(a, z + x), Near(b, z + y),
         y - x < Half, x - y <= Half
  PROVE  Reached(a, b) <=> x <= y
<1> DEFINE N == TickRange
<1>1. N \in Nat \ {0} /\ a \in 0 .. N - 1 /\ b \in 0 .. N - 1 /\ Half \in Nat /\ 2 * Half < N
  BY TicksKnown
<1>2. /\ a = z + x \/ a = z + x + N \/ a = z + x - N
      /\ b = z + y \/ b = z + y + N \/ b = z + y - N
  BY <1>1, TicksKnown DEF Near
<1>3. Reached(a, b) <=> (b - a) % N < Half
  BY DEF Reached, Half
<1> HIDE DEF N
<1>4. (b - a) % N = (IF b >= a THEN b - a ELSE b - a + N)
  BY <1>1
<1> QED
  BY <1>1, <1>2, <1>3, <1>4

-----------------------------------------------------------------------------
(* Lists *)

(* No element occurs twice in s. *)
Once(s) == \A i, j \in DOMAIN s : s[i] = s[j] => i = j

(* The elements of s are in the order of the times in w. *)
Ordered(s, w) == \A i, j \in DOMAIN s : i < j => w[s[i]] <= w[s[j]]

(* rt_list_remove takes out the one timer and keeps the order. *)
LEMMA WithoutKnown ==
  ASSUME NEW D, NEW s \in Seq(D), NEW t, Once(s)
  PROVE  /\ Without(s, t) \in Seq(D) /\ Once(Without(s, t))
         /\ \A u : Member(Without(s, t), u) <=> Member(s, u) /\ u # t
         /\ \A w : Ordered(s, w) => Ordered(Without(s, t), w)
<1>1. CASE ~Member(s, t)
  <2>1. Without(s, t) = s
    BY <1>1 DEF Without
  <2> QED
    BY <1>1, <2>1 DEF Member
<1>2. CASE Member(s, t)
  <2> DEFINE i == CHOOSE i \in DOMAIN s : s[i] = t
             r == Without(s, t)
  <2>1. i \in DOMAIN s /\ s[i] = t
    BY <1>2 DEF Member
  <2>2. r = [j \in 1 .. Len(s) - 1 |-> IF j < i THEN s[j] ELSE s[j + 1]]
    BY <1>2 DEF Without
  <2>3. Len(s) \in Nat /\ DOMAIN s = 1 .. Len(s) /\ \A j \in 1 .. Len(s) : s[j] \in D
    OBVIOUS
  <2> HIDE DEF i, r
  <2> DEFINE at(j) == IF j < i THEN j ELSE j + 1
  <2>4. /\ \A j \in 1 .. Len(s) - 1 : at(j) \in 1 .. Len(s) /\ r[j] = s[at(j)] /\ at(j) # i
        /\ \A j, l \in 1 .. Len(s) - 1 : (at(j) = at(l) => j = l) /\ (j < l => at(j) < at(l))
    BY <2>1, <2>2, <2>3
  <2>5. DOMAIN r = 1 .. Len(s) - 1 /\ r \in Seq(D)
    <3>1. r \in [1 .. Len(s) - 1 -> D]
      BY <2>1, <2>2, <2>3
    <3>2. Len(s) - 1 \in Nat
      BY <2>1, <2>3
    <3> QED
      BY <3>1, <3>2
  <2>6. ASSUME NEW l \in DOMAIN s, l # i PROVE \E j \in 1 .. Len(s) - 1 : at(j) = l
    <3>1. CASE l < i
      BY <2>1, <2>3, <2>6, <3>1
    <3>2. CASE l > i
      <4>1. l - 1 \in 1 .. Len(s) - 1 /\ at(l - 1) = l
        BY <2>1, <2>3, <2>6, <3>2
      <4> QED
        BY <4>1
    <3> QED
      BY <2>1, <2>3, <2>6, <3>1, <3>2
  <2> HIDE DEF at
  <2>7. Once(r)
    BY <2>3, <2>4, <2>5 DEF Once
  <2>8. ASSUME NEW u PROVE Member(r, u) <=> Member(s, u) /\ u # t
    <3>1. ASSUME Member(r, u) PROVE Member(s, u) /\ u # t
      BY <2>1, <2>3, <2>4, <2>5, <3>1 DEF Member, Once
    <3>2. ASSUME Member(s, u), u # t PROVE Member(r, u)
      <4>1. PICK l \in DOMAIN s : s[l] = u
        BY <3>2 DEF Member
      <4>2. PICK j \in 1 .. Len(s) - 1 : at(j) = l
        BY <2>1, <2>6, <3>2, <4>1
      <4> QED
        BY <2>4, <2>5, <4>1, <4>2 DEF Member
    <3> QED
      BY <3>1, <3>2
  <2>9. ASSUME NEW w, Ordered(s, w) PROVE Ordered(r, w)
    BY <2>3, <2>4, <2>5, <2>9 DEF Ordered
  <2> QED
    BY <2>5, <2>7, <2>8, <2>9 DEF r
<1> QED
  BY <1>1, <1>2

(* A non-empty set of naturals has a least element. *)
LEMMA LeastNatural ==
  ASSUME NEW S \in SUBSET Nat, S # {}
  PROVE  \E m \in S : \A n \in S : m <= n
<1> DEFINE R == OpToRel(<, Nat)
<1>1. IsWellFoundedOn(R, Nat)
  BY NatLessThanWellFounded
<1>2. \A x, y \in Nat : <<y, x>> \in R <=> y < x
  BY DEF OpToRel
<1> HIDE DEF R
<1>3. PICK x \in S : \A y \in S : ~(<<y, x>> \in R)
  BY <1>1, WFMin
<1>4. ASSUME NEW n \in S PROVE x <= n
  <2>1. n \in Nat /\ x \in Nat
    BY <1>3
  <2>2. ~(n < x)
    BY <1>2, <1>3, <2>1
  <2> QED
    BY <2>1, <2>2
<1> QED
  BY <1>3, <1>4

(* A timer that is inserted is the only new one, and in its place. *)
LEMMA InsertKnown ==
  ASSUME NEW D, NEW s \in Seq(D), NEW t \in D, NEW i \in 1 .. Len(s) + 1
  PROVE  /\ InsertAt(s, i, t) \in Seq(D)
         /\ \A u : Member(InsertAt(s, i, t), u) <=> Member(s, u) \/ u = t
         /\ Once(s) /\ ~Member(s, t) => Once(InsertAt(s, i, t))
<1> DEFINE r == InsertAt(s, i, t)
           at(j) == IF j < i THEN j ELSE j - 1
<1>1. Len(s) \in Nat /\ DOMAIN s = 1 .. Len(s) /\ (\A j \in 1 .. Len(s) : s[j] \in D)
  OBVIOUS
<1>2. r = [j \in 1 .. Len(s) + 1 |-> IF j < i THEN s[j] ELSE IF j = i THEN t ELSE s[j - 1]]
  BY DEF InsertAt
<1> HIDE DEF r
<1>3. /\ \A j \in 1 .. Len(s) + 1 : j # i => at(j) \in 1 .. Len(s) /\ r[j] = s[at(j)]
      /\ r[i] = t
      /\ \A j, l \in 1 .. Len(s) + 1 :
           j # i /\ l # i => (at(j) = at(l) => j = l) /\ (j < l => at(j) < at(l))
  BY <1>1, <1>2
<1>4. DOMAIN r = 1 .. Len(s) + 1 /\ r \in Seq(D)
  <2>1. r \in [1 .. Len(s) + 1 -> D]
    BY <1>1, <1>2
  <2> QED
    BY <1>1, <2>1
<1>5. ASSUME NEW l \in DOMAIN s PROVE \E j \in 1 .. Len(s) + 1 : j # i /\ at(j) = l
  <2>1. CASE l < i
    BY <1>1, <1>5, <2>1
  <2>2. CASE l >= i
    <3>1. l + 1 \in 1 .. Len(s) + 1 /\ l + 1 # i /\ at(l + 1) = l
      BY <1>1, <1>5, <2>2
    <3> QED
      BY <3>1
  <2> QED
    BY <1>1, <1>5, <2>1, <2>2
<1> HIDE DEF at
<1>6. ASSUME NEW u PROVE Member(r, u) <=> Member(s, u) \/ u = t
  <2>1. ASSUME Member(r, u) PROVE Member(s, u) \/ u = t
    BY <1>1, <1>3, <1>4, <2>1 DEF Member
  <2>2. ASSUME Member(s, u) PROVE Member(r, u)
    <3>1. PICK l \in DOMAIN s : s[l] = u
      BY <2>2 DEF Member
    <3>2. PICK j \in 1 .. Len(s) + 1 : j # i /\ at(j) = l
      BY <1>5, <3>1
    <3> QED
      BY <1>3, <1>4, <3>1, <3>2 DEF Member
  <2>3. Member(r, t)
    BY <1>3, <1>4 DEF Member
  <2> QED
    BY <2>1, <2>2, <2>3
<1>7. ASSUME Once(s), ~Member(s, t) PROVE Once(r)
  BY <1>1, <1>3, <1>4, <1>7 DEF Once, Member
<1> QED
  BY <1>4, <1>6, <1>7 DEF r

(* ... between the timers due no later and the others. *)
LEMMA InsertOrder ==
  ASSUME NEW D, NEW s \in Seq(D), NEW t \in D, NEW i \in 1 .. Len(s) + 1,
         NEW w \in [D -> Int], Ordered(s, w),
         \A j \in 1 .. i - 1 : w[s[j]] <= w[t], i <= Len(s) => w[t] <= w[s[i]]
  PROVE  Ordered(InsertAt(s, i, t), w)
<1> DEFINE r == InsertAt(s, i, t)
           at(j) == IF j < i THEN j ELSE j - 1
<1>1. Len(s) \in Nat /\ DOMAIN s = 1 .. Len(s) /\ (\A j \in 1 .. Len(s) : s[j] \in D)
  OBVIOUS
<1>2. r = [j \in 1 .. Len(s) + 1 |-> IF j < i THEN s[j] ELSE IF j = i THEN t ELSE s[j - 1]]
  BY DEF InsertAt
<1> HIDE DEF r
<1>3. /\ \A j \in 1 .. Len(s) + 1 : j # i => at(j) \in 1 .. Len(s) /\ r[j] = s[at(j)]
      /\ r[i] = t
      /\ \A j, l \in 1 .. Len(s) + 1 : j # i /\ l # i => (j < l => at(j) < at(l))
      /\ \A j \in 1 .. Len(s) + 1 : j < i => at(j) \in 1 .. i - 1
      /\ \A j \in 1 .. Len(s) + 1 : j > i => at(j) >= i /\ i <= Len(s)
  BY <1>1, <1>2
<1>4. DOMAIN r = 1 .. Len(s) + 1
  BY <1>2
<1> HIDE DEF at
<1> SUFFICES ASSUME NEW j \in 1 .. Len(s) + 1, NEW l \in 1 .. Len(s) + 1, j < l
             PROVE  w[r[j]] <= w[r[l]]
  BY <1>4 DEF Ordered, r
<1>5. CASE j # i /\ l # i
  BY <1>1, <1>3, <1>5 DEF Ordered
<1>6. CASE l = i
  <2>1. j < i
    BY <1>6
  <2>2. at(j) \in 1 .. i - 1 /\ r[j] = s[at(j)]
    BY <1>3, <2>1
  <2> QED
    BY <1>3, <1>6, <2>2
<1>7. CASE j = i
  <2>1. at(l) \in 1 .. Len(s) /\ r[l] = s[at(l)] /\ at(l) >= i /\ i <= Len(s)
    <3>1. l > i /\ l # i
      BY <1>7
    <3> QED
      BY <1>3, <3>1
  <2>2. s[i] \in D /\ s[at(l)] \in D /\ (i = at(l) \/ w[s[i]] <= w[s[at(l)]])
    <3>1. i \in 1 .. Len(s) /\ (i = at(l) \/ i < at(l))
      BY <1>1, <2>1
    <3> QED
      BY <1>1, <2>1, <3>1 DEF Ordered
  <2> QED
    BY <1>3, <1>7, <2>1, <2>2
<1> QED
  BY <1>5, <1>6, <1>7

-----------------------------------------------------------------------------
(* The two lists *)

(* Timer t is on its list. *)
OnList(l, t) == Member(l[Class(t)], t)

(* Lists of timers of M, each in the list of its class and once. *)
ListsGood(l, M) ==
  /\ l \in [{"hard", "soft"} -> Seq(M)]
  /\ l["hard"] \in Seq(Hard) /\ l["soft"] \in Seq(Soft)
  /\ Once(l["hard"]) /\ Once(l["soft"])

(* The class of a timer. *)
LEMMA ClassKnown ==
  ASSUME NEW t \in Timers
  PROVE  /\ Class(t) \in {"hard", "soft"}
         /\ Class(t) = "hard" <=> t \in Hard
         /\ Class(t) = "soft" <=> t \in Soft
         /\ t \in Hard <=> t \notin Soft
BY TimerAssumption DEF Class, Timers

(* Who is on the list of its class. *)
LEMMA OnListKnown ==
  ASSUME NEW M \in SUBSET Timers, NEW l, ListsGood(l, M)
  PROVE  /\ \A t \in Hard : OnList(l, t) <=> Member(l["hard"], t)
         /\ \A t \in Soft : OnList(l, t) <=> Member(l["soft"], t)
         /\ \A t : Member(l["hard"], t) => t \in Hard /\ t \in M
         /\ \A t : Member(l["soft"], t) => t \in Soft /\ t \in M
         /\ \A i \in DOMAIN l["hard"] : l["hard"][i] \in Hard \cap M /\ OnList(l, l["hard"][i])
         /\ \A i \in DOMAIN l["soft"] : l["soft"][i] \in Soft \cap M /\ OnList(l, l["soft"][i])
<1>1. /\ l["hard"] \in Seq(M) /\ l["soft"] \in Seq(M)
      /\ l["hard"] \in Seq(Hard) /\ l["soft"] \in Seq(Soft)
  BY DEF ListsGood
<1>2. /\ \A i \in DOMAIN l["hard"] : l["hard"][i] \in Hard \cap M
      /\ \A i \in DOMAIN l["soft"] : l["soft"][i] \in Soft \cap M
  BY <1>1
<1>3. (\A t \in Hard : Class(t) = "hard") /\ (\A t \in Soft : Class(t) = "soft")
  BY ClassKnown DEF Timers
<1>4. /\ \A t \in Hard : OnList(l, t) <=> Member(l["hard"], t)
      /\ \A t \in Soft : OnList(l, t) <=> Member(l["soft"], t)
  BY <1>3 DEF OnList
<1>5. /\ \A i \in DOMAIN l["hard"] : Member(l["hard"], l["hard"][i])
      /\ \A i \in DOMAIN l["soft"] : Member(l["soft"], l["soft"][i])
  BY DEF Member
<1>6. /\ \A t : Member(l["hard"], t) => t \in Hard /\ t \in M
      /\ \A t : Member(l["soft"], t) => t \in Soft /\ t \in M
  BY <1>2 DEF Member
<1> QED
  BY <1>2, <1>4, <1>5, <1>6

(* The lists l where that of the timer t has become s. *)
Relisted(l, t, s) == [l EXCEPT ![Class(t)] = s]

(* What a change of one list leaves alone. *)
LEMMA ListsChange ==
  ASSUME NEW M \in SUBSET Timers, NEW l, ListsGood(l, M), NEW t \in M,
         NEW s \in Seq(M), Once(s), NEW m, m = Relisted(l, t, s),
         \A u : Member(s, u) /\ u # t => Member(l[Class(t)], u)
  PROVE  /\ ListsGood(m, M)
         /\ \A u \in Timers : u # t =>
              (OnList(m, u) <=> IF Class(u) = Class(t) THEN Member(s, u) ELSE OnList(l, u))
         /\ OnList(m, t) <=> Member(s, t)
         /\ m[Class(t)] = s
         /\ t \in Soft => m["hard"] = l["hard"]
         /\ t \in Hard => m["soft"] = l["soft"]
<1>1. /\ Class(t) \in {"hard", "soft"} /\ t \in Timers
      /\ Class(t) = "hard" <=> t \in Hard
      /\ Class(t) = "soft" <=> t \in Soft
  BY ClassKnown
<1>2. /\ m \in [{"hard", "soft"} -> Seq(M)] /\ m[Class(t)] = s
      /\ \A c \in {"hard", "soft"} : c # Class(t) => m[c] = l[c]
  BY <1>1 DEF ListsGood, Relisted
<1>3. \A i \in DOMAIN s : Member(s, s[i])
  BY DEF Member
<1>4. /\ t \in Hard => s \in Seq(Hard)
      /\ t \in Soft => s \in Seq(Soft)
  <2>1. \A i \in 1 .. Len(s) : s[i] # t => Member(l[Class(t)], s[i])
    BY <1>3
  <2>2. ASSUME t \in Hard PROVE \A i \in 1 .. Len(s) : s[i] \in Hard
    BY <1>1, <2>1, <2>2, OnListKnown
  <2>3. ASSUME t \in Soft PROVE \A i \in 1 .. Len(s) : s[i] \in Soft
    BY <1>1, <2>1, <2>3, OnListKnown
  <2>4. s \in [1 .. Len(s) -> M] /\ Len(s) \in Nat
    OBVIOUS
  <2> QED
    BY <2>2, <2>3, <2>4
<1>5. ListsGood(m, M)
  BY <1>1, <1>2, <1>4 DEF ListsGood
<1>6. ASSUME NEW u \in Timers, u # t
      PROVE  OnList(m, u) <=> IF Class(u) = Class(t) THEN Member(s, u) ELSE OnList(l, u)
  BY <1>2, ClassKnown DEF OnList
<1>7. OnList(m, t) <=> Member(s, t)
  BY <1>2 DEF OnList
<1> QED
  BY <1>1, <1>2, <1>5, <1>6, <1>7

(* rt_list_remove. *)
LEMMA UnlinkKnown ==
  ASSUME NEW M \in SUBSET Timers, NEW l, ListsGood(l, M), NEW t \in M
  PROVE  /\ ListsGood(Unlink(l, t), M)
         /\ \A u \in Timers : OnList(Unlink(l, t), u) <=> OnList(l, u) /\ u # t
         /\ \A w : Ordered(l["hard"], w) => Ordered(Unlink(l, t)["hard"], w)
         /\ t \in Soft => Unlink(l, t)["hard"] = l["hard"]
         /\ t \in Hard => Unlink(l, t)["soft"] = l["soft"]
<1> DEFINE c == Class(t)
           s == Without(l[c], t)
<1>1. /\ c \in {"hard", "soft"} /\ t \in Timers
      /\ c = "hard" <=> t \in Hard
      /\ c = "soft" <=> t \in Soft
  BY ClassKnown
<1>2. l[c] \in Seq(M) /\ Once(l[c])
  BY <1>1 DEF ListsGood
<1>3. /\ s \in Seq(M) /\ Once(s)
      /\ \A u : Member(s, u) <=> Member(l[c], u) /\ u # t
      /\ \A w : Ordered(l[c], w) => Ordered(s, w)
  BY <1>2, WithoutKnown
<1>4. Unlink(l, t) = [l EXCEPT ![c] = s]
  BY <1>1 DEF Unlink, ListsGood
<1> HIDE DEF s
<1>5. /\ ListsGood(Unlink(l, t), M)
      /\ \A u \in Timers : u # t =>
           (OnList(Unlink(l, t), u) <=> IF Class(u) = c THEN Member(s, u) ELSE OnList(l, u))
      /\ OnList(Unlink(l, t), t) <=> Member(s, t)
      /\ Unlink(l, t)[c] = s
      /\ t \in Soft => Unlink(l, t)["hard"] = l["hard"]
      /\ t \in Hard => Unlink(l, t)["soft"] = l["soft"]
  <2>1. \A u : Member(s, u) /\ u # t => Member(l[Class(t)], u)
    BY <1>3
  <2>2. Unlink(l, t) = Relisted(l, t, s)
    BY <1>4 DEF Relisted
  <2> HIDE DEF c
  <2>3. c = Class(t)
    BY DEF c
  <2> QED
    BY <1>3, <2>1, <2>2, <2>3, ListsChange
<1>6. \A u \in Timers : OnList(Unlink(l, t), u) <=> OnList(l, u) /\ u # t
  BY <1>3, <1>5 DEF OnList
<1>7. \A w : Ordered(l["hard"], w) => Ordered(Unlink(l, t)["hard"], w)
  BY <1>1, <1>3, <1>5, ClassKnown
<1> QED
  BY <1>5, <1>6, <1>7

(* The place that rt_timer_start finds: before the first timer that the    *)
(* comparison does not find earlier.                                       *)
LEMMA LinkPlace ==
  ASSUME NEW M \in SUBSET Timers, NEW l, ListsGood(l, M), NEW t \in M, NEW when
  PROVE  \E at \in 1 .. Len(l[Class(t)]) + 1 :
           /\ Link(l, t, when) = Relisted(l, t, InsertAt(l[Class(t)], at, t))
           /\ at <= Len(l[Class(t)]) => Reached(when[t], when[l[Class(t)][at]])
           /\ \A h \in 1 .. at - 1 : ~Reached(when[t], when[l[Class(t)][h]])
<1> DEFINE s == l[Class(t)]
           Before(i) == i > Len(s) \/ Reached(when[t], when[s[i]])
           at == CHOOSE j \in 1 .. Len(s) + 1 : Before(j) /\ \A h \in 1 .. j - 1 : ~Before(h)
<1>1. s \in Seq(M) /\ Len(s) \in Nat
  BY ClassKnown DEF ListsGood
<1>2. Link(l, t, when) = Relisted(l, t, InsertAt(s, at, t))
  BY DEF Link, Relisted
<1> HIDE DEF s
<1>3. at \in 1 .. Len(s) + 1 /\ Before(at) /\ \A h \in 1 .. at - 1 : ~Before(h)
  <2>1. \E j \in 1 .. Len(s) + 1 : Before(j) /\ \A h \in 1 .. j - 1 : ~Before(h)
    <3> DEFINE S == {j \in 1 .. Len(s) + 1 : Before(j)}
    <3>1. Len(s) + 1 \in S /\ S \in SUBSET Nat
      BY <1>1
    <3>2. PICK j \in S : \A h \in S : j <= h
      BY <3>1, LeastNatural
    <3>3. ASSUME NEW h \in 1 .. j - 1 PROVE ~Before(h)
      BY <1>1, <3>2, <3>3
    <3> QED
      BY <3>2, <3>3
  <2> QED
    BY <2>1
<1> HIDE DEF at
<1>4. /\ at <= Len(s) => Reached(when[t], when[s[at]])
      /\ \A h \in 1 .. at - 1 : ~Reached(when[t], when[s[h]])
  BY <1>1, <1>3
<1> HIDE DEF Before
<1> QED
  BY <1>2, <1>3, <1>4 DEF s

(* The insertion in rt_timer_start: one timer more. *)
LEMMA LinkKnown ==
  ASSUME NEW M \in SUBSET Timers, NEW l, ListsGood(l, M), NEW t \in M, ~OnList(l, t), NEW when
  PROVE  /\ ListsGood(Link(l, t, when), M)
         /\ \A u \in Timers : OnList(Link(l, t, when), u) <=> OnList(l, u) \/ u = t
         /\ t \in Soft => Link(l, t, when)["hard"] = l["hard"]
         /\ t \in Hard => Link(l, t, when)["soft"] = l["soft"]
<1> DEFINE c == Class(t)
           s == l[c]
<1>1. s \in Seq(M) /\ Once(s) /\ ~Member(s, t)
  BY ClassKnown DEF ListsGood, OnList
<1>2. PICK at \in 1 .. Len(s) + 1 : Link(l, t, when) = Relisted(l, t, InsertAt(s, at, t))
  BY LinkPlace
<1> DEFINE r == InsertAt(s, at, t)
<1>3. r \in Seq(M) /\ Once(r) /\ \A u : Member(r, u) <=> Member(s, u) \/ u = t
  <2> HIDE DEF s
  <2> QED
    BY <1>1, <1>2, InsertKnown
<1>4. Link(l, t, when) = Relisted(l, t, r)
  BY <1>2
<1> HIDE DEF r
<1>5. \A u : Member(r, u) /\ u # t => Member(l[Class(t)], u)
  BY <1>3
<1>6. /\ ListsGood(Link(l, t, when), M)
      /\ \A u \in Timers : u # t =>
           (OnList(Link(l, t, when), u) <=> IF Class(u) = Class(t) THEN Member(r, u) ELSE OnList(l, u))
      /\ OnList(Link(l, t, when), t) <=> Member(r, t)
      /\ t \in Soft => Link(l, t, when)["hard"] = l["hard"]
      /\ t \in Hard => Link(l, t, when)["soft"] = l["soft"]
  BY <1>3, <1>4, <1>5, ListsChange
<1>7. \A u \in Timers : OnList(Link(l, t, when), u) <=> OnList(l, u) \/ u = t
  BY <1>3, <1>6 DEF OnList
<1> QED
  BY <1>6, <1>7

(* ... and in its place, if the comparison tells the order in which the    *)
(* new timer and the others are due.                                       *)
LEMMA LinkOrder ==
  ASSUME NEW M \in SUBSET Timers, NEW l, ListsGood(l, M), NEW t \in M \cap Hard, NEW when,
         NEW w \in [M -> Int], Ordered(l["hard"], w),
         \A u \in M \cap Hard : OnList(l, u) => (Reached(when[t], when[u]) <=> w[t] <= w[u])
  PROVE  Ordered(Link(l, t, when)["hard"], w)
<1> DEFINE s == l["hard"]
<1>1. Class(t) = "hard" /\ s \in Seq(M) /\ Len(s) \in Nat
  BY ClassKnown DEF ListsGood
<1>2. PICK at \in 1 .. Len(s) + 1 :
           /\ Link(l, t, when) = Relisted(l, t, InsertAt(s, at, t))
           /\ at <= Len(s) => Reached(when[t], when[s[at]])
           /\ \A h \in 1 .. at - 1 : ~Reached(when[t], when[s[h]])
  BY <1>1, LinkPlace
<1>3. Link(l, t, when)["hard"] = InsertAt(s, at, t)
  BY <1>1, <1>2 DEF Relisted, ListsGood
<1>4. \A i \in 1 .. Len(s) : Reached(when[t], when[s[i]]) <=> w[t] <= w[s[i]]
  <2>1. \A i \in DOMAIN l["hard"] : l["hard"][i] \in Hard \cap M /\ OnList(l, l["hard"][i])
    BY OnListKnown
  <2> QED
    BY <1>1, <2>1
<1> HIDE DEF s
<1>5. ASSUME NEW j \in 1 .. at - 1 PROVE w[s[j]] <= w[t]
  <2>1. j \in 1 .. Len(s) /\ s[j] \in M
    BY <1>1, <1>2, <1>5
  <2>2. ~(w[t] <= w[s[j]]) /\ w[t] \in Int /\ w[s[j]] \in Int
    BY <1>2, <1>4, <1>5, <2>1
  <2> QED
    BY <2>2
<1>6. at <= Len(s) => w[t] <= w[s[at]]
  BY <1>1, <1>2, <1>4
<1>7. Ordered(InsertAt(s, at, t), w)
  <2>1. Ordered(s, w)
    BY DEF s
  <2> QED
    BY <1>1, <1>2, <1>5, <1>6, <2>1, InsertOrder
<1> QED
  BY <1>3, <1>7

-----------------------------------------------------------------------------
(* The inductive invariant *)

(* The flag of a timer that is on its list is set, and a timer whose flag  *)
(* is set is on its list, unless its function runs or its stop has removed *)
(* it.                                                                     *)
FlagInv ==
  \A t \in made :
    /\ OnList(list, t) => t \in active
    /\ t \in active /\ ~OnList(list, t) =>
         t = isr.on \/ t = tt.on \/ (app.op = "clear" /\ app.on = t)

(* Where the interrupt is. *)
IsrInv ==
  IF isr.op = "call" THEN isr.on \in made \cap Hard /\ ~OnList(list, isr.on)
  ELSE isr.on = NoTimer

(* Where the timer thread is: its position is on the list. *)
ThreadInv ==
  /\ IF tt.op = "call" THEN tt.on \in made \cap Soft /\ ~OnList(list, tt.on)
     ELSE tt.on = NoTimer
  /\ tt.n # NoTimer =>
       tt.op \in {"check", "call"} /\ tt.n \in made \cap Soft /\ OnList(list, tt.n)

(* Where the application thread is: nobody else has the timer that it      *)
(* starts, or that it has removed.                                         *)
AppInv ==
  /\ IF app.op = "run" THEN app.on = NoTimer ELSE app.on \in made
  /\ app.op \in {"link", "clear"} =>
       ~OnList(list, app.on) /\ app.on # isr.on /\ app.on # tt.on
  /\ app.op = "link" => app.on \notin active /\ left[app.on] >= -MaxLag

(* The time of timer t, as far as it is kept, is what its timeout says. *)
TimeOK(t) ==
  /\ left[t] >= Late /\ left[t] + MaxLag < Half
  /\ left[t] > Late => Near(timeout[t], tick + left[t])

TimeInv == \A t \in made : OnList(list, t) \/ StartPending(t) => TimeOK(t)

(* A hard timer on the list is no more overdue than the start of a timer   *)
(* may last, but for the tick whose interrupt has not got to it.           *)
HardInv ==
  \A t \in made \cap Hard :
    OnList(list, t) => left[t] >= IF isr.op = "off" THEN -MaxLag ELSE -MaxLag - 1

OrderInv == Ordered(list["hard"], left)

(* A soft timer that is not due was due less than half the range after the *)
(* tick that the timer thread has read.                                    *)
SoftInv ==
  tt.op = "check" =>
    \A t \in made \cap Soft :
      OnList(list, t) /\ left[t] > 0 =>
        \E n \in 0 .. Half - 1 : left[t] <= n /\ Near(timeout[t], tt.now + n)

TimerInv ==
  /\ TypeOK /\ ListsGood(list, made)
  /\ FlagInv /\ IsrInv /\ ThreadInv /\ AppInv
  /\ TimeInv /\ HardInv /\ OrderInv /\ SoftInv

(* What the invariant says about the types. *)
LEMMA TypesKnown ==
  ASSUME TimerInv
  PROVE  /\ made \in SUBSET Timers /\ NoTimer \notin made /\ NoTimer \notin Timers
         /\ tick \in 0 .. TICK_MAX
         /\ timeout \in [made -> 0 .. TICK_MAX] /\ left \in [made -> Int]
         /\ init \in [made -> Ticks] /\ active \subseteq made
         /\ isr = [op |-> isr.op, on |-> isr.on]
         /\ app = [op |-> app.op, on |-> app.on]
         /\ tt = [op |-> tt.op, n |-> tt.n, on |-> tt.on, now |-> tt.now, wait |-> tt.wait]
         /\ tt.now \in 0 .. TICK_MAX /\ tt.wait \in 0 .. TICK_MAX
BY TimerAssumption DEF TimerInv, TypeOK, Timers

(* The initial states. *)
LEMMA InitTimer == Init => TimerInv
<1> SUFFICES ASSUME Init PROVE TimerInv
  OBVIOUS
<1>1. made \in Systems /\ made \subseteq Timers
  BY TimerAssumption DEF Init, Timers
<1>2. list["hard"] = <<>> /\ list["soft"] = <<>> /\ \A t : ~OnList(list, t)
  <2>1. list["hard"] = <<>> /\ list["soft"] = <<>>
    BY DEF Init
  <2>2. \A t : ~Member(<<>>, t)
    BY DEF Member
  <2> QED
    BY <2>1, <2>2 DEF OnList, Class
<1>3. list \in [{"hard", "soft"} -> Seq(made)]
  BY DEF Init
<1>4. ListsGood(list, made) /\ OrderInv
  BY <1>2, <1>3 DEF ListsGood, Once, Ordered, OrderInv
<1>5. TypeOK
  <2>1. 0 \in 0 .. TICK_MAX
    BY TicksKnown
  <2> QED
    BY <1>1, <1>2, <1>3, <2>1 DEF Init, TypeOK, HardList, SoftList
<1>6. FlagInv /\ IsrInv /\ ThreadInv /\ AppInv
  BY <1>2 DEF Init, FlagInv, IsrInv, ThreadInv, AppInv
<1>7. TimeInv /\ HardInv /\ SoftInv
  BY <1>2 DEF Init, TimeInv, HardInv, SoftInv, StartPending
<1> QED
  BY <1>4, <1>5, <1>6, <1>7 DEF TimerInv

(* A step that changes neither lists, flags nor times, nor who is at work  *)
(* on a timer.                                                             *)
LEMMA QuietStep ==
  ASSUME TimerInv, TypeOK', UNCHANGED <<made, tick, list, active, timeout, left>>,
         isr'.on = isr.on, tt'.on = tt.on,
         app' = app \/ {app.op, app'.op} \cap {"link", "clear"} = {},
         IsrInv', ThreadInv', AppInv', HardInv', SoftInv'
  PROVE  TimerInv'
<1>1. ListsGood(list, made)' /\ OrderInv'
  BY DEF TimerInv, OrderInv
<1>2. FlagInv'
  BY DEF TimerInv, FlagInv
<1>3. TimeInv'
  BY DEF TimerInv, TimeInv, TimeOK, StartPending
<1> QED
  BY <1>1, <1>2, <1>3 DEF TimerInv

(* rt_timer_control keeps the types. *)
LEMMA ControlKnown ==
  ASSUME TimerInv, NEW t \in made, Control(t)
  PROVE  init' \in [made -> Ticks] /\ periodic' \subseteq made
<1>1. init \in [made -> Ticks] /\ periodic \subseteq made
  BY DEF TimerInv, TypeOK
<1>2. CASE \E n \in Ticks : init' = [init EXCEPT ![t] = n] /\ UNCHANGED periodic
  BY <1>1, <1>2
<1>3. CASE periodic' \in {periodic \ {t}, periodic \cup {t}} /\ UNCHANGED init
  BY <1>1, <1>3
<1> QED
  BY <1>2, <1>3 DEF Control

(* The states of the timer thread. *)
ThreadStates ==
  [ op : {"next", "suspend", "delay", "asleep", "halted", "enter", "check", "call"},
    n : Soft \cup {NoTimer}, on : Soft \cup {NoTimer}, now : 0 .. TICK_MAX,
    wait : 0 .. TICK_MAX ]

(* The calls of the application that change a record or a setting. *)
LEMMA QuietApp ==
  ASSUME TimerInv, NEW t \in made,
         rt_timer_stop(t) \/ rt_timer_control(t) \/ StartWake
  PROVE  TimerInv'
<1> USE TypesKnown
<1>1. CASE rt_timer_stop(t)
  <2> USE <1>1 DEF rt_timer_stop
  <2>1. TypeOK'
    BY DEF TimerInv, TypeOK, HardList, SoftList
  <2>2. IsrInv' /\ ThreadInv' /\ AppInv' /\ HardInv' /\ SoftInv'
    BY DEF TimerInv, IsrInv, ThreadInv, AppInv, HardInv, SoftInv
  <2> QED
    BY <2>1, <2>2, QuietStep
<1>2. CASE rt_timer_control(t)
  <2> USE <1>2 DEF rt_timer_control
  <2>1. TypeOK'
    <3>1. init' \in [made -> Ticks] /\ periodic' \subseteq made
      BY ControlKnown
    <3> QED
      BY <3>1 DEF TimerInv, TypeOK, HardList, SoftList
  <2>2. IsrInv' /\ ThreadInv' /\ AppInv' /\ HardInv' /\ SoftInv'
    BY DEF TimerInv, IsrInv, ThreadInv, AppInv, HardInv, SoftInv
  <2> QED
    BY <2>1, <2>2, QuietStep
<1>3. CASE StartWake
  <2> USE <1>3 DEF StartWake, Idle
  <2>1. tt' = tt \/ (tt.op = "asleep" /\ tt' = [tt EXCEPT !.op = "enter", !.wait = 0])
    BY DEF Wake
  <2>2. TypeOK'
    <3>1. tt' \in ThreadStates
      <4>1. tt \in ThreadStates
        BY DEF TimerInv, TypeOK, ThreadStates
      <4>2. 0 \in 0 .. TICK_MAX
        BY TicksKnown
      <4> QED
        BY <2>1, <4>1, <4>2 DEF ThreadStates
    <3> QED
      BY <3>1 DEF TimerInv, TypeOK, HardList, SoftList, ThreadStates
  <2>3. tt'.on = tt.on /\ ThreadInv' /\ SoftInv'
    BY <2>1 DEF TimerInv, ThreadInv, SoftInv
  <2>4. IsrInv' /\ AppInv' /\ HardInv'
    BY DEF TimerInv, IsrInv, AppInv, HardInv
  <2> QED
    BY <2>2, <2>3, <2>4, QuietStep
<1> QED
  BY <1>1, <1>2, <1>3

(* The steps of the timer thread but for those of its loop. *)
LEMMA QuietThread ==
  ASSUME TimerInv, SoftNext \/ SoftSuspend \/ SoftDelay \/ SoftEnter \/ SoftEnd
  PROVE  TimerInv'
<1> USE TypesKnown
<1>1. /\ UNCHANGED <<made, tick, list, active, periodic, init, timeout, isr, app, left>>
      /\ tt.op \notin {"call"} /\ tt'.op # "call" /\ tt'.on = tt.on
  BY DEF SoftNext, SoftSuspend, SoftDelay, SoftEnter, SoftEnd, ThreadRuns
<1>2. /\ \A i \in DOMAIN SoftList : SoftList[i] \in Soft \cap made /\ OnList(list, SoftList[i])
      /\ SoftList # <<>> => 1 \in DOMAIN SoftList
  <2>1. \A i \in DOMAIN SoftList : SoftList[i] \in Soft \cap made /\ OnList(list, SoftList[i])
    BY OnListKnown DEF TimerInv, SoftList
  <2>2. SoftList \in Seq(Soft)
    BY DEF TimerInv, TypeOK
  <2> QED
    BY <2>1, <2>2
<1>3. TypeOK'
  <2>1. tt' \in ThreadStates
    <3>1. tt \in ThreadStates
      BY DEF TimerInv, TypeOK, ThreadStates
    <3>2. 0 \in 0 .. TICK_MAX /\ 1 \in 0 .. TICK_MAX
      BY TicksKnown
    <3>3. CASE SoftNext
      BY <1>2, <3>1, <3>3 DEF SoftNext, ThreadStates
    <3>4. CASE SoftSuspend
      BY <3>1, <3>4 DEF SoftSuspend, ThreadStates
    <3>5. CASE SoftDelay
      BY <3>1, <3>2, <3>5 DEF SoftDelay, ThreadStates
    <3>6. CASE SoftEnter
      BY <1>2, <3>1, <3>6 DEF SoftEnter, ThreadStates
    <3>7. CASE SoftEnd
      BY <3>1, <3>2, <3>7 DEF SoftEnd, ThreadStates
    <3> QED
      BY <3>3, <3>4, <3>5, <3>6, <3>7
  <2> QED
    BY <1>1, <2>1 DEF TimerInv, TypeOK, HardList, SoftList, ThreadStates
<1>4. ThreadInv' /\ SoftInv'
  <2>1. CASE SoftEnter
    <3> USE <2>1 DEF SoftEnter
    <3>1. /\ tt'.op = "check" /\ tt'.now = tick
          /\ tt'.n = IF SoftList = <<>> THEN NoTimer ELSE SoftList[1]
      OBVIOUS
    <3>2. ThreadInv'
      BY <1>1, <1>2, <3>1 DEF TimerInv, ThreadInv
    <3>3. ASSUME NEW t \in made \cap Soft, OnList(list, t), left[t] > 0
          PROVE  \E n \in 0 .. Half - 1 : left[t] <= n /\ Near(timeout[t], tick + n)
      <4>1. TimeOK(t) /\ left[t] \in Int
        BY <3>3 DEF TimerInv, TimeInv
      <4>2. left[t] \in 0 .. Half - 1 /\ Near(timeout[t], tick + left[t])
        BY <3>3, <4>1, TicksKnown DEF TimeOK
      <4> QED
        BY <4>1, <4>2
    <3> QED
      BY <1>1, <3>1, <3>2, <3>3 DEF SoftInv
  <2>2. CASE SoftEnd
    BY <1>1, <2>2 DEF SoftEnd, TimerInv, ThreadInv, SoftInv
  <2>3. CASE SoftNext
    BY <1>1, <2>3 DEF SoftNext, ThreadRuns, TimerInv, ThreadInv, SoftInv
  <2>4. CASE SoftSuspend
    BY <1>1, <2>4 DEF SoftSuspend, ThreadRuns, TimerInv, ThreadInv, SoftInv
  <2>5. CASE SoftDelay
    BY <1>1, <2>5 DEF SoftDelay, ThreadRuns, TimerInv, ThreadInv, SoftInv
  <2> QED
    BY <2>1, <2>2, <2>3, <2>4, <2>5
<1>5. IsrInv' /\ AppInv' /\ HardInv'
  BY <1>1 DEF TimerInv, IsrInv, AppInv, HardInv
<1> QED
  BY <1>1, <1>3, <1>4, <1>5, QuietStep

-----------------------------------------------------------------------------
(* Steps that take a timer off its list *)

(* How the removal of timer t keeps the order and the times of the others. *)
LEMMA UnlinkStep ==
  ASSUME TimerInv, NEW t \in made, UNCHANGED <<made, tick>>,
         list' = Unlink(list, t), timeout' = Forget(t),
         left' \in [made -> Int], \A u \in made : u # t => left'[u] = left[u],
         ~StartPending(t)', app'.op = "link" => app' = app,
         isr'.op = "off" => isr.op = "off",
         tt'.op = "check" => tt.op = "check" /\ tt'.now = tt.now
  PROVE  /\ ListsGood(list, made)'
         /\ timeout' \in [made -> 0 .. TICK_MAX]
         /\ \A u \in Timers : OnList(list', u) <=> OnList(list, u) /\ u # t
         /\ TimeInv' /\ HardInv' /\ OrderInv' /\ SoftInv'
         /\ t \in Hard => list'["soft"] = list["soft"]
<1> USE TypesKnown
<1>1. ListsGood(list, made) /\ t \in Timers
  BY DEF TimerInv
<1>2. /\ ListsGood(list', made)
      /\ \A u \in Timers : OnList(list', u) <=> OnList(list, u) /\ u # t
      /\ \A w : Ordered(list["hard"], w) => Ordered(list'["hard"], w)
      /\ t \in Hard => list'["soft"] = list["soft"]
  BY <1>1, UnlinkKnown
<1>3. ListsGood(list, made)'
  BY <1>2
<1>4. timeout' \in [made -> 0 .. TICK_MAX] /\ \A u \in made : u # t => timeout'[u] = timeout[u]
  <2>1. 0 \in 0 .. TICK_MAX
    BY TicksKnown
  <2> QED
    BY <2>1 DEF Forget
<1>5. ASSUME NEW u \in made, OnList(list', u)
      PROVE  u # t /\ OnList(list, u) /\ left'[u] = left[u] /\ timeout'[u] = timeout[u]
  BY <1>2, <1>4, <1>5
<1>6. TimeInv'
  <2> SUFFICES ASSUME NEW u \in made, (OnList(list, u) \/ StartPending(u))' PROVE TimeOK(u)'
    BY DEF TimeInv
  <2>1. u # t /\ (OnList(list, u) \/ StartPending(u))
    BY <1>5 DEF StartPending
  <2>2. TimeOK(u)
    BY <2>1 DEF TimerInv, TimeInv
  <2> QED
    BY <1>4, <2>1, <2>2 DEF TimeOK
<1>7. HardInv'
  <2> SUFFICES ASSUME NEW u \in made \cap Hard, OnList(list', u)
               PROVE  left'[u] >= IF isr'.op = "off" THEN -MaxLag ELSE -MaxLag - 1
    BY DEF HardInv
  <2>1. left[u] >= (IF isr.op = "off" THEN -MaxLag ELSE -MaxLag - 1) /\ left'[u] = left[u]
    BY <1>5 DEF TimerInv, HardInv
  <2> QED
    BY <2>1, TicksKnown
<1>8. OrderInv'
  <2>1. Ordered(list'["hard"], left)
    BY <1>2 DEF TimerInv, OrderInv
  <2>2. \A i \in DOMAIN list'["hard"] : left'[list'["hard"][i]] = left[list'["hard"][i]]
    BY <1>2, <1>5, OnListKnown
  <2> QED
    BY <2>1, <2>2 DEF OrderInv, Ordered
<1>9. SoftInv'
  BY <1>5 DEF TimerInv, SoftInv
<1> QED
  BY <1>2, <1>3, <1>4, <1>6, <1>7, <1>8, <1>9

(* The types that a step with a removal or an insertion may change. *)
LEMMA TypesStep ==
  ASSUME TimerInv, ListsGood(list, made)', UNCHANGED <<made, tick>>,
         active' \subseteq made, periodic' \subseteq made, init' \in [made -> Ticks],
         timeout' \in [made -> 0 .. TICK_MAX], left' \in [made -> Int],
         isr' \in [op : {"off", "check", "call"}, on : Timers \cup {NoTimer}],
         app' \in [op : {"run", "link", "wake", "unlink", "clear"}, on : Timers \cup {NoTimer}],
         tt' \in ThreadStates
  PROVE  TypeOK'
BY DEF TimerInv, TypeOK, ListsGood, HardList, SoftList, ThreadStates

(* rt_list_remove in rt_timer_stop. *)
LEMMA StopUnlinkKept ==
  ASSUME TimerInv, StopUnlink
  PROVE  TimerInv'
<1> USE TypesKnown
<1> DEFINE t == app.on
<1>1. /\ t \in made /\ isr.on = NoTimer /\ tt.on = NoTimer /\ tt.n = NoTimer /\ isr.op = "off"
      /\ tt.op # "check" /\ app.op = "unlink"
  BY DEF TimerInv, AppInv, IsrInv, ThreadInv, StopUnlink, AppRuns
<1>2. /\ app'.op = "clear" /\ app'.on = t
      /\ UNCHANGED <<made, tick, active, periodic, init, isr, tt, left>>
      /\ list' = Unlink(list, t) /\ timeout' = Forget(t)
  BY DEF StopUnlink
<1> HIDE DEF t
<1>3. /\ ListsGood(list, made)' /\ timeout' \in [made -> 0 .. TICK_MAX]
      /\ \A u \in Timers : OnList(list', u) <=> OnList(list, u) /\ u # t
      /\ TimeInv' /\ HardInv' /\ OrderInv' /\ SoftInv'
  BY <1>1, <1>2, UnlinkStep DEF StartPending
<1>4. TypeOK'
  <2>1. app' \in [op : {"run", "link", "wake", "unlink", "clear"}, on : Timers \cup {NoTimer}]
    BY DEF StopUnlink, TimerInv, TypeOK
  <2> QED
    BY <1>2, <1>3, <2>1, TypesStep DEF TimerInv, TypeOK, ThreadStates
<1>5. FlagInv'
  BY <1>1, <1>2, <1>3 DEF TimerInv, FlagInv
<1>6. IsrInv' /\ ThreadInv' /\ AppInv'
  BY <1>1, <1>2, <1>3 DEF TimerInv, IsrInv, ThreadInv, AppInv
<1> QED
  BY <1>3, <1>4, <1>5, <1>6 DEF TimerInv

(* rt_timer_detach. *)
LEMMA DetachKept ==
  ASSUME TimerInv, NEW t \in made, rt_timer_detach(t)
  PROVE  TimerInv'
<1> USE TypesKnown
<1>1. /\ app.op = "run" /\ isr.on = NoTimer /\ tt.on = NoTimer /\ tt.n = NoTimer /\ isr.op = "off"
      /\ tt.op # "check"
  BY DEF TimerInv, AppInv, IsrInv, ThreadInv, rt_timer_detach, AppRuns
<1>2. /\ UNCHANGED <<made, tick, periodic, init, isr, app, tt>> /\ active' = active \ {t}
      /\ list' = Unlink(list, t) /\ timeout' = Forget(t)
      /\ left' \in [made -> Int] /\ \A u \in made : u # t => left'[u] = left[u]
  BY DEF rt_timer_detach
<1>3. /\ ListsGood(list, made)' /\ timeout' \in [made -> 0 .. TICK_MAX]
      /\ \A u \in Timers : OnList(list', u) <=> OnList(list, u) /\ u # t
      /\ TimeInv' /\ HardInv' /\ OrderInv' /\ SoftInv'
  BY <1>1, <1>2, UnlinkStep DEF StartPending
<1>4. TypeOK'
  <2>1. /\ active' \subseteq made /\ periodic' \subseteq made /\ init' \in [made -> Ticks]
        /\ isr' \in [op : {"off", "check", "call"}, on : Timers \cup {NoTimer}]
        /\ app' \in [op : {"run", "link", "wake", "unlink", "clear"}, on : Timers \cup {NoTimer}]
        /\ tt' \in ThreadStates
    BY <1>2 DEF TimerInv, TypeOK, ThreadStates
  <2> QED
    BY <1>2, <1>3, <2>1, TypesStep
<1>5. FlagInv'
  BY <1>1, <1>2, <1>3 DEF TimerInv, FlagInv
<1>6. IsrInv' /\ ThreadInv' /\ AppInv'
  BY <1>1, <1>2, <1>3 DEF TimerInv, IsrInv, ThreadInv, AppInv
<1> QED
  BY <1>3, <1>4, <1>5, <1>6 DEF TimerInv

(* The flag, at the end of rt_timer_stop. *)
LEMMA StopClearKept ==
  ASSUME TimerInv, StopClear
  PROVE  TimerInv'
<1> USE TypesKnown
<1>1. /\ app.on \in made /\ ~OnList(list, app.on)
      /\ isr.on = NoTimer /\ tt.on = NoTimer /\ tt.n = NoTimer
      /\ app' = Idle /\ app.op = "clear" /\ active' = active \ {app.on}
      /\ UNCHANGED <<made, tick, list, periodic, init, timeout, isr, tt, left>>
  BY DEF TimerInv, AppInv, IsrInv, ThreadInv, StopClear, AppRuns
<1>2. TypeOK' /\ ListsGood(list, made)'
  BY <1>1 DEF TimerInv, TypeOK, Idle, HardList, SoftList
<1>3. FlagInv'
  BY <1>1 DEF TimerInv, FlagInv, Idle
<1>4. IsrInv' /\ ThreadInv' /\ AppInv'
  BY <1>1 DEF TimerInv, IsrInv, ThreadInv, AppInv, Idle
<1>5. TimeInv'
  BY <1>1 DEF TimerInv, TimeInv, TimeOK, StartPending, Idle
<1>6. HardInv' /\ OrderInv' /\ SoftInv'
  BY <1>1 DEF TimerInv, HardInv, OrderInv, SoftInv
<1> QED
  BY <1>2, <1>3, <1>4, <1>5, <1>6 DEF TimerInv

-----------------------------------------------------------------------------
(* The loops of the interrupt and of the timer thread *)

(* In the interrupt the comparison with the tick tells which hard timers   *)
(* are due.                                                                *)
LEMMA HardDueKnown ==
  ASSUME TimerInv, NEW t \in made \cap Hard, OnList(list, t)
  PROVE  Reached(timeout[t], tick) <=> left[t] <= 0
<1> USE TypesKnown
<1>1. left[t] \in Int /\ left[t] >= -MaxLag - 1 /\ TimeOK(t) /\ timeout[t] \in 0 .. TICK_MAX
  <2>1. left[t] >= IF isr.op = "off" THEN -MaxLag ELSE -MaxLag - 1
    BY DEF TimerInv, HardInv
  <2>2. left[t] \in Int /\ TimeOK(t) /\ timeout[t] \in 0 .. TICK_MAX
    BY DEF TimerInv, TimeInv
  <2> QED
    BY <2>1, <2>2, TicksKnown
<1>2. /\ Near(timeout[t], tick + left[t]) /\ Near(tick, tick + 0)
      /\ 0 - left[t] < Half /\ left[t] - 0 <= Half
  BY <1>1, TicksKnown DEF TimeOK, Near
<1> QED
  BY <1>1, <1>2, ReachedKnown

(* The first hard timer is due if one is. *)
LEMMA HardFirst ==
  ASSUME TimerInv
  PROVE  /\ HardList # <<>> =>
              /\ HardList[1] \in made \cap Hard /\ OnList(list, HardList[1])
              /\ HardDue <=> left[HardList[1]] <= 0
         /\ ~HardDue => \A t \in made \cap Hard : OnList(list, t) => left[t] > 0
<1> USE TypesKnown
<1>1. /\ \A i \in DOMAIN HardList : HardList[i] \in made \cap Hard /\ OnList(list, HardList[i])
      /\ \A t \in Hard : OnList(list, t) <=> Member(HardList, t)
  BY OnListKnown DEF TimerInv, HardList
<1>2. HardList \in Seq(Hard)
  BY DEF TimerInv, TypeOK
<1>3. HardList # <<>> => 1 \in DOMAIN HardList
  BY <1>2
<1>4. ASSUME HardList # <<>>
      PROVE  /\ HardList[1] \in made \cap Hard /\ OnList(list, HardList[1])
             /\ HardDue <=> left[HardList[1]] <= 0
  <2>1. HardList[1] \in made \cap Hard /\ OnList(list, HardList[1])
    BY <1>1, <1>3, <1>4
  <2> QED
    BY <1>4, <2>1, HardDueKnown DEF HardDue
<1>5. ASSUME ~HardDue, NEW t \in made \cap Hard, OnList(list, t) PROVE left[t] > 0
  <2>1. PICK i \in DOMAIN HardList : HardList[i] = t
    BY <1>1, <1>5 DEF Member
  <2>2. HardList # <<>> /\ i \in 1 .. Len(HardList) /\ Len(HardList) \in Nat
    BY <1>2, <2>1
  <2>3. left[HardList[1]] > 0 /\ left[HardList[1]] \in Int /\ left[t] \in Int
    BY <1>4, <1>5, <2>2
  <2>4. i = 1 \/ left[HardList[1]] <= left[HardList[i]]
    <3>1. Ordered(HardList, left)
      BY DEF TimerInv, OrderInv, HardList
    <3>2. 1 \in DOMAIN HardList /\ i \in DOMAIN HardList /\ (i = 1 \/ 1 < i)
      BY <1>2, <2>2
    <3> QED
      BY <3>1, <3>2 DEF Ordered
  <2> QED
    BY <2>1, <2>3, <2>4
<1> QED
  BY <1>4, <1>5

LEMMA CheckFireKept ==
  ASSUME TimerInv, CheckFire
  PROVE  TimerInv'
<1> USE TypesKnown
<1> DEFINE t == HardList[1]
<1>1. /\ t \in made \cap Hard /\ OnList(list, t) /\ t \in Timers
      /\ isr.on = NoTimer /\ isr.op = "check"
  <2>1. HardList # <<>> /\ isr.op = "check"
    BY DEF CheckFire, HardDue
  <2>2. isr.on = NoTimer
    BY <2>1 DEF TimerInv, IsrInv
  <2> QED
    BY <2>1, <2>2, HardFirst
<1>2. /\ isr'.op = "call" /\ isr'.on = t
      /\ UNCHANGED <<made, tick, active, periodic, init, app, tt, left>>
      /\ list' = Unlink(list, t) /\ timeout' = Forget(t)
  BY DEF CheckFire
<1>3. isr' \in [op : {"off", "check", "call"}, on : Timers \cup {NoTimer}]
  BY <1>1 DEF CheckFire
<1> HIDE DEF t
<1>4. t # app.on \/ app.op \notin {"link", "clear"}
  BY <1>1 DEF TimerInv, AppInv
<1>5. /\ ListsGood(list, made)' /\ timeout' \in [made -> 0 .. TICK_MAX]
      /\ \A u \in Timers : OnList(list', u) <=> OnList(list, u) /\ u # t
      /\ TimeInv' /\ HardInv' /\ OrderInv' /\ SoftInv'
  BY <1>1, <1>2, <1>4, UnlinkStep DEF StartPending
<1>6. TypeOK'
  BY <1>2, <1>3, <1>5, TypesStep DEF TimerInv, TypeOK, ThreadStates
<1>7. FlagInv'
  BY <1>1, <1>2, <1>5 DEF TimerInv, FlagInv
<1>8. IsrInv' /\ AppInv'
  BY <1>1, <1>2, <1>4, <1>5 DEF TimerInv, IsrInv, AppInv
<1>9. ThreadInv'
  <2>1. tt.on # t /\ tt.n # t
    BY <1>1, ClassKnown DEF TimerInv, ThreadInv
  <2> QED
    BY <1>2, <1>5, <2>1 DEF TimerInv, ThreadInv
<1> QED
  BY <1>5, <1>6, <1>7, <1>8, <1>9 DEF TimerInv

LEMMA CheckEndKept ==
  ASSUME TimerInv, CheckEnd
  PROVE  TimerInv'
<1> USE TypesKnown
<1>1. /\ isr.op = "check" /\ isr' = [op |-> "off", on |-> NoTimer] /\ isr.on = NoTimer
      /\ UNCHANGED <<made, tick, list, active, periodic, init, timeout, app, tt, left>>
  BY DEF CheckEnd, TimerInv, IsrInv
<1>2. TypeOK'
  BY <1>1 DEF TimerInv, TypeOK, HardList, SoftList
<1>3. IsrInv' /\ ThreadInv' /\ AppInv' /\ SoftInv'
  BY <1>1 DEF TimerInv, IsrInv, ThreadInv, AppInv, SoftInv
<1>4. HardInv'
  <2>1. \A t \in made \cap Hard : OnList(list, t) => left[t] > 0
    BY HardFirst DEF CheckEnd
  <2>2. ASSUME NEW t \in made \cap Hard, OnList(list, t) PROVE left[t] >= -MaxLag
    BY <2>1, <2>2, TicksKnown
  <2> QED
    BY <1>1, <2>2 DEF HardInv
<1> QED
  BY <1>1, <1>2, <1>3, <1>4, QuietStep

(* A soft timer that fires is due. *)
LEMMA SoftDueKnown ==
  ASSUME TimerInv, tt.op = "check", SoftDue
  PROVE  tt.n \in made \cap Soft /\ OnList(list, tt.n) /\ left[tt.n] <= 0
<1> USE TypesKnown
<1>1. tt.n \in made \cap Soft /\ OnList(list, tt.n)
  BY DEF SoftDue, TimerInv, ThreadInv
<1>2. timeout[tt.n] \in 0 .. TICK_MAX /\ left[tt.n] \in Int /\ tt.now \in 0 .. TICK_MAX
  BY <1>1
<1>3. ASSUME left[tt.n] > 0 PROVE FALSE
  <2>1. PICK n \in 0 .. Half - 1 : left[tt.n] <= n /\ Near(timeout[tt.n], tt.now + n)
    BY <1>1, <1>3 DEF TimerInv, SoftInv
  <2>2. n \in Int /\ 0 - n < Half /\ n - 0 <= Half /\ n > 0
    BY <1>2, <1>3, <2>1, TicksKnown
  <2>3. Near(tt.now, tt.now + 0)
    BY <1>2, TicksKnown DEF Near
  <2>4. ~Reached(timeout[tt.n], tt.now)
    <3>1. Reached(timeout[tt.n], tt.now) <=> n <= 0
      BY <1>2, <2>1, <2>2, <2>3, ReachedKnown
    <3> QED
      BY <2>2, <3>1
  <2> QED
    BY <2>4 DEF SoftDue
<1> QED
  BY <1>1, <1>2, <1>3

(* n->next is on the list, and another timer. *)
LEMMA SuccessorKnown ==
  ASSUME TimerInv, NEW n \in made \cap Soft, OnList(list, n)
  PROVE  \/ Successor(n) = NoTimer
         \/ Successor(n) \in made \cap Soft /\ Successor(n) # n /\ OnList(list, Successor(n))
<1> USE TypesKnown
<1> DEFINE s == SoftList
           i == CHOOSE i \in DOMAIN s : s[i] = n
<1>1. s \in Seq(Soft) /\ Once(s) /\ Member(s, n)
      /\ \A j \in DOMAIN s : s[j] \in made \cap Soft /\ OnList(list, s[j])
  BY OnListKnown DEF TimerInv, ListsGood, SoftList
<1>2. Successor(n) = IF i = Len(s) THEN NoTimer ELSE s[i + 1]
  BY <1>1 DEF Successor
<1>3. i \in DOMAIN s /\ s[i] = n
  BY <1>1 DEF Member
<1> HIDE DEF i, s
<1>4. CASE i # Len(s)
  <2>1. i + 1 \in DOMAIN s /\ i + 1 # i
    BY <1>1, <1>3, <1>4
  <2> QED
    BY <1>1, <1>2, <1>3, <1>4, <2>1 DEF Once
<1> QED
  BY <1>2, <1>4

LEMMA SoftFireKept ==
  ASSUME TimerInv, SoftFire
  PROVE  TimerInv'
<1> USE TypesKnown
<1> DEFINE t == tt.n
<1>1. /\ t \in made \cap Soft /\ OnList(list, t) /\ t \in Timers
      /\ isr.on = NoTimer /\ isr.op = "off" /\ tt.op = "check" /\ tt.on = NoTimer
  <2>1. SoftDue /\ tt.op = "check" /\ isr.op = "off"
    BY DEF SoftFire, ThreadRuns
  <2>2. isr.on = NoTimer /\ tt.on = NoTimer
    BY <2>1 DEF TimerInv, IsrInv, ThreadInv
  <2> QED
    BY <2>1, <2>2, SoftDueKnown
<1>2. /\ tt'.op = "call" /\ tt'.on = t /\ tt'.n = Successor(t)
      /\ UNCHANGED <<made, tick, active, periodic, init, isr, app, left>>
      /\ list' = Unlink(list, t) /\ timeout' = Forget(t)
  BY DEF SoftFire
<1>3. \/ Successor(t) = NoTimer
      \/ Successor(t) \in made \cap Soft /\ Successor(t) # t /\ OnList(list, Successor(t))
  BY <1>1, SuccessorKnown
<1>4. tt' \in ThreadStates
  <2>1. tt \in ThreadStates /\ 0 \in 0 .. TICK_MAX
    BY TicksKnown DEF TimerInv, TypeOK, ThreadStates
  <2> QED
    BY <1>1, <1>3, <2>1 DEF SoftFire, ThreadStates
<1> HIDE DEF t
<1>5. t # app.on \/ app.op \notin {"link", "clear"}
  BY <1>1 DEF TimerInv, AppInv
<1>6. /\ ListsGood(list, made)' /\ timeout' \in [made -> 0 .. TICK_MAX]
      /\ \A u \in Timers : OnList(list', u) <=> OnList(list, u) /\ u # t
      /\ TimeInv' /\ HardInv' /\ OrderInv' /\ SoftInv'
  BY <1>1, <1>2, <1>5, UnlinkStep DEF StartPending
<1>7. TypeOK'
  BY <1>2, <1>4, <1>6, TypesStep DEF TimerInv, TypeOK, ThreadStates
<1>8. FlagInv'
  BY <1>1, <1>2, <1>6 DEF TimerInv, FlagInv
<1>9. IsrInv' /\ AppInv'
  BY <1>1, <1>2, <1>5, <1>6 DEF TimerInv, IsrInv, AppInv
<1>10. ThreadInv'
  BY <1>1, <1>2, <1>3, <1>6 DEF TimerInv, ThreadInv
<1> QED
  BY <1>6, <1>7, <1>8, <1>9, <1>10 DEF TimerInv

(* The tick brings all timers one tick closer, and wraps. *)
LEMMA TickKept ==
  ASSUME TimerInv, Tick
  PROVE  TimerInv'
<1> USE TypesKnown
<1> DEFINE Timed(t) == OnList(list, t) \/ StartPending(t)
<1>1. /\ isr.op = "off" /\ isr.on = NoTimer /\ isr' = [op |-> "check", on |-> NoTimer]
      /\ UNCHANGED <<made, list, active, periodic, init, timeout, app>>
      /\ app.op = "link" => left[app.on] > -MaxLag
  BY DEF Tick, TimerInv, IsrInv
<1>2. \/ tt' = tt
      \/ tt.op = "asleep" /\ tt.wait > 1 /\ tt' = [tt EXCEPT !.wait = @ - 1]
      \/ tt.op = "asleep" /\ tt' = [tt EXCEPT !.op = "enter", !.wait = 0]
  BY DEF Tick
<1>3. /\ left' \in [made -> Int]
      /\ \A t \in made : Timed(t) => left'[t] = IF left[t] > Late THEN left[t] - 1 ELSE left[t]
  <2>1. left' = [t \in made |-> IF ~Timed(t) THEN 0
                               ELSE IF left[t] > Late THEN left[t] - 1 ELSE left[t]]
    BY DEF Tick, OnList
  <2> HIDE DEF Timed
  <2> QED
    BY <2>1, TicksKnown
<1>4. tick' \in 0 .. TICK_MAX /\ Near(tick', tick + 1)
  <2>1. 1 \in Nat /\ 1 < TickRange
    BY TicksKnown
  <2> QED
    BY <2>1, Wrapped DEF Tick
<1>5. TypeOK'
  <2>1. tt' \in ThreadStates
    <3>1. tt \in ThreadStates /\ 0 \in 0 .. TICK_MAX
      BY TicksKnown DEF TimerInv, TypeOK, ThreadStates
    <3>2. tt.wait > 1 => tt.wait - 1 \in 0 .. TICK_MAX
      BY TicksKnown
    <3> QED
      BY <1>2, <3>1, <3>2 DEF ThreadStates
  <2> QED
    BY <1>1, <1>3, <1>4, <2>1 DEF TimerInv, TypeOK, HardList, SoftList, ThreadStates
<1>6. ListsGood(list, made)'
  BY <1>1 DEF TimerInv
<1>7. tt'.on = tt.on /\ tt'.n = tt.n /\ tt'.now = tt.now
      /\ (tt'.op = "check" <=> tt.op = "check") /\ (tt'.op = "call" <=> tt.op = "call")
  BY <1>2
<1>8. FlagInv' /\ IsrInv' /\ ThreadInv'
  BY <1>1, <1>7 DEF TimerInv, FlagInv, IsrInv, ThreadInv
<1>9. AppInv'
  <2>1. app.op = "link" => app.on \in made /\ Timed(app.on) /\ left[app.on] \in Int
    BY DEF TimerInv, AppInv, StartPending
  <2>2. app.op = "link" => left'[app.on] >= -MaxLag
    <3> HIDE DEF Timed
    <3> QED
      BY <1>1, <1>3, <2>1, TicksKnown
  <2> QED
    BY <1>1, <1>7, <2>2 DEF TimerInv, AppInv
<1>10. TimeInv'
  <2> SUFFICES ASSUME NEW t \in made, Timed(t)
               PROVE  /\ left'[t] >= Late /\ left'[t] + MaxLag < Half
                      /\ left'[t] > Late => Near(timeout[t], tick' + left'[t])
    BY <1>1 DEF TimeInv, TimeOK, StartPending
  <2>1. TimeOK(t)
    BY DEF TimerInv, TimeInv
  <2> HIDE DEF Timed
  <2>2. left'[t] = (IF left[t] > Late THEN left[t] - 1 ELSE left[t]) /\ left[t] \in Int
    BY <1>3
  <2>3. left'[t] >= Late /\ left'[t] + MaxLag < Half
    BY <2>1, <2>2, TicksKnown DEF TimeOK
  <2>4. ASSUME left'[t] > Late PROVE Near(timeout[t], tick' + left'[t])
    <3>1. Near(timeout[t], tick + left[t]) /\ left'[t] = left[t] - 1
      BY <2>1, <2>2, <2>4, TicksKnown DEF TimeOK
    <3>2. /\ left[t] \in Int /\ left[t] + MaxLag < Half /\ left'[t] >= -MaxLag - 1
          /\ timeout[t] \in 0 .. TICK_MAX
      BY <2>1, <2>2, <2>4, TicksKnown DEF TimeOK
    <3> DEFINE N == TickRange
    <3>3. /\ N \in Nat /\ tick \in 0 .. N - 1 /\ tick' \in 0 .. N - 1 /\ timeout[t] \in 0 .. N - 1
          /\ Half \in Nat /\ 2 * Half < N /\ MaxLag \in Nat /\ MaxLag + 1 < Half
      BY <1>4, <3>2, TicksKnown
    <3>4. /\ timeout[t] = tick + left[t] \/ timeout[t] = tick + left[t] + N
             \/ timeout[t] = tick + left[t] - N
          /\ tick' = tick + 1 \/ tick' = tick + 1 + N \/ tick' = tick + 1 - N
      BY <1>4, <3>1, <3>2, <3>3 DEF Near
    <3> HIDE DEF N
    <3>5. timeout[t] = tick' + left'[t] \/ timeout[t] = tick' + left'[t] + N
             \/ timeout[t] = tick' + left'[t] - N
      BY <3>1, <3>2, <3>3, <3>4
    <3> QED
      BY <3>1, <3>2, <3>3, <3>5 DEF Near, N
  <2> QED
    BY <2>3, <2>4
<1>11. HardInv'
  <2> SUFFICES ASSUME NEW t \in made \cap Hard, OnList(list, t) PROVE left'[t] >= -MaxLag - 1
    BY <1>1 DEF HardInv
  <2>1. left[t] >= -MaxLag /\ left[t] \in Int
    BY <1>1 DEF TimerInv, HardInv
  <2> QED
    BY <1>3, <2>1, TicksKnown
<1>12. OrderInv'
  <2>1. \A i \in DOMAIN list["hard"] : list["hard"][i] \in made /\ OnList(list, list["hard"][i])
    BY OnListKnown DEF TimerInv
  <2> SUFFICES ASSUME NEW i \in DOMAIN list["hard"], NEW j \in DOMAIN list["hard"], i < j
               PROVE  left'[list["hard"][i]] <= left'[list["hard"][j]]
    BY <1>1 DEF OrderInv, Ordered
  <2> DEFINE x == list["hard"][i]
             y == list["hard"][j]
  <2>2. left[x] <= left[y] /\ x \in made /\ y \in made /\ Timed(x) /\ Timed(y)
    BY <2>1 DEF TimerInv, OrderInv, Ordered
  <2> HIDE DEF x, y, Timed
  <2>3. left[x] \in Int /\ left[y] \in Int
    BY <2>2
  <2>4. left'[x] <= left'[y]
    BY <1>3, <2>2, <2>3, TicksKnown
  <2> QED
    BY <2>4 DEF x, y
<1>13. SoftInv'
  <2> SUFFICES ASSUME tt.op = "check", NEW t \in made \cap Soft, OnList(list, t), left'[t] > 0
               PROVE  \E n \in 0 .. Half - 1 : left'[t] <= n /\ Near(timeout[t], tt.now + n)
    BY <1>1, <1>7 DEF SoftInv
  <2>1. left[t] \in Int /\ left'[t] \in Int /\ left'[t] <= left[t]
    BY <1>3, TicksKnown
  <2>2. left[t] > 0
    BY <2>1
  <2>3. PICK n \in 0 .. Half - 1 : left[t] <= n /\ Near(timeout[t], tt.now + n)
    BY <2>2 DEF TimerInv, SoftInv
  <2>4. left'[t] <= n
    BY <2>1, <2>3, TicksKnown
  <2> QED
    BY <2>3, <2>4
<1> QED
  BY <1>5, <1>6, <1>8, <1>9, <1>10, <1>11, <1>12, <1>13 DEF TimerInv

-----------------------------------------------------------------------------
(* Steps that put a timer on its list *)

(* How the insertion of timer t keeps the lists, and the order in which    *)
(* hard timers are due.                                                    *)
LEMMA LinkStep ==
  ASSUME TimerInv, NEW t \in made, ~OnList(list, t), UNCHANGED <<made, tick>>,
         list' = Link(list, t, timeout'),
         timeout' \in [made -> 0 .. TICK_MAX], left' \in [made -> Int],
         \A u \in made : u # t => left'[u] = left[u] /\ timeout'[u] = timeout[u],
         TimeOK(t)', left'[t] >= IF isr.op = "off" THEN -MaxLag ELSE 0,
         app'.op = "link" => app' = app,
         isr'.op = "off" <=> isr.op = "off"
  PROVE  /\ ListsGood(list, made)'
         /\ \A u \in Timers : OnList(list', u) <=> OnList(list, u) \/ u = t
         /\ TimeInv' /\ HardInv' /\ OrderInv'
<1> USE TypesKnown
<1>1. ListsGood(list, made) /\ t \in Timers
  BY DEF TimerInv
<1>2. /\ ListsGood(list', made)
      /\ \A u \in Timers : OnList(list', u) <=> OnList(list, u) \/ u = t
      /\ t \in Soft => list'["hard"] = list["hard"]
  <2>1. \A when :
           /\ ListsGood(Link(list, t, when), made)
           /\ \A u \in Timers : OnList(Link(list, t, when), u) <=> OnList(list, u) \/ u = t
           /\ t \in Soft => Link(list, t, when)["hard"] = list["hard"]
    BY <1>1, LinkKnown
  <2> QED
    BY <2>1
<1>3. TimeInv'
  <2> SUFFICES ASSUME NEW u \in made, (OnList(list, u) \/ StartPending(u))' PROVE TimeOK(u)'
    BY DEF TimeInv
  <2>1. CASE u # t
    <3>1. OnList(list, u) \/ StartPending(u)
      BY <1>2, <2>1 DEF StartPending
    <3>2. TimeOK(u)
      BY <3>1 DEF TimerInv, TimeInv
    <3> QED
      BY <2>1, <3>2 DEF TimeOK
  <2> QED
    BY <2>1
<1>4. left'[t] \in Int /\ left'[t] >= -MaxLag /\ left'[t] + MaxLag < Half
      /\ Near(timeout'[t], tick + left'[t])
  BY TicksKnown DEF TimeOK
<1>5. ASSUME NEW u \in made \cap Hard, OnList(list', u)
      PROVE  left'[u] \in Int /\ left'[u] >= (IF isr.op = "off" THEN -MaxLag ELSE -MaxLag - 1)
  <2>1. CASE u # t
    BY <1>2, <1>5, <2>1 DEF TimerInv, HardInv
  <2>2. CASE u = t
    BY <1>4, <2>2, TicksKnown
  <2> QED
    BY <2>1, <2>2
<1>6. HardInv'
  BY <1>5 DEF HardInv
<1>7. ASSUME NEW u \in made \cap Hard, OnList(list, u)
      PROVE  Reached(timeout'[t], timeout'[u]) <=> left'[t] <= left'[u]
  <2>1. u # t /\ left'[u] = left[u] /\ timeout'[u] = timeout[u] /\ left[u] \in Int
    BY <1>7
  <2>2. TimeOK(u) /\ left'[u] >= (IF isr.op = "off" THEN -MaxLag ELSE -MaxLag - 1)
    BY <1>2, <1>5, <1>7 DEF TimerInv, TimeInv
  <2>3. Near(timeout'[u], tick + left'[u]) /\ left'[u] + MaxLag < Half
    BY <2>1, <2>2, TicksKnown DEF TimeOK
  <2>4. left'[u] - left'[t] < Half /\ left'[t] - left'[u] <= Half
    BY <1>4, <2>1, <2>2, <2>3, TicksKnown
  <2>5. left'[t] \in Int /\ left'[u] \in Int /\ timeout'[t] \in 0 .. TICK_MAX
        /\ timeout'[u] \in 0 .. TICK_MAX
    BY <2>1, <1>4
  <2> QED
    BY <1>4, <2>3, <2>4, <2>5, ReachedKnown
<1>8. OrderInv'
  <2>1. \A i \in DOMAIN list["hard"] : list["hard"][i] \in made /\ OnList(list, list["hard"][i])
    BY <1>1, OnListKnown
  <2>2. Ordered(list["hard"], left')
    BY <2>1 DEF TimerInv, OrderInv, Ordered
  <2>3. CASE t \in Soft
    BY <1>2, <2>2, <2>3 DEF OrderInv
  <2>4. CASE t \in Hard
    <3>1. Ordered(Link(list, t, timeout')["hard"], left')
      <4>1. \A when :
              (\A u \in made \cap Hard :
                 OnList(list, u) => (Reached(when[t], when[u]) <=> left'[t] <= left'[u]))
              => Ordered(Link(list, t, when)["hard"], left')
        BY <1>1, <2>2, <2>4, LinkOrder
      <4> QED
        BY <1>7, <4>1
    <3> QED
      BY <3>1 DEF OrderInv
  <2> QED
    BY <1>1, <2>3, <2>4, ClassKnown
<1> QED
  BY <1>2, <1>3, <1>6, <1>8

(* The time that rt_timer_start sets. *)
LEMMA StartKnown ==
  ASSUME TimerInv, NEW t \in made, timeout' = Due(t), left' = Left(t), UNCHANGED tick
  PROVE  /\ timeout' \in [made -> 0 .. TICK_MAX] /\ left' \in [made -> Int]
         /\ \A u \in made : u # t => left'[u] = left[u] /\ timeout'[u] = timeout[u]
         /\ TimeOK(t)' /\ left'[t] \in Nat
<1> USE TypesKnown
<1>1. init[t] \in Nat /\ init[t] + MaxLag < Half /\ init[t] < TickRange
  BY TicksKnown
<1>2. (tick + init[t]) % TickRange \in 0 .. TICK_MAX
      /\ Near((tick + init[t]) % TickRange, tick + init[t])
  BY <1>1, Wrapped
<1>3. timeout' = [timeout EXCEPT ![t] = (tick + init[t]) % TickRange]
      /\ left' = [left EXCEPT ![t] = init[t]]
  BY DEF Due, Left
<1>4. timeout'[t] = (tick + init[t]) % TickRange /\ left'[t] = init[t]
  BY <1>3
<1>5. TimeOK(t)'
  BY <1>1, <1>2, <1>4, TicksKnown DEF TimeOK
<1>6. left' \in [made -> Int] /\ \A u \in made : u # t => left'[u] = left[u]
  BY <1>1, <1>3
<1>7. timeout' \in [made -> 0 .. TICK_MAX] /\ \A u \in made : u # t => timeout'[u] = timeout[u]
  BY <1>2, <1>3
<1> QED
  BY <1>1, <1>4, <1>5, <1>6, <1>7

(* The first section of rt_timer_start. *)
LEMMA StartKept ==
  ASSUME TimerInv, NEW t \in made, rt_timer_start(t)
  PROVE  TimerInv'
<1> USE TypesKnown
<1>1. /\ isr.op = "off" /\ isr.on = NoTimer /\ tt.on = NoTimer /\ tt.n = NoTimer
      /\ tt.op \notin {"check", "call"} /\ t \notin active /\ app.op = "run"
      /\ app' = [op |-> "link", on |-> t]
      /\ UNCHANGED <<made, tick, list, active, periodic, init, isr, tt>>
      /\ ~OnList(list, t)
  BY DEF TimerInv, IsrInv, ThreadInv, FlagInv, rt_timer_start, AppRuns
<1>2. /\ timeout' \in [made -> 0 .. TICK_MAX] /\ left' \in [made -> Int]
      /\ \A u \in made : u # t => left'[u] = left[u] /\ timeout'[u] = timeout[u]
      /\ TimeOK(t)' /\ left'[t] \in Nat
  BY <1>1, StartKnown DEF rt_timer_start
<1>3. ListsGood(list, made)'
  BY <1>1 DEF TimerInv
<1>4. TypeOK'
  <2>1. app' \in [op : {"run", "link", "wake", "unlink", "clear"}, on : Timers \cup {NoTimer}]
    BY <1>1
  <2> QED
    BY <1>1, <1>2, <1>3, <2>1, TypesStep DEF TimerInv, TypeOK, ThreadStates
<1>5. FlagInv' /\ IsrInv' /\ ThreadInv'
  BY <1>1 DEF TimerInv, FlagInv, IsrInv, ThreadInv
<1>6. AppInv'
  <2>1. left'[t] >= -MaxLag
    BY <1>2, TicksKnown
  <2> QED
    BY <1>1, <2>1 DEF AppInv
<1>7. TimeInv'
  <2> SUFFICES ASSUME NEW u \in made, u # t, OnList(list, u) PROVE TimeOK(u)'
    BY <1>1, <1>2 DEF TimeInv, StartPending
  <2>1. TimeOK(u)
    BY DEF TimerInv, TimeInv
  <2> QED
    BY <1>1, <1>2, <2>1 DEF TimeOK
<1>8. HardInv'
  BY <1>1, <1>2 DEF TimerInv, HardInv
<1>9. OrderInv'
  <2>1. \A i \in DOMAIN list["hard"] : list["hard"][i] \in made /\ OnList(list, list["hard"][i])
    BY OnListKnown DEF TimerInv
  <2> QED
    BY <1>1, <1>2, <2>1 DEF TimerInv, OrderInv, Ordered
<1>10. SoftInv'
  BY <1>1 DEF SoftInv
<1> QED
  BY <1>3, <1>4, <1>5, <1>6, <1>7, <1>8, <1>9, <1>10 DEF TimerInv

(* The insertion and the flag in rt_timer_start. *)
LEMMA StartLinkKept ==
  ASSUME TimerInv, StartLink
  PROVE  TimerInv'
<1> USE TypesKnown
<1> PICK t : t = app.on
  OBVIOUS
<1>1. /\ isr.op = "off" /\ isr.on = NoTimer /\ tt.on = NoTimer /\ tt.n = NoTimer
      /\ tt.op \notin {"check", "call"} /\ app.op = "link"
      /\ t \in made /\ t \in Timers /\ ~OnList(list, t) /\ left[t] >= -MaxLag
      /\ UNCHANGED <<made, tick, periodic, init, timeout, isr, tt, left>>
      /\ active' = active \cup {t} /\ list' = Link(list, t, timeout)
  BY DEF TimerInv, IsrInv, ThreadInv, AppInv, StartLink, AppRuns
<1>2. \/ app'.op = "wake" /\ app'.on = t
      \/ app'.op = "run" /\ app'.on = NoTimer
  BY DEF StartLink, Idle
<1>3. app' \in [op : {"run", "link", "wake", "unlink", "clear"}, on : Timers \cup {NoTimer}]
  BY <1>1 DEF StartLink, Idle
<1>4. TimeOK(t)'
  <2>1. TimeOK(t)
    BY <1>1 DEF TimerInv, TimeInv, StartPending
  <2> QED
    BY <1>1, <2>1 DEF TimeOK
<1>5. /\ ListsGood(list, made)'
      /\ \A u \in Timers : OnList(list', u) <=> OnList(list, u) \/ u = t
      /\ TimeInv' /\ HardInv' /\ OrderInv'
  BY <1>1, <1>2, <1>4, LinkStep
<1>6. TypeOK'
  BY <1>1, <1>3, <1>5, TypesStep DEF TimerInv, TypeOK, ThreadStates
<1>7. FlagInv'
  BY <1>1, <1>5 DEF TimerInv, FlagInv
<1>8. IsrInv' /\ ThreadInv' /\ AppInv'
  BY <1>1, <1>2, <1>5 DEF TimerInv, IsrInv, ThreadInv, AppInv
<1>9. SoftInv'
  BY <1>1 DEF SoftInv
<1> QED
  BY <1>5, <1>6, <1>7, <1>8, <1>9 DEF TimerInv

(* The functions of hard timers, which keep to the rules of use. *)
LEMMA CheckCallKept ==
  ASSUME TimerInv, NEW x \in made, CheckCall(x), Relaxed = {}
  PROVE  TimerInv'
<1> USE TypesKnown
<1>1. /\ isr.op = "call" /\ isr.on \in made \cap Hard /\ ~OnList(list, isr.on)
      /\ UNCHANGED <<made, tick, isr, app>> /\ TimerFunction(x, isr.on)
  BY DEF TimerInv, IsrInv, CheckCall
<1>2. x # app.on /\ x \in Hard /\ x \notin Soft /\ x \in Timers
  <2>1. x # app.on /\ (x = isr.on \/ {x, isr.on} \cap Soft = {})
    BY <1>1 DEF TimerFunction, Allowed
  <2> QED
    BY <1>1, <2>1, ClassKnown
<1>3. tt' = tt
  BY <1>2 DEF CheckCall, Wake
<1>4. tt.on # x /\ tt.n # x
  BY <1>2 DEF TimerInv, ThreadInv
<1>5. CASE x \notin active /\ x # isr.on /\ Start(x, active) /\ UNCHANGED <<periodic, init>>
  <2>1. /\ timeout' \in [made -> 0 .. TICK_MAX] /\ left' \in [made -> Int]
        /\ \A u \in made : u # x => left'[u] = left[u] /\ timeout'[u] = timeout[u]
        /\ TimeOK(x)' /\ left'[x] \in Nat
    BY <1>1, <1>5, StartKnown DEF Start
  <2>2. ~OnList(list, x) /\ list' = Link(list, x, timeout') /\ active' = active \cup {x}
    BY <1>5 DEF TimerInv, FlagInv, Start
  <2>3. left'[x] >= 0
    BY <2>1
  <2>4. /\ ListsGood(list, made)'
        /\ \A u \in Timers : OnList(list', u) <=> OnList(list, u) \/ u = x
        /\ TimeInv' /\ HardInv' /\ OrderInv'
    BY <1>1, <2>1, <2>2, <2>3, LinkStep
  <2>5. TypeOK'
    <3>1. active' \subseteq made
      BY <2>2
    <3> QED
      BY <1>1, <1>3, <1>5, <2>1, <2>4, <3>1, TypesStep DEF TimerInv, TypeOK, ThreadStates
  <2>6. FlagInv'
    BY <1>1, <1>3, <2>2, <2>4 DEF TimerInv, FlagInv
  <2>7. IsrInv' /\ ThreadInv'
    BY <1>1, <1>3, <1>4, <1>5, <2>4 DEF TimerInv, IsrInv, ThreadInv
  <2>8. AppInv'
    BY <1>1, <1>2, <1>3, <2>1, <2>2, <2>4 DEF TimerInv, AppInv
  <2>9. SoftInv'
    <3>1. ASSUME NEW u \in made \cap Soft, OnList(list', u)
          PROVE  OnList(list, u) /\ left'[u] = left[u] /\ timeout'[u] = timeout[u]
      BY <1>2, <2>1, <2>4, <3>1
    <3> QED
      BY <1>1, <1>3, <3>1 DEF TimerInv, SoftInv
  <2> QED
    BY <2>4, <2>5, <2>6, <2>7, <2>8, <2>9 DEF TimerInv
<1>6. CASE /\ x \in active /\ list' = Unlink(list, x) /\ active' = active \ {x}
           /\ timeout' = Forget(x) /\ UNCHANGED <<periodic, init, left>>
  <2>1. /\ ListsGood(list, made)' /\ timeout' \in [made -> 0 .. TICK_MAX]
        /\ \A u \in Timers : OnList(list', u) <=> OnList(list, u) /\ u # x
        /\ TimeInv' /\ HardInv' /\ OrderInv' /\ SoftInv'
    BY <1>1, <1>2, <1>3, <1>6, UnlinkStep DEF StartPending
  <2>2. TypeOK'
    <3>1. active' \subseteq made
      BY <1>6
    <3> QED
      BY <1>1, <1>3, <1>6, <2>1, <3>1, TypesStep DEF TimerInv, TypeOK, ThreadStates
  <2>3. FlagInv'
    BY <1>1, <1>3, <1>6, <2>1 DEF TimerInv, FlagInv
  <2>4. IsrInv' /\ ThreadInv'
    BY <1>1, <1>3, <1>4, <2>1 DEF TimerInv, IsrInv, ThreadInv
  <2>5. AppInv'
    BY <1>1, <1>2, <1>3, <1>6, <2>1 DEF TimerInv, AppInv
  <2> QED
    BY <2>1, <2>2, <2>3, <2>4, <2>5 DEF TimerInv
<1>7. CASE Control(x) /\ UNCHANGED <<list, active, timeout, left>>
  <2>1. TypeOK'
    BY <1>1, <1>3, <1>7, ControlKnown DEF TimerInv, TypeOK, HardList, SoftList
  <2>2. IsrInv' /\ ThreadInv' /\ AppInv' /\ HardInv' /\ SoftInv'
    BY <1>1, <1>3, <1>7 DEF TimerInv, IsrInv, ThreadInv, AppInv, HardInv, SoftInv
  <2> QED
    BY <1>1, <1>3, <1>7, <2>1, <2>2, QuietStep
<1> QED
  BY <1>1, <1>5, <1>6, <1>7 DEF TimerFunction

(* The end of the loop body of rt_timer_check: a periodic timer goes back  *)
(* to its list.                                                            *)
LEMMA CheckRestartKept ==
  ASSUME TimerInv, CheckRestart
  PROVE  TimerInv'
<1> USE TypesKnown
<1> PICK x : x = isr.on
  OBVIOUS
<1>1. /\ isr.op = "call" /\ x \in made \cap Hard /\ x \in Timers /\ ~OnList(list, x)
      /\ isr' = [op |-> "check", on |-> NoTimer] /\ Expired(x)
      /\ UNCHANGED <<made, tick, periodic, init, app, tt>>
  BY DEF TimerInv, IsrInv, CheckRestart
<1>2. tt.on # x /\ tt.n # x /\ (app.op \in {"link", "clear"} => app.on # x)
  BY <1>1, ClassKnown DEF TimerInv, ThreadInv, AppInv
<1>3. isr' \in [op : {"off", "check", "call"}, on : Timers \cup {NoTimer}]
  BY <1>1
<1>4. CASE Start(x, active) /\ x \in active
  <2>1. /\ timeout' \in [made -> 0 .. TICK_MAX] /\ left' \in [made -> Int]
        /\ \A u \in made : u # x => left'[u] = left[u] /\ timeout'[u] = timeout[u]
        /\ TimeOK(x)' /\ left'[x] \in Nat
    BY <1>1, <1>4, StartKnown DEF Start
  <2>2. list' = Link(list, x, timeout') /\ active' = active
    BY <1>4 DEF Start
  <2>3. left'[x] >= 0
    BY <2>1
  <2>4. /\ ListsGood(list, made)'
        /\ \A u \in Timers : OnList(list', u) <=> OnList(list, u) \/ u = x
        /\ TimeInv' /\ HardInv' /\ OrderInv'
    BY <1>1, <2>1, <2>2, <2>3, LinkStep
  <2>5. TypeOK'
    BY <1>1, <1>3, <2>1, <2>2, <2>4, TypesStep DEF TimerInv, TypeOK, ThreadStates
  <2>6. FlagInv'
    BY <1>1, <1>4, <2>2, <2>4 DEF TimerInv, FlagInv
  <2>7. IsrInv' /\ ThreadInv'
    BY <1>1, <1>2, <2>4 DEF TimerInv, IsrInv, ThreadInv
  <2>8. AppInv'
    BY <1>1, <1>2, <2>1, <2>2, <2>4 DEF TimerInv, AppInv
  <2>9. SoftInv'
    <3>1. ASSUME NEW u \in made \cap Soft, OnList(list', u)
          PROVE  OnList(list, u) /\ left'[u] = left[u] /\ timeout'[u] = timeout[u]
      BY <1>1, <2>1, <2>4, <3>1, ClassKnown
    <3> QED
      BY <1>1, <3>1 DEF TimerInv, SoftInv
  <2> QED
    BY <2>4, <2>5, <2>6, <2>7, <2>8, <2>9 DEF TimerInv
<1>5. CASE active' = active \ {x} /\ UNCHANGED <<list, timeout, left>>
  <2>1. ListsGood(list, made)' /\ OrderInv'
    BY <1>1, <1>5 DEF TimerInv, OrderInv
  <2>2. TypeOK'
    <3>1. active' \subseteq made
      BY <1>5
    <3> QED
      BY <1>1, <1>3, <1>5, <2>1, <3>1, TypesStep DEF TimerInv, TypeOK, ThreadStates
  <2>3. FlagInv'
    BY <1>1, <1>5 DEF TimerInv, FlagInv
  <2>4. IsrInv' /\ ThreadInv' /\ AppInv'
    BY <1>1, <1>2, <1>5 DEF TimerInv, IsrInv, ThreadInv, AppInv
  <2>5. TimeInv' /\ HardInv' /\ SoftInv'
    BY <1>1, <1>5 DEF TimerInv, TimeInv, TimeOK, StartPending, HardInv, SoftInv
  <2> QED
    BY <2>1, <2>2, <2>3, <2>4, <2>5 DEF TimerInv
<1> QED
  BY <1>1, <1>4, <1>5 DEF Expired

(* The function of a soft timer, which leaves other timers alone. *)
LEMMA SoftCallKept ==
  ASSUME TimerInv, NEW x \in made, SoftCall(x), Relaxed = {}
  PROVE  TimerInv'
<1> USE TypesKnown
<1>1. /\ isr.op = "off" /\ isr.on = NoTimer /\ tt.op = "call"
      /\ tt.on \in made \cap Soft /\ ~OnList(list, tt.on)
      /\ UNCHANGED <<made, tick, isr, app, tt>> /\ TimerFunction(x, tt.on)
  BY DEF TimerInv, IsrInv, ThreadInv, SoftCall, ThreadRuns
<1>2. x # app.on /\ x = tt.on /\ x \in Timers
  BY <1>1 DEF TimerFunction, Allowed
<1>3. CASE /\ x \in active /\ list' = Unlink(list, x) /\ active' = active \ {x}
           /\ timeout' = Forget(x) /\ UNCHANGED <<periodic, init, left>>
  <2>1. /\ ListsGood(list, made)' /\ timeout' \in [made -> 0 .. TICK_MAX]
        /\ \A u \in Timers : OnList(list', u) <=> OnList(list, u) /\ u # x
        /\ TimeInv' /\ HardInv' /\ OrderInv' /\ SoftInv'
    BY <1>1, <1>2, <1>3, UnlinkStep DEF StartPending
  <2>2. TypeOK'
    <3>1. active' \subseteq made
      BY <1>3
    <3> QED
      BY <1>1, <1>3, <2>1, <3>1, TypesStep DEF TimerInv, TypeOK, ThreadStates
  <2>3. FlagInv'
    BY <1>1, <1>3, <2>1 DEF TimerInv, FlagInv
  <2>4. IsrInv' /\ ThreadInv'
    BY <1>1, <1>2, <2>1 DEF TimerInv, IsrInv, ThreadInv
  <2>5. AppInv'
    BY <1>1, <1>2, <1>3, <2>1 DEF TimerInv, AppInv
  <2> QED
    BY <2>1, <2>2, <2>3, <2>4, <2>5 DEF TimerInv
<1>4. CASE Control(x) /\ UNCHANGED <<list, active, timeout, left>>
  <2>1. TypeOK'
    BY <1>1, <1>4, ControlKnown DEF TimerInv, TypeOK, HardList, SoftList
  <2>2. IsrInv' /\ ThreadInv' /\ AppInv' /\ HardInv' /\ SoftInv'
    BY <1>1, <1>4 DEF TimerInv, IsrInv, ThreadInv, AppInv, HardInv, SoftInv
  <2> QED
    BY <1>1, <1>4, <2>1, <2>2, QuietStep
<1> QED
  BY <1>1, <1>2, <1>3, <1>4 DEF TimerFunction

(* When the tick is read again no soft timer that is not due seems to be. *)
LEMMA SoftFresh ==
  ASSUME TimeInv', left' \in [made' -> Int], tt'.now = tick'
  PROVE  SoftInv'
<1> SUFFICES ASSUME NEW t \in made' \cap Soft, OnList(list', t), left'[t] > 0
             PROVE  \E n \in 0 .. Half - 1 : left'[t] <= n /\ Near(timeout'[t], tick' + n)
  BY DEF SoftInv
<1>1. /\ left'[t] >= Late /\ left'[t] + MaxLag < Half
      /\ left'[t] > Late => Near(timeout'[t], tick' + left'[t])
  BY DEF TimeInv, TimeOK
<1>2. left'[t] \in 0 .. Half - 1 /\ Near(timeout'[t], tick' + left'[t]) /\ left'[t] <= left'[t]
  BY <1>1, TicksKnown
<1> QED
  BY <1>2

(* The end of the loop body of rt_soft_timer_check. *)
LEMMA SoftRestartKept ==
  ASSUME TimerInv, SoftRestart
  PROVE  TimerInv'
<1> USE TypesKnown
<1> PICK x : x = tt.on
  OBVIOUS
<1>1. /\ isr.op = "off" /\ isr.on = NoTimer /\ tt.op = "call"
      /\ x \in made \cap Soft /\ x \in Timers /\ ~OnList(list, x) /\ Expired(x)
      /\ UNCHANGED <<made, tick, periodic, init, isr, app>>
      /\ tt'.op = "check" /\ tt'.on = NoTimer /\ tt'.now = tick /\ tt'.n = tt.n
  BY DEF TimerInv, IsrInv, ThreadInv, SoftRestart, ThreadRuns
<1>2. app.op \in {"link", "clear"} => app.on # x
  BY <1>1 DEF TimerInv, AppInv
<1>3. tt' \in ThreadStates
  <2>1. tt \in ThreadStates
    BY DEF TimerInv, TypeOK, ThreadStates
  <2> QED
    BY <2>1 DEF SoftRestart, ThreadStates
<1>4. CASE Start(x, active) /\ x \in active
  <2>1. /\ timeout' \in [made -> 0 .. TICK_MAX] /\ left' \in [made -> Int]
        /\ \A u \in made : u # x => left'[u] = left[u] /\ timeout'[u] = timeout[u]
        /\ TimeOK(x)' /\ left'[x] \in Nat
    BY <1>1, <1>4, StartKnown DEF Start
  <2>2. list' = Link(list, x, timeout') /\ active' = active
    BY <1>4 DEF Start
  <2>3. left'[x] >= -MaxLag
    BY <2>1, TicksKnown
  <2>4. /\ ListsGood(list, made)'
        /\ \A u \in Timers : OnList(list', u) <=> OnList(list, u) \/ u = x
        /\ TimeInv' /\ HardInv' /\ OrderInv'
    BY <1>1, <2>1, <2>2, <2>3, LinkStep
  <2>5. TypeOK'
    BY <1>1, <1>3, <2>1, <2>2, <2>4, TypesStep DEF TimerInv, TypeOK, ThreadStates
  <2>6. FlagInv'
    BY <1>1, <1>4, <2>2, <2>4 DEF TimerInv, FlagInv
  <2>7. IsrInv' /\ ThreadInv'
    BY <1>1, <2>4 DEF TimerInv, IsrInv, ThreadInv
  <2>8. AppInv'
    BY <1>1, <1>2, <2>1, <2>2, <2>4 DEF TimerInv, AppInv
  <2>9. SoftInv'
    BY <1>1, <2>1, <2>4, SoftFresh
  <2> QED
    BY <2>4, <2>5, <2>6, <2>7, <2>8, <2>9 DEF TimerInv
<1>5. CASE active' = active \ {x} /\ UNCHANGED <<list, timeout, left>>
  <2>1. ListsGood(list, made)' /\ OrderInv'
    BY <1>1, <1>5 DEF TimerInv, OrderInv
  <2>2. TypeOK'
    <3>1. active' \subseteq made
      BY <1>5
    <3> QED
      BY <1>1, <1>3, <1>5, <2>1, <3>1, TypesStep DEF TimerInv, TypeOK, ThreadStates
  <2>3. FlagInv'
    BY <1>1, <1>5 DEF TimerInv, FlagInv
  <2>4. IsrInv' /\ ThreadInv' /\ AppInv'
    BY <1>1, <1>2, <1>5 DEF TimerInv, IsrInv, ThreadInv, AppInv
  <2>5. TimeInv' /\ HardInv'
    BY <1>1, <1>5 DEF TimerInv, TimeInv, TimeOK, StartPending, HardInv
  <2>6. SoftInv'
    BY <1>1, <1>5, <2>5, SoftFresh
  <2> QED
    BY <2>1, <2>2, <2>3, <2>4, <2>5, <2>6 DEF TimerInv
<1> QED
  BY <1>1, <1>4, <1>5 DEF Expired

-----------------------------------------------------------------------------
(* The theorems *)

(* Every step keeps the invariant, if the rules of use are kept. *)
LEMMA NextTimer ==
  ASSUME TimerInv, [Next]_vars, Relaxed = {}
  PROVE  TimerInv'
<1>1. CASE UNCHANGED vars
  BY <1>1 DEF vars, TimerInv, TypeOK, HardList, SoftList, FlagInv, IsrInv, ThreadInv, AppInv,
              TimeInv, TimeOK, StartPending, HardInv, OrderInv, SoftInv
<1>2. CASE \E t \in made :
             \/ rt_timer_start(t) \/ rt_timer_stop(t) \/ rt_timer_control(t)
             \/ rt_timer_detach(t)
             \/ CheckCall(t) \/ SoftCall(t)
  <2>1. PICK t \in made :
             \/ rt_timer_start(t) \/ rt_timer_stop(t) \/ rt_timer_control(t)
             \/ rt_timer_detach(t)
             \/ CheckCall(t) \/ SoftCall(t)
    BY <1>2
  <2> QED
    BY <2>1, StartKept, QuietApp, DetachKept, CheckCallKept, SoftCallKept
<1>3. CASE StartLink \/ StopUnlink \/ StopClear
  BY <1>3, StartLinkKept, StopUnlinkKept, StopClearKept
<1>4. CASE StartWake
  <2>1. \E t : t \in made
    BY <1>4 DEF TimerInv, AppInv, StartWake
  <2> QED
    BY <1>4, <2>1, QuietApp
<1>5. CASE Tick \/ CheckFire \/ CheckRestart \/ CheckEnd
  BY <1>5, TickKept, CheckFireKept, CheckRestartKept, CheckEndKept
<1>6. CASE SoftNext \/ SoftSuspend \/ SoftDelay \/ SoftEnter \/ SoftEnd
  BY <1>6, QuietThread
<1>7. CASE SoftFire \/ SoftRestart
  BY <1>7, SoftFireKept, SoftRestartKept
<1> QED
  BY <1>1, <1>2, <1>3, <1>4, <1>5, <1>6, <1>7 DEF Next

(* The invariant says what ListsOK does. *)
LEMMA TimerLists == TimerInv => ListsOK
<1> SUFFICES ASSUME TimerInv PROVE ListsOK
  OBVIOUS
<1> USE TypesKnown
<1>1. TypeOK /\ \A i, j \in DOMAIN HardList : i < j => left[HardList[i]] <= left[HardList[j]]
  BY DEF TimerInv, OrderInv, Ordered, HardList
<1>2. ASSUME NEW t \in made
      PROVE  LET s == list[Class(t)]
                 here == {i \in DOMAIN s : s[i] = t}
             IN  /\ \A i, j \in here : i = j
                 /\ \/ t \in active <=> here # {}
                    \/ here = {} /\ (t \in {isr.on, tt.on} \/ (app.op = "clear" /\ app.on = t))
  <2> DEFINE s == list[Class(t)]
             here == {i \in DOMAIN s : s[i] = t}
  <2>1. Once(s)
    BY ClassKnown DEF TimerInv, ListsGood
  <2>2. OnList(list, t) <=> here # {}
    BY DEF OnList, Member
  <2>3. \A i, j \in here : i = j
    BY <2>1 DEF Once
  <2> HIDE DEF here
  <2>4. \/ t \in active <=> here # {}
        \/ here = {} /\ (t \in {isr.on, tt.on} \/ (app.op = "clear" /\ app.on = t))
    BY <2>2 DEF TimerInv, FlagInv
  <2> QED
    BY <2>3, <2>4 DEF here
<1> QED
  BY <1>1, <1>2 DEF ListsOK

(* For any number of timers, any width of the tick and any times of less   *)
(* than half its range, a timer is on its list, once, exactly when it is   *)
(* activated (or its function runs or its stop is not complete), and the   *)
(* hard timers are in the order in which they are due, over every wrap of  *)
(* the tick and every start and stop in rt_timer_start, rt_timer_stop and  *)
(* timer functions that keep to the rules of use.                          *)
THEOREM TimerListsOK ==
  ASSUME Relaxed = {}
  PROVE  Spec => []ListsOK
<1>1. Init => TimerInv
  BY InitTimer
<1>2. TimerInv /\ [Next]_vars => TimerInv'
  BY NextTimer
<1>3. TimerInv => ListsOK
  BY TimerLists
<1> QED
  BY <1>1, <1>2, <1>3, PTL DEF Spec

(* rt_timer_check and rt_soft_timer_check call no timer function before    *)
(* its time, however often the tick has wrapped, and when the tick         *)
(* interrupt returns no hard timer that is due is left on the list.        *)
THEOREM TimerFiresOnTime ==
  ASSUME Relaxed = {}
  PROVE  Spec => FiresOnTime
<1> DEFINE Timely ==
      /\ isr.op = "check" /\ isr'.op = "call" => left[isr'.on] <= 0
      /\ tt.op = "check" /\ tt'.op = "call" => left[tt'.on] <= 0
      /\ isr.op = "check" /\ isr'.op = "off" =>
           \A t \in made \cap Hard : Member(HardList, t) => left[t] > 0
<1>1. Init => TimerInv
  BY InitTimer
<1>2. TimerInv /\ [Next]_vars => TimerInv'
  BY NextTimer
<1>3. TimerInv /\ [Next]_vars => [Timely]_vars
  <2> SUFFICES ASSUME TimerInv, Next PROVE Timely
    OBVIOUS
  <2> USE TypesKnown
  <2>1. isr' = isr \/ CheckFire \/ CheckEnd \/ (isr.op # "check")
    BY DEF Next, rt_timer_start, rt_timer_stop, rt_timer_control, rt_timer_detach, CheckCall,
           SoftCall, StartLink, StartWake, StopUnlink, StopClear, Tick, CheckRestart,
           SoftNext, SoftSuspend, SoftDelay, SoftEnter, SoftFire, SoftRestart, SoftEnd
  <2>2. tt' = tt \/ SoftFire \/ tt'.op # "call" \/ tt.op # "check"
    BY DEF Next, rt_timer_start, rt_timer_stop, rt_timer_control, rt_timer_detach, CheckCall,
           SoftCall, StartLink, StartWake, StopUnlink, StopClear, Tick, CheckRestart, CheckFire,
           CheckEnd, SoftNext, SoftSuspend, SoftDelay, SoftEnter, SoftRestart, SoftEnd, Wake,
           ThreadRuns
  <2>3. ASSUME CheckFire PROVE isr'.op = "call" /\ left[isr'.on] <= 0
    BY <2>3, HardFirst DEF CheckFire, HardDue
  <2>4. ASSUME CheckEnd
        PROVE  isr'.op = "off" /\ \A t \in made \cap Hard : Member(HardList, t) => left[t] > 0
    <3>1. \A t \in made \cap Hard : OnList(list, t) => left[t] > 0
      BY <2>4, HardFirst DEF CheckEnd
    <3>2. \A t \in Hard : OnList(list, t) <=> Member(HardList, t)
      BY OnListKnown DEF TimerInv, HardList
    <3> QED
      BY <2>4, <3>1, <3>2 DEF CheckEnd
  <2>5. ASSUME SoftFire, tt.op = "check" PROVE left[tt'.on] <= 0
    BY <2>5, SoftDueKnown DEF SoftFire
  <2> QED
    BY <2>1, <2>2, <2>3, <2>4, <2>5
<1> QED
  BY <1>1, <1>2, <1>3, PTL DEF Spec, FiresOnTime

=============================================================================
