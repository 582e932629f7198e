----------------------------- MODULE HeapProofs -----------------------------
(***************************************************************************)
(* Proofs about the heap, for any size of the heap, of the header and of   *)
(* the requests: the blocks tile the heap, free neighbours are merged,     *)
(* lfree is the lowest free block unless a rt_realloc has hidden one, and  *)
(* used_mem counts the space of the allocated blocks.                      *)
(***************************************************************************)
EXTENDS Heap, WellFoundedInduction, TLAPS

(* The constants as the proofs use them. *)
LEMMA EndKnown ==
  /\ heap_end \in Nat /\ heap_end > 0 /\ heap_end = mem_size_aligned + SIZEOF_STRUCT_MEM
  /\ mem_size_aligned \in Nat /\ SIZEOF_STRUCT_MEM \in Nat /\ SIZEOF_STRUCT_MEM > 0
  /\ MIN_SIZE_ALIGNED \in Nat /\ MIN_SIZE_ALIGNED > 0 /\ Sizes \subseteq Nat
BY HeapAssumption DEF heap_end

(* A non-empty set of naturals has a least element. *)
LEMMA LeastNatural ==
  ASSUME NEW S \in SUBSET Nat, S # {}
  PROVE  \E m \in S : \A n \in S : m <= n
<1> DEFINE R == OpToRel(<, Nat)
<1>1. IsWellFoundedOn(R, Nat)
  BY NatLessThanWellFounded
<1>2. \A x, y \in Nat : <<y, x>> \in R <=> y < x
  BY DEF OpToRel
<1> HIDE DEF R
<1>3. PICK x \in S : \A y \in S : ~(<<y, x>> \in R)
  BY <1>1, WFMin
<1>4. ASSUME NEW n \in S PROVE x <= n
  <2>1. n \in Nat /\ x \in Nat
    BY <1>3
  <2>2. ~(n < x)
    BY <1>2, <1>3, <2>1
  <2> QED
    BY <2>1, <2>2
<1> QED
  BY <1>3, <1>4

(* Min finds it, *)
LEMMA MinKnown ==
  ASSUME NEW S \in SUBSET Nat, S # {}
  PROVE  Min(S) \in S /\ \A n \in S : Min(S) <= n
BY LeastNatural DEF Min

(* and nothing else. *)
LEMMA MinIs ==
  ASSUME NEW S \in SUBSET Nat, NEW x \in S, \A y \in S : x <= y
  PROVE  x = Min(S)
<1>1. Min(S) \in S /\ \A n \in S : Min(S) <= n
  BY MinKnown
<1>2. Min(S) <= x /\ x <= Min(S) /\ x \in Nat /\ Min(S) \in Nat
  BY <1>1
<1> QED
  BY <1>2

LEMMA MaxIs ==
  ASSUME NEW S \in SUBSET Nat, NEW x \in S, \A y \in S : y <= x
  PROVE  x = Max(S)
<1>1. \E z \in S : \A y \in S : z >= y
  OBVIOUS
<1>2. Max(S) \in S /\ \A y \in S : Max(S) >= y
  BY <1>1 DEF Max
<1>3. Max(S) >= x /\ x >= Max(S) /\ x \in Nat /\ Max(S) \in Nat
  BY <1>2
<1> QED
  BY <1>3

-----------------------------------------------------------------------------
(* The list of blocks *)

Heads == [used : BOOLEAN, next : Nat, prev : Nat]

(* The headers have their types. *)
HeadsOK(m) ==
  /\ m \in [DOMAIN m -> Heads]
  /\ DOMAIN m \subseteq 0 .. heap_end /\ 0 \in DOMAIN m /\ heap_end \in DOMAIN m
  /\ m[heap_end].used

(* next leads to the block behind and leaves room for the header. *)
NextOK(m, a) ==
  /\ m[a].next \in DOMAIN m /\ m[a].next >= a + SIZEOF_STRUCT_MEM
  /\ \A b \in DOMAIN m : a < b => m[a].next <= b

(* prev leads back. *)
PrevOK(m, a) ==
  IF a = 0 THEN m[a].prev = 0
  ELSE m[a].prev \in DOMAIN m /\ m[a].prev < a /\ m[m[a].prev].next = a

(* The blocks tile the heap. *)
Well(m) ==
  /\ HeadsOK(m)
  /\ \A a \in DOMAIN m : a # heap_end => NextOK(m, a) /\ PrevOK(m, a)

(* a and the block behind it are not both free. *)
Apart(m, a) == m[a].used \/ m[m[a].next].used

Merged(m) == \A a \in DOMAIN m : a # heap_end => Apart(m, a)

(* The fields of the headers. *)
LEMMA HeadsKnown ==
  ASSUME NEW m, HeadsOK(m)
  PROVE  /\ \A a \in DOMAIN m : /\ m[a] \in Heads /\ m[a].used \in BOOLEAN
                                /\ m[a].next \in Nat /\ m[a].prev \in Nat
                                /\ a \in Nat /\ a <= heap_end /\ (a # heap_end => a < heap_end)
         /\ 0 # heap_end
<1>1. \A a \in DOMAIN m : m[a] \in Heads
  BY DEF HeadsOK
<1>2. \A a \in DOMAIN m : a \in Nat /\ a <= heap_end /\ (a # heap_end => a < heap_end)
  BY EndKnown DEF HeadsOK
<1> QED
  BY <1>1, <1>2, EndKnown DEF Heads

(* The order of the blocks. *)
LEMMA BlockOrder ==
  ASSUME NEW m, Well(m), NEW a \in DOMAIN m, a # heap_end
  PROVE  /\ m[a].next \in DOMAIN m /\ a < m[a].next /\ m[a].next \in Nat /\ a \in Nat
         /\ m[a].next >= a + SIZEOF_STRUCT_MEM
         /\ \A b \in DOMAIN m : b <= a \/ b >= m[a].next
         /\ m[a].next # heap_end => m[m[a].next].prev = a
         /\ a # 0 => /\ m[a].prev \in DOMAIN m /\ m[a].prev < a /\ m[m[a].prev].next = a
                     /\ m[a].prev # heap_end
                     /\ \A b \in DOMAIN m : b <= m[a].prev \/ b >= a
         /\ a = 0 => m[a].prev = 0
<1> USE HeadsKnown, EndKnown
<1>1. HeadsOK(m) /\ NextOK(m, a) /\ PrevOK(m, a)
  BY DEF Well
<1>2. a \in Nat /\ m[a].next \in Nat /\ m[a].prev \in Nat /\ \A b \in DOMAIN m : b \in Nat
  BY <1>1
<1>3. /\ m[a].next \in DOMAIN m /\ a < m[a].next /\ m[a].next >= a + SIZEOF_STRUCT_MEM
      /\ \A b \in DOMAIN m : b <= a \/ b >= m[a].next
  BY <1>1, <1>2 DEF NextOK
<1>4. ASSUME a # 0
      PROVE  /\ m[a].prev \in DOMAIN m /\ m[a].prev < a /\ m[m[a].prev].next = a
             /\ m[a].prev # heap_end
             /\ \A b \in DOMAIN m : b <= m[a].prev \/ b >= a
  <2>1. m[a].prev \in DOMAIN m /\ m[a].prev < a /\ m[m[a].prev].next = a
    BY <1>1, <1>4 DEF PrevOK
  <2>2. m[a].prev # heap_end
    BY <1>1, <1>2, <2>1
  <2>3. NextOK(m, m[a].prev)
    BY <2>1, <2>2 DEF Well
  <2> QED
    BY <1>2, <2>1, <2>2, <2>3 DEF NextOK
<1>5. ASSUME m[a].next # heap_end PROVE m[m[a].next].prev = a
  <2> DEFINE n == m[a].next
             p == m[n].prev
  <2>1. PrevOK(m, n) /\ n # 0
    BY <1>2, <1>3, <1>5 DEF Well
  <2>2. p \in DOMAIN m /\ p < n /\ m[p].next = n
    BY <2>1 DEF PrevOK
  <2>3. p # heap_end /\ p \in Nat /\ n \in Nat /\ n <= heap_end
    BY <1>1, <1>3, <2>2
  <2>4. NextOK(m, p)
    BY <2>2, <2>3 DEF Well
  <2>5. a < n /\ (p < a => n <= a) /\ (p <= a \/ p >= n)
    BY <1>3, <2>2, <2>4 DEF NextOK
  <2> HIDE DEF n, p
  <2>6. p = a
    BY <1>2, <2>2, <2>3, <2>5
  <2> QED
    BY <2>6 DEF n, p
<1>6. a = 0 => m[a].prev = 0
  BY <1>1 DEF PrevOK
<1> QED
  BY <1>2, <1>3, <1>4, <1>5, <1>6
-----------------------------------------------------------------------------
(* What changes one list of blocks into another *)

(* The headers after next of one block has been changed. *)
LEMMA NextSet ==
  ASSUME NEW m, HeadsOK(m), NEW a \in DOMAIN m, NEW n \in Nat
  PROVE  LET x == [m EXCEPT ![a].next = n]
         IN  /\ HeadsOK(x) /\ DOMAIN x = DOMAIN m
             /\ \A c \in DOMAIN m : /\ x[c].used = m[c].used /\ x[c].prev = m[c].prev
                                    /\ x[c].next = IF c = a THEN n ELSE m[c].next
<1> DEFINE x == [m EXCEPT ![a].next = n]
<1>1. /\ DOMAIN x = DOMAIN m /\ x[a] = [m[a] EXCEPT !.next = n]
      /\ \A c \in DOMAIN m : c # a => x[c] = m[c]
      /\ x = [c \in DOMAIN m |-> x[c]]
  BY DEF HeadsOK
<1> HIDE DEF x
<1>2. m[a] \in Heads /\ \A c \in DOMAIN m : m[c] \in Heads
  BY DEF HeadsOK
<1>3. x[a] \in Heads /\ x[a].next = n /\ x[a].used = m[a].used /\ x[a].prev = m[a].prev
  BY <1>1, <1>2 DEF Heads
<1>4. \A c \in DOMAIN m : x[c] \in Heads
  BY <1>1, <1>2, <1>3
<1>5. HeadsOK(x)
  BY <1>1, <1>3, <1>4 DEF HeadsOK
<1> QED
  BY <1>1, <1>3, <1>5 DEF x

(* ... prev ... *)
LEMMA PrevSet ==
  ASSUME NEW m, HeadsOK(m), NEW a \in DOMAIN m, NEW p \in Nat
  PROVE  /\ HeadsOK(SetPrev(m, a, p)) /\ DOMAIN SetPrev(m, a, p) = DOMAIN m
         /\ \A c \in DOMAIN m :
              /\ SetPrev(m, a, p)[c].used = m[c].used /\ SetPrev(m, a, p)[c].next = m[c].next
              /\ SetPrev(m, a, p)[c].prev = IF c = a /\ a # heap_end THEN p ELSE m[c].prev
<1> DEFINE x == [m EXCEPT ![a].prev = p]
<1>1. /\ DOMAIN x = DOMAIN m /\ x[a] = [m[a] EXCEPT !.prev = p]
      /\ \A c \in DOMAIN m : c # a => x[c] = m[c]
      /\ x = [c \in DOMAIN m |-> x[c]]
  BY DEF HeadsOK
<1>2. SetPrev(m, a, p) = IF a = heap_end THEN m ELSE x
  BY DEF SetPrev
<1> HIDE DEF x
<1>3. m[a] \in Heads /\ \A c \in DOMAIN m : m[c] \in Heads
  BY DEF HeadsOK
<1>4. x[a] \in Heads /\ x[a].prev = p /\ x[a].used = m[a].used /\ x[a].next = m[a].next
  BY <1>1, <1>3 DEF Heads
<1>5. \A c \in DOMAIN m : x[c] \in Heads
  BY <1>1, <1>3, <1>4
<1>6. HeadsOK(x)
  BY <1>1, <1>4, <1>5 DEF HeadsOK
<1>7. CASE a = heap_end
  BY <1>2, <1>7
<1>8. CASE a # heap_end
  BY <1>1, <1>2, <1>4, <1>6, <1>8
<1> QED
  BY <1>7, <1>8

(* ... and used. *)
LEMMA UsedSet ==
  ASSUME NEW m, HeadsOK(m), NEW a \in DOMAIN m, a # heap_end, NEW u \in BOOLEAN
  PROVE  LET x == [m EXCEPT ![a].used = u]
         IN  /\ HeadsOK(x) /\ DOMAIN x = DOMAIN m
             /\ \A c \in DOMAIN m : /\ x[c].next = m[c].next /\ x[c].prev = m[c].prev
                                    /\ c # a => x[c].used = m[c].used
             /\ x[a].used = u
<1> DEFINE x == [m EXCEPT ![a].used = u]
<1>1. /\ DOMAIN x = DOMAIN m /\ x[a] = [m[a] EXCEPT !.used = u]
      /\ \A c \in DOMAIN m : c # a => x[c] = m[c]
      /\ x = [c \in DOMAIN m |-> x[c]]
  BY DEF HeadsOK
<1> HIDE DEF x
<1>2. m[a] \in Heads /\ \A c \in DOMAIN m : m[c] \in Heads
  BY DEF HeadsOK
<1>3. x[a] \in Heads /\ x[a].used = u /\ x[a].next = m[a].next /\ x[a].prev = m[a].prev
  BY <1>1, <1>2 DEF Heads
<1>4. \A c \in DOMAIN m : x[c] \in Heads
  BY <1>1, <1>2, <1>3
<1>5. HeadsOK(x)
  BY <1>1, <1>4 DEF HeadsOK
<1> QED
  BY <1>1, <1>3, <1>5 DEF x

(* The used mark plays no part in the order of the blocks. *)
LEMMA UsedWell ==
  ASSUME NEW m, Well(m), NEW a \in DOMAIN m, a # heap_end, NEW u \in BOOLEAN
  PROVE  Well([m EXCEPT ![a].used = u])
<1> DEFINE x == [m EXCEPT ![a].used = u]
<1>1. /\ HeadsOK(x) /\ DOMAIN x = DOMAIN m
      /\ \A c \in DOMAIN m : x[c].next = m[c].next /\ x[c].prev = m[c].prev
  BY UsedSet DEF Well
<1> HIDE DEF x
<1>2. ASSUME NEW c \in DOMAIN x, c # heap_end PROVE NextOK(x, c) /\ PrevOK(x, c)
  <2>1. NextOK(m, c) /\ PrevOK(m, c)
    BY <1>1, <1>2 DEF Well
  <2> QED
    BY <1>1, <1>2, <2>1 DEF NextOK, PrevOK
<1> QED
  BY <1>1, <1>2 DEF Well, x

(* x is m where the block at a ends at b, and a free one goes on from there. *)
CutAt(m, x, a, b) ==
  /\ HeadsOK(x) /\ DOMAIN x = DOMAIN m \cup {b} /\ b \notin DOMAIN m
  /\ \A c \in DOMAIN m :
       /\ x[c].used = m[c].used
       /\ x[c].next = IF c = a THEN b ELSE m[c].next
       /\ x[c].prev = IF c = m[a].next /\ c # heap_end THEN b ELSE m[c].prev
  /\ ~x[b].used /\ x[b].next = m[a].next /\ x[b].prev = a

(* That is what Split does. *)
LEMMA SplitKnown ==
  ASSUME NEW m, Well(m), NEW a \in DOMAIN m, a # heap_end, NEW b \in Nat,
         a + SIZEOF_STRUCT_MEM <= b, b + SIZEOF_STRUCT_MEM <= m[a].next
  PROVE  CutAt(m, Split(m, a, b), a, b)
<1> USE EndKnown
<1> DEFINE n == m[a].next
           y == [m EXCEPT ![a].next = b]
           z == SetPrev(y, n, b)
           x == Split(m, a, b)
           h == Header(FALSE, n, a)
<1>1. HeadsOK(m) /\ n \in DOMAIN m /\ a < n /\ n \in Nat /\ a \in Nat
      /\ \A c \in DOMAIN m : c <= a \/ c >= n
  BY BlockOrder DEF Well
<1>2. b \notin DOMAIN m /\ b < n /\ b <= heap_end /\ b # heap_end
  <2>1. n <= heap_end
    BY <1>1, HeadsKnown
  <2>2. b > a /\ b < n
    BY <1>1
  <2> QED
    BY <1>1, <2>1, <2>2
<1>3. /\ HeadsOK(y) /\ DOMAIN y = DOMAIN m
      /\ \A c \in DOMAIN m : /\ y[c].used = m[c].used /\ y[c].prev = m[c].prev
                             /\ y[c].next = IF c = a THEN b ELSE m[c].next
  BY <1>1, NextSet
<1>4. x = Put(z, b, h)
  BY DEF Split
<1> HIDE DEF y, x
<1>5. /\ HeadsOK(z) /\ DOMAIN z = DOMAIN m
      /\ \A c \in DOMAIN m :
           /\ z[c].used = m[c].used
           /\ z[c].next = IF c = a THEN b ELSE m[c].next
           /\ z[c].prev = IF c = n /\ n # heap_end THEN b ELSE m[c].prev
  <2>1. /\ HeadsOK(z) /\ DOMAIN z = DOMAIN y
        /\ \A c \in DOMAIN y :
             /\ z[c].used = y[c].used /\ z[c].next = y[c].next
             /\ z[c].prev = IF c = n /\ n # heap_end THEN b ELSE y[c].prev
    <3> HIDE DEF n
    <3>1. n \in DOMAIN y /\ HeadsOK(y) /\ b \in Nat
      BY <1>1, <1>3
    <3> QED
      BY <3>1, PrevSet, Zenon
  <2> HIDE DEF z
  <2> QED
    BY <1>3, <2>1
<1> HIDE DEF z, n
<1>6. h \in Heads /\ ~h.used /\ h.next = n /\ h.prev = a
  BY <1>1 DEF Header, Heads
<1> HIDE DEF h
<1>7. /\ DOMAIN x = DOMAIN m \cup {b} /\ x[b] = h
      /\ \A c \in DOMAIN m : x[c] = z[c]
      /\ x = [c \in DOMAIN x |-> x[c]]
  BY <1>2, <1>4, <1>5 DEF Put
<1>8. HeadsOK(x)
  <2>1. \A c \in DOMAIN x : x[c] \in Heads
    BY <1>5, <1>6, <1>7 DEF HeadsOK
  <2>2. heap_end \in DOMAIN m /\ 0 \in DOMAIN m /\ DOMAIN m \subseteq 0 .. heap_end
        /\ m[heap_end].used
    BY <1>1 DEF HeadsOK
  <2>3. x[heap_end].used /\ b \in 0 .. heap_end
    BY <1>2, <1>5, <1>7, <2>2
  <2>4. DOMAIN x \subseteq 0 .. heap_end /\ 0 \in DOMAIN x /\ heap_end \in DOMAIN x
    BY <1>7, <2>2, <2>3
  <2> QED
    BY <1>7, <2>1, <2>3, <2>4 DEF HeadsOK
<1> QED
  BY <1>2, <1>5, <1>6, <1>7, <1>8 DEF CutAt, x, n

LEMMA SplitWell ==
  ASSUME NEW m, Well(m), NEW a \in DOMAIN m, a # heap_end, NEW b \in Nat,
         a + SIZEOF_STRUCT_MEM <= b, b + SIZEOF_STRUCT_MEM <= m[a].next
  PROVE  Well(Split(m, a, b))
<1> USE EndKnown
<1> DEFINE n == m[a].next
           x == Split(m, a, b)
<1>1. /\ HeadsOK(x) /\ DOMAIN x = DOMAIN m \cup {b} /\ b \notin DOMAIN m
      /\ \A c \in DOMAIN m :
           /\ x[c].next = IF c = a THEN b ELSE m[c].next
           /\ x[c].prev = IF c = n /\ c # heap_end THEN b ELSE m[c].prev
      /\ x[b].next = n /\ x[b].prev = a
  <2>1. CutAt(m, x, a, b)
    BY SplitKnown
  <2> HIDE DEF x
  <2> QED
    BY <2>1 DEF CutAt
<1>2. n \in DOMAIN m /\ a < n /\ n \in Nat /\ a \in Nat
      /\ (\A c \in DOMAIN m : c \in Nat /\ (c <= a \/ c >= n))
      /\ (n # heap_end => m[n].prev = a)
  BY BlockOrder, HeadsKnown DEF Well
<1> HIDE DEF x
<1>3. NextOK(x, b) /\ PrevOK(x, b)
  <2>1. \A c \in DOMAIN x : b < c => n <= c
    BY <1>1, <1>2
  <2> QED
    BY <1>1, <1>2, <2>1 DEF NextOK, PrevOK
<1>4. ASSUME NEW c \in DOMAIN m, c # heap_end PROVE NextOK(x, c)
  <2>1. NextOK(m, c) /\ c \in Nat
    BY <1>2, <1>4 DEF Well
  <2>2. CASE c = a
    <3>1. \A d \in DOMAIN x : a < d => b <= d
      BY <1>1, <1>2
    <3> QED
      BY <1>1, <2>2, <3>1 DEF NextOK
  <2>3. CASE c # a
    <3>1. c < b => m[c].next <= b
      BY <1>2, <2>1, <2>3 DEF NextOK
    <3>2. \A d \in DOMAIN x : c < d => m[c].next <= d
      BY <1>1, <2>1, <3>1 DEF NextOK
    <3> QED
      BY <1>1, <2>1, <2>3, <3>2 DEF NextOK
  <2> QED
    BY <2>2, <2>3
<1>5. ASSUME NEW c \in DOMAIN m, c # heap_end PROVE PrevOK(x, c)
  <2>1. PrevOK(m, c) /\ c \in Nat
    BY <1>2, <1>5 DEF Well
  <2>2. CASE c = n
    BY <1>1, <1>2, <1>5, <2>2 DEF PrevOK
  <2>3. CASE c # n
    <3>1. c # 0 => m[c].prev # a
      BY <2>1, <2>3 DEF PrevOK
    <3> QED
      BY <1>1, <2>1, <2>3, <3>1 DEF PrevOK
  <2> QED
    BY <2>2, <2>3
<1> QED
  BY <1>1, <1>3, <1>4, <1>5 DEF Well, x

(* x is m where the block at a has taken in the one at b. *)
TakenIn(m, x, a, b) ==
  /\ HeadsOK(x) /\ DOMAIN x = DOMAIN m \ {b}
  /\ \A c \in DOMAIN x :
       /\ x[c].used = m[c].used
       /\ x[c].next = IF c = a THEN m[b].next ELSE m[c].next
       /\ x[c].prev = IF c = m[b].next /\ c # heap_end THEN a ELSE m[c].prev

(* Merge makes one block of a and the one behind it. *)
LEMMA MergeKnown ==
  ASSUME NEW m, Well(m), NEW a \in DOMAIN m, a # heap_end, NEW b, b = m[a].next, b # heap_end
  PROVE  TakenIn(m, Merge(m, a), a, b)
<1> DEFINE n == m[b].next
           y == [m EXCEPT ![a].next = n]
           z == SetPrev(y, n, a)
           x == Merge(m, a)
<1>1. b \in DOMAIN m /\ a < b /\ b \in Nat /\ a \in Nat /\ HeadsOK(m)
  BY BlockOrder DEF Well
<1>2. n \in DOMAIN m /\ b < n /\ n \in Nat
  BY <1>1, BlockOrder
<1>3. /\ HeadsOK(y) /\ DOMAIN y = DOMAIN m
      /\ \A c \in DOMAIN m : /\ y[c].used = m[c].used /\ y[c].prev = m[c].prev
                             /\ y[c].next = IF c = a THEN n ELSE m[c].next
  <2> HIDE DEF n
  <2> QED
    BY <1>1, <1>2, NextSet
<1>4. x = Restrict(z, DOMAIN m \ {b})
  BY DEF Merge
<1> HIDE DEF x, y, n
<1>5. /\ HeadsOK(z) /\ DOMAIN z = DOMAIN m
      /\ \A c \in DOMAIN m :
           /\ z[c].used = m[c].used
           /\ z[c].next = IF c = a THEN n ELSE m[c].next
           /\ z[c].prev = IF c = n /\ n # heap_end THEN a ELSE m[c].prev
  <2>1. n \in DOMAIN y /\ HeadsOK(y) /\ a \in Nat
    BY <1>1, <1>2, <1>3
  <2>2. /\ HeadsOK(z) /\ DOMAIN z = DOMAIN y
        /\ \A c \in DOMAIN y :
             /\ z[c].used = y[c].used /\ z[c].next = y[c].next
             /\ z[c].prev = IF c = n /\ n # heap_end THEN a ELSE y[c].prev
    BY <2>1, PrevSet, Zenon
  <2> HIDE DEF z
  <2> QED
    BY <1>3, <2>2
<1> HIDE DEF z
<1>6. DOMAIN x = DOMAIN m \ {b} /\ x = [c \in DOMAIN x |-> x[c]] /\ \A c \in DOMAIN x : x[c] = z[c]
  BY <1>4 DEF Restrict
<1>7. HeadsOK(x)
  <2>1. \A c \in DOMAIN x : x[c] \in Heads
    BY <1>5, <1>6 DEF HeadsOK
  <2>2. heap_end \in DOMAIN x /\ 0 \in DOMAIN x /\ DOMAIN x \subseteq 0 .. heap_end
        /\ x[heap_end].used
    BY <1>1, <1>5, <1>6 DEF HeadsOK
  <2> QED
    BY <1>6, <2>1, <2>2 DEF HeadsOK
<1> QED
  BY <1>5, <1>6, <1>7 DEF x, n, TakenIn

LEMMA MergeWell ==
  ASSUME NEW m, Well(m), NEW a \in DOMAIN m, a # heap_end, NEW b, b = m[a].next, b # heap_end
  PROVE  Well(Merge(m, a))
<1> USE EndKnown
<1> DEFINE n == m[b].next
           x == Merge(m, a)
<1>1. /\ HeadsOK(x) /\ DOMAIN x = DOMAIN m \ {b}
      /\ \A c \in DOMAIN x :
           /\ x[c].next = IF c = a THEN n ELSE m[c].next
           /\ x[c].prev = IF c = n /\ c # heap_end THEN a ELSE m[c].prev
  BY MergeKnown DEF TakenIn
<1>2. b \in DOMAIN m /\ a < b /\ b \in Nat /\ a \in Nat /\ b >= a + SIZEOF_STRUCT_MEM
      /\ \A c \in DOMAIN m : c \in Nat /\ (c <= a \/ c >= b)
  BY BlockOrder, HeadsKnown DEF Well
<1>3. n \in DOMAIN m /\ b < n /\ n \in Nat /\ n >= b + SIZEOF_STRUCT_MEM
      /\ \A c \in DOMAIN m : c <= b \/ c >= n
  BY <1>2, BlockOrder
<1> HIDE DEF x, n
<1>4. NextOK(x, a)
  <2>1. \A c \in DOMAIN x : a < c => n <= c
    BY <1>1, <1>2, <1>3
  <2>2. a \in DOMAIN x /\ n \in DOMAIN x /\ n >= a + SIZEOF_STRUCT_MEM
    BY <1>1, <1>2, <1>3
  <2> QED
    BY <1>1, <2>1, <2>2 DEF NextOK
<1>5. ASSUME NEW c \in DOMAIN x, c # heap_end, c # a PROVE NextOK(x, c)
  <2>1. NextOK(m, c) /\ c \in DOMAIN m /\ c # b
    BY <1>1, <1>5 DEF Well
  <2>2. m[c].next # b
    <3>1. ASSUME m[c].next = b PROVE FALSE
      <4>1. m[b].prev = c /\ m[b].prev = a
        BY <1>5, <2>1, <3>1, BlockOrder
      <4> QED
        BY <1>5, <4>1
    <3> QED
      BY <3>1
  <2> QED
    BY <1>1, <1>5, <2>1, <2>2 DEF NextOK
<1>6. ASSUME NEW c \in DOMAIN x, c # heap_end PROVE PrevOK(x, c)
  <2>1. PrevOK(m, c) /\ c \in DOMAIN m /\ c # b
    BY <1>1, <1>6 DEF Well
  <2>2. CASE c = n
    <3>1. c # 0 /\ a \in DOMAIN x /\ a < c
      BY <1>1, <1>2, <1>3, <2>2
    <3> QED
      BY <1>1, <1>6, <2>2, <3>1 DEF PrevOK
  <2>3. CASE c # n
    <3>1. c # 0 => m[c].prev # b /\ m[c].prev # a
      <4>1. ASSUME c # 0 PROVE m[m[c].prev].next = c
        BY <2>1, <4>1 DEF PrevOK
      <4> QED
        BY <2>1, <2>3, <4>1 DEF n
    <3> QED
      BY <1>1, <2>1, <2>3, <3>1 DEF PrevOK
  <2> QED
    BY <2>2, <2>3
<1> QED
  BY <1>1, <1>4, <1>5, <1>6 DEF Well, x

-----------------------------------------------------------------------------
(* plug_holes *)

(* The allocated blocks of m are those of x, and keep their size. *)
SameUsed(m, x) ==
  /\ DOMAIN x \subseteq DOMAIN m
  /\ \A c \in DOMAIN m : m[c].used => c \in DOMAIN x
  /\ \A c \in DOMAIN x : x[c].used = m[c].used /\ (x[c].used => x[c].next = m[c].next)

(* One merge of free neighbours. *)
LEMMA MergeFree ==
  ASSUME NEW m, Well(m), NEW a \in DOMAIN m, a # heap_end, NEW b, b = m[a].next, b # heap_end,
         ~m[a].used, ~m[b].used
  PROVE  SameUsed(m, Merge(m, a))
<1> DEFINE x == Merge(m, a)
<1>1. /\ DOMAIN x = DOMAIN m \ {b}
      /\ \A c \in DOMAIN x : /\ x[c].used = m[c].used
                             /\ x[c].next = IF c = a THEN m[b].next ELSE m[c].next
  BY MergeKnown DEF TakenIn
<1> HIDE DEF x
<1>2. SameUsed(m, x)
  BY <1>1 DEF SameUsed
<1> QED
  BY <1>2 DEF x

(* When free neighbours have been merged but for those of the free block   *)
(* at a, plug_holes merges these; lfree goes down to a block it is merged  *)
(* with, and no free block gets below it that was not.                     *)
LEMMA PlugKnown ==
  ASSUME NEW m, Well(m), NEW a \in DOMAIN m, a # heap_end, ~m[a].used,
         \A c \in DOMAIN m : c # heap_end /\ c # a /\ m[c].next # a => Apart(m, c),
         NEW l \in DOMAIN m, l = heap_end \/ ~m[l].used
  PROVE  /\ Well(plug_holes(m, l, a).mem) /\ Merged(plug_holes(m, l, a).mem)
         /\ SameUsed(m, plug_holes(m, l, a).mem)
         /\ plug_holes(m, l, a).lfree \in DOMAIN plug_holes(m, l, a).mem
         /\ plug_holes(m, l, a).lfree <= l
         /\ \/ plug_holes(m, l, a).lfree = heap_end
            \/ ~plug_holes(m, l, a).mem[plug_holes(m, l, a).lfree].used
<1> USE EndKnown
<1> DEFINE n  == m[a].next
           fw == n # heap_end /\ ~m[n].used
           m1 == IF fw THEN Merge(m, a) ELSE m
           l1 == IF fw /\ l = n THEN a ELSE l
           p  == m1[a].prev
           bw == p # a /\ ~m1[p].used
           m2 == IF bw THEN Merge(m1, p) ELSE m1
           l2 == IF bw /\ l1 = a THEN p ELSE l1
<1>1. plug_holes(m, l, a).mem = m2 /\ plug_holes(m, l, a).lfree = l2
  BY DEF plug_holes
<1>2. /\ n \in DOMAIN m /\ a < n /\ n \in Nat /\ a \in Nat /\ l \in Nat /\ m[heap_end].used
      /\ HeadsOK(m) /\ a # n
  BY BlockOrder, HeadsKnown DEF Well, HeadsOK
<1> HIDE DEF n
<1>3. /\ Well(m1) /\ SameUsed(m, m1) /\ a \in DOMAIN m1 /\ ~m1[a].used
      /\ l1 \in DOMAIN m1 /\ l1 <= l /\ (l1 = heap_end \/ ~m1[l1].used)
      /\ m1[m1[a].next].used
      /\ \A c \in DOMAIN m1 : c # heap_end /\ c # a /\ m1[c].next # a => Apart(m1, c)
  <2>1. CASE ~fw
    <3>1. m1 = m /\ l1 = l /\ m[n].used
      BY <1>2, <2>1
    <3>2. SameUsed(m, m)
      BY DEF SameUsed
    <3> HIDE DEF fw, m1, l1
    <3> QED
      BY <1>2, <3>1, <3>2 DEF n
  <2>2. CASE fw
    <3>1. m1 = Merge(m, a) /\ l1 = IF l = n THEN a ELSE l
      BY <2>2
    <3>2. Well(m1) /\ SameUsed(m, m1)
      BY <2>2, <3>1, MergeWell, MergeFree DEF n
    <3>3. /\ DOMAIN m1 = DOMAIN m \ {n}
          /\ \A c \in DOMAIN m1 : /\ m1[c].used = m[c].used
                                  /\ m1[c].next = IF c = a THEN m[n].next ELSE m[c].next
      <4>1. n = m[a].next /\ n # heap_end
        BY <2>2 DEF n
      <4>2. TakenIn(m, m1, a, n)
        BY <3>1, <4>1, MergeKnown
      <4> HIDE DEF m1
      <4> QED
        BY <4>2 DEF TakenIn
    <3>4. n # heap_end /\ ~m[n].used
      BY <2>2
    <3> HIDE DEF fw, m1, l1
    <3>5. m[n].next \in DOMAIN m /\ n < m[n].next /\ m[n].next \in Nat
      BY <1>2, <3>4, BlockOrder
    <3>6. m[m[n].next].used
      <4>1. m[n].next # a /\ n # a
        BY <1>2, <3>5
      <4>2. Apart(m, n)
        BY <1>2, <3>4, <4>1
      <4> QED
        BY <3>4, <4>2 DEF Apart
    <3>7. a \in DOMAIN m1 /\ ~m1[a].used /\ m1[m1[a].next].used
      BY <1>2, <3>3, <3>5, <3>6
    <3>8. l1 \in DOMAIN m1 /\ l1 <= l /\ (l1 = heap_end \/ ~m1[l1].used)
      BY <1>2, <3>1, <3>3, <3>7
    <3>9. ASSUME NEW c \in DOMAIN m1, c # heap_end, c # a, m1[c].next # a PROVE Apart(m1, c)
      <4>1. m1[c].next = m[c].next /\ m1[c].used = m[c].used /\ c \in DOMAIN m
        BY <3>3, <3>9
      <4>2. Apart(m, c)
        BY <3>9, <4>1
      <4>3. m1[c].next \in DOMAIN m1
        BY <3>2, <3>9, BlockOrder
      <4> QED
        BY <3>3, <4>1, <4>2, <4>3 DEF Apart
    <3> QED
      BY <3>2, <3>7, <3>8, <3>9
  <2> QED
    BY <2>1, <2>2
<1> HIDE DEF m1, l1
<1>4. /\ p = 0 /\ a = 0
      \/ /\ a # 0 /\ p \in DOMAIN m1 /\ p < a /\ m1[p].next = a /\ p # heap_end /\ p # a /\ p \in Nat
         /\ \A c \in DOMAIN m1 : c # heap_end /\ m1[c].next = a => c = p
  <2>1. CASE a = 0
    BY <1>3, <2>1, BlockOrder
  <2>2. CASE a # 0
    <3>1. p \in DOMAIN m1 /\ p < a /\ m1[p].next = a /\ p # heap_end
      BY <1>3, <2>2, BlockOrder
    <3>2. p \in Nat /\ p # a
      BY <1>2, <1>3, <3>1, HeadsKnown DEF Well
    <3>3. ASSUME NEW c \in DOMAIN m1, c # heap_end, m1[c].next = a PROVE c = p
      BY <1>3, <3>3, BlockOrder
    <3> QED
      BY <2>2, <3>1, <3>2, <3>3
  <2> QED
    BY <2>1, <2>2
<1> HIDE DEF p
<1>5. CASE ~bw
  <2>1. m2 = m1 /\ l2 = l1
    BY <1>5
  <2>2. p = a \/ m1[p].used
    BY <1>5
  <2>3. ASSUME NEW c \in DOMAIN m1, c # heap_end PROVE Apart(m1, c)
    <3>1. CASE c = a
      BY <1>3, <3>1 DEF Apart
    <3>2. CASE c # a /\ m1[c].next = a
      <4>1. a # 0
        <5>1. c < a /\ c \in Nat
          BY <1>3, <2>3, <3>2, BlockOrder
        <5> QED
          BY <5>1
      <4>2. c = p /\ m1[p].used
        BY <1>4, <2>2, <2>3, <3>2, <4>1
      <4> QED
        BY <4>2 DEF Apart
    <3> QED
      BY <1>3, <2>3, <3>1, <3>2
  <2> HIDE DEF bw, m2, l2
  <2> QED
    BY <1>1, <1>3, <2>1, <2>3 DEF Merged
<1>6. CASE bw
  <2>1. m2 = Merge(m1, p) /\ l2 = IF l1 = a THEN p ELSE l1
    BY <1>6
  <2>2. p # a /\ ~m1[p].used
    BY <1>6
  <2> HIDE DEF bw, m2, l2
  <2>3. a # 0 /\ p \in DOMAIN m1 /\ p < a /\ m1[p].next = a /\ p # heap_end /\ p \in Nat
    BY <1>4, <2>2
  <2>4. Well(m2) /\ SameUsed(m1, m2)
    BY <1>3, <2>1, <2>2, <2>3, MergeWell, MergeFree
  <2>5. /\ DOMAIN m2 = DOMAIN m1 \ {a}
        /\ \A c \in DOMAIN m2 : /\ m2[c].used = m1[c].used
                                /\ m2[c].next = IF c = p THEN m1[a].next ELSE m1[c].next
    <3>1. Well(m1) /\ a = m1[p].next /\ a # heap_end /\ p \in DOMAIN m1 /\ p # heap_end
      BY <1>3, <2>3
    <3>2. TakenIn(m1, m2, p, a)
      BY <2>1, <3>1, MergeKnown
    <3> QED
      BY <3>2 DEF TakenIn
  <2>6. SameUsed(m, m2)
    BY <1>3, <2>4 DEF SameUsed
  <2>7. l2 \in DOMAIN m2 /\ l2 <= l /\ (l2 = heap_end \/ ~m2[l2].used)
    <3>1. l1 \in Nat
      BY <1>3, HeadsKnown DEF Well
    <3>2. p \in DOMAIN m2 /\ ~m2[p].used
      BY <2>2, <2>3, <2>5
    <3> QED
      BY <1>2, <1>3, <2>1, <2>3, <2>5, <3>1, <3>2
  <2>8. ASSUME NEW c \in DOMAIN m2, c # heap_end PROVE Apart(m2, c)
    <3>1. m2[c].next \in DOMAIN m2
      BY <2>4, <2>8, BlockOrder
    <3>2. CASE c = p
      <4>1. m2[c].next = m1[a].next /\ m1[m1[a].next].used
        BY <1>3, <2>5, <2>8, <3>2
      <4> QED
        BY <2>5, <3>1, <4>1 DEF Apart
    <3>3. CASE c # p
      <4>1. c \in DOMAIN m1 /\ c # a /\ m2[c].next = m1[c].next /\ m2[c].used = m1[c].used
        BY <2>5, <2>8, <3>3
      <4>2. m1[c].next # a
        BY <2>5, <3>1, <4>1
      <4>3. Apart(m1, c)
        BY <1>3, <2>8, <4>1, <4>2
      <4> QED
        BY <2>5, <3>1, <4>1, <4>3 DEF Apart
    <3> QED
      BY <3>2, <3>3
  <2> QED
    BY <1>1, <2>4, <2>6, <2>7, <2>8 DEF Merged
<1> QED
  BY <1>5, <1>6

-----------------------------------------------------------------------------
(* The space in use *)

(* A sum over the addresses, one address at a time. *)
LEMMA SpaceSteps ==
  ASSUME NEW m
  PROVE  /\ SpaceBelow(m)[0] = 0
         /\ \A n \in 1 .. heap_end : SpaceBelow(m)[n] = SpaceBelow(m)[n - 1] + Space(m, n - 1)
<1> DEFINE N == heap_end
           Go(y, n) == y + Space(m, n - 1)
           Loop(f, k) == f = [n \in 0 .. k |-> IF n = 0 THEN 0 ELSE Go(f[n - 1], n)]
           Bad == {k \in 0 .. N : ~ \E f : Loop(f, k)}
           G == CHOOSE f : Loop(f, N)
<1>1. N \in Nat
  BY EndKnown
<1>2. SpaceBelow(m) = G
  BY DEF SpaceBelow
<1> HIDE DEF N, Go
<1>3. Bad = {}
  <2> SUFFICES ASSUME Bad # {} PROVE FALSE
    OBVIOUS
  <2>1. Bad \in SUBSET Nat
    BY <1>1
  <2>2. PICK k \in Bad : \A n \in Bad : k <= n
    BY <2>1, LeastNatural
  <2>3. k \in 0 .. N /\ ~ \E f : Loop(f, k)
    BY <2>2
  <2>4. CASE k = 0
    <3> DEFINE g == [n \in 0 .. 0 |-> 0]
    <3>1. Loop(g, 0)
      OBVIOUS
    <3> QED
      BY <2>3, <2>4, <3>1
  <2>5. CASE k # 0
    <3>1. k - 1 \in 0 .. N /\ ~(k <= k - 1)
      BY <1>1, <2>3, <2>5
    <3>2. k - 1 \notin Bad
      BY <2>2, <3>1
    <3>3. PICK f : Loop(f, k - 1)
      BY <3>1, <3>2
    <3> DEFINE g == [n \in 0 .. k |-> IF n = k THEN Go(f[k - 1], k) ELSE f[n]]
    <3>4. \A n \in 0 .. k - 1 : g[n] = f[n] /\ f[n] = IF n = 0 THEN 0 ELSE Go(f[n - 1], n)
      <4>1. \A n \in 0 .. k - 1 : f[n] = IF n = 0 THEN 0 ELSE Go(f[n - 1], n)
        BY <3>3
      <4>2. \A n \in 0 .. k - 1 : n \in 0 .. k /\ n # k
        BY <1>1, <2>3
      <4> QED
        BY <4>1, <4>2
    <3>5. ASSUME NEW n \in 0 .. k PROVE g[n] = IF n = 0 THEN 0 ELSE Go(g[n - 1], n)
      <4>1. CASE n = k
        <5>1. k - 1 \in 0 .. k - 1 /\ k \in 0 .. k
          BY <1>1, <2>3, <2>5
        <5>2. g[k] = Go(f[k - 1], k)
          BY <5>1
        <5>3. g[k - 1] = f[k - 1]
          BY <3>4, <5>1
        <5> HIDE DEF g
        <5> QED
          BY <2>5, <4>1, <5>2, <5>3
      <4>2. CASE n # k /\ n # 0
        <5>1. n \in 0 .. k - 1 /\ n - 1 \in 0 .. k - 1
          BY <1>1, <2>3, <4>2
        <5> HIDE DEF g
        <5> QED
          BY <3>4, <4>2, <5>1
      <4>3. CASE n # k /\ n = 0
        <5>1. n \in 0 .. k - 1
          BY <1>1, <2>3, <4>3
        <5> HIDE DEF g
        <5> QED
          BY <3>4, <4>3, <5>1
      <4> QED
        BY <4>1, <4>2, <4>3
    <3>6. Loop(g, k)
      <4> DEFINE h == [n \in 0 .. k |-> IF n = 0 THEN 0 ELSE Go(g[n - 1], n)]
      <4>1. \A n \in 0 .. k : g[n] = h[n]
        BY <3>5
      <4>2. DOMAIN g = 0 .. k /\ DOMAIN h = 0 .. k
        OBVIOUS
      <4>3. g = [n \in 0 .. k |-> g[n]] /\ h = [n \in 0 .. k |-> h[n]]
        OBVIOUS
      <4> HIDE DEF g
      <4> QED
        BY <4>1, <4>2, <4>3
    <3> QED
      BY <2>3, <3>6
  <2> QED
    BY <2>4, <2>5
<1>4. \E f : Loop(f, N)
  <2>1. N \in 0 .. N /\ N \notin Bad
    BY <1>1, <1>3
  <2> QED
    BY <2>1
<1>5. Loop(G, N)
  BY <1>4
<1> HIDE DEF G
<1>6. 0 \in 0 .. N /\ \A n \in 1 .. N : n \in 0 .. N /\ n # 0
  BY <1>1
<1>7. G[0] = 0 /\ \A n \in 1 .. N : G[n] = Go(G[n - 1], n)
  BY <1>5, <1>6
<1> QED
  BY <1>2, <1>7 DEF Go, N

(* Where every address counts for an integer, the sum changes by what one  *)
(* address counts for before and after, if the others count for the same.  *)
LEMMA SpaceChange ==
  ASSUME NEW m, NEW x, NEW a \in 0 .. heap_end - 1,
         \A c \in 0 .. heap_end - 1 : Space(m, c) \in Int /\ Space(x, c) \in Int,
         \A c \in 0 .. heap_end - 1 : c # a => Space(x, c) = Space(m, c)
  PROVE  /\ SpaceBelow(x)[heap_end] = SpaceBelow(m)[heap_end] + (Space(x, a) - Space(m, a))
         /\ SpaceBelow(m)[heap_end] \in Int
<1> DEFINE N == heap_end
           F == SpaceBelow(m)
           G == SpaceBelow(x)
           d == Space(x, a) - Space(m, a)
           Right(n) == F[n] \in Int /\ G[n] = IF n <= a THEN F[n] ELSE F[n] + d
           Bad == {n \in 0 .. N : ~Right(n)}
<1>1. /\ N \in Nat /\ d \in Int /\ a \in 0 .. N - 1 /\ N > 0
      /\ Space(x, a) \in Int /\ Space(m, a) \in Int
  BY EndKnown
<1>2. F[0] = 0 /\ G[0] = 0
      /\ \A n \in 1 .. N : F[n] = F[n - 1] + Space(m, n - 1) /\ G[n] = G[n - 1] + Space(x, n - 1)
  BY SpaceSteps
<1>3. \A n \in 1 .. N : /\ Space(m, n - 1) \in Int /\ Space(x, n - 1) \in Int
                        /\ n - 1 # a => Space(x, n - 1) = Space(m, n - 1)
                        /\ n - 1 = a => Space(x, n - 1) = Space(m, n - 1) + d
  BY <1>1
<1> HIDE DEF F, G, N, d
<1>4. Bad = {}
  <2> SUFFICES ASSUME Bad # {} PROVE FALSE
    OBVIOUS
  <2>1. Bad \in SUBSET Nat
    BY <1>1
  <2>2. PICK k \in Bad : \A n \in Bad : k <= n
    BY <2>1, LeastNatural
  <2>3. k \in 0 .. N /\ ~Right(k)
    BY <2>2
  <2>4. k # 0
    BY <1>1, <1>2, <2>3
  <2>5. k \in 1 .. N /\ k - 1 \in 0 .. N /\ ~(k <= k - 1)
    BY <1>1, <2>3, <2>4
  <2>6. Right(k - 1)
    BY <2>2, <2>5
  <2>7. F[k] = F[k - 1] + Space(m, k - 1) /\ G[k] = G[k - 1] + Space(x, k - 1)
    BY <1>2, <2>5
  <2>8. /\ Space(m, k - 1) \in Int /\ Space(x, k - 1) \in Int
        /\ k - 1 # a => Space(x, k - 1) = Space(m, k - 1)
        /\ k - 1 = a => Space(x, k - 1) = Space(m, k - 1) + d
    BY <1>3, <2>5
  <2>9. Right(k)
    BY <1>1, <2>5, <2>6, <2>7, <2>8
  <2> QED
    BY <2>3, <2>9
<1>5. N \in 0 .. N /\ N \notin Bad
  BY <1>1, <1>4
<1>6. Right(N)
  BY <1>5
<1>7. G[N] = F[N] + d /\ F[N] \in Int
  BY <1>1, <1>6
<1> QED
  BY <1>7 DEF F, G, N, d

(* The allocated blocks, and the end of the heap. *)
Busy(m) == {a \in DOMAIN m : m[a].used}

(* The space of an address of a well-formed heap. *)
LEMMA SpaceKnown ==
  ASSUME NEW m, Well(m)
  PROVE  \A c \in 0 .. heap_end - 1 :
           Space(m, c) \in Int /\ Space(m, c) = IF c \in Busy(m) THEN m[c].next - c ELSE 0
<1> SUFFICES ASSUME NEW c \in 0 .. heap_end - 1
             PROVE  Space(m, c) \in Int /\ Space(m, c) = IF c \in Busy(m) THEN m[c].next - c ELSE 0
  OBVIOUS
<1>1. Space(m, c) = IF c \in Busy(m) THEN m[c].next - c ELSE 0
  BY DEF Space, Busy
<1>2. c \in Busy(m) => m[c].next \in Nat
  BY HeadsKnown DEF Well, Busy
<1> QED
  BY <1>1, <1>2, EndKnown

-----------------------------------------------------------------------------
(* Allocating a block *)

(* The sum changes by one block's space when the others stay. *)
LEMMA SpaceUpdate ==
  ASSUME NEW m, Well(m), NEW x, Well(x), NEW a \in DOMAIN m, a # heap_end,
         \A c : c # a => (c \in Busy(x) <=> c \in Busy(m)) /\ (c \in Busy(m) => x[c].next = m[c].next)
  PROVE  /\ SpaceBelow(m)[heap_end] \in Int
         /\ SpaceBelow(x)[heap_end]
              = SpaceBelow(m)[heap_end] + ((IF a \in Busy(x) THEN x[a].next - a ELSE 0)
                                           - (IF a \in Busy(m) THEN m[a].next - a ELSE 0))
<1>1. a \in 0 .. heap_end - 1
  BY HeadsKnown, EndKnown DEF Well
<1>2. \A c \in 0 .. heap_end - 1 :
        /\ Space(m, c) \in Int /\ Space(m, c) = IF c \in Busy(m) THEN m[c].next - c ELSE 0
        /\ Space(x, c) \in Int /\ Space(x, c) = IF c \in Busy(x) THEN x[c].next - c ELSE 0
  BY SpaceKnown
<1>3. \A c \in 0 .. heap_end - 1 : c # a => Space(x, c) = Space(m, c)
  BY <1>2
<1>4. /\ SpaceBelow(x)[heap_end] = SpaceBelow(m)[heap_end] + (Space(x, a) - Space(m, a))
      /\ SpaceBelow(m)[heap_end] \in Int
  BY <1>1, <1>2, <1>3, SpaceChange
<1> QED
  BY <1>1, <1>2, <1>4

(* x is m where the free block at a has been allocated, with room for size. *)
TakenFor(m, x, a, size) ==
  /\ Well(x) /\ Merged(x)
  /\ DOMAIN m \subseteq DOMAIN x /\ Busy(x) = Busy(m) \cup {a}
  /\ \A c \in Busy(m) : x[c].next = m[c].next
  /\ x[a].next >= a + SIZEOF_STRUCT_MEM + size
  /\ \A c \in Free(x) : c < a => c \in Free(m)

(* What Take does to the headers. *)
LEMMA TakeHeads ==
  ASSUME NEW m, Well(m), Merged(m), NEW a \in Free(m), NEW size \in Nat,
         m[a].next - (a + SIZEOF_STRUCT_MEM) >= size,
         NEW y,
         \/ y = m
         \/ /\ m[a].next - (a + SIZEOF_STRUCT_MEM) >= size + SIZEOF_STRUCT_MEM + MIN_SIZE_ALIGNED
            /\ y = Split(m, a, a + SIZEOF_STRUCT_MEM + size)
  PROVE  TakenFor(m, [y EXCEPT ![a].used = TRUE], a, size)
<1> USE EndKnown
<1> DEFINE n == m[a].next
           b == a + SIZEOF_STRUCT_MEM + size
           x == [y EXCEPT ![a].used = TRUE]
<1>1. /\ a \in DOMAIN m /\ ~m[a].used /\ a # heap_end /\ HeadsOK(m)
      /\ \A c \in DOMAIN m : c \in Nat
  BY HeadsKnown DEF Free, Well, HeadsOK
<1>2. a \in Nat /\ n \in Nat /\ b \in Nat /\ n \in DOMAIN m /\ a < b /\ a < n
  BY <1>1, BlockOrder
<1>3. m[n].used
  BY <1>1 DEF Merged, Apart
<1>4. /\ Well(y) /\ DOMAIN m \subseteq DOMAIN y /\ a \in DOMAIN y /\ HeadsOK(y) /\ ~y[a].used
      /\ \A c \in DOMAIN y : c # heap_end /\ c # a => Apart(y, c)
      /\ y[a].next >= b /\ Busy(y) = Busy(m)
      /\ \A c \in Busy(m) : y[c].next = m[c].next
      /\ \A c \in Free(y) : c < a => c \in Free(m)
  <2>1. CASE y = m
    BY <1>1, <1>2, <2>1 DEF Merged
  <2>2. CASE /\ n - (a + SIZEOF_STRUCT_MEM) >= size + SIZEOF_STRUCT_MEM + MIN_SIZE_ALIGNED
             /\ y = Split(m, a, b)
    <3>1. a + SIZEOF_STRUCT_MEM <= b /\ b + SIZEOF_STRUCT_MEM <= n
      BY <1>2, <2>2
    <3>2. /\ HeadsOK(y) /\ DOMAIN y = DOMAIN m \cup {b} /\ b \notin DOMAIN m
          /\ \A c \in DOMAIN m : /\ y[c].used = m[c].used
                                 /\ y[c].next = IF c = a THEN b ELSE m[c].next
          /\ ~y[b].used /\ y[b].next = n
      <4>1. CutAt(m, y, a, b)
        BY <1>1, <1>2, <2>2, <3>1, SplitKnown
      <4> QED
        BY <4>1 DEF CutAt
    <3>3. Well(y)
      BY <1>1, <1>2, <2>2, <3>1, SplitWell
    <3> HIDE DEF b, n
    <3>4. Busy(y) = Busy(m)
      BY <3>2 DEF Busy
    <3>5. ~y[a].used /\ y[a].next = b /\ \A c \in Busy(m) : y[c].next = m[c].next
      BY <1>1, <3>2 DEF Busy
    <3>6. \A c \in Free(y) : c < a => c \in Free(m)
      BY <1>2, <3>2 DEF Free
    <3>7. ASSUME NEW c \in DOMAIN y, c # heap_end, c # a PROVE Apart(y, c)
      <4>1. CASE c = b
        BY <1>2, <1>3, <3>2, <4>1 DEF Apart
      <4>2. CASE c # b
        <5>1. c \in DOMAIN m /\ m[c].next \in DOMAIN m /\ Apart(m, c)
          BY <3>2, <3>7, <4>2, BlockOrder DEF Merged
        <5> QED
          BY <3>2, <3>7, <5>1 DEF Apart
      <4> QED
        BY <4>1, <4>2
    <3>8. y[a].next >= b
      BY <1>2, <3>5
    <3> QED
      BY <1>1, <1>2, <3>2, <3>3, <3>4, <3>5, <3>6, <3>7, <3>8
  <2> QED
    BY <2>1, <2>2
<1>5. /\ HeadsOK(x) /\ DOMAIN x = DOMAIN y /\ Well(x) /\ x[a].used
      /\ \A c \in DOMAIN y : x[c].next = y[c].next /\ (c # a => x[c].used = y[c].used)
  BY <1>1, <1>4, UsedSet, UsedWell
<1> HIDE DEF x, b, n
<1>6. Busy(x) = Busy(m) \cup {a}
  <2>1. Busy(x) = Busy(y) \cup {a}
    BY <1>4, <1>5 DEF Busy
  <2> QED
    BY <1>4, <2>1
<1>7. \A c \in Busy(m) : x[c].next = m[c].next
  <2>1. Busy(m) \subseteq DOMAIN y
    BY <1>4 DEF Busy
  <2> QED
    BY <1>4, <1>5, <2>1
<1>8. \A c \in Free(x) : c < a => c \in Free(m)
  <2>1. \A c \in Free(x) : c \in Free(y)
    BY <1>5 DEF Free
  <2> QED
    BY <1>4, <2>1
<1>9. Merged(x)
  <2> SUFFICES ASSUME NEW c \in DOMAIN x, c # heap_end PROVE Apart(x, c)
    BY DEF Merged
  <2>1. y[c].next \in DOMAIN y /\ (c # a => Apart(y, c))
    BY <1>4, <1>5, BlockOrder
  <2> QED
    BY <1>5, <2>1 DEF Apart
<1> QED
  BY <1>4, <1>5, <1>6, <1>7, <1>8, <1>9 DEF TakenFor, x, b

-----------------------------------------------------------------------------
(* The inductive invariant *)

(* The blocks tile the heap, free neighbours are merged, and lfree points  *)
(* to a free block or to the end.                                          *)
ListInv ==
  /\ Well(mem) /\ Merged(mem)
  /\ lfree \in DOMAIN mem /\ (lfree = heap_end \/ ~mem[lfree].used)

(* The allocated blocks are the ones the program holds or has moved. *)
HeldInv ==
  /\ held \in [DOMAIN held -> Nat]
  /\ Busy(mem) = DOMAIN held \cup moved \cup {heap_end}
  /\ heap_end \notin DOMAIN held \cup moved
  /\ \A a \in DOMAIN held : a \notin moved /\ mem[a].next >= a + SIZEOF_STRUCT_MEM + held[a]

HiddenInv == hidden \in BOOLEAN /\ (FreeBelow(mem, lfree) => hidden)

HeapInv == ListInv /\ HeldInv /\ HiddenInv /\ UsedCounted

(* Allocating a block. *)
LEMMA TakeKnown ==
  ASSUME ListInv, UsedCounted, NEW a \in Free(mem), lfree <= a, NEW size \in Nat,
         Room(a) >= size, Take(a, size)
  PROVE  /\ TakenFor(mem, mem', a, size) /\ ListInv' /\ UsedCounted'
         /\ FreeBelow(mem', lfree') => FreeBelow(mem, lfree)
<1> USE EndKnown
<1> DEFINE y == IF Room(a) >= size + SIZEOF_STRUCT_MEM + MIN_SIZE_ALIGNED
                THEN Split(mem, a, a + SIZEOF_STRUCT_MEM + size) ELSE mem
           S == {b \in Free(mem') \cup {heap_end} : a < b}
<1>1. /\ mem' = [y EXCEPT ![a].used = TRUE]
      /\ used_mem' = used_mem + mem'[a].next - a
      /\ lfree' = IF a = lfree THEN Min(S) ELSE lfree
  BY DEF Take
<1>2. TakenFor(mem, mem', a, size)
  <2>1. \/ y = mem
        \/ /\ mem[a].next - (a + SIZEOF_STRUCT_MEM) >= size + SIZEOF_STRUCT_MEM + MIN_SIZE_ALIGNED
           /\ y = Split(mem, a, a + SIZEOF_STRUCT_MEM + size)
    BY DEF Room
  <2>2. Well(mem) /\ Merged(mem) /\ mem[a].next - (a + SIZEOF_STRUCT_MEM) >= size
    BY DEF ListInv, Room
  <2> HIDE DEF y
  <2> QED
    BY <1>1, <2>1, <2>2, TakeHeads
<1> HIDE DEF y, S
<1>3. /\ Well(mem') /\ Merged(mem') /\ DOMAIN mem \subseteq DOMAIN mem'
      /\ Busy(mem') = Busy(mem) \cup {a}
      /\ \A c \in Busy(mem) : mem'[c].next = mem[c].next
      /\ \A c \in Free(mem') : c < a => c \in Free(mem)
  BY <1>2 DEF TakenFor
<1>4. /\ a \in DOMAIN mem /\ ~mem[a].used /\ a # heap_end /\ a \in Nat /\ a < heap_end
      /\ lfree \in Nat /\ Well(mem)
  BY HeadsKnown DEF Free, ListInv, Well, HeadsOK
<1>5. /\ \A c \in DOMAIN mem' : c \in Nat /\ c <= heap_end
      /\ heap_end \in DOMAIN mem' /\ a \in DOMAIN mem' /\ a \in Busy(mem')
      /\ mem'[a].next \in Nat
  BY <1>3, HeadsKnown DEF Well, HeadsOK, Busy
<1>6. UsedCounted'
  <2>1. a \notin Busy(mem)
    BY <1>4 DEF Busy
  <2>2. \A c : c # a => /\ c \in Busy(mem') <=> c \in Busy(mem)
                        /\ c \in Busy(mem) => mem'[c].next = mem[c].next
    BY <1>3
  <2>3. /\ SpaceBelow(mem)[heap_end] \in Int
        /\ SpaceBelow(mem')[heap_end]
             = SpaceBelow(mem)[heap_end] + ((IF a \in Busy(mem') THEN mem'[a].next - a ELSE 0)
                                            - (IF a \in Busy(mem) THEN mem[a].next - a ELSE 0))
    BY <1>3, <1>4, <2>2, SpaceUpdate
  <2>4. used_mem = SpaceBelow(mem)[heap_end]
    BY DEF UsedCounted
  <2>5. used_mem' = SpaceBelow(mem')[heap_end]
    BY <1>1, <1>4, <1>5, <2>1, <2>3, <2>4
  <2>6. UsedCounted' <=> (used_mem = SpaceBelow(mem)[heap_end])'
    BY DEF UsedCounted
  <2> QED
    BY <2>5, <2>6
<1>7. /\ lfree' \in DOMAIN mem' /\ (lfree' = heap_end \/ ~mem'[lfree'].used)
      /\ FreeBelow(mem', lfree') => FreeBelow(mem, lfree)
  <2>1. CASE a = lfree
    <3>1. S \in SUBSET Nat /\ heap_end \in S
      BY <1>4, <1>5 DEF S, Free
    <3>2. Min(S) \in S /\ \A n \in S : Min(S) <= n
      BY <3>1, MinKnown
    <3>3. lfree' \in S /\ \A n \in S : lfree' <= n
      BY <1>1, <2>1, <3>2
    <3>4. lfree' \in DOMAIN mem' /\ (lfree' = heap_end \/ ~mem'[lfree'].used)
      BY <1>5, <3>3 DEF S, Free
    <3>5. ASSUME NEW c \in Free(mem'), c < lfree' PROVE c \in Free(mem) /\ c < lfree
      <4>1. c \in DOMAIN mem' /\ c \in Nat /\ lfree' \in Nat /\ c # a
        BY <1>5, <3>4 DEF Free, Busy
      <4>2. ~(a < c)
        BY <3>3, <3>5, <4>1 DEF S
      <4>3. c < a
        BY <1>4, <4>1, <4>2
      <4> QED
        BY <1>3, <2>1, <4>3
    <3> QED
      BY <3>4, <3>5 DEF FreeBelow
  <2>2. CASE a # lfree
    <3>1. lfree' = lfree /\ lfree < a
      BY <1>1, <1>4, <2>2
    <3>2. lfree \in DOMAIN mem' /\ lfree # heap_end /\ lfree \in DOMAIN mem /\ ~mem[lfree].used
      BY <1>3, <1>4, <3>1 DEF ListInv
    <3>3. ~mem'[lfree].used
      BY <1>3, <2>2, <3>2 DEF Busy
    <3>4. ASSUME NEW c \in Free(mem'), c < lfree PROVE c \in Free(mem)
      <4>1. c \in Nat
        BY <1>5 DEF Free
      <4>2. c < a
        BY <1>4, <3>1, <3>4, <4>1
      <4> QED
        BY <1>3, <4>2
    <3> QED
      BY <3>1, <3>2, <3>3, <3>4 DEF FreeBelow
  <2> QED
    BY <2>1, <2>2
<1> QED
  BY <1>2, <1>3, <1>6, <1>7 DEF ListInv

-----------------------------------------------------------------------------
(* Giving space back *)

(* Merging leaves the allocated blocks alone and frees none. *)
LEMMA SameBusy ==
  ASSUME NEW m, NEW x, SameUsed(m, x)
  PROVE  /\ Busy(x) = Busy(m) /\ Free(x) \subseteq Free(m)
         /\ \A c \in Busy(m) : x[c].next = m[c].next
BY DEF SameUsed, Busy, Free

LEMMA ReleaseKnown ==
  ASSUME ListInv, UsedCounted, NEW a \in Busy(mem), a # heap_end, Release(a)
  PROVE  /\ ListInv' /\ UsedCounted'
         /\ Busy(mem') = Busy(mem) \ {a}
         /\ \A c \in Busy(mem') : mem'[c].next = mem[c].next
         /\ FreeBelow(mem', lfree') => FreeBelow(mem, lfree)
<1> USE EndKnown
<1> DEFINE y == [mem EXCEPT ![a].used = FALSE]
           l == IF a < lfree THEN a ELSE lfree
<1>1. /\ mem' = plug_holes(y, l, a).mem /\ lfree' = plug_holes(y, l, a).lfree
      /\ used_mem' = used_mem - (y[a].next - a)
  BY DEF Release
<1>2. /\ a \in DOMAIN mem /\ mem[a].used /\ a \in Nat /\ HeadsOK(mem) /\ Well(mem) /\ Merged(mem)
      /\ lfree \in DOMAIN mem /\ lfree \in Nat /\ lfree <= heap_end
      /\ (lfree = heap_end \/ ~mem[lfree].used)
      /\ mem[a].next \in Nat
  BY HeadsKnown DEF ListInv, Busy, Well
<1>3. /\ HeadsOK(y) /\ DOMAIN y = DOMAIN mem /\ Well(y) /\ ~y[a].used
      /\ \A c \in DOMAIN mem : y[c].next = mem[c].next /\ (c # a => y[c].used = mem[c].used)
  BY <1>2, UsedSet, UsedWell
<1>4. l \in DOMAIN mem /\ l \in Nat /\ l <= a /\ l <= lfree /\ (l = heap_end \/ ~y[l].used)
  <2>1. CASE a < lfree
    BY <1>2, <1>3, <2>1
  <2>2. CASE ~(a < lfree)
    <3>1. l = lfree
      BY <2>2
    <3> HIDE DEF l, y
    <3> QED
      BY <1>2, <1>3, <2>2, <3>1
  <2> QED
    BY <2>1, <2>2
<1> HIDE DEF y, l
<1>5. ASSUME NEW c \in DOMAIN y, c # heap_end, c # a, y[c].next # a PROVE Apart(y, c)
  <2>1. Apart(mem, c) /\ mem[c].next \in DOMAIN mem
    BY <1>2, <1>3, <1>5, BlockOrder DEF Merged
  <2> QED
    BY <1>3, <1>5, <2>1 DEF Apart
<1>6. /\ Well(mem') /\ Merged(mem') /\ SameUsed(y, mem')
      /\ lfree' \in DOMAIN mem' /\ lfree' <= l /\ (lfree' = heap_end \/ ~mem'[lfree'].used)
  <2>1. a \in DOMAIN y /\ l \in DOMAIN y
    BY <1>2, <1>3, <1>4
  <2>2. /\ Well(plug_holes(y, l, a).mem) /\ Merged(plug_holes(y, l, a).mem)
        /\ SameUsed(y, plug_holes(y, l, a).mem)
        /\ plug_holes(y, l, a).lfree \in DOMAIN plug_holes(y, l, a).mem
        /\ plug_holes(y, l, a).lfree <= l
        /\ \/ plug_holes(y, l, a).lfree = heap_end
           \/ ~plug_holes(y, l, a).mem[plug_holes(y, l, a).lfree].used
    BY <1>3, <1>4, <1>5, <2>1, PlugKnown
  <2> QED
    BY <1>1, <2>2
<1>7. Busy(y) = Busy(mem) \ {a} /\ Free(y) = Free(mem) \cup {a}
  BY <1>2, <1>3 DEF Busy, Free
<1>8. /\ Busy(mem') = Busy(mem) \ {a} /\ Free(mem') \subseteq Free(mem) \cup {a}
      /\ \A c \in Busy(mem') : mem'[c].next = mem[c].next
  <2>1. /\ Busy(mem') = Busy(y) /\ Free(mem') \subseteq Free(y)
        /\ \A c \in Busy(y) : mem'[c].next = y[c].next
    BY <1>6, SameBusy
  <2>2. \A c \in Busy(y) : y[c].next = mem[c].next
    BY <1>3 DEF Busy
  <2> QED
    BY <1>7, <2>1, <2>2
<1>9. UsedCounted'
  <2>1. \A c : c # a => /\ c \in Busy(mem') <=> c \in Busy(mem)
                        /\ c \in Busy(mem) => mem'[c].next = mem[c].next
    BY <1>8
  <2>2. /\ SpaceBelow(mem)[heap_end] \in Int
        /\ SpaceBelow(mem')[heap_end]
             = SpaceBelow(mem)[heap_end] + ((IF a \in Busy(mem') THEN mem'[a].next - a ELSE 0)
                                            - (IF a \in Busy(mem) THEN mem[a].next - a ELSE 0))
    BY <1>2, <1>6, <2>1, SpaceUpdate
  <2>3. used_mem = SpaceBelow(mem)[heap_end] /\ a \notin Busy(mem') /\ y[a].next = mem[a].next
    BY <1>2, <1>3, <1>8 DEF UsedCounted
  <2>4. used_mem' = SpaceBelow(mem')[heap_end]
    BY <1>1, <1>2, <2>2, <2>3
  <2>5. UsedCounted' <=> (used_mem = SpaceBelow(mem)[heap_end])'
    BY DEF UsedCounted
  <2> QED
    BY <2>4, <2>5
<1>10. ASSUME NEW c \in Free(mem'), c < lfree' PROVE c \in Free(mem) /\ c < lfree
  <2>1. c \in Nat /\ lfree' \in Nat
    BY <1>6, HeadsKnown DEF Well, Free
  <2>2. c < a /\ c < lfree
    BY <1>2, <1>4, <1>6, <1>10, <2>1
  <2> QED
    BY <1>2, <1>8, <2>1, <2>2
<1> QED
  BY <1>6, <1>8, <1>9, <1>10 DEF ListInv, FreeBelow

(* Cutting off the end of a block. *)
LEMMA ShrinkKnown ==
  ASSUME HeapInv, NEW a \in DOMAIN held, NEW newsize \in Nat, ReallocShrink(a, newsize)
  PROVE  /\ ListInv' /\ UsedCounted'
         /\ Busy(mem') = Busy(mem)
         /\ mem'[a].next = a + SIZEOF_STRUCT_MEM + newsize
         /\ \A c \in Busy(mem) : c # a => mem'[c].next = mem[c].next
<1> USE EndKnown
<1> DEFINE b == a + SIZEOF_STRUCT_MEM + newsize
           y == Split(mem, a, b)
           n == mem[a].next
<1>1. /\ mem' = plug_holes(y, lfree, b).mem /\ lfree' = plug_holes(y, lfree, b).lfree
      /\ used_mem' = used_mem - (n - (a + SIZEOF_STRUCT_MEM) - newsize)
      /\ newsize + SIZEOF_STRUCT_MEM + MIN_SIZE_ALIGNED <= n - (a + SIZEOF_STRUCT_MEM)
  BY DEF ReallocShrink, Shrinks, Room
<1>2. /\ a \in Busy(mem) /\ a \in DOMAIN mem /\ a # heap_end /\ mem[a].used
      /\ HeadsOK(mem) /\ Well(mem) /\ Merged(mem)
      /\ lfree \in DOMAIN mem /\ lfree \in Nat
      /\ (lfree = heap_end \/ ~mem[lfree].used)
      /\ a \in Nat /\ n \in Nat
  BY HeadsKnown DEF HeapInv, ListInv, HeldInv, Busy, Well
<1>3. b \in Nat /\ a + SIZEOF_STRUCT_MEM <= b /\ b + SIZEOF_STRUCT_MEM <= n /\ b < n
  BY <1>1, <1>2
<1>4. CutAt(mem, y, a, b) /\ Well(y)
  BY <1>2, <1>3, SplitKnown, SplitWell
<1> HIDE DEF b, y, n
<1>5. /\ HeadsOK(y) /\ DOMAIN y = DOMAIN mem \cup {b} /\ b \notin DOMAIN mem
      /\ \A c \in DOMAIN mem : /\ y[c].used = mem[c].used
                               /\ y[c].next = IF c = a THEN b ELSE mem[c].next
      /\ ~y[b].used /\ y[b].next = n
  BY <1>4 DEF CutAt, n
<1>6. ASSUME NEW c \in DOMAIN y, c # heap_end, c # b, y[c].next # b PROVE Apart(y, c)
  <2>1. c \in DOMAIN mem
    BY <1>5, <1>6
  <2>2. Apart(mem, c) /\ mem[c].next \in DOMAIN mem
    BY <1>2, <1>6, <2>1, BlockOrder DEF Merged
  <2> QED
    BY <1>5, <1>6, <2>1, <2>2 DEF Apart
<1>7. /\ Well(mem') /\ Merged(mem') /\ SameUsed(y, mem')
      /\ lfree' \in DOMAIN mem' /\ (lfree' = heap_end \/ ~mem'[lfree'].used)
  <2>1. /\ b \in DOMAIN y /\ lfree \in DOMAIN y /\ (lfree = heap_end \/ ~y[lfree].used)
        /\ b # heap_end
    BY <1>2, <1>5 DEF HeadsOK
  <2>2. /\ Well(plug_holes(y, lfree, b).mem) /\ Merged(plug_holes(y, lfree, b).mem)
        /\ SameUsed(y, plug_holes(y, lfree, b).mem)
        /\ plug_holes(y, lfree, b).lfree \in DOMAIN plug_holes(y, lfree, b).mem
        /\ \/ plug_holes(y, lfree, b).lfree = heap_end
           \/ ~plug_holes(y, lfree, b).mem[plug_holes(y, lfree, b).lfree].used
    BY <1>4, <1>5, <1>6, <2>1, PlugKnown
  <2> QED
    BY <1>1, <2>2
<1>8. Busy(y) = Busy(mem) /\ y[a].next = b /\ \A c \in Busy(mem) : c # a => y[c].next = mem[c].next
  BY <1>2, <1>5 DEF Busy
<1>9. /\ Busy(mem') = Busy(mem) /\ mem'[a].next = b
      /\ \A c \in Busy(mem) : c # a => mem'[c].next = mem[c].next
  <2>1. Busy(mem') = Busy(y) /\ \A c \in Busy(y) : mem'[c].next = y[c].next
    BY <1>7, SameBusy
  <2> QED
    BY <1>2, <1>8, <2>1
<1>10. UsedCounted'
  <2>1. \A c : c # a => /\ c \in Busy(mem') <=> c \in Busy(mem)
                        /\ c \in Busy(mem) => mem'[c].next = mem[c].next
    BY <1>9
  <2>2. /\ SpaceBelow(mem)[heap_end] \in Int
        /\ SpaceBelow(mem')[heap_end]
             = SpaceBelow(mem)[heap_end] + ((IF a \in Busy(mem') THEN mem'[a].next - a ELSE 0)
                                            - (IF a \in Busy(mem) THEN mem[a].next - a ELSE 0))
    BY <1>2, <1>7, <2>1, SpaceUpdate
  <2>3. used_mem = SpaceBelow(mem)[heap_end] /\ a \in Busy(mem') /\ mem'[a].next = b
    BY <1>2, <1>9 DEF HeapInv, UsedCounted
  <2>4. /\ SpaceBelow(mem')[heap_end] = used_mem + ((b - a) - (n - a)) /\ used_mem \in Int
    BY <1>2, <2>2, <2>3 DEF n
  <2>5. used_mem' = SpaceBelow(mem')[heap_end]
    BY <1>1, <1>2, <1>3, <2>4 DEF b
  <2>6. UsedCounted' <=> (used_mem = SpaceBelow(mem)[heap_end])'
    BY DEF UsedCounted
  <2> QED
    BY <2>5, <2>6
<1> QED
  BY <1>7, <1>9, <1>10 DEF ListInv, b

-----------------------------------------------------------------------------
(* The steps *)

(* The block that rt_malloc finds. *)
LEMMA FittingKnown ==
  ASSUME ListInv, NEW size \in Nat, Fitting(Raised(size)) # {}, NEW a, a = Min(Fitting(Raised(size)))
  PROVE  /\ Raised(size) \in Nat /\ Raised(size) >= size
         /\ a \in Free(mem) /\ lfree <= a /\ Room(a) >= Raised(size)
<1>1. Raised(size) \in Nat /\ Raised(size) >= size
  BY EndKnown DEF Raised
<1>2. Fitting(Raised(size)) \in SUBSET Nat
  BY HeadsKnown DEF Fitting, Free, ListInv, Well
<1>3. a \in Fitting(Raised(size))
  BY <1>2, MinKnown
<1> QED
  BY <1>1, <1>3 DEF Fitting

(* A step of which hidden keeps only what is still true. *)
LEMMA KeptHidden ==
  ASSUME HiddenInv, Kept, FreeBelow(mem', lfree') => FreeBelow(mem, lfree)
  PROVE  HiddenInv'
<1>1. hidden \in BOOLEAN /\ (FreeBelow(mem, lfree) => hidden)
  BY DEF HiddenInv
<1>2. hidden' = (hidden /\ FreeBelow(mem', lfree'))
  BY DEF Kept
<1>3. hidden' \in BOOLEAN
  BY <1>2, Zenon
<1>4. FreeBelow(mem', lfree') => hidden'
  BY <1>1, <1>2
<1> QED
  BY <1>3, <1>4 DEF HiddenInv

(* The blocks the program holds once a has been allocated for it, in place *)
(* of the blocks of gone, which it has moved.                              *)
LEMMA TakeHeld ==
  ASSUME HeapInv, NEW a \in Free(mem), NEW size \in Nat, NEW room \in Nat, room >= size,
         TakenFor(mem, mem', a, room), NEW gone \in SUBSET DOMAIN held,
         held' = Put(Restrict(held, DOMAIN held \ gone), a, size), moved' = moved \cup gone
  PROVE  HeldInv'
<1> USE EndKnown
<1>1. /\ held \in [DOMAIN held -> Nat] /\ Busy(mem) = DOMAIN held \cup moved \cup {heap_end}
      /\ heap_end \notin DOMAIN held \cup moved
      /\ \A c \in DOMAIN held : c \notin moved /\ mem[c].next >= c + SIZEOF_STRUCT_MEM + held[c]
  BY DEF HeapInv, HeldInv
<1>2. /\ Busy(mem') = Busy(mem) \cup {a} /\ \A c \in Busy(mem) : mem'[c].next = mem[c].next
      /\ mem'[a].next >= a + SIZEOF_STRUCT_MEM + room /\ mem'[a].next \in Nat
  BY HeadsKnown DEF TakenFor, Well, Busy
<1>3. a \notin Busy(mem) /\ a \in Nat
  BY HeadsKnown DEF Free, Busy, HeapInv, ListInv, Well
<1>4. /\ DOMAIN held' = (DOMAIN held \ gone) \cup {a} /\ held'[a] = size
      /\ \A c \in DOMAIN held \ gone : held'[c] = held[c]
      /\ held' = [c \in DOMAIN held' |-> held'[c]]
  BY <1>1, <1>3 DEF Put, Restrict
<1>5. held' \in [DOMAIN held' -> Nat]
  BY <1>1, <1>4
<1>6. Busy(mem') = DOMAIN held' \cup moved' \cup {heap_end} /\ heap_end \notin DOMAIN held' \cup moved'
  BY <1>1, <1>2, <1>3, <1>4
<1>7. ASSUME NEW c \in DOMAIN held'
      PROVE  c \notin moved' /\ mem'[c].next >= c + SIZEOF_STRUCT_MEM + held'[c]
  <2>1. CASE c = a
    BY <1>1, <1>2, <1>3, <1>4, <2>1
  <2>2. CASE c # a
    BY <1>1, <1>2, <1>4, <1>7, <2>2
  <2> QED
    BY <2>1, <2>2
<1> QED
  BY <1>5, <1>6, <1>7 DEF HeldInv

LEMMA MallocStep ==
  ASSUME HeapInv, NEW size \in Sizes, rt_malloc(size)
  PROVE  HeapInv'
<1> DEFINE a == Min(Fitting(Raised(size)))
           room == Raised(size)
<1>1. /\ Fitting(room) # {} /\ Take(a, room) /\ held' = Put(held, a, size)
      /\ Kept /\ moved' = moved
  BY DEF rt_malloc
<1>2. size \in Nat /\ ListInv /\ UsedCounted /\ HiddenInv
  BY EndKnown DEF HeapInv
<1> HIDE DEF a
<1>3. room \in Nat /\ room >= size /\ a \in Free(mem) /\ lfree <= a /\ Room(a) >= room
  BY <1>1, <1>2, FittingKnown DEF a
<1> HIDE DEF room
<1>4. /\ TakenFor(mem, mem', a, room) /\ ListInv' /\ UsedCounted'
      /\ FreeBelow(mem', lfree') => FreeBelow(mem, lfree)
  BY <1>1, <1>2, <1>3, TakeKnown
<1>5. HiddenInv'
  BY <1>1, <1>2, <1>4, KeptHidden
<1>6. HeldInv'
  <2>1. held' = Put(Restrict(held, DOMAIN held \ {}), a, size) /\ moved' = moved \cup {}
    <3>1. held = [c \in DOMAIN held |-> held[c]]
      BY DEF HeapInv, HeldInv
    <3>2. Restrict(held, DOMAIN held \ {}) = held
      BY <3>1 DEF Restrict
    <3> QED
      BY <1>1, <3>2
  <2> QED
    BY <1>2, <1>3, <1>4, <2>1, TakeHeld
<1> QED
  BY <1>4, <1>5, <1>6 DEF HeapInv

LEMMA MoveStep ==
  ASSUME HeapInv, NEW a \in DOMAIN held, NEW newsize \in Sizes, ReallocMove(a, newsize)
  PROVE  HeapInv'
<1> DEFINE b == Min(Fitting(Raised(newsize)))
           room == Raised(newsize)
<1>1. /\ Fitting(room) # {} /\ Take(b, room) /\ held' = Put(Forget(held, a), b, newsize)
      /\ Kept /\ moved' = moved \cup {a}
  BY DEF ReallocMove
<1>2. newsize \in Nat /\ ListInv /\ UsedCounted /\ HiddenInv
  BY EndKnown DEF HeapInv
<1> HIDE DEF b
<1>3. room \in Nat /\ room >= newsize /\ b \in Free(mem) /\ lfree <= b /\ Room(b) >= room
  BY <1>1, <1>2, FittingKnown DEF b
<1> HIDE DEF room
<1>4. /\ TakenFor(mem, mem', b, room) /\ ListInv' /\ UsedCounted'
      /\ FreeBelow(mem', lfree') => FreeBelow(mem, lfree)
  BY <1>1, <1>2, <1>3, TakeKnown
<1>5. HiddenInv'
  BY <1>1, <1>2, <1>4, KeptHidden
<1>6. HeldInv'
  <2>1. held' = Put(Restrict(held, DOMAIN held \ {a}), b, newsize) /\ {a} \in SUBSET DOMAIN held
    BY <1>1 DEF Forget
  <2> QED
    BY <1>1, <1>2, <1>3, <1>4, <2>1, TakeHeld
<1> QED
  BY <1>4, <1>5, <1>6 DEF HeapInv

(* A release of a block that the program held or had moved. *)
LEMMA ReleaseHeld ==
  ASSUME HeapInv, NEW a \in DOMAIN held \cup moved, Release(a), Kept,
         \/ held' = Forget(held, a) /\ moved' = moved /\ a \in DOMAIN held
         \/ held' = held /\ moved' = moved \ {a} /\ a \in moved
  PROVE  HeapInv'
<1> USE EndKnown
<1>1. /\ held \in [DOMAIN held -> Nat] /\ Busy(mem) = DOMAIN held \cup moved \cup {heap_end}
      /\ heap_end \notin DOMAIN held \cup moved
      /\ \A c \in DOMAIN held : c \notin moved /\ mem[c].next >= c + SIZEOF_STRUCT_MEM + held[c]
      /\ ListInv /\ UsedCounted /\ HiddenInv
  BY DEF HeapInv, HeldInv
<1>2. a \in Busy(mem) /\ a # heap_end
  BY <1>1
<1>3. /\ ListInv' /\ UsedCounted' /\ Busy(mem') = Busy(mem) \ {a}
      /\ \A c \in Busy(mem') : mem'[c].next = mem[c].next
      /\ FreeBelow(mem', lfree') => FreeBelow(mem, lfree)
  BY <1>1, <1>2, ReleaseKnown
<1>4. HiddenInv'
  BY <1>1, <1>3, KeptHidden
<1>5. /\ DOMAIN held' = DOMAIN held \ {a} /\ moved' = moved \ {a}
      /\ held' \in [DOMAIN held' -> Nat]
      /\ \A c \in DOMAIN held' : held'[c] = held[c]
  <2>1. CASE held' = Forget(held, a) /\ moved' = moved /\ a \in DOMAIN held
    BY <1>1, <2>1 DEF Forget, Restrict
  <2>2. CASE held' = held /\ moved' = moved \ {a} /\ a \in moved
    BY <1>1, <2>2
  <2> QED
    BY <2>1, <2>2
<1>6. Busy(mem') = DOMAIN held' \cup moved' \cup {heap_end} /\ heap_end \notin DOMAIN held' \cup moved'
  BY <1>1, <1>3, <1>5
<1>7. ASSUME NEW c \in DOMAIN held'
      PROVE  c \notin moved' /\ mem'[c].next >= c + SIZEOF_STRUCT_MEM + held'[c]
  <2>1. c \in DOMAIN held /\ c \in Busy(mem') /\ held'[c] = held[c]
    BY <1>5, <1>6, <1>7
  <2> QED
    BY <1>1, <1>3, <1>5, <2>1
<1>8. HeldInv'
  BY <1>5, <1>6, <1>7 DEF HeldInv
<1> QED
  BY <1>3, <1>4, <1>8 DEF HeapInv

LEMMA ShrinkStep ==
  ASSUME HeapInv, NEW a \in DOMAIN held, NEW newsize \in Sizes, ReallocShrink(a, newsize)
  PROVE  HeapInv'
<1> USE EndKnown
<1>1. newsize \in Nat
  OBVIOUS
<1>2. /\ held \in [DOMAIN held -> Nat] /\ Busy(mem) = DOMAIN held \cup moved \cup {heap_end}
      /\ heap_end \notin DOMAIN held \cup moved
      /\ \A c \in DOMAIN held : c \notin moved /\ mem[c].next >= c + SIZEOF_STRUCT_MEM + held[c]
  BY DEF HeapInv, HeldInv
<1>3. /\ ListInv' /\ UsedCounted' /\ Busy(mem') = Busy(mem)
      /\ mem'[a].next = a + SIZEOF_STRUCT_MEM + newsize
      /\ \A c \in Busy(mem) : c # a => mem'[c].next = mem[c].next
  BY <1>1, ShrinkKnown
<1>4. /\ held' = [held EXCEPT ![a] = newsize] /\ moved' = moved
      /\ hidden' = FreeBelow(mem', lfree')
  BY DEF ReallocShrink
<1>5. HiddenInv'
  <2>1. hidden' \in BOOLEAN
    BY <1>4, Zenon DEF FreeBelow
  <2> QED
    BY <1>4, <2>1 DEF HiddenInv
<1>6. /\ DOMAIN held' = DOMAIN held /\ held' \in [DOMAIN held' -> Nat] /\ held'[a] = newsize
      /\ \A c \in DOMAIN held : c # a => held'[c] = held[c]
  BY <1>1, <1>2, <1>4
<1>7. ASSUME NEW c \in DOMAIN held'
      PROVE  c \notin moved' /\ mem'[c].next >= c + SIZEOF_STRUCT_MEM + held'[c]
  <2>1. c \in DOMAIN held /\ c \in Busy(mem) /\ c \in Nat
    BY <1>2, <1>6, <1>7, HeadsKnown DEF Busy, HeapInv, ListInv, Well
  <2>2. CASE c = a
    BY <1>1, <1>2, <1>3, <1>4, <1>6, <2>1, <2>2
  <2>3. CASE c # a
    BY <1>2, <1>3, <1>4, <1>6, <2>1, <2>3
  <2> QED
    BY <2>2, <2>3
<1>8. HeldInv'
  BY <1>2, <1>3, <1>4, <1>6, <1>7 DEF HeldInv
<1> QED
  BY <1>3, <1>5, <1>8 DEF HeapInv

LEMMA SameStep ==
  ASSUME HeapInv, NEW a \in DOMAIN held, NEW newsize \in Sizes, ReallocSame(a, newsize)
  PROVE  HeapInv'
<1> USE EndKnown
<1>1. /\ newsize \in Nat /\ newsize = mem[a].next - (a + SIZEOF_STRUCT_MEM)
      /\ held' = [held EXCEPT ![a] = newsize]
      /\ mem' = mem /\ lfree' = lfree /\ used_mem' = used_mem /\ moved' = moved /\ hidden' = hidden
  BY DEF ReallocSame, Room
<1>2. /\ held \in [DOMAIN held -> Nat] /\ Busy(mem) = DOMAIN held \cup moved \cup {heap_end}
      /\ heap_end \notin DOMAIN held \cup moved
      /\ \A c \in DOMAIN held : c \notin moved /\ mem[c].next >= c + SIZEOF_STRUCT_MEM + held[c]
  BY DEF HeapInv, HeldInv
<1>3. a \in Nat /\ mem[a].next \in Nat
  BY <1>2, HeadsKnown DEF Busy, HeapInv, ListInv, Well
<1>4. /\ DOMAIN held' = DOMAIN held /\ held' \in [DOMAIN held' -> Nat] /\ held'[a] = newsize
      /\ \A c \in DOMAIN held : c # a => held'[c] = held[c]
  BY <1>1, <1>2
<1>5. HeldInv'
  <2>1. mem[a].next >= a + SIZEOF_STRUCT_MEM + newsize
    BY <1>1, <1>3
  <2> QED
    BY <1>1, <1>2, <1>4, <2>1 DEF HeldInv
<1>6. ListInv' /\ HiddenInv' /\ UsedCounted'
  BY <1>1 DEF HeapInv, ListInv, HiddenInv, UsedCounted
<1> QED
  BY <1>5, <1>6 DEF HeapInv

-----------------------------------------------------------------------------
(* The theorems *)

(* No space is in use where no address counts. *)
LEMMA NoSpace ==
  ASSUME NEW m, \A c \in 0 .. heap_end - 1 : Space(m, c) = 0
  PROVE  SpaceBelow(m)[heap_end] = 0
<1> DEFINE N == heap_end
           F == SpaceBelow(m)
           Bad == {n \in 0 .. N : F[n] # 0}
<1>1. N \in Nat
  BY EndKnown
<1>2. F[0] = 0 /\ \A n \in 1 .. N : F[n] = F[n - 1] + Space(m, n - 1)
  BY SpaceSteps
<1>3. \A n \in 1 .. N : Space(m, n - 1) = 0
  BY <1>1
<1> HIDE DEF F, N
<1>4. Bad = {}
  <2> SUFFICES ASSUME Bad # {} PROVE FALSE
    OBVIOUS
  <2>1. Bad \in SUBSET Nat
    BY <1>1
  <2>2. PICK k \in Bad : \A n \in Bad : k <= n
    BY <2>1, LeastNatural
  <2>3. k \in 1 .. N /\ k - 1 \in 0 .. N /\ ~(k <= k - 1) /\ F[k] # 0
    BY <1>1, <1>2, <2>2
  <2>4. F[k - 1] = 0
    BY <2>2, <2>3
  <2>5. F[k] = F[k - 1] + Space(m, k - 1) /\ Space(m, k - 1) = 0
    BY <1>2, <1>3, <2>3
  <2> QED
    BY <2>3, <2>4, <2>5
<1>5. N \in 0 .. N /\ N \notin Bad
  BY <1>1, <1>4
<1> QED
  BY <1>5 DEF F, N

LEMMA HeapInit == Init => HeapInv
<1> SUFFICES ASSUME Init PROVE HeapInv
  OBVIOUS
<1> USE EndKnown
<1> DEFINE h0 == Header(FALSE, heap_end, 0)
           h1 == Header(TRUE, heap_end, heap_end)
<1>1. /\ DOMAIN mem = {0, heap_end} /\ mem[0] = h0 /\ mem[heap_end] = h1
      /\ mem = [a \in DOMAIN mem |-> mem[a]]
      /\ lfree = 0 /\ used_mem = 0 /\ held = [a \in {} |-> 0] /\ moved = {}
  <2>1. /\ mem = [a \in {0, heap_end} |-> IF a = 0 THEN h0 ELSE h1]
        /\ lfree = 0 /\ used_mem = 0 /\ held = [a \in {} |-> 0] /\ moved = {}
    BY Zenon DEF Init
  <2> HIDE DEF h0, h1
  <2> QED
    BY <2>1
<1>2. /\ h0 \in Heads /\ h0.used = FALSE /\ h0.next = heap_end /\ h0.prev = 0
      /\ h1 \in Heads /\ h1.used = TRUE /\ h1.next = heap_end
  BY DEF Header, Heads
<1> HIDE DEF h0, h1
<1>3. HeadsOK(mem)
  <2>1. \A a \in DOMAIN mem : mem[a] \in Heads
    BY <1>1, <1>2
  <2> QED
    BY <1>1, <1>2, <2>1 DEF HeadsOK
<1>4. Well(mem)
  <2>1. NextOK(mem, 0) /\ PrevOK(mem, 0)
    BY <1>1, <1>2 DEF NextOK, PrevOK
  <2> QED
    BY <1>1, <1>3, <2>1 DEF Well
<1>5. ListInv
  BY <1>1, <1>2, <1>4 DEF ListInv, Merged, Apart
<1>6. Busy(mem) = {heap_end}
  BY <1>1, <1>2 DEF Busy
<1>7. HeldInv
  BY <1>1, <1>6 DEF HeldInv
<1>8. HiddenInv
  <2>1. hidden \in BOOLEAN
    BY Zenon DEF Init
  <2>2. ~FreeBelow(mem, lfree)
    BY <1>1 DEF FreeBelow, Free
  <2> QED
    BY <2>1, <2>2 DEF HiddenInv
<1>9. UsedCounted
  <2>1. \A c \in 0 .. heap_end - 1 : Space(mem, c) = 0
    BY <1>4, <1>6, SpaceKnown
  <2> QED
    BY <1>1, <2>1, NoSpace DEF UsedCounted
<1> QED
  BY <1>5, <1>7, <1>8, <1>9 DEF HeapInv

LEMMA HeapNext == HeapInv /\ [Next]_vars => HeapInv'
<1> SUFFICES ASSUME HeapInv, [Next]_vars PROVE HeapInv'
  OBVIOUS
<1>1. CASE UNCHANGED vars
  BY <1>1 DEF vars, HeapInv, ListInv, HeldInv, HiddenInv, UsedCounted
<1>2. CASE \E size \in Sizes : rt_malloc(size)
  BY <1>2, MallocStep
<1>3. ASSUME NEW a \in DOMAIN held, rt_free(a) PROVE HeapInv'
  BY <1>3, ReleaseHeld DEF rt_free
<1>4. ASSUME NEW a \in moved, ReallocFree(a) PROVE HeapInv'
  BY <1>4, ReleaseHeld DEF ReallocFree
<1>5. ASSUME NEW a \in DOMAIN held, NEW size \in Sizes,
             ReallocShrink(a, size) \/ ReallocMove(a, size) \/ ReallocSame(a, size)
      PROVE  HeapInv'
  BY <1>5, ShrinkStep, MoveStep, SameStep
<1> QED
  BY <1>1, <1>2, <1>3, <1>4, <1>5 DEF Next

(* The invariant says what the model checker looks at. *)
LEMMA HeapInvOK == HeapInv => HeapOK
<1> SUFFICES ASSUME HeapInv PROVE HeapOK
  OBVIOUS
<1> USE EndKnown
<1>1. /\ Well(mem) /\ Merged(mem) /\ HeadsOK(mem) /\ lfree \in DOMAIN mem
      /\ \A c \in DOMAIN mem : c \in Nat /\ c <= heap_end
  BY HeadsKnown DEF HeapInv, ListInv, Well
<1>2. ASSUME NEW a \in Blocks
      PROVE  /\ mem[a].next = Min({b \in DOMAIN mem : b > a})
             /\ mem[a].prev = IF a = 0 THEN 0 ELSE Max({b \in Blocks : b < a})
             /\ Room(a) >= 0
             /\ mem[a].used \/ mem[mem[a].next].used
  <2>1. a \in DOMAIN mem /\ a # heap_end
    BY DEF Blocks
  <2>2. /\ mem[a].next \in DOMAIN mem /\ a < mem[a].next /\ mem[a].next \in Nat /\ a \in Nat
        /\ mem[a].next >= a + SIZEOF_STRUCT_MEM
        /\ \A b \in DOMAIN mem : b <= a \/ b >= mem[a].next
        /\ a # 0 => /\ mem[a].prev \in DOMAIN mem /\ mem[a].prev < a /\ mem[a].prev # heap_end
                    /\ \A b \in DOMAIN mem : b <= mem[a].prev \/ b >= a
        /\ a = 0 => mem[a].prev = 0
    BY <1>1, <2>1, BlockOrder
  <2>3. mem[a].next = Min({b \in DOMAIN mem : b > a})
    <3> DEFINE S == {b \in DOMAIN mem : b > a}
    <3>1. S \in SUBSET Nat /\ mem[a].next \in S /\ \A y \in S : mem[a].next <= y
      BY <1>1, <2>2
    <3> HIDE DEF S
    <3>2. mem[a].next = Min(S)
      BY <3>1, MinIs
    <3> QED
      BY <3>2 DEF S
  <2>4. ASSUME a # 0 PROVE mem[a].prev = Max({b \in Blocks : b < a})
    <3> DEFINE S == {b \in Blocks : b < a}
    <3>1. S \in SUBSET Nat /\ mem[a].prev \in S /\ \A y \in S : y <= mem[a].prev
      BY <1>1, <2>2, <2>4 DEF Blocks
    <3> HIDE DEF S
    <3>2. mem[a].prev = Max(S)
      BY <3>1, MaxIs
    <3> QED
      BY <3>2 DEF S
  <2>5. Room(a) >= 0
    BY <2>2 DEF Room
  <2>6. mem[a].used \/ mem[mem[a].next].used
    BY <1>1, <2>1 DEF Merged, Apart
  <2> QED
    BY <2>2, <2>3, <2>4, <2>5, <2>6
<1>3. 0 \in Blocks
  BY <1>1 DEF HeadsOK, Blocks
<1>4. Blocks \ Free(mem) = DOMAIN held \cup moved
  <2>1. Blocks \ Free(mem) = Busy(mem) \ {heap_end}
    BY DEF Blocks, Free, Busy
  <2> QED
    BY <2>1 DEF HeapInv, HeldInv
<1>5. ASSUME NEW a \in DOMAIN held PROVE a \notin moved /\ Room(a) >= held[a]
  <2>1. a \notin moved /\ mem[a].next >= a + SIZEOF_STRUCT_MEM + held[a] /\ held[a] \in Nat
    BY DEF HeapInv, HeldInv
  <2>2. a \in Nat /\ mem[a].next \in Nat
    BY <1>1, HeadsKnown DEF HeapInv, HeldInv, Busy
  <2> QED
    BY <2>1, <2>2 DEF Room
<1> QED
  BY <1>1, <1>2, <1>3, <1>4, <1>5 DEF HeapOK

(* rt_malloc, rt_free and rt_realloc keep the list of blocks well formed:  *)
(* next and prev agree, free neighbours are merged, and the allocated      *)
(* blocks are those the program holds, each with the room it asked for.    *)
THEOREM HeapWellFormed == Spec => []HeapOK
BY HeapInit, HeapNext, HeapInvOK, PTL DEF Spec

(* lfree is the lowest free block, unless a rt_realloc that shrank a block *)
(* has left a lower one.                                                   *)
THEOREM HeapLowestFree == Spec => []LowestFree
<1>1. HeapInv => LowestFree
  BY DEF HeapInv, ListInv, HiddenInv, LowestFree, Free
<1> QED
  BY <1>1, HeapInit, HeapNext, PTL DEF Spec

(* used_mem, which rt_malloc and rt_free keep, is the space of the         *)
(* allocated blocks.                                                       *)
THEOREM HeapUsedCounted == Spec => []UsedCounted
<1>1. HeapInv => UsedCounted
  BY DEF HeapInv
<1> QED
  BY <1>1, HeapInit, HeapNext, PTL DEF Spec

=============================================================================
