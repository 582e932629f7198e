-------------------------------- MODULE Heap --------------------------------
(***************************************************************************)
(* The heap of mem.c: blocks in address order, each with a header, first   *)
(* fit from lfree, neighbours merged on release.  Addresses and sizes are  *)
(* in units of RT_ALIGN_SIZE, to which RT_ALIGN rounds every request.      *)
(*                                                                         *)
(* heap_sem makes each of the calls one step.  A rt_realloc that moves a   *)
(* block is two: other threads come between its rt_malloc and its rt_free. *)
(***************************************************************************)
EXTENDS Integers, FiniteSetsExt, Functions

CONSTANTS mem_size_aligned,
          SIZEOF_STRUCT_MEM,
          MIN_SIZE_ALIGNED,
          Sizes \* the sizes that are asked for

ASSUME HeapAssumption ==
  /\ mem_size_aligned \in Nat
  /\ SIZEOF_STRUCT_MEM \in Nat \ {0} /\ MIN_SIZE_ALIGNED \in Nat \ {0}
  /\ Sizes \subseteq Nat

VARIABLES
  mem,      \* the headers, by address: used, next, prev (that of heap_end is never read)
  lfree,
  used_mem,
  held,     \* the blocks the program may use, with the size it asked for
  moved,    \* the blocks of which a rt_realloc has made a larger copy
  hidden    \* history: a rt_realloc has left a free block below lfree

vars == <<mem, lfree, used_mem, held, moved, hidden>>

heap_end == mem_size_aligned + SIZEOF_STRUCT_MEM

Header(u, n, p) == [used |-> u, next |-> n, prev |-> p]

(* rt_system_heap_init *)
Init ==
  /\ mem = [a \in {0, heap_end} |-> IF a = 0 THEN Header(FALSE, heap_end, 0)
                                    ELSE Header(TRUE, heap_end, heap_end)]
  /\ lfree = 0 /\ used_mem = 0
  /\ held = [a \in {} |-> 0] /\ moved = {} /\ hidden = FALSE

Room(a) == mem[a].next - (a + SIZEOF_STRUCT_MEM)

Free(m) == {a \in DOMAIN m : ~m[a].used}

FreeBelow(m, l) == \E a \in Free(m) : a < l

(* The function f with the value v at a, which may be new to it. *)
Put(f, a, v) == [x \in DOMAIN f \cup {a} |-> IF x = a THEN v ELSE f[x]]

SetPrev(m, a, p) == IF a = heap_end THEN m ELSE [m EXCEPT ![a].prev = p]

(* The block at a is cut at b, from where a free block goes on. *)
Split(m, a, b) ==
  Put(SetPrev([m EXCEPT ![a].next = b], m[a].next, b), b, Header(FALSE, m[a].next, a))

(* The block at a takes in the next one. *)
Merge(m, a) ==
  LET b == m[a].next
  IN  Restrict(SetPrev([m EXCEPT ![a].next = m[b].next], m[b].next, a), DOMAIN m \ {b})

(* Mutant: only the block behind. *)
PlugForward(m, l, a) ==
  IF m[a].next # heap_end /\ ~m[m[a].next].used
  THEN [mem |-> Merge(m, a), lfree |-> IF l = m[a].next THEN a ELSE l]
  ELSE [mem |-> m, lfree |-> l]

(* The free block at a is merged with the free blocks behind and before it; *)
(* lfree follows the block it points to.                                    *)
plug_holes(m, l, a) ==
  LET n  == m[a].next
      fw == n # heap_end /\ ~m[n].used
      m1 == IF fw THEN Merge(m, a) ELSE m
      l1 == IF fw /\ l = n THEN a ELSE l
      p  == m1[a].prev
      bw == p # a /\ ~m1[p].used
  IN  [ mem   |-> IF bw THEN Merge(m1, p) ELSE m1,
        lfree |-> IF bw /\ l1 = a THEN p ELSE l1 ]
-----------------------------------------------------------------------------
(* Every data block has room for MIN_SIZE_ALIGNED. *)
Raised(size) == IF size < MIN_SIZE_ALIGNED THEN MIN_SIZE_ALIGNED ELSE size

(* The blocks that the loop of rt_malloc accepts: it starts at lfree and   *)
(* ends before mem_size_aligned - size.                                    *)
Fitting(size) ==
  {a \in Free(mem) : lfree <= a /\ a < mem_size_aligned - size /\ Room(a) >= size}

(* Mutant: counts what was asked for although the block is not split. *)
TakeAsked(a, size) ==
  LET split == Room(a) >= size + SIZEOF_STRUCT_MEM + MIN_SIZE_ALIGNED
      m1    == IF split THEN Split(mem, a, a + SIZEOF_STRUCT_MEM + size) ELSE mem
      m2    == [m1 EXCEPT ![a].used = TRUE]
  IN  /\ mem' = m2
      /\ used_mem' = used_mem + size + SIZEOF_STRUCT_MEM
      /\ lfree' = IF a = lfree THEN Min({b \in Free(m2) \cup {heap_end} : a < b}) ELSE lfree

(* The block at a is allocated, what remains of it split off if it can     *)
(* hold data; if lfree pointed to it, it goes on to the next free block.   *)
Take(a, size) ==
  LET split == Room(a) >= size + SIZEOF_STRUCT_MEM + MIN_SIZE_ALIGNED
      m1    == IF split THEN Split(mem, a, a + SIZEOF_STRUCT_MEM + size) ELSE mem
      m2    == [m1 EXCEPT ![a].used = TRUE]
  IN  /\ mem' = m2
      /\ used_mem' = used_mem + m2[a].next - a
      /\ lfree' = IF a = lfree THEN Min({b \in Free(m2) \cup {heap_end} : a < b}) ELSE lfree

Kept == hidden' = (hidden /\ FreeBelow(mem', lfree'))

(* rt_malloc, and rt_calloc, which clears the block: nothing happens if    *)
(* the size is 0 or too large or no block fits.                            *)
rt_malloc(size) ==
  /\ size > 0 /\ size <= mem_size_aligned /\ Fitting(Raised(size)) # {}
  /\ LET a == Min(Fitting(Raised(size)))
     IN  /\ Take(a, Raised(size))
         /\ held' = Put(held, a, size)
  /\ Kept /\ UNCHANGED moved

(* Mutant: lfree is not lowered. *)
ReleaseAbove(a) ==
  LET m == [mem EXCEPT ![a].used = FALSE]
      x == plug_holes(m, lfree, a)
  IN  /\ mem' = x.mem /\ lfree' = x.lfree
      /\ used_mem' = used_mem - (m[a].next - a)

Release(a) ==
  LET m == [mem EXCEPT ![a].used = FALSE]
      x == plug_holes(m, IF a < lfree THEN a ELSE lfree, a)
  IN  /\ mem' = x.mem /\ lfree' = x.lfree
      /\ used_mem' = used_mem - (m[a].next - a)

Forget(h, a) == Restrict(h, DOMAIN h \ {a})

rt_free(a) ==
  /\ a \in DOMAIN held
  /\ Release(a)
  /\ held' = Forget(held, a)
  /\ Kept /\ UNCHANGED moved

(* rt_realloc of a block whose end can be cut off: newsize + SIZEOF +      *)
(* MIN_SIZE (12 bytes, one unit and a half) < size.                        *)
Shrinks(a, newsize) ==
  /\ newsize # Room(a)
  /\ newsize + SIZEOF_STRUCT_MEM + MIN_SIZE_ALIGNED <= Room(a)

ReallocShrink(a, newsize) ==
  /\ a \in DOMAIN held /\ Shrinks(a, newsize)
  /\ LET b == a + SIZEOF_STRUCT_MEM + newsize
         x == plug_holes(Split(mem, a, b), lfree, b)
     IN  mem' = x.mem /\ lfree' = x.lfree
  /\ used_mem' = used_mem - (Room(a) - newsize)
  /\ held' = [held EXCEPT ![a] = newsize]
  /\ hidden' = FreeBelow(mem', lfree')
  /\ UNCHANGED moved

(* rt_realloc that moves the block, also to a smaller place: it keeps the  *)
(* old one if rt_malloc finds none.                                        *)
ReallocMove(a, newsize) ==
  /\ a \in DOMAIN held /\ newsize # Room(a) /\ ~Shrinks(a, newsize)
  /\ newsize > 0 /\ newsize <= mem_size_aligned /\ Fitting(Raised(newsize)) # {}
  /\ LET b == Min(Fitting(Raised(newsize)))
     IN  /\ Take(b, Raised(newsize))
         /\ held' = Put(Forget(held, a), b, newsize)
  /\ moved' = moved \cup {a}
  /\ Kept

ReallocFree(a) ==
  /\ a \in moved
  /\ Release(a)
  /\ moved' = moved \ {a}
  /\ Kept /\ UNCHANGED held

(* rt_realloc that finds the block of the right size already. *)
ReallocSame(a, newsize) ==
  /\ a \in DOMAIN held /\ newsize = Room(a)
  /\ held' = [held EXCEPT ![a] = newsize]
  /\ UNCHANGED <<mem, lfree, used_mem, moved, hidden>>

Next ==
  \/ \E size \in Sizes : rt_malloc(size)
  \/ \E a \in DOMAIN held :
       \/ rt_free(a)
       \/ \E size \in Sizes :
            ReallocShrink(a, size) \/ ReallocMove(a, size) \/ ReallocSame(a, size)
  \/ \E a \in moved : ReallocFree(a)

Spec == Init /\ [][Next]_vars
-----------------------------------------------------------------------------
(* Properties *)

Blocks == DOMAIN mem \ {heap_end}

(* The heap is well formed after every sequence of calls: next leads from  *)
(* each block to the block behind it and prev back, no block is smaller    *)
(* than its header, free neighbours have been merged, and the allocated    *)
(* blocks are the ones the program holds or has moved, each with the room  *)
(* it asked for.                                                           *)
HeapOK ==
  /\ \A a \in Blocks :
       /\ mem[a].next = Min({b \in DOMAIN mem : b > a})
       /\ mem[a].prev = IF a = 0 THEN 0 ELSE Max({b \in Blocks : b < a})
       /\ Room(a) >= 0
       /\ mem[a].used \/ mem[mem[a].next].used
  /\ 0 \in Blocks /\ lfree \in DOMAIN mem
  /\ Blocks \ Free(mem) = DOMAIN held \cup moved
  /\ \A a \in DOMAIN held : a \notin moved /\ Room(a) >= held[a]

(* lfree points to the lowest free block, or to the end of a heap that has *)
(* none: only a rt_realloc that shrinks a block may leave one below it,    *)
(* which rt_malloc then does not see.                                      *)
LowestFree ==
  /\ FreeBelow(mem, lfree) => hidden
  /\ lfree \in Free(mem) \cup {heap_end}

(* The space of the block at a, with its header, if one is allocated there. *)
Space(m, a) == IF a \in DOMAIN m /\ m[a].used THEN m[a].next - a ELSE 0

(* The space of the allocated blocks below n, added up address by address. *)
SpaceBelow(m) == LET F[n \in 0 .. heap_end] == IF n = 0 THEN 0 ELSE F[n - 1] + Space(m, n - 1)
                 IN  F

(* used_mem, from which list_mem reports what is left, is the space of the *)
(* allocated blocks with their headers.                                    *)
UsedCounted == used_mem = SpaceBelow(mem)[heap_end]

=============================================================================
