------------------------------ MODULE MemPool -------------------------------
(***************************************************************************)
(* A memory pool (mempool.c): blocks of one size, threads that wait for a  *)
(* block, and a free, by a thread or an interrupt handler, that wakes the  *)
(* last of them.  Unlike a mailbox, a woken thread does not look again: it *)
(* takes the first block of the list.  If another thread has taken the     *)
(* last one meanwhile, it follows a null pointer; and as a timeout does    *)
(* not count down suspend_thread_count, a free may take the head of an     *)
(* empty list for a thread.  Only allocated blocks are freed.              *)
(***************************************************************************)
EXTENDS IpcObject

CONSTANTS MP_BLOCKS, \* mp->block_total_count
          MaxPended  \* bound: a thread waits while suspend_thread_count is below it

ASSUME MemPoolAssumption == MP_BLOCKS \in Nat \ {0} /\ MaxPended \in Nat

VARIABLE mp \* list (block_list), free (block_free_count), pended
            \* (suspend_thread_count), and used: the blocks handed out

poolVars == <<k, pc, object, mp>>

BlockSet == 1 .. MP_BLOCKS

(* rt_mp_init, rt_mp_create *)
FreshPool ==
  [list |-> [i \in BlockSet |-> i], free |-> MP_BLOCKS, pended |-> 0, used |-> {}]

PoolStart == mp = FreshPool

rt_mp_init == InitObject /\ mp' = FreshPool

(* The first block of the list. *)
PopBlock(p) ==
  [p EXCEPT !.free = @ - 1, !.list = Tail(@), !.used = @ \cup {Head(p.list)}]

rt_mp_alloc(time) ==
  /\ Calls /\ Usable
  /\ \/ /\ mp.free > 0
        /\ mp' = PopBlock(mp)
        /\ UNCHANGED <<k, pc>>
     \/ /\ mp.free = 0 /\ time # "none" /\ mp.pended < MaxPended
        /\ LET s == rt_thread_suspend(k, me)
           IN  k' = [s EXCEPT !.wait[receivers] = <<me>> \o @,
                              !.timer = IF time = "ticks" THEN @ \cup {me} ELSE @]
        /\ mp' = [mp EXCEPT !.pended = @ + 1]
        /\ Goto("block", receivers)
  /\ UNCHANGED object

(* The end of rt_mp_alloc after a wait, which does not look at the counter *)
(* again: the first block of an empty list is a null pointer.              *)
AllocReturn ==
  /\ At("woken") /\ pc[me].on = {receivers}
  /\ \/ k.error[me] # "EOK" /\ UNCHANGED <<k, mp>> /\ Return
     \/ k.error[me] = "EOK" /\ mp.list # <<>> /\ mp' = PopBlock(mp) /\ UNCHANGED k /\ Return
     \/ k.error[me] = "EOK" /\ mp.list = <<>> /\ k' = Astray(k) /\ UNCHANGED <<mp, pc>>
  /\ UNCHANGED object

(* Mutant: forgets to count the block. *)
PushBlockUncounted(p, b) == [p EXCEPT !.list = <<b>> \o @, !.used = @ \ {b}]

PushBlock(p, b) == [p EXCEPT !.free = @ + 1, !.list = <<b>> \o @, !.used = @ \ {b}]

(* rt_mp_free when nobody is pended, and when the counter says that a      *)
(* thread is and the first entry of the list is taken for it: it is        *)
(* counted down after rt_thread_resume.                                    *)
FreeUnpended(b) == mp.pended = 0 /\ mp' = PushBlock(mp, b) /\ UNCHANGED <<k, pc>>

FreePended(b) == mp.pended > 0 /\ mp' = [PushBlock(mp, b) EXCEPT !.pended = @ - 1]

FreeFollowsHead(b) == mp.pended > 0 /\ FollowsHead(receivers) /\ mp' = PushBlock(mp, b)

(* rt_mp_free up to its rt_schedule *)
rt_mp_free(b) ==
  /\ Calls /\ Usable /\ b \in mp.used
  /\ \/ FreeUnpended(b) \/ FreeFollowsHead(b)
     \/ FreePended(b) /\ k' = ResumeFirst(receivers, "EOK") /\ Goto("sched", receivers)
  /\ UNCHANGED object

FreeInHandler(b) ==
  /\ k.isr /\ Usable /\ b \in mp.used
  /\ \/ FreeUnpended(b) \/ FreeFollowsHead(b)
     \/ FreePended(b) /\ k' = rt_schedule(ResumeFirst(receivers, "EOK")) /\ UNCHANGED pc
  /\ UNCHANGED object

(* rt_mp_detach, rt_mp_delete *)
rt_mp_detach ==
  \/ (Detach(receivers) \/ DetachObject(receivers)) /\ UNCHANGED mp
  \/ DetachTest(receivers) /\ UNCHANGED <<mp, object>>
  \/ /\ DetachBody(receivers)
     /\ mp' = IF k'.astray THEN mp ELSE [mp EXCEPT !.pended = @ - 1]
     /\ UNCHANGED object

PoolInit == ObjectInit("pool") /\ PoolStart

PoolNext ==
  \/ \E time \in Time : rt_mp_alloc(time)
  \/ \E b \in BlockSet : rt_mp_free(b) \/ FreeInHandler(b)
  \/ AllocReturn \/ rt_mp_detach \/ rt_mp_init
  \/ (ObjectCall \/ (Schedule /\ UNCHANGED object)) /\ UNCHANGED mp

PoolSpec == PoolInit /\ [][PoolNext]_poolVars
-----------------------------------------------------------------------------
PoolTypeOK ==
  /\ ObjectTypeOK({})
  /\ mp \in [ list : Seq(BlockSet), free : 0 .. MP_BLOCKS,
              pended : 0 .. MaxPended, used : SUBSET BlockSet ]

(* Whatever timeouts and other threads come between: every block is on the *)
(* list once or in use and the counter counts the list; nobody waits for a *)
(* block that no woken thread is on its way to; and rt_mp_free forgets no  *)
(* waiter, for suspend_thread_count may be stale but is never too small.   *)
BlocksAccounted ==
  /\ \A b \in BlockSet :
       Cardinality({i \in DOMAIN mp.list : mp.list[i] = b}) = IF b \in mp.used THEN 0 ELSE 1
  /\ mp.free = Len(mp.list)
  /\ kind = "pool" => Served(mp.free, receivers) /\ Len(k.wait[receivers]) <= mp.pended

=============================================================================
