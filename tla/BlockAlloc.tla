----------------------------- MODULE BlockAlloc -----------------------------
(***************************************************************************)
(* The block bitmap under its most general well-behaved caller: any thread *)
(* may ask for a block at any goal, with or without preallocation, and may *)
(* free any run of blocks, inside one group, that callers own.             *)
(***************************************************************************)
EXTENDS BlockBitmap

CONSTANT Goals     \* the goals callers pass to ext2_new_block

VARIABLE own       \* blocks handed to callers and not given back

vars == <<inuse, bg_free, s_free, buf, pc, req, ret, own>>

Init == own = {} /\ AllocInit(Meta)

CallNewBlock(t) ==
  /\ \E goal \in Goals, pre \in BOOLEAN : NewBlock(t, goal, pre)
  /\ UNCHANGED own

\* The caller gives up a run of its blocks (ext2_blkfree, ext2_discard_prealloc).
CallFreeBlocks(t) ==
  \E g \in Groups : \E b, e \in own \cap GroupBlocks(g) :
    /\ b <= e /\ b .. e \subseteq own
    /\ own' = own \ (b .. e)
    /\ FreeBlocks(t, b, e - b + 1)

\* The call returns to the caller.
Return(t) ==
  /\ pc[t] = "done"
  /\ own' = own \cup RetBlocks(ret[t])
  /\ ret' = [ret EXCEPT ![t] = NoRet]
  /\ req' = [req EXCEPT ![t] = [grp |-> 0, bit |-> 0, cnt |-> 0, pre |-> FALSE]]
  /\ Goto(t, "idle")
  /\ UNCHANGED <<bitmapVars, buf>>

Step(t) == AllocStep(t) /\ UNCHANGED own

Next == \E t \in Threads : CallNewBlock(t) \/ CallFreeBlocks(t) \/ Return(t) \/ Step(t)

Spec == Init /\ [][Next]_vars

\* A thread inside a call is scheduled as long as it can run.
FairSpec == Spec /\ \A t \in Threads : WF_vars(Step(t))
-----------------------------------------------------------------------------
\* Every block marked in use in the bitmaps is file-system metadata, or belongs
\* to a caller, or is in transit in exactly one call: ext2_new_block never hands
\* out a block twice, and neither routine loses one.
Partition ==
  /\ inuse = Meta \cup own \cup UNION {Held(t) : t \in Threads}
  /\ own \cap Meta = {}
  /\ \A t \in Threads : Held(t) \cap (Meta \cup own) = {}
  /\ \A t, u \in Threads : t # u => Held(t) \cap Held(u) = {}

\* The group descriptors' and the superblock's free counts equal the clear bits
\* of the bitmaps whenever the superblock is unlocked.
CountsExact ==
  /\ \A g \in Groups : bg_free[g] = Cardinality(GroupBlocks(g) \ inuse)
  /\ s_free = Cardinality(Blocks \ inuse)

\* None of the panics of the two routines is reached: no allocation in a system
\* zone, no free across groups or in a system zone.
NoPanic == \A t \in Threads : pc[t] # "panic"

\* A free in progress is about a run inside its group and returns no block.
FreeWellFormed ==
  \A t \in Threads : pc[t] \in {"freeread", "free"} =>
    ret[t].blk = 0 /\ FreeRun(t) \subseteq GroupBlocks(req[t].grp)

\* A bitmap buffer is busy exactly while one thread works on it.
BufferOwned ==
  \A g \in Groups, t \in Threads :
    buf[g] = t <=> pc[t] \in Working \cup {"write"} /\ req[t].grp = g

\* "All groups full" (ext2_linux_balloc.c:423) is decided from the counters
\* without looking at a bitmap: when it is returned, no block is free.
FullMeansFull ==
  [][\A t \in Threads :
       (pc[t] \in {"idle", "goal"} /\ pc'[t] = "done" /\ ret'[t].blk = 0 /\ own' = own)
         => inuse = Blocks]_vars

\* Whenever threads are inside the allocator one of the calls completes: the
\* waits for the superblock and for bitmap buffers never block everyone.
SomeCallReturns ==
  (\E t \in Threads : pc[t] # "idle") ~> (\E t \in Threads : pc[t] = "done")

\* What the message of ext2_linux_balloc.c:444 says: the scan gives up with "Free
\* blocks count corrupted for block group" only when that count is wrong.
CorruptedMeansCorrupted ==
  [][\A t \in Threads :
       (pc[t] = "scan" /\ pc'[t] = "write" /\ ret'[t].blk = 0)
         => bg_free[req[t].grp] # Cardinality(GroupBlocks(req[t].grp) \ inuse)]_vars
=============================================================================
