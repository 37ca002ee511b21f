---------------------------- MODULE BlockBitmap ----------------------------
(***************************************************************************)
(* The block bitmaps of a mounted ext2 volume and the two routines that    *)
(* change them, ext2_new_block and ext2_free_blocks                        *)
(* (src/src/gnu/ext2fs/ext2_linux_balloc.c).                               *)
(*                                                                         *)
(* A call runs under the superblock mutex, which read_block_bitmap drops   *)
(* while it waits for the bitmap's buffer.  Nothing else in either routine *)
(* blocks, so what happens between two such waits is one step here.  The   *)
(* buffer is busy, so private to the caller, from buf_meta_bread until     *)
(* buf_bdwrite, buf_bwrite or buf_brelse.                                  *)
(*                                                                         *)
(* The scaled widths keep the proportions of the code: ByteBits for the 8  *)
(* bits memscan looks at together, GoalAlign for the 64 bits of the goal   *)
(* window.  Bits past the last block of the volume are set by mke2fs and   *)
(* never cleared: they count as set, which makes the branch at             *)
(* ext2_linux_balloc.c:539 unreachable, and it is left out.  So is "bit    *)
(* already set" (486-494): the bit was just seen clear in a busy buffer.   *)
(***************************************************************************)
EXTENDS Integers, FiniteSets

CONSTANTS
  Threads,          \* kernel threads inside the allocator
  NoThread,         \* "the buffer is not busy"
  FirstDataBlock,   \* s_first_data_block
  BlocksCount,      \* s_blocks_count
  BlocksPerGroup,   \* EXT2_BLOCKS_PER_GROUP
  GroupsCount,      \* s_groups_count
  ByteBits,         \* bits in a bitmap byte (8)
  GoalAlign,        \* alignment of the goal window (64)
  PreallocGoal,     \* s_prealloc_blocks, or its default
  Meta              \* superblocks, descriptors, bitmaps, inode tables

Blocks == FirstDataBlock .. BlocksCount - 1
Groups == 0 .. GroupsCount - 1
Bits   == 0 .. BlocksPerGroup - 1

Blk(g, j) == FirstDataBlock + g * BlocksPerGroup + j

GroupBlocks(g) == {b \in Blocks : Blk(g, 0) <= b /\ b < Blk(g, BlocksPerGroup)}

ASSUME GeometryAssumption ==
  /\ NoThread \notin Threads
  /\ FirstDataBlock \in Nat /\ BlocksCount \in Nat
  /\ BlocksPerGroup \in Nat \ {0} /\ GroupsCount \in Nat \ {0}
  /\ BlocksCount > Blk(GroupsCount - 1, 0)
  /\ BlocksCount <= Blk(GroupsCount, 0)
  /\ PreallocGoal \in Nat \ {0}
  /\ Meta \subseteq Blocks
  /\ 0 \notin Blocks \ Meta       \* block 0, when it exists, is the boot block

ASSUME AlignAssumption ==
  /\ ByteBits \in Nat \ {0} /\ GoalAlign \in Nat \ {0}
  /\ GoalAlign % ByteBits = 0 /\ BlocksPerGroup % GoalAlign = 0

VARIABLES
  inuse,    \* the blocks whose bitmap bit is set
  bg_free,  \* bg_free_blocks_count of each group
  s_free,   \* s_free_blocks_count
  buf,      \* who has each group's bitmap buffer busy
  pc,       \* where each thread is
  req,      \* its arguments and locals that survive a wait
  ret       \* what its call returns

bitmapVars == <<inuse, bg_free, s_free>>
allocVars  == <<inuse, bg_free, s_free, buf, pc, req, ret>>

Waiting == {"goalread", "scanread", "freeread"}
Working == {"goal", "scan", "free"}
Req == [grp : Groups, bit : Bits, cnt : Nat, pre : BOOLEAN]
Ret == [blk : Blocks \cup {0}, pset : BOOLEAN, pblk : Nat, pcnt : Nat]

NoRet == [blk |-> 0, pset |-> FALSE, pblk |-> 0, pcnt |-> 0]

\* Type invariant: the counts never go below zero, no bit past the volume's end
\* is set by an allocation, and a block returned is one of the volume or 0.
TypeOK ==
  /\ inuse \in SUBSET Blocks
  /\ bg_free \in [Groups -> Nat]
  /\ s_free \in Nat
  /\ buf \in [Groups -> Threads \cup {NoThread}]
  /\ pc \in [Threads -> {"idle", "write", "done", "panic"} \cup Waiting \cup Working]
  /\ req \in [Threads -> Req]
  /\ ret \in [Threads -> Ret]

\* A volume with some set of blocks in use and counters that agree with it, as
\* e2fsck leaves it; no call is in progress.
AllocInit(used) ==
  /\ inuse = used
  /\ bg_free = [g \in Groups |-> Cardinality(GroupBlocks(g) \ used)]
  /\ s_free = Cardinality(Blocks \ used)
  /\ buf = [g \in Groups |-> NoThread]
  /\ pc = [t \in Threads |-> "idle"]
  /\ req = [t \in Threads |-> [grp |-> 0, bit |-> 0, cnt |-> 0, pre |-> FALSE]]
  /\ ret = [t \in Threads |-> NoRet]
-----------------------------------------------------------------------------
(***************************************************************************)
(* The bitmap searches of ext2_new_block.  Each is the set of the one bit  *)
(* it finds, or empty.                                                     *)
(***************************************************************************)
Least(S) == {x \in S : \A y \in S : x <= y}

\* Mutant of Zero: the padding bits past the last block are not set.
ZeroPadding(g) == {j \in Bits : Blk(g, j) \notin inuse}

Zero(g) == {j \in Bits : Blk(g, j) \in Blocks \ inuse}

\* Aligned bytes of the bitmap at or after bit "from" that are all clear (memscan).
FreeBytes(g, from) ==
  {j \in Bits : j >= from /\ j % ByteBits = 0 /\ j .. (j + ByteBits - 1) \subseteq Zero(g)}

\* search_back: the start of the clear run that ends at b, at most one byte back.
SearchBack(g, b) == Least({j \in Zero(g) : j <= b /\ b - j < ByteBits /\ j .. b \subseteq Zero(g)})

\* First clear byte at or after "from", then back; otherwise the first clear bit.
SearchGroup(g, from) ==
  IF FreeBytes(g, from) # {}
  THEN UNION {SearchBack(g, b) : b \in Least(FreeBytes(g, from))}
  ELSE Least({j \in Zero(g) : j >= from})

WindowEnd(j) == ((j + GoalAlign - 1) \div GoalAlign) * GoalAlign

\* The goal bit, else a clear bit up to the next aligned boundary (not for bit
\* 0), else the rest of the group from that boundary.
SearchGoal(g, j) ==
  IF j \in Zero(g) THEN {j}
  ELSE LET near == {i \in Zero(g) : j <= i /\ i < WindowEnd(j)}
       IN  IF near # {} /\ j # 0 THEN Least(near) ELSE SearchGroup(g, WindowEnd(j))

\* Mutant of IsPrealloc: the loop does not stop at a bit that is set.
IsPreallocBlind(g, j, n) == n + 1 = PreallocGoal

\* n blocks right after bit j are preallocated: the clear bits that follow, up
\* to PreallocGoal blocks in all and never past the group.
IsPrealloc(g, j, n) ==
  /\ (j + 1) .. (j + n) \subseteq Zero(g)
  /\ n + 1 = PreallocGoal \/ j + n + 1 \notin Zero(g)
-----------------------------------------------------------------------------
Goto(t, l) == pc' = [pc EXCEPT ![t] = l]

\* Mutant of ScanFrom: the scan does not come back to the group it started from.
ScanFromOthers(t, i, pre) ==
  LET after(d) == IF i + d < GroupsCount THEN i + d ELSE i + d - GroupsCount
      some     == {d \in 1 .. GroupsCount - 1 : bg_free[after(d)] > 0}
  IN  \/ \E d \in Least(some) :
           /\ req' = [req EXCEPT ![t] = [grp |-> after(d), bit |-> 0, cnt |-> 0, pre |-> pre]]
           /\ Goto(t, "scanread")
           /\ UNCHANGED ret
      \/ /\ some = {}
         /\ ret' = [ret EXCEPT ![t] = NoRet]
         /\ Goto(t, "done")
         /\ UNCHANGED req

\* The loop over the other groups: the first one after i, cyclically and with i
\* itself last, whose descriptor counts a free block; 0 when there is none.
ScanFrom(t, i, pre) ==
  LET after(d) == IF i + d < GroupsCount THEN i + d ELSE i + d - GroupsCount
      some     == {d \in 1 .. GroupsCount : bg_free[after(d)] > 0}
  IN  \/ \E d \in Least(some) :
           /\ req' = [req EXCEPT ![t] = [grp |-> after(d), bit |-> 0, cnt |-> 0, pre |-> pre]]
           /\ Goto(t, "scanread")
           /\ UNCHANGED ret
      \/ /\ some = {}
         /\ ret' = [ret EXCEPT ![t] = NoRet]
         /\ Goto(t, "done")
         /\ UNCHANGED req

\* ext2_new_block up to its first wait: clamp the goal, look at the descriptor
\* of its group, and go for that group's bitmap or for another group.
NewBlock(t, goal, pre) ==
  LET g0 == IF goal \in Blocks THEN goal ELSE FirstDataBlock
  IN  \E i \in Groups :
        /\ pc[t] = "idle"
        /\ g0 \in GroupBlocks(i)
        /\ \/ /\ bg_free[i] > 0
              /\ req' = [req EXCEPT ![t] = [grp |-> i, bit |-> g0 - Blk(i, 0), cnt |-> 0, pre |-> pre]]
              /\ Goto(t, "goalread")
              /\ UNCHANGED ret
           \/ bg_free[i] = 0 /\ ScanFrom(t, i, pre)
        /\ UNCHANGED <<bitmapVars, buf>>

\* Mutant of ReadBitmap: the buffer is used without waiting for it.
ReadBitmapBusy(t) ==
  /\ pc[t] \in Waiting
  /\ buf' = [buf EXCEPT ![req[t].grp] = t]
  /\ Goto(t, IF pc[t] = "goalread" THEN "goal" ELSE IF pc[t] = "scanread" THEN "scan" ELSE "free")
  /\ UNCHANGED <<bitmapVars, req, ret>>

\* read_block_bitmap: the superblock is unlocked and the buffer becomes ours.
ReadBitmap(t) ==
  /\ pc[t] \in Waiting
  /\ buf[req[t].grp] = NoThread
  /\ buf' = [buf EXCEPT ![req[t].grp] = t]
  /\ Goto(t, IF pc[t] = "goalread" THEN "goal" ELSE IF pc[t] = "scanread" THEN "scan" ELSE "free")
  /\ UNCHANGED <<bitmapVars, req, ret>>

\* got_block: set the bit and the preallocated ones and adjust both counters.
\* The superblock is unlocked; the buffer is still to be written.
Commit(t, g, j) ==
  \E n \in 0 .. PreallocGoal - 1 :
    /\ IF req[t].pre THEN IsPrealloc(g, j, n) ELSE n = 0
    /\ inuse' = inuse \cup (Blk(g, j) .. Blk(g, j) + n)
    /\ bg_free' = [bg_free EXCEPT ![g] = @ - (n + 1)]
    /\ s_free' = s_free - (n + 1)
    /\ ret' = [ret EXCEPT ![t] =
                 [blk  |-> Blk(g, j), pset |-> req[t].pre,
                  pblk |-> IF req[t].pre THEN Blk(g, j) + 1 ELSE 0, pcnt |-> n]]
    /\ Goto(t, IF Blk(g, j) \in Meta THEN "panic" ELSE "write")
    /\ UNCHANGED <<buf, req>>

\* The goal's group, with its bitmap in hand and the superblock locked again.
GoalSearch(t) ==
  LET g == req[t].grp
      found == SearchGoal(g, req[t].bit)
  IN  /\ pc[t] = "goal"
      /\ \/ \E j \in found : Commit(t, g, j)
         \/ /\ found = {}
            /\ buf' = [buf EXCEPT ![g] = NoThread]
            /\ ScanFrom(t, g, req[t].pre)
            /\ UNCHANGED bitmapVars

\* A group the scan chose by its counter.  A full bitmap ends the call with 0
\* ("Free blocks count corrupted").
ScanSearch(t) ==
  LET g == req[t].grp
      found == SearchGroup(g, 0)
  IN  /\ pc[t] = "scan"
      /\ \/ \E j \in found : Commit(t, g, j)
         \/ /\ found = {}
            /\ ret' = [ret EXCEPT ![t] = NoRet]
            /\ Goto(t, "write")
            /\ UNCHANGED <<bitmapVars, buf, req>>

\* Mutant of ReleaseBitmap: the buffer is never given back.
ReleaseForgotten(t) ==
  /\ pc[t] = "write"
  /\ Goto(t, "done")
  /\ UNCHANGED <<bitmapVars, buf, req, ret>>

\* buf_bdwrite, buf_bwrite or buf_brelse after unlock_super; the call returns.
ReleaseBitmap(t) ==
  /\ pc[t] = "write"
  /\ buf' = [buf EXCEPT ![req[t].grp] = NoThread]
  /\ Goto(t, "done")
  /\ UNCHANGED <<bitmapVars, req, ret>>

\* ext2_free_blocks up to its wait.  A range outside the data zone is ignored,
\* one that leaves its group is a panic.
FreeBlocks(t, block, count) ==
  /\ pc[t] = "idle"
  /\ ret' = [ret EXCEPT ![t] = NoRet]
  /\ IF block \notin Blocks \/ block + count > BlocksCount
     THEN Goto(t, "done") /\ UNCHANGED req
     ELSE \E g \in Groups :
            /\ block \in GroupBlocks(g)
            /\ req' = [req EXCEPT ![t] = [grp |-> g, bit |-> block - Blk(g, 0), cnt |-> count, pre |-> FALSE]]
            /\ Goto(t, IF block + count > Blk(g, BlocksPerGroup) THEN "panic" ELSE "freeread")
  /\ UNCHANGED <<bitmapVars, buf>>

\* Mutant of FreeRun: one block too many.
FreeRunLong(t) ==
  LET b == Blk(req[t].grp, req[t].bit) IN b .. b + req[t].cnt

\* The run of blocks a free in progress is about.
FreeRun(t) ==
  LET b == Blk(req[t].grp, req[t].bit) IN b .. b + req[t].cnt - 1

\* Mutant of FreeBits: the group's count goes up by one for the whole run.
FreeBitsOnce(t) ==
  LET hit == FreeRun(t) \cap inuse
      g   == req[t].grp
  IN  /\ pc[t] = "free"
      /\ inuse' = inuse \ hit
      /\ bg_free' = [bg_free EXCEPT ![g] = @ + 1]
      /\ s_free' = s_free + Cardinality(hit)
      /\ Goto(t, IF FreeRun(t) \cap Meta # {} THEN "panic" ELSE "write")
      /\ UNCHANGED <<buf, req, ret>>

\* The loop that clears the bits: only a bit that was set is counted.
FreeBits(t) ==
  LET hit == FreeRun(t) \cap inuse
      g   == req[t].grp
  IN  /\ pc[t] = "free"
      /\ inuse' = inuse \ hit
      /\ bg_free' = [bg_free EXCEPT ![g] = @ + Cardinality(hit)]
      /\ s_free' = s_free + Cardinality(hit)
      /\ Goto(t, IF FreeRun(t) \cap Meta # {} THEN "panic" ELSE "write")
      /\ UNCHANGED <<buf, req, ret>>

\* The steps of a call in progress.
AllocStep(t) ==
  ReadBitmap(t) \/ GoalSearch(t) \/ ScanSearch(t) \/ FreeBits(t) \/ ReleaseBitmap(t)

\* Blocks a finished ext2_new_block hands over: the block and its preallocation.
RetBlocks(r) == IF r.blk = 0 THEN {} ELSE r.blk .. r.blk + r.pcnt

\* What is in transit between the bitmap and the caller: allocated and not yet
\* handed over, or given up by the caller and not yet cleared.
Held(t) ==
  IF pc[t] \in {"write", "done"} THEN RetBlocks(ret[t])
  ELSE IF pc[t] \in {"freeread", "free"} THEN FreeRun(t)
  ELSE {}
=============================================================================
