-------------------------- MODULE BlockAllocProofs --------------------------
(***************************************************************************)
(* Proofs about BlockAlloc for every geometry and every number of threads. *)
(***************************************************************************)
EXTENDS BlockAlloc, BlockBitmapProofs, FiniteSetTheorems

USE GeometryAssumption
-----------------------------------------------------------------------------
(***************************************************************************)
(* The free counts.                                                        *)
(***************************************************************************)

\* The sets whose sizes are counted are finite.
LEMMA FiniteBlocks ==
  /\ IsFiniteSet(Blocks)
  /\ \A g \in Groups : IsFiniteSet(GroupBlocks(g))
<1>1. IsFiniteSet(Blocks)
  BY FS_Interval DEF Blocks
<1>2. QED BY <1>1, FS_Subset DEF GroupBlocks

\* How the free counts change when S, blocks of group g, leaves the free set:
\* the counts of g and of the volume fall by its size, no other group's do.
CountsFall(before, after, g, S) ==
  /\ Cardinality(GroupBlocks(g) \ after) = Cardinality(GroupBlocks(g) \ before) - Cardinality(S)
  /\ Cardinality(Blocks \ after) = Cardinality(Blocks \ before) - Cardinality(S)
  /\ \A h \in Groups \ {g} : GroupBlocks(h) \ after = GroupBlocks(h) \ before
  /\ Cardinality(S) \in Nat
  /\ Cardinality(S) <= Cardinality(GroupBlocks(g) \ before)
  /\ Cardinality(S) <= Cardinality(Blocks \ before)

\* Setting the bits of free blocks of one group lowers the counts by their number.
LEMMA TakeCounts ==
  ASSUME NEW used \in SUBSET Blocks, NEW g \in Groups,
         NEW S \in SUBSET (GroupBlocks(g) \ used)
  PROVE  CountsFall(used, used \cup S, g, S)
<1>1. /\ IsFiniteSet(GroupBlocks(g) \ used)
      /\ IsFiniteSet(Blocks \ used)
      /\ S \subseteq Blocks \ used
  BY FiniteBlocks, FS_Difference DEF GroupBlocks
<1>2. /\ Cardinality(S) \in Nat
      /\ Cardinality(S) <= Cardinality(GroupBlocks(g) \ used)
      /\ Cardinality(S) <= Cardinality(Blocks \ used)
  BY <1>1, FS_Subset, FS_CardinalityType
<1>3. /\ GroupBlocks(g) \ (used \cup S) = (GroupBlocks(g) \ used) \ S
      /\ (GroupBlocks(g) \ used) \cap S = S
      /\ Blocks \ (used \cup S) = (Blocks \ used) \ S
      /\ (Blocks \ used) \cap S = S
  BY <1>1
<1>4. \A h \in Groups \ {g} : GroupBlocks(h) \ (used \cup S) = GroupBlocks(h) \ used
  BY GroupsDisjoint
<1>5. QED BY <1>1, <1>2, <1>3, <1>4, FS_Difference DEF CountsFall

\* Clearing the bits of used blocks of one group raises them by their number.
LEMMA GiveCounts ==
  ASSUME NEW used \in SUBSET Blocks, NEW g \in Groups,
         NEW S \in SUBSET (GroupBlocks(g) \cap used)
  PROVE  CountsFall(used \ S, used, g, S)
<1>1. (used \ S) \in SUBSET Blocks /\ S \in SUBSET (GroupBlocks(g) \ (used \ S)) /\ (used \ S) \cup S = used
  OBVIOUS
<1>2. CountsFall(used \ S, (used \ S) \cup S, g, S)
  BY <1>1, TakeCounts
<1>3. QED BY <1>1, <1>2
-----------------------------------------------------------------------------
(***************************************************************************)
(* The inductive invariant.  The counters stay natural numbers only        *)
(* because they are exact, they stay exact only because a free clears      *)
(* bits of the group it counts, and both rest on the partition: the type,  *)
(* the partition and the counts are one induction.                         *)
(***************************************************************************)
IInv == TypeOK /\ Partition /\ CountsExact /\ NoPanic /\ FreeWellFormed

\* A step of thread t leaves what another thread holds alone.
LEMMA HeldFrame ==
  ASSUME NEW u \in Threads, pc'[u] = pc[u], req'[u] = req[u], ret'[u] = ret[u]
  PROVE  Held(u)' = Held(u)
BY DEF Held, FreeRun, RetBlocks

\* A step of thread t keeps the partition if what t and the callers have
\* afterwards is disjoint, avoids everyone else's blocks, and makes up the rest
\* of the blocks in use.
LEMMA PartitionStep ==
  ASSUME Partition, NEW t \in Threads,
         \A u \in Threads \ {t} : Held(u)' = Held(u),
         inuse' = ((inuse \ own) \ Held(t)) \cup own' \cup Held(t)',
         own' \cap Held(t)' = {},
         (own' \cup Held(t)') \cap ((inuse \ own) \ Held(t)) = {}
  PROVE  Partition'
<1> DEFINE rest == (inuse \ own) \ Held(t)
           others == UNION {Held(u) : u \in Threads \ {t}}
<1>1. rest = Meta \cup others
  BY DEF Partition
<1>2. UNION {Held(u)' : u \in Threads} = others \cup Held(t)'
  OBVIOUS
<1>3. inuse' = Meta \cup own' \cup UNION {Held(u)' : u \in Threads}
  BY <1>1, <1>2
<1>4. own' \cap Meta = {}
  BY <1>1
<1>5. ASSUME NEW u \in Threads
      PROVE  Held(u)' \cap (Meta \cup own') = {}
  BY <1>1 DEF Partition
<1>6. ASSUME NEW u \in Threads, NEW v \in Threads, u # v
      PROVE  Held(u)' \cap Held(v)' = {}
  BY <1>1, <1>6 DEF Partition
<1>7. QED BY <1>3, <1>4, <1>5, <1>6 DEF Partition

\* A freshly mounted volume satisfies the invariant.
LEMMA InitInv == Init => IInv
<1> SUFFICES ASSUME Init PROVE IInv
  OBVIOUS
<1> USE DEF Init, AllocInit
<1>1. TypeOK
  <2>1. \A g \in Groups : Cardinality(GroupBlocks(g) \ Meta) \in Nat
    BY FiniteBlocks, FS_Difference, FS_CardinalityType
  <2>2. Cardinality(Blocks \ Meta) \in Nat
    BY FiniteBlocks, FS_Difference, FS_CardinalityType
  <2>3. QED BY <2>1, <2>2 DEF TypeOK, Req, Ret, NoRet, Groups, Bits
<1>2. \A t \in Threads : Held(t) = {}
  BY DEF Held
<1>3. Partition
  BY <1>2 DEF Partition
<1>4. QED BY <1>1, <1>3 DEF IInv, CountsExact, NoPanic, FreeWellFormed

\* What the scan of the descriptors does to the thread: it waits for the bitmap
\* of some group, or returns 0.
LEMMA ScanFromEffect ==
  ASSUME NEW t \in Threads, NEW i \in Groups, NEW pre \in BOOLEAN, ScanFrom(t, i, pre)
  PROVE  \/ \E k \in Groups :
              /\ req' = [req EXCEPT ![t] = [grp |-> k, bit |-> 0, cnt |-> 0, pre |-> pre]]
              /\ pc' = [pc EXCEPT ![t] = "scanread"]
              /\ ret' = ret
         \/ /\ ret' = [ret EXCEPT ![t] = NoRet]
            /\ pc' = [pc EXCEPT ![t] = "done"]
            /\ req' = req
<1> DEFINE after(d) == IF i + d < GroupsCount THEN i + d ELSE i + d - GroupsCount
<1>1. \A d \in 1 .. GroupsCount : after(d) \in Groups
  BY DEF Groups
<1>2. QED BY <1>1 DEF ScanFrom, Least, Goto

\* A step that changes no block, no counter and nothing another thread can see.
Quiet(t) ==
  /\ UNCHANGED <<inuse, bg_free, s_free, own>>
  /\ \A u \in Threads \ {t} : pc'[u] = pc[u] /\ req'[u] = req[u] /\ ret'[u] = ret[u]
  /\ Held(t)' = Held(t)
  /\ pc'[t] # "panic"
  /\ pc'[t] \in {"freeread", "free"} =>
       ret'[t].blk = 0 /\ FreeRun(t)' \subseteq GroupBlocks(req'[t].grp)

\* Such a step keeps the invariant if it keeps the types.
LEMMA QuietStep ==
  ASSUME IInv, NEW t \in Threads, Quiet(t), TypeOK'
  PROVE  IInv'
<1>1. Partition'
  BY HeldFrame, PartitionStep DEF IInv, Quiet, Partition
<1>2. CountsExact'
  BY DEF IInv, CountsExact, Quiet
<1>3. NoPanic' /\ FreeWellFormed'
  BY DEF IInv, Quiet, NoPanic, FreeWellFormed, FreeRun
<1>4. QED BY <1>1, <1>2, <1>3 DEF IInv

\* The scan of the descriptors changes no block.
LEMMA ScanFromInv ==
  ASSUME IInv, NEW t \in Threads, NEW i \in Groups, NEW pre \in BOOLEAN,
         Held(t) = {}, ScanFrom(t, i, pre), UNCHANGED <<bitmapVars, own>>,
         buf' \in [Groups -> Threads \cup {NoThread}]
  PROVE  IInv'
<1>1. CASE \E k \in Groups :
              /\ req' = [req EXCEPT ![t] = [grp |-> k, bit |-> 0, cnt |-> 0, pre |-> pre]]
              /\ pc' = [pc EXCEPT ![t] = "scanread"]
              /\ ret' = ret
  <2>1. TypeOK'
    BY <1>1 DEF IInv, TypeOK, Req, Bits, bitmapVars, Waiting
  <2>2. Quiet(t)
    BY <1>1 DEF IInv, TypeOK, Held, Quiet, bitmapVars
  <2>3. QED BY <2>1, <2>2, QuietStep
<1>2. CASE /\ ret' = [ret EXCEPT ![t] = NoRet]
           /\ pc' = [pc EXCEPT ![t] = "done"]
           /\ req' = req
  <2>1. TypeOK'
    BY <1>2 DEF IInv, TypeOK, Ret, NoRet, bitmapVars
  <2>2. Quiet(t)
    BY <1>2 DEF IInv, TypeOK, Held, RetBlocks, NoRet, Quiet, bitmapVars
  <2>3. QED BY <2>1, <2>2, QuietStep
<1>3. QED BY <1>1, <1>2, ScanFromEffect

\* The entry of ext2_new_block changes no block.
LEMMA NewBlockInv ==
  ASSUME IInv, NEW t \in Threads, CallNewBlock(t)
  PROVE  IInv'
<1>1. PICK goal \in Goals, pre \in BOOLEAN : NewBlock(t, goal, pre)
  BY DEF CallNewBlock
<1> DEFINE g0 == IF goal \in Blocks THEN goal ELSE FirstDataBlock
<1>2. PICK i \in Groups :
        /\ pc[t] = "idle"
        /\ g0 \in GroupBlocks(i)
        /\ \/ /\ bg_free[i] > 0
              /\ req' = [req EXCEPT ![t] = [grp |-> i, bit |-> g0 - Blk(i, 0), cnt |-> 0, pre |-> pre]]
              /\ Goto(t, "goalread")
              /\ UNCHANGED ret
           \/ bg_free[i] = 0 /\ ScanFrom(t, i, pre)
        /\ UNCHANGED <<bitmapVars, buf>>
  BY <1>1 DEF NewBlock
<1>3. UNCHANGED own /\ Held(t) = {} /\ buf' \in [Groups -> Threads \cup {NoThread}]
  BY <1>2 DEF CallNewBlock, Held, IInv, TypeOK
<1>4. CASE ScanFrom(t, i, pre)
  BY <1>2, <1>3, <1>4, ScanFromInv
<1>5. CASE /\ req' = [req EXCEPT ![t] = [grp |-> i, bit |-> g0 - Blk(i, 0), cnt |-> 0, pre |-> pre]]
           /\ Goto(t, "goalread")
           /\ UNCHANGED ret
  <2>1. g0 - Blk(i, 0) \in Bits
    BY <1>2 DEF GroupBlocks, Blk, Bits, Blocks, Groups
  <2>2. TypeOK'
    BY <1>2, <1>3, <1>5, <2>1 DEF IInv, TypeOK, Goto, Req, bitmapVars, Waiting
  <2>3. Quiet(t)
    BY <1>2, <1>3, <1>5 DEF IInv, TypeOK, Goto, Held, Quiet, bitmapVars
  <2>4. QED BY <2>2, <2>3, QuietStep
<1>6. QED BY <1>2, <1>4, <1>5

\* Getting a bitmap buffer changes no block.
LEMMA ReadBitmapInv ==
  ASSUME IInv, NEW t \in Threads, ReadBitmap(t), UNCHANGED own
  PROVE  IInv'
<1>1. TypeOK'
  BY DEF IInv, TypeOK, ReadBitmap, Goto, Req, bitmapVars, Working, Waiting
<1>2. Quiet(t)
  BY DEF IInv, TypeOK, FreeWellFormed, ReadBitmap, Goto, Held, FreeRun, Quiet, bitmapVars, Waiting
<1>3. QED BY <1>1, <1>2, QuietStep

\* Neither does giving it up: the result stays with the call.
LEMMA ReleaseBitmapInv ==
  ASSUME IInv, NEW t \in Threads, ReleaseBitmap(t), UNCHANGED own
  PROVE  IInv'
<1>1. TypeOK'
  BY DEF IInv, TypeOK, ReleaseBitmap, Goto, Req, bitmapVars
<1>2. Quiet(t)
  BY DEF IInv, TypeOK, ReleaseBitmap, Goto, Held, RetBlocks, Quiet, bitmapVars
<1>3. QED BY <1>1, <1>2, QuietStep

\* got_block takes a run of clear bits of the group: the blocks go to the call,
\* the counters fall by as many.
LEMMA CommitInv ==
  ASSUME IInv, NEW t \in Threads, NEW g \in Groups, NEW j \in Zero(g),
         Held(t) = {}, Commit(t, g, j), UNCHANGED own
  PROVE  IInv'
<1>1. PICK n \in 0 .. PreallocGoal - 1 :
        /\ IF req[t].pre THEN IsPrealloc(g, j, n) ELSE n = 0
        /\ inuse' = inuse \cup (Blk(g, j) .. Blk(g, j) + n)
        /\ bg_free' = [bg_free EXCEPT ![g] = @ - (n + 1)]
        /\ s_free' = s_free - (n + 1)
        /\ ret' = [ret EXCEPT ![t] =
                     [blk  |-> Blk(g, j), pset |-> req[t].pre,
                      pblk |-> IF req[t].pre THEN Blk(g, j) + 1 ELSE 0, pcnt |-> n]]
        /\ Goto(t, IF Blk(g, j) \in Meta THEN "panic" ELSE "write")
        /\ UNCHANGED <<buf, req>>
  BY DEF Commit
<1> DEFINE S == Blk(g, j) .. Blk(g, j) + n
<1>2. n \in Nat /\ (j + 1) .. (j + n) \subseteq Zero(g) /\ j \in Nat
  BY <1>1 DEF IsPrealloc, Zero, Bits
<1>3. /\ S \in SUBSET (GroupBlocks(g) \ inuse)
      /\ Cardinality(S) = n + 1
      /\ Blk(g, j) \in Blocks \ inuse
  <2>1. S \in SUBSET (GroupBlocks(g) \ inuse) /\ Blk(g, j) \in Blocks \ inuse
    BY <1>2, RunIsFree
  <2>2. Blk(g, j) \in Nat
    BY <2>1 DEF Blocks
  <2>3. Cardinality(S) = n + 1
    BY <1>2, <2>2, FS_Interval
  <2>4. QED BY <2>1, <2>3
<1>4. inuse \in SUBSET Blocks /\ Meta \subseteq inuse
  BY DEF IInv, TypeOK, Partition
<1>5. /\ Blk(g, j) \notin Meta /\ Blk(g, j) # 0
      /\ Blk(g, j) \in Nat
  BY <1>3, <1>4 DEF Blocks
<1> HIDE DEF S
<1>6. CountsFall(inuse, inuse \cup S, g, S)
  BY <1>3, <1>4, TakeCounts
<1>7. inuse' = inuse \cup S
  BY <1>1 DEF S
<1>8. CountsExact'
  BY <1>1, <1>3, <1>6, <1>7 DEF CountsFall, CountsExact, IInv, TypeOK
<1>9. TypeOK'
  <2>1. inuse' \in SUBSET Blocks
    BY <1>3, <1>4, <1>7 DEF GroupBlocks
  <2>2. s_free' \in Nat /\ bg_free' \in [Groups -> Nat]
    BY <1>1, <1>2, <1>3, <1>6 DEF CountsFall, IInv, TypeOK, CountsExact
  <2>3. ret' \in [Threads -> Ret]
    BY <1>1, <1>2, <1>3, <1>5 DEF IInv, TypeOK, Ret, Req
  <2>4. QED BY <1>1, <2>1, <2>2, <2>3 DEF IInv, TypeOK, Goto
<1>10. /\ \A u \in Threads \ {t} : pc'[u] = pc[u] /\ req'[u] = req[u] /\ ret'[u] = ret[u]
       /\ pc'[t] = "write"
  BY <1>1, <1>5 DEF IInv, TypeOK, Goto
<1>11. Held(t)' = S
  BY <1>1, <1>5, <1>10 DEF Held, RetBlocks, IInv, TypeOK, S
<1>12. Partition'
  <2>1. own \subseteq inuse
    BY DEF IInv, Partition
  <2>2. S \cap inuse = {}
    BY <1>3
  <2>3. QED BY <1>7, <1>10, <1>11, <2>1, <2>2, HeldFrame, PartitionStep DEF IInv
<1>13. NoPanic' /\ FreeWellFormed'
  BY <1>10 DEF IInv, NoPanic, FreeWellFormed, FreeRun
<1>14. QED BY <1>8, <1>9, <1>12, <1>13 DEF IInv

\* The goal's group: a bit is taken, or the scan goes on elsewhere.
LEMMA GoalSearchInv ==
  ASSUME IInv, NEW t \in Threads, GoalSearch(t), UNCHANGED own
  PROVE  IInv'
<1> DEFINE g == req[t].grp
<1>1. /\ g \in Groups /\ req[t].bit \in Bits /\ req[t].pre \in BOOLEAN
      /\ Held(t) = {}
  BY DEF IInv, TypeOK, Req, GoalSearch, Held
<1>2. CASE \E j \in SearchGoal(g, req[t].bit) : Commit(t, g, j)
  BY <1>1, <1>2, SearchGoalFindsZero, CommitInv
<1>3. CASE /\ buf' = [buf EXCEPT ![g] = NoThread]
           /\ ScanFrom(t, g, req[t].pre)
           /\ UNCHANGED bitmapVars
  <2>1. buf' \in [Groups -> Threads \cup {NoThread}]
    BY <1>3 DEF IInv, TypeOK
  <2>2. QED BY <1>1, <1>3, <2>1, ScanFromInv DEF bitmapVars
<1>4. QED BY <1>2, <1>3 DEF GoalSearch

\* A group chosen by the scan: a bit is taken, or the call gives up.
LEMMA ScanSearchInv ==
  ASSUME IInv, NEW t \in Threads, ScanSearch(t), UNCHANGED own
  PROVE  IInv'
<1> DEFINE g == req[t].grp
<1>1. g \in Groups /\ Held(t) = {}
  BY DEF IInv, TypeOK, Req, ScanSearch, Held
<1>2. CASE \E j \in SearchGroup(g, 0) : Commit(t, g, j)
  BY <1>1, <1>2, SearchGroupFindsZero, CommitInv
<1>3. CASE /\ ret' = [ret EXCEPT ![t] = NoRet]
           /\ Goto(t, "write")
           /\ UNCHANGED <<bitmapVars, buf, req>>
  <2>1. TypeOK'
    BY <1>3 DEF IInv, TypeOK, Goto, Ret, NoRet, bitmapVars
  <2>2. Quiet(t)
    BY <1>1, <1>3 DEF IInv, TypeOK, Goto, Held, RetBlocks, NoRet, Quiet, bitmapVars
  <2>3. QED BY <2>1, <2>2, QuietStep
<1>4. QED BY <1>2, <1>3 DEF ScanSearch

\* The caller hands a run of its blocks to ext2_free_blocks.
LEMMA CallFreeBlocksInv ==
  ASSUME IInv, NEW t \in Threads, CallFreeBlocks(t)
  PROVE  IInv'
<1>0. PICK g \in Groups : \E b, e \in own \cap GroupBlocks(g) :
        /\ b <= e /\ b .. e \subseteq own
        /\ own' = own \ (b .. e)
        /\ FreeBlocks(t, b, e - b + 1)
  BY DEF CallFreeBlocks
<1>1. PICK b \in own \cap GroupBlocks(g), e \in own \cap GroupBlocks(g) :
        /\ b <= e /\ b .. e \subseteq own
        /\ own' = own \ (b .. e)
        /\ FreeBlocks(t, b, e - b + 1)
  BY <1>0
<1>2. /\ b \in Nat /\ e \in Nat /\ b \in Blocks /\ e < BlocksCount
      /\ e < Blk(g, BlocksPerGroup) /\ Blk(g, 0) <= b
      /\ Blk(g, 0) \in Nat /\ Blk(g, BlocksPerGroup) = Blk(g, 0) + BlocksPerGroup
      /\ b + (e - b + 1) = e + 1
  BY <1>1 DEF GroupBlocks, Blocks, Blk, Groups
<1>3. PICK k \in Groups :
        /\ b \in GroupBlocks(k)
        /\ req' = [req EXCEPT ![t] = [grp |-> k, bit |-> b - Blk(k, 0), cnt |-> e - b + 1, pre |-> FALSE]]
        /\ Goto(t, IF b + (e - b + 1) > Blk(k, BlocksPerGroup) THEN "panic" ELSE "freeread")
  BY <1>1, <1>2 DEF FreeBlocks, Blocks
<1>4. k = g
  BY <1>1, <1>3, GroupsDisjoint
<1>5. /\ pc[t] = "idle" /\ ret' = [ret EXCEPT ![t] = NoRet] /\ UNCHANGED <<bitmapVars, buf>>
      /\ pc' = [pc EXCEPT ![t] = "freeread"]
  <2>1. ~(b + (e - b + 1) > Blk(g, BlocksPerGroup))
    BY <1>2
  <2>2. pc' = [pc EXCEPT ![t] = "freeread"]
    BY <1>3, <1>4, <2>1 DEF Goto
  <2>3. pc[t] = "idle" /\ ret' = [ret EXCEPT ![t] = NoRet] /\ UNCHANGED <<bitmapVars, buf>>
    BY <1>1 DEF FreeBlocks
  <2>4. QED BY <2>2, <2>3
<1>6. /\ pc'[t] = "freeread" /\ ret'[t].blk = 0
      /\ req'[t] = [grp |-> g, bit |-> b - Blk(g, 0), cnt |-> e - b + 1, pre |-> FALSE]
      /\ \A u \in Threads \ {t} : pc'[u] = pc[u] /\ req'[u] = req[u] /\ ret'[u] = ret[u]
  BY <1>3, <1>4, <1>5 DEF IInv, TypeOK, NoRet
<1>7. FreeRun(t)' = b .. e
  <2>1. Blk(g, b - Blk(g, 0)) = b
    BY <1>2 DEF Blk, Groups
  <2>2. b + (e - b + 1) - 1 = e
    BY <1>2
  <2>3. QED BY <1>6, <2>1, <2>2 DEF FreeRun
<1>8. TypeOK'
  <2>1. b - Blk(g, 0) \in Bits /\ e - b + 1 \in Nat
    BY <1>1, <1>2 DEF Bits
  <2>2. QED BY <1>3, <1>4, <1>5, <2>1 DEF IInv, TypeOK, Req, Ret, NoRet, bitmapVars, Waiting
<1>9. Held(t) = {} /\ Held(t)' = b .. e
  BY <1>5, <1>6, <1>7 DEF Held
<1>10. Partition'
  <2>1. inuse' = inuse /\ own \subseteq inuse
    BY <1>5 DEF IInv, Partition, bitmapVars
  <2>2. QED BY <1>1, <1>6, <1>9, <2>1, HeldFrame, PartitionStep DEF IInv
<1>11. b .. e \subseteq GroupBlocks(g)
  BY <1>1, <1>2 DEF GroupBlocks, Blocks
<1>12. CountsExact' /\ NoPanic' /\ FreeWellFormed'
  <2>1. CountsExact'
    BY <1>5 DEF IInv, CountsExact, bitmapVars
  <2>2. NoPanic'
    BY <1>6 DEF IInv, NoPanic
  <2>3. \A u \in Threads \ {t} : FreeRun(u)' = FreeRun(u)
    BY <1>6 DEF FreeRun
  <2>4. FreeWellFormed'
    <3>1. ret'[t].blk = 0 /\ FreeRun(t)' \subseteq GroupBlocks(req'[t].grp)
      BY <1>6, <1>7, <1>11
    <3>2. ASSUME NEW u \in Threads \ {t}, pc'[u] \in {"freeread", "free"}
          PROVE  ret'[u].blk = 0 /\ FreeRun(u)' \subseteq GroupBlocks(req'[u].grp)
      BY <1>6, <2>3, <3>2 DEF IInv, FreeWellFormed
    <3>3. QED BY <3>1, <3>2 DEF FreeWellFormed
  <2>5. QED BY <2>1, <2>2, <2>4
<1>13. QED BY <1>8, <1>10, <1>12 DEF IInv

\* The loop of ext2_free_blocks gives the whole run back to the bitmap.
LEMMA FreeBitsInv ==
  ASSUME IInv, NEW t \in Threads, FreeBits(t), UNCHANGED own
  PROVE  IInv'
<1> DEFINE g == req[t].grp
           S == FreeRun(t)
<1>1. /\ g \in Groups /\ Held(t) = S /\ ret[t].blk = 0
      /\ S \subseteq GroupBlocks(g) /\ S \subseteq inuse /\ S \cap Meta = {} /\ S \cap own = {}
      /\ inuse \in SUBSET Blocks
  BY DEF IInv, TypeOK, Req, FreeBits, Held, FreeWellFormed, Partition
<1> HIDE DEF S
<1>2. /\ inuse' = inuse \ S
      /\ bg_free' = [bg_free EXCEPT ![g] = @ + Cardinality(S)]
      /\ s_free' = s_free + Cardinality(S)
      /\ pc' = [pc EXCEPT ![t] = "write"]
      /\ UNCHANGED <<buf, req, ret>>
  <2>1. FreeRun(t) \cap inuse = S
    BY <1>1 DEF S
  <2>2. QED BY <1>1, <2>1 DEF FreeBits, Goto, S
<1>3. CountsFall(inuse \ S, inuse, g, S)
  BY <1>1, GiveCounts
<1>4. /\ Cardinality(GroupBlocks(g) \ (inuse \ S)) \in Nat
      /\ Cardinality(Blocks \ (inuse \ S)) \in Nat
  BY <1>1, FiniteBlocks, FS_Difference, FS_CardinalityType
<1>5. CountsExact'
  <2>1. /\ Cardinality(GroupBlocks(g) \ (inuse \ S)) = Cardinality(GroupBlocks(g) \ inuse) + Cardinality(S)
        /\ Cardinality(Blocks \ (inuse \ S)) = Cardinality(Blocks \ inuse) + Cardinality(S)
    BY <1>3, <1>4 DEF CountsFall
  <2>2. ASSUME NEW h \in Groups
        PROVE  bg_free'[h] = Cardinality(GroupBlocks(h) \ inuse')
    <3>1. CASE h = g
      BY <1>1, <1>2, <2>1, <3>1 DEF CountsExact, IInv, TypeOK
    <3>2. CASE h # g
      BY <1>1, <1>2, <1>3, <3>2 DEF CountsFall, CountsExact, IInv, TypeOK
    <3>3. QED BY <3>1, <3>2
  <2>3. QED BY <1>2, <2>1, <2>2 DEF CountsExact, IInv
<1>6. TypeOK'
  BY <1>1, <1>2, <1>3 DEF IInv, TypeOK, CountsFall
<1>7. /\ pc'[t] = "write"
      /\ \A u \in Threads \ {t} : pc'[u] = pc[u] /\ req'[u] = req[u] /\ ret'[u] = ret[u]
  BY <1>2 DEF IInv, TypeOK
<1>8. Held(t)' = {}
  BY <1>1, <1>2, <1>7 DEF Held, RetBlocks
<1>9. Partition'
  <2>1. own \subseteq inuse
    BY DEF IInv, Partition
  <2>2. QED BY <1>1, <1>2, <1>7, <1>8, <2>1, HeldFrame, PartitionStep DEF IInv
<1>10. NoPanic' /\ FreeWellFormed'
  BY <1>7 DEF IInv, NoPanic, FreeWellFormed, FreeRun
<1>11. QED BY <1>5, <1>6, <1>9, <1>10 DEF IInv

\* The call returns and its blocks become the caller's.
LEMMA ReturnInv ==
  ASSUME IInv, NEW t \in Threads, Return(t)
  PROVE  IInv'
<1>1. /\ pc'[t] = "idle"
      /\ \A u \in Threads \ {t} : pc'[u] = pc[u] /\ req'[u] = req[u] /\ ret'[u] = ret[u]
  BY DEF Return, Goto, IInv, TypeOK
<1>2. TypeOK'
  BY DEF IInv, TypeOK, Return, Goto, Req, Ret, NoRet, Groups, Bits, bitmapVars
<1>3. Held(t) = RetBlocks(ret[t]) /\ Held(t)' = {}
  BY <1>1 DEF Held, Return
<1>4. Partition'
  <2>1. own \subseteq inuse /\ Held(t) \subseteq inuse /\ inuse' = inuse /\ own' = own \cup Held(t)
    BY <1>3 DEF IInv, Partition, Return, bitmapVars
  <2>2. QED BY <1>1, <1>3, <2>1, HeldFrame, PartitionStep DEF IInv
<1>5. CountsExact' /\ NoPanic' /\ FreeWellFormed'
  BY <1>1 DEF IInv, CountsExact, NoPanic, FreeWellFormed, FreeRun, Return, bitmapVars
<1>6. QED BY <1>2, <1>4, <1>5 DEF IInv
-----------------------------------------------------------------------------
\* Every step keeps the invariant.
LEMMA NextInv == IInv /\ [Next]_vars => IInv'
<1> SUFFICES ASSUME IInv, [Next]_vars PROVE IInv'
  OBVIOUS
<1>1. ASSUME NEW t \in Threads, CallNewBlock(t) PROVE IInv'
  BY <1>1, NewBlockInv
<1>2. ASSUME NEW t \in Threads, CallFreeBlocks(t) PROVE IInv'
  BY <1>2, CallFreeBlocksInv
<1>3. ASSUME NEW t \in Threads, Return(t) PROVE IInv'
  BY <1>3, ReturnInv
<1>4. ASSUME NEW t \in Threads, Step(t) PROVE IInv'
  BY <1>4, ReadBitmapInv, GoalSearchInv, ScanSearchInv, FreeBitsInv, ReleaseBitmapInv
     DEF Step, AllocStep
<1>5. CASE UNCHANGED vars
  <2>1. TypeOK' BY <1>5 DEF vars, IInv, TypeOK
  <2>2. Partition' BY <1>5 DEF vars, IInv, Partition, Held, RetBlocks, FreeRun
  <2>3. CountsExact' BY <1>5 DEF vars, IInv, CountsExact
  <2>4. NoPanic' /\ FreeWellFormed' BY <1>5 DEF vars, IInv, NoPanic, FreeWellFormed, FreeRun
  <2>5. QED BY <2>1, <2>2, <2>3, <2>4 DEF IInv
<1>6. QED BY <1>1, <1>2, <1>3, <1>4, <1>5 DEF Next

\* The inductive invariant holds in every reachable state.
THEOREM Invariance == Spec => []IInv
BY InitInv, NextInv, PTL DEF Spec

\* ext2_new_block and ext2_free_blocks, called from any number of threads on any
\* geometry, keep every variable in its range: no counter wraps below zero.
THEOREM TypeCorrect == Spec => []TypeOK
BY Invariance, PTL DEF IInv

\* No block is ever allocated twice or lost, by any interleaving of calls.
THEOREM AllocationSafe == Spec => []Partition
BY Invariance, PTL DEF IInv

\* The free counts of the group descriptors and of the superblock stay equal to
\* the clear bits of the bitmaps.
THEOREM CountsAgree == Spec => []CountsExact
BY Invariance, PTL DEF IInv

\* None of the panics of ext2_new_block and ext2_free_blocks is reached.
THEOREM PanicFree == Spec => []NoPanic
BY Invariance, PTL DEF IInv

\* When ext2_new_block decides from the counters alone that every group is full,
\* no block of the volume is free.
THEOREM FullIsFull == Spec => FullMeansFull
<1> DEFINE P == \A t \in Threads :
             (pc[t] \in {"idle", "goal"} /\ pc'[t] = "done" /\ ret'[t].blk = 0 /\ own' = own)
               => inuse = Blocks
<1>1. ASSUME IInv, NEW t \in Threads, NEW i \in Groups, NEW pre \in BOOLEAN,
             ScanFrom(t, i, pre), pc'[t] = "done"
      PROVE  inuse = Blocks
  <2> DEFINE after(d) == IF i + d < GroupsCount THEN i + d ELSE i + d - GroupsCount
  <2>1. {d \in 1 .. GroupsCount : bg_free[after(d)] > 0} = {}
    BY <1>1 DEF ScanFrom, Goto, IInv, TypeOK
  <2>2. ASSUME NEW g \in Groups PROVE bg_free[g] = 0
    <3> DEFINE d == IF i < g THEN g - i ELSE g - i + GroupsCount
    <3>1. d \in 1 .. GroupsCount /\ after(d) = g
      BY DEF Groups
    <3>2. QED BY <1>1, <2>1, <3>1 DEF IInv, TypeOK
  <2>3. \A g \in Groups : GroupBlocks(g) \subseteq inuse
    BY <1>1, <2>2, FiniteBlocks, FS_Difference, FS_EmptySet DEF IInv, CountsExact
  <2>4. QED BY <1>1, <2>3, BlockHasGroup DEF IInv, TypeOK
<1>2. IInv /\ [Next]_vars => [P]_vars
  <2> SUFFICES ASSUME IInv, Next, NEW t \in Threads,
                      pc[t] \in {"idle", "goal"}, pc'[t] = "done", own' = own
               PROVE  inuse = Blocks
    OBVIOUS
  <2>1. PICK u \in Threads : CallNewBlock(u) \/ CallFreeBlocks(u) \/ Return(u) \/ Step(u)
    BY DEF Next
  <2>2. CASE CallNewBlock(u)
    <3>1. u = t
      BY <2>2 DEF CallNewBlock, NewBlock, ScanFrom, Goto, IInv, TypeOK
    <3>2. \E i \in Groups, pre \in BOOLEAN : ScanFrom(t, i, pre)
      BY <2>2, <3>1 DEF CallNewBlock, NewBlock, Goto, IInv, TypeOK
    <3>3. QED BY <1>1, <3>2
  <2>3. CASE CallFreeBlocks(u)
    <3>1. PICK g \in Groups : \E b, e \in own \cap GroupBlocks(g) :
            b <= e /\ own' = own \ (b .. e)
      BY <2>3 DEF CallFreeBlocks
    <3>2. PICK b \in own \cap GroupBlocks(g), e \in own \cap GroupBlocks(g) :
            b <= e /\ own' = own \ (b .. e)
      BY <3>1
    <3>3. b \in b .. e
      BY <3>2 DEF GroupBlocks, Blocks
    <3>4. QED BY <3>2, <3>3
  <2>4. CASE Return(u)
    BY <2>4 DEF Return, Goto, IInv, TypeOK
  <2>5. CASE Step(u)
    <3>1. CASE GoalSearch(u)
      <4>1. u = t
        BY <3>1 DEF GoalSearch, Commit, ScanFrom, Goto, IInv, TypeOK
      <4>2. req[t].grp \in Groups /\ req[t].pre \in BOOLEAN
        BY DEF IInv, TypeOK, Req
      <4>3. ScanFrom(t, req[t].grp, req[t].pre)
        BY <3>1, <4>1 DEF GoalSearch, Commit, Goto, IInv, TypeOK
      <4>4. QED BY <1>1, <4>2, <4>3
    <3>2. CASE ~GoalSearch(u)
      BY <2>5, <3>2 DEF Step, AllocStep, ReadBitmap, ScanSearch, FreeBits, ReleaseBitmap,
                        Commit, Goto, IInv, TypeOK, Waiting
    <3>3. QED BY <3>1, <3>2
  <2>6. QED BY <2>1, <2>2, <2>3, <2>4, <2>5
<1>3. QED BY <1>2, Invariance, PTL DEF Spec, FullMeansFull
-----------------------------------------------------------------------------
(***************************************************************************)
(* The bitmap buffers.                                                     *)
(***************************************************************************)

\* A thread works on the bitmap of its group: from buf_meta_bread until the
\* buffer is written or released.
Busy(t) == pc[t] \in Working \cup {"write"}

\* A step of t that moves no other thread keeps the buffers owned if t either
\* leaves the buffers alone, takes a free one or gives up its own.
LEMMA BufferStep ==
  ASSUME TypeOK, BufferOwned, NEW t \in Threads,
         \A u \in Threads \ {t} : pc'[u] = pc[u] /\ req'[u] = req[u],
         \/ /\ buf' = buf /\ (Busy(t)' <=> Busy(t))
            /\ Busy(t) => req'[t].grp = req[t].grp
         \/ /\ buf[req[t].grp] = NoThread /\ req'[t] = req[t]
            /\ buf' = [buf EXCEPT ![req[t].grp] = t] /\ Busy(t)'
         \/ /\ Busy(t) /\ ~Busy(t)'
            /\ buf' = [buf EXCEPT ![req[t].grp] = NoThread]
  PROVE  BufferOwned'
<1>0. req[t].grp \in Groups /\ buf \in [Groups -> Threads \cup {NoThread}]
  BY DEF TypeOK, Req
<1> SUFFICES ASSUME NEW g \in Groups, NEW u \in Threads
             PROVE  buf'[g] = u <=> Busy(u)' /\ req'[u].grp = g
  BY DEF BufferOwned, Busy
<1>1. buf[g] = u <=> Busy(u) /\ req[u].grp = g
  BY DEF BufferOwned, Busy
<1>2. buf[g] = t <=> Busy(t) /\ req[t].grp = g
  BY DEF BufferOwned, Busy
<1>3. u # t => Busy(u)' = Busy(u) /\ req'[u] = req[u]
  BY DEF Busy
<1> HIDE DEF Busy
<1>4. QED BY <1>0, <1>1, <1>2, <1>3

\* Every step keeps the buffers owned.  A panic would end the call with the
\* buffer busy, which is why the invariant is used after the step too.
LEMMA BufferNext ==
  IInv /\ IInv' /\ BufferOwned /\ [Next]_vars => BufferOwned'
<1> SUFFICES ASSUME IInv, IInv', BufferOwned, [Next]_vars PROVE BufferOwned'
  OBVIOUS
<1>0. TypeOK /\ \A t \in Threads : pc[t] # "panic" /\ pc'[t] # "panic"
  BY DEF IInv, NoPanic
<1> USE DEF Busy, Working, Waiting, Goto, TypeOK
<1>1. ASSUME NEW t \in Threads, CallNewBlock(t) PROVE BufferOwned'
  <2>1. /\ pc[t] = "idle" /\ pc'[t] \notin Working \cup {"write"} /\ buf' = buf
        /\ \A u \in Threads \ {t} : pc'[u] = pc[u] /\ req'[u] = req[u]
    BY <1>0, <1>1 DEF CallNewBlock, NewBlock, ScanFrom
  <2>2. QED BY <1>0, <2>1, BufferStep
<1>2. ASSUME NEW t \in Threads, CallFreeBlocks(t) PROVE BufferOwned'
  <2>1. /\ pc[t] = "idle" /\ pc'[t] \notin Working \cup {"write"} /\ buf' = buf
        /\ \A u \in Threads \ {t} : pc'[u] = pc[u] /\ req'[u] = req[u]
    BY <1>0, <1>2 DEF CallFreeBlocks, FreeBlocks
  <2>2. QED BY <1>0, <2>1, BufferStep
<1>3. ASSUME NEW t \in Threads, Return(t) PROVE BufferOwned'
  BY <1>0, <1>3, BufferStep DEF Return
<1>4. ASSUME NEW t \in Threads, ReadBitmap(t) PROVE BufferOwned'
  BY <1>0, <1>4, BufferStep DEF ReadBitmap
<1>5. ASSUME NEW t \in Threads, NEW g, NEW j, pc[t] \in Working, Commit(t, g, j) PROVE BufferOwned'
  <2>1. pc' = [pc EXCEPT ![t] = "write"] /\ buf' = buf /\ req' = req
    BY <1>0, <1>5 DEF Commit
  <2>2. QED BY <1>0, <1>5, <2>1, BufferStep
<1>6. ASSUME NEW t \in Threads, GoalSearch(t) PROVE BufferOwned'
  <2>1. CASE \E j \in SearchGoal(req[t].grp, req[t].bit) : Commit(t, req[t].grp, j)
    BY <1>5, <1>6, <2>1 DEF GoalSearch
  <2>2. CASE buf' = [buf EXCEPT ![req[t].grp] = NoThread] /\ ScanFrom(t, req[t].grp, req[t].pre)
    BY <1>0, <1>6, <2>2, BufferStep DEF GoalSearch, ScanFrom
  <2>3. QED BY <1>6, <2>1, <2>2 DEF GoalSearch
<1>7. ASSUME NEW t \in Threads, ScanSearch(t) PROVE BufferOwned'
  <2>1. CASE \E j \in SearchGroup(req[t].grp, 0) : Commit(t, req[t].grp, j)
    BY <1>5, <1>7, <2>1 DEF ScanSearch
  <2>2. CASE Goto(t, "write") /\ buf' = buf /\ req' = req
    BY <1>0, <1>7, <2>2, BufferStep DEF ScanSearch
  <2>3. QED BY <1>7, <2>1, <2>2 DEF ScanSearch
<1>8. ASSUME NEW t \in Threads, FreeBits(t) PROVE BufferOwned'
  <2>1. pc[t] = "free" /\ pc' = [pc EXCEPT ![t] = "write"] /\ buf' = buf /\ req' = req
    BY <1>0, <1>8 DEF FreeBits
  <2>2. QED BY <1>0, <2>1, BufferStep
<1>9. ASSUME NEW t \in Threads, ReleaseBitmap(t) PROVE BufferOwned'
  BY <1>0, <1>9, BufferStep DEF ReleaseBitmap
<1>10. CASE UNCHANGED vars
  BY <1>10 DEF vars, BufferOwned
<1>11. QED BY <1>1, <1>2, <1>3, <1>4, <1>6, <1>7, <1>8, <1>9, <1>10 DEF Next, Step, AllocStep

\* read_block_bitmap and the releases are paired: a bitmap buffer is busy exactly
\* while one call works on its group, so no two calls change one bitmap at once.
THEOREM BuffersExclusive == Spec => []BufferOwned
<1>1. Init => BufferOwned
  BY DEF Init, AllocInit, BufferOwned, Working
<1>2. QED BY <1>1, BufferNext, Invariance, PTL DEF Spec
=============================================================================
