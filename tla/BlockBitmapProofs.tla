------------------------- MODULE BlockBitmapProofs -------------------------
(***************************************************************************)
(* Lemmas about the groups and the searches of BlockBitmap, for every      *)
(* geometry.                                                               *)
(***************************************************************************)
EXTENDS BlockBitmap, TLAPS

USE GeometryAssumption
-----------------------------------------------------------------------------
(***************************************************************************)
(* Geometry: the groups cut the volume into disjoint runs of blocks.       *)
(***************************************************************************)

\* The bit of a block of the volume belongs to the group it was computed from.
LEMMA BlkInGroup ==
  ASSUME NEW g \in Groups, NEW j \in Bits, Blk(g, j) \in Blocks
  PROVE  Blk(g, j) \in GroupBlocks(g)
BY DEF GroupBlocks, Blk, Groups, Bits, Blocks

\* Two groups share no block.
LEMMA GroupsDisjoint ==
  ASSUME NEW g \in Groups, NEW h \in Groups, g # h
  PROVE  GroupBlocks(g) \cap GroupBlocks(h) = {}
<1>1. ASSUME NEW i \in Groups, NEW k \in Groups, i < k
      PROVE  Blk(i, BlocksPerGroup) <= Blk(k, 0)
  <2>1. k = i + 1 + (k - i - 1) /\ k - i - 1 \in Nat
    BY <1>1 DEF Groups
  <2>2. k * BlocksPerGroup >= (i + 1) * BlocksPerGroup
    BY <1>1, <2>1, SMT DEF Groups
  <2>3. QED BY <2>2 DEF Blk, Groups
<1>2. QED BY <1>1, SMTT(30) DEF GroupBlocks, Blocks, Groups, Blk

\* Every block of the volume is in some group.
LEMMA BlockHasGroup ==
  ASSUME NEW b \in Blocks
  PROVE  \E g \in Groups : b \in GroupBlocks(g)
<1> DEFINE x == b - FirstDataBlock
           g == x \div BlocksPerGroup
<1>1. x \in Nat /\ x < GroupsCount * BlocksPerGroup
  BY DEF Blocks, Blk
<1>2. g \in Nat /\ g * BlocksPerGroup <= x /\ x < (g + 1) * BlocksPerGroup
  BY <1>1, SMTT(30)
<1>3. g < GroupsCount
  BY <1>1, <1>2, SMTT(30)
<1>4. QED BY <1>1, <1>2, <1>3 DEF Groups, GroupBlocks, Blocks, Blk
-----------------------------------------------------------------------------
(***************************************************************************)
(* The searches only ever find clear bits.                                 *)
(***************************************************************************)

\* search_back and the byte-then-bit search of a group return clear bits.
LEMMA SearchGroupFindsZero ==
  ASSUME NEW g \in Groups, NEW from
  PROVE  SearchGroup(g, from) \subseteq Zero(g)
BY DEF SearchGroup, SearchBack, Least

\* So does the search around the goal.
LEMMA SearchGoalFindsZero ==
  ASSUME NEW g \in Groups, NEW j \in Bits
  PROVE  SearchGoal(g, j) \subseteq Zero(g)
BY SearchGroupFindsZero DEF SearchGoal, Least

\* The block at a clear bit and the n clear bits after it are a run of n + 1
\* free blocks of the group.
LEMMA RunIsFree ==
  ASSUME NEW g \in Groups, NEW j \in Zero(g), NEW n \in Nat,
         (j + 1) .. (j + n) \subseteq Zero(g)
  PROVE  /\ (Blk(g, j) .. Blk(g, j) + n) \in SUBSET (GroupBlocks(g) \ inuse)
         /\ Blk(g, j) \in Blocks \ inuse
<1>0. Blk(g, j) \in Nat /\ j \in Nat
  BY DEF Blk, Zero, Bits, Groups
<1>1. ASSUME NEW b \in Blk(g, j) .. Blk(g, j) + n
      PROVE  b \in GroupBlocks(g) \ inuse
  <2> DEFINE i == j + (b - Blk(g, j))
  <2>1. i \in j .. (j + n)
    BY <1>0
  <2>2. i \in Zero(g)
    BY <2>1, <1>0
  <2>3. b = Blk(g, i)
    BY <1>0 DEF Blk, Groups
  <2>4. QED BY <2>2, <2>3, BlkInGroup DEF Zero
<1>2. QED BY <1>1 DEF Zero
=============================================================================
