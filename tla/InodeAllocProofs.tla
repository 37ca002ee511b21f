-------------------------- MODULE InodeAllocProofs --------------------------
(***************************************************************************)
(* Proofs about InodeAlloc for every geometry and every number of threads. *)
(***************************************************************************)
EXTENDS InodeAlloc, FiniteSetTheorems, FunctionTheorems, SequenceTheorems, WellFoundedInduction, TLAPS

USE InodeGeometry
-----------------------------------------------------------------------------
(***************************************************************************)
(* Geometry: the groups cut the inode numbers into runs of InodesPerGroup. *)
(***************************************************************************)

\* Division by the number of inodes in a group.
LEMMA GroupOfRange ==
  ASSUME NEW ino \in Inodes
  PROVE  /\ GroupOf(ino) \in Groups
         /\ GroupOf(ino) * InodesPerGroup + 1 <= ino
         /\ ino <= (GroupOf(ino) + 1) * InodesPerGroup
<1> DEFINE x == ino - 1
           g == x \div InodesPerGroup
<1>1. x \in Nat /\ x < GroupsCount * InodesPerGroup
  BY DEF Inodes
<1>2. g \in Nat /\ g * InodesPerGroup <= x /\ x < (g + 1) * InodesPerGroup
  BY <1>1, SMTT(30)
<1>3. g < GroupsCount
  BY <1>1, <1>2, SMTT(30)
<1>4. QED BY <1>1, <1>2, <1>3, SMTT(30) DEF Groups, GroupOf, Inodes

\* A group is a run of InodesPerGroup numbers.
LEMMA GroupIsRun ==
  ASSUME NEW g \in Groups
  PROVE  GroupInodes(g) = g * InodesPerGroup + 1 .. (g + 1) * InodesPerGroup
<1>1. ASSUME NEW ino \in GroupInodes(g)
      PROVE  ino \in g * InodesPerGroup + 1 .. (g + 1) * InodesPerGroup
  BY GroupOfRange DEF GroupInodes, Inodes, Groups
<1>2. ASSUME NEW ino \in g * InodesPerGroup + 1 .. (g + 1) * InodesPerGroup
      PROVE  ino \in GroupInodes(g)
  <2>1. g * InodesPerGroup \in Nat /\ (g + 1) * InodesPerGroup = g * InodesPerGroup + InodesPerGroup
    BY DEF Groups
  <2>2. (g + 1) * InodesPerGroup <= GroupsCount * InodesPerGroup
    <3>1. GroupsCount = g + 1 + (GroupsCount - g - 1) /\ GroupsCount - g - 1 \in Nat
      BY DEF Groups
    <3>2. QED BY <3>1, SMT DEF Groups
  <2>3. ino \in Inodes
    BY <2>1, <2>2 DEF Inodes, Groups
  <2>4. (ino - 1) \div InodesPerGroup = g
    <3> DEFINE q == (ino - 1) \div InodesPerGroup
    <3>1. q \in Nat /\ q * InodesPerGroup + 1 <= ino /\ ino <= (q + 1) * InodesPerGroup
      BY <2>3, GroupOfRange DEF GroupOf, Groups
    <3> HIDE DEF q
    <3>2. CASE q < g
      <4>1. g = q + 1 + (g - q - 1) /\ g - q - 1 \in Nat
        BY <3>1, <3>2 DEF Groups
      <4>2. g * InodesPerGroup >= (q + 1) * InodesPerGroup
        BY <3>1, <4>1, SMT DEF Groups
      <4>3. QED BY <2>1, <3>1, <4>2
    <3>3. CASE g < q
      <4>1. q = g + 1 + (q - g - 1) /\ q - g - 1 \in Nat
        BY <3>1, <3>3 DEF Groups
      <4>2. q * InodesPerGroup >= (g + 1) * InodesPerGroup
        BY <3>1, <4>1, SMT DEF Groups
      <4>3. QED BY <2>1, <3>1, <4>2
    <3>4. QED BY <3>1, <3>2, <3>3 DEF Groups, q
  <2>5. QED BY <2>3, <2>4 DEF GroupInodes, GroupOf
<1>3. QED BY <1>1, <1>2

\* The sets whose sizes are counted are finite, and their sizes are the geometry's.
LEMMA FiniteInodes ==
  /\ IsFiniteSet(Inodes) /\ Cardinality(Inodes) = GroupsCount * InodesPerGroup
  /\ \A g \in Groups : IsFiniteSet(GroupInodes(g)) /\ Cardinality(GroupInodes(g)) = InodesPerGroup
<1>1. GroupsCount * InodesPerGroup \in Nat /\ GroupsCount * InodesPerGroup >= 1
  BY SMT
<1>2. IsFiniteSet(Inodes) /\ Cardinality(Inodes) = GroupsCount * InodesPerGroup
  BY <1>1, FS_Interval DEF Inodes
<1>3. ASSUME NEW g \in Groups
      PROVE  IsFiniteSet(GroupInodes(g)) /\ Cardinality(GroupInodes(g)) = InodesPerGroup
  <2>1. /\ g * InodesPerGroup \in Nat
        /\ (g + 1) * InodesPerGroup = g * InodesPerGroup + InodesPerGroup
    BY DEF Groups
  <2> DEFINE a == g * InodesPerGroup + 1
             b == (g + 1) * InodesPerGroup
  <2>2. a \in Int /\ b \in Int /\ b - a + 1 = InodesPerGroup /\ ~(a > b)
    BY <2>1
  <2> HIDE DEF a, b
  <2>3. IsFiniteSet(a .. b) /\ Cardinality(a .. b) = InodesPerGroup
    BY <2>2, FS_Interval
  <2>4. QED BY <2>3, GroupIsRun DEF a, b
<1>4. QED BY <1>2, <1>3

\* A set of numbers that is not empty has a least member, the one First picks.
LEMMA FirstIsMember ==
  ASSUME NEW S \in SUBSET Nat, S # {}
  PROVE  First(S) \in S /\ \A y \in S : First(S) <= y
<1> DEFINE R == OpToRel(<, Nat)
<1>1. R = {ss \in Nat \X Nat : ss[1] < ss[2]}
  BY Zenon DEF OpToRel
<1>2. IsWellFoundedOn(R, Nat)
  BY NatLessThanWellFounded, Zenon
<1> HIDE DEF R
<1>3. PICK x \in S : \A y \in S : ~(<<y, x>> \in R)
  BY <1>2, WFMin
<1>4. ASSUME NEW y \in S PROVE x <= y
  <2>1. x \in Nat /\ y \in Nat /\ <<y, x>> \in Nat \X Nat
    OBVIOUS
  <2>2. ~(<<y, x>>[1] < <<y, x>>[2])
    BY <1>1, <1>3, <2>1
  <2>3. QED BY <2>1, <2>2
<1>5. QED BY <1>4 DEF First
\* Free counts and directory counts are within the geometry.
LEMMA CountsInRange ==
  ASSUME NEW g \in Groups, NEW S
  PROVE  /\ Cardinality(GroupInodes(g) \ S) \in 0 .. InodesPerGroup
         /\ Cardinality(S \cap GroupInodes(g)) \in 0 .. InodesPerGroup
         /\ Cardinality(Inodes \ S) \in 0 .. Cardinality(Inodes)
         /\ Cardinality(S \cap GroupInodes(g)) \in Nat
         /\ Cardinality(GroupInodes(g) \ S) \in Nat
         /\ Cardinality(Inodes \ S) \in Nat
<1>1. /\ IsFiniteSet(GroupInodes(g)) /\ Cardinality(GroupInodes(g)) = InodesPerGroup
      /\ IsFiniteSet(Inodes) /\ Cardinality(Inodes) \in Nat
  BY FiniteInodes, FS_CardinalityType
<1>2. /\ IsFiniteSet(GroupInodes(g) \ S) /\ Cardinality(GroupInodes(g) \ S) <= InodesPerGroup
      /\ IsFiniteSet(S \cap GroupInodes(g)) /\ Cardinality(S \cap GroupInodes(g)) <= InodesPerGroup
      /\ IsFiniteSet(Inodes \ S) /\ Cardinality(Inodes \ S) <= Cardinality(Inodes)
  BY <1>1, FS_Subset
<1>3. QED BY <1>1, <1>2, FS_CardinalityType

\* Setting one clear bit of a group takes one from the counts of that group and of
\* the volume; clearing it again is the same fact read backwards.
LEMMA TakeOne ==
  ASSUME NEW used \in SUBSET Inodes, NEW g \in Groups, NEW ino \in GroupInodes(g) \ used
  PROVE  /\ Cardinality(GroupInodes(g) \ (used \cup {ino})) = Cardinality(GroupInodes(g) \ used) - 1
         /\ Cardinality(Inodes \ (used \cup {ino})) = Cardinality(Inodes \ used) - 1
         /\ \A h \in Groups \ {g} : GroupInodes(h) \ (used \cup {ino}) = GroupInodes(h) \ used
<1>1. IsFiniteSet(GroupInodes(g) \ used) /\ IsFiniteSet(Inodes \ used)
  BY FiniteInodes, FS_Difference
<1>2. /\ GroupInodes(g) \ (used \cup {ino}) = (GroupInodes(g) \ used) \ {ino}
      /\ Inodes \ (used \cup {ino}) = (Inodes \ used) \ {ino}
      /\ ino \in Inodes \ used
  BY DEF GroupInodes
<1>3. \A h \in Groups \ {g} : ino \notin GroupInodes(h)
  BY DEF GroupInodes
<1>4. /\ Cardinality((GroupInodes(g) \ used) \ {ino}) = Cardinality(GroupInodes(g) \ used) - 1
      /\ Cardinality((Inodes \ used) \ {ino}) = Cardinality(Inodes \ used) - 1
  BY <1>1, <1>2, FS_RemoveElement
<1>5. \A h \in Groups \ {g} : GroupInodes(h) \ (used \cup {ino}) = GroupInodes(h) \ used
  BY <1>3
<1>6. QED BY <1>2, <1>4, <1>5

\* A finite set of at most n members can be numbered with 1 .. n.
LEMMA Numbering ==
  ASSUME NEW S, IsFiniteSet(S), NEW n \in Nat, Cardinality(S) <= n
  PROVE  \E f \in [S -> 1 .. n] : \A x, y \in S : f[x] = f[y] => x = y
<1> DEFINE c == Cardinality(S)
<1>1. c \in Nat /\ c <= n /\ ExistsBijection(1 .. c, S)
  BY FS_CardinalityType
<1> HIDE DEF c
<1>2. PICK b : b \in Bijection(S, 1 .. c)
  BY <1>1, Fun_ExistsBijSymmetric, Fun_ExistsBij
<1>3. b \in [S -> 1 .. c] /\ \A x, y \in S : b[x] = b[y] => x = y
  BY <1>2, Fun_BijectionProperties, Zenon
<1>4. b \in [S -> 1 .. n]
  BY <1>1, <1>3
<1>5. QED BY <1>3, <1>4

\* If no group has more than n free inodes, the volume has at most n times as many
\* as it has groups.  Each free number is coded by its group and by a rank in it.
LEMMA SumBound ==
  ASSUME NEW used \in SUBSET Inodes, NEW n \in Nat,
         \A g \in Groups : Cardinality(GroupInodes(g) \ used) <= n
  PROVE  Cardinality(Inodes \ used) <= GroupsCount * n
<1> DEFINE Free(g) == GroupInodes(g) \ used
           Ranks(g) == {f \in [Free(g) -> 1 .. n] : \A x, y \in Free(g) : f[x] = f[y] => x = y}
           rank(g) == CHOOSE f : f \in Ranks(g)
           code == [ino \in Inodes \ used |-> <<GroupOf(ino), rank(GroupOf(ino))[ino]>>]
<1>1. ASSUME NEW g \in Groups PROVE rank(g) \in Ranks(g)
  <2>1. IsFiniteSet(Free(g)) /\ Cardinality(Free(g)) <= n
    BY FiniteInodes, FS_Difference
  <2>2. PICK f \in [Free(g) -> 1 .. n] : \A x, y \in Free(g) : f[x] = f[y] => x = y
    BY <2>1, Numbering
  <2>3. f \in Ranks(g)
    BY <2>2
  <2>4. QED BY <2>3, Zenon
<1>2. \A g \in Groups : /\ rank(g) \in [Free(g) -> 1 .. n]
                        /\ \A x, y \in Free(g) : rank(g)[x] = rank(g)[y] => x = y
  BY <1>1
<1> HIDE DEF rank
<1>3. \A ino \in Inodes \ used : GroupOf(ino) \in Groups /\ ino \in Free(GroupOf(ino))
  BY GroupOfRange DEF GroupInodes
<1>4. code \in [Inodes \ used -> Groups \X (1 .. n)]
  BY <1>2, <1>3
<1>5. \A x, y \in Inodes \ used : code[x] = code[y] => x = y
  BY <1>2, <1>3
<1>6. code \in Injection(Inodes \ used, Groups \X (1 .. n))
  BY <1>4, <1>5, Fun_IsInj
<1>7. IsFiniteSet(Groups) /\ Cardinality(Groups) = GroupsCount
  BY FS_Interval DEF Groups
<1>8. IsFiniteSet(1 .. n) /\ Cardinality(1 .. n) = n
  BY FS_Interval
<1>9. IsFiniteSet(Groups \X (1 .. n)) /\ Cardinality(Groups \X (1 .. n)) = GroupsCount * n
  BY <1>7, <1>8, FS_Product
<1>10. QED BY <1>6, <1>9, FS_Injection

\* One more directory in a group adds one to its count and to no other's.
LEMMA AddDirectory ==
  ASSUME NEW D, NEW g \in Groups, NEW ino \in GroupInodes(g), ino \notin D
  PROVE  /\ Cardinality((D \cup {ino}) \cap GroupInodes(g)) = Cardinality(D \cap GroupInodes(g)) + 1
         /\ \A h \in Groups \ {g} : (D \cup {ino}) \cap GroupInodes(h) = D \cap GroupInodes(h)
<1>1. IsFiniteSet(D \cap GroupInodes(g))
  BY FiniteInodes, FS_Intersection
<1>2. (D \cup {ino}) \cap GroupInodes(g) = (D \cap GroupInodes(g)) \cup {ino}
  OBVIOUS
<1>3. Cardinality((D \cap GroupInodes(g)) \cup {ino}) = Cardinality(D \cap GroupInodes(g)) + 1
  BY <1>1, FS_AddElement
<1>4. \A h \in Groups \ {g} : ino \notin GroupInodes(h)
  BY DEF GroupInodes
<1>5. QED BY <1>2, <1>3, <1>4
-----------------------------------------------------------------------------
(***************************************************************************)
(* The inductive invariant.  The counts stay in their range because they   *)
(* are exact; they stay exact because a number is freed once and in the    *)
(* group it was counted in, which is the partition.  The directory counts  *)
(* need more than InodeCountsExact says: between calls' steps they also    *)
(* count directories in transit and some of the numbers left behind.       *)
(***************************************************************************)

\* A number in transit for a directory; it is in the directory counts.
DirHeld(t) == IF req[t].mode = "dir" THEN Held(t) ELSE {}

\* The directories that exist or are in transit, and some numbers left behind.
CountedDirs(left) == Directories \cup left \cup UNION {DirHeld(t) : t \in Threads}

DirsCounted ==
  \E left \in SUBSET lost : \A g \in Groups :
    bg_dirs[g] = Cardinality(CountedDirs(left) \cap GroupInodes(g))

FreeCountsExact ==
  /\ \A g \in Groups : bg_free[g] = Cardinality(GroupInodes(g) \ inuse)
  /\ s_free = Cardinality(Inodes \ inuse)

\* What a call in progress carries: the directory a search starts from, the
\* number a free is about and its group, a number for ext2_vget.
CallWellFormed(t) ==
  /\ pc[t] \in {"choose", "newread", "new"} => req[t].ip \in Inodes
  /\ pc[t] \in {"freeread", "free"} =>
       ret[t] = 0 /\ req[t].ip \in Inodes /\ req[t].grp = GroupOf(req[t].ip)
  /\ pc[t] = "vget" => ret[t] # 0

CallsWellFormed == \A t \in Threads : CallWellFormed(t)

IInv == TypeOK /\ InodePartition /\ FreeCountsExact /\ DirsCounted /\ CallsWellFormed

\* A freshly mounted volume satisfies the invariant.
LEMMA InitInv == Init => IInv
<1> SUFFICES ASSUME Init PROVE IInv
  OBVIOUS
<1> USE DEF Init
<1>1. \A t \in Threads : Held(t) = {} /\ DirHeld(t) = {}
  BY DEF Held, DirHeld, NoReq
<1>2. DOMAIN own = {} /\ Reserved \subseteq Inodes
  BY DEF Reserved, Inodes
<1>3. TypeOK
  <2>1. DescBlock(0) = 0 /\ 0 \in Groups
    BY SMT DEF DescBlock, Groups
  <2>2. NoReq \in [ip : Inodes \cup {0}, mode : Modes, grp : Groups, mark : {DescBlock(g) : g \in Groups}]
    BY <2>1 DEF NoReq, Modes
  <2>3. bg_free \in [Groups -> 0 .. InodesPerGroup] /\ bg_dirs \in [Groups -> 0 .. InodesPerGroup]
    BY CountsInRange
  <2>4. s_free \in 0 .. Cardinality(Inodes)
    BY <2>1, CountsInRange
  <2>5. QED BY <1>2, <2>2, <2>3, <2>4 DEF TypeOK
<1>4. InodePartition
  BY <1>1, <1>2 DEF InodePartition
<1>5. FreeCountsExact
  BY DEF FreeCountsExact
<1>6. DirsCounted
  <2>1. CountedDirs({}) = {RootIno}
    BY <1>1, <1>2 DEF CountedDirs, Directories
  <2>2. \A g \in Groups : bg_dirs[g] = Cardinality(CountedDirs({}) \cap GroupInodes(g))
    BY <2>1
  <2>3. QED BY <2>2 DEF DirsCounted
<1>7. CallsWellFormed
  BY DEF CallsWellFormed, CallWellFormed
<1>8. QED BY <1>3, <1>4, <1>5, <1>6, <1>7 DEF IInv
-----------------------------------------------------------------------------
(***************************************************************************)
(* A step of one thread.                                                   *)
(***************************************************************************)

\* Nothing another thread has in hand changes.
OthersKept(t) ==
  \A u \in Threads \ {t} : pc'[u] = pc[u] /\ req'[u] = req[u] /\ ret'[u] = ret[u]

\* What the other threads hold is unchanged when their part of the state is.
LEMMA OthersHeld ==
  ASSUME NEW t \in Threads, OthersKept(t)
  PROVE  /\ \A u \in Threads \ {t} : Held(u)' = Held(u) /\ DirHeld(u)' = DirHeld(u)
         /\ \A u \in Threads \ {t} : CallWellFormed(u) => CallWellFormed(u)'
BY DEF OthersKept, Held, DirHeld, CallWellFormed

\* Numbers in use that belong neither to a file, nor to thread t, nor were left behind.
Rest(t) == inuse \ (DOMAIN own \cup lost \cup Held(t))

\* A step of t keeps the partition if it moves numbers only between the bitmap, the
\* files, itself and what is left behind.
LEMMA PartitionStep ==
  ASSUME TypeOK, InodePartition, NEW t \in Threads, OthersKept(t),
         inuse' = Rest(t) \cup DOMAIN own' \cup lost' \cup Held(t)',
         lost' \cap DOMAIN own' = {},
         Held(t)' \cap (DOMAIN own' \cup lost') = {},
         (DOMAIN own' \cup lost' \cup Held(t)') \cap Rest(t) = {}
  PROVE  InodePartition'
<1> DEFINE others == UNION {Held(u) : u \in Threads \ {t}}
<1>1. Rest(t) = Reserved \cup others
  BY DEF InodePartition, Rest, TypeOK
<1>2. \A u \in Threads \ {t} : Held(u)' = Held(u)
  BY OthersHeld
<1>3. UNION {Held(u)' : u \in Threads} = others \cup Held(t)'
  BY <1>2
<1>4. inuse' = Reserved \cup DOMAIN own' \cup lost' \cup UNION {Held(u)' : u \in Threads}
  BY <1>1, <1>3
<1>5. ASSUME NEW u \in Threads
      PROVE  Held(u)' \cap (Reserved \cup DOMAIN own' \cup lost') = {}
  <2>1. CASE u = t
    BY <1>1, <2>1
  <2>2. CASE u # t
    BY <1>1, <1>2, <2>2 DEF InodePartition
  <2>3. QED BY <2>1, <2>2
<1>6. ASSUME NEW u \in Threads, NEW v \in Threads, u # v
      PROVE  Held(u)' \cap Held(v)' = {}
  BY <1>1, <1>2, <1>6 DEF InodePartition
<1>7. QED BY <1>4, <1>5, <1>6 DEF InodePartition

\* The directories counted, as what t has in hand and the rest.
OthersDirs(t) == UNION {DirHeld(u) : u \in Threads \ {t}}

\* The directories the counts include change only by what the callers and thread
\* t have.
LEMMA CountedDirsStep ==
  ASSUME NEW t \in Threads, OthersKept(t), NEW left, NEW newleft
  PROVE  /\ CountedDirs(left) = Directories \cup left \cup OthersDirs(t) \cup DirHeld(t)
         /\ CountedDirs(newleft)' = Directories' \cup newleft \cup OthersDirs(t) \cup DirHeld(t)'
<1>1. \A u \in Threads \ {t} : DirHeld(u)' = DirHeld(u)
  BY OthersHeld
<1>2. UNION {DirHeld(u) : u \in Threads} = OthersDirs(t) \cup DirHeld(t)
  BY DEF OthersDirs
<1>3. UNION {DirHeld(u)' : u \in Threads} = OthersDirs(t) \cup DirHeld(t)'
  BY <1>1 DEF OthersDirs
<1>4. QED BY <1>2, <1>3 DEF CountedDirs

\* A directory that is counted is in use.
LEMMA CountedDirsInUse ==
  ASSUME InodePartition, NEW left \in SUBSET lost
  PROVE  CountedDirs(left) \subseteq inuse
<1>1. \A u \in Threads : DirHeld(u) \subseteq Held(u)
  BY DEF DirHeld
<1>2. Directories \cup lost \subseteq inuse
  BY DEF InodePartition, Directories
<1>3. QED BY <1>1, <1>2 DEF CountedDirs, InodePartition

\* Counts that are exact are in their range.
LEMMA CountTypes ==
  ASSUME FreeCountsExact', DirsCounted',
         bg_free' = [h \in Groups |-> bg_free'[h]], bg_dirs' = [h \in Groups |-> bg_dirs'[h]]
  PROVE  /\ bg_free' \in [Groups -> 0 .. InodesPerGroup]
         /\ bg_dirs' \in [Groups -> 0 .. InodesPerGroup]
         /\ s_free' \in 0 .. Cardinality(Inodes)
<1>1. \A h \in Groups : bg_free'[h] \in 0 .. InodesPerGroup
  BY CountsInRange DEF FreeCountsExact
<1>2. \A h \in Groups : bg_dirs'[h] \in 0 .. InodesPerGroup
  <2>1. PICK left : \A h \in Groups : bg_dirs'[h] = Cardinality(CountedDirs(left)' \cap GroupInodes(h))
    BY DEF DirsCounted
  <2>2. QED BY <2>1, CountsInRange
<1>3. s_free' \in 0 .. Cardinality(Inodes)
  <2>1. 0 \in Groups
    BY DEF Groups
  <2>2. QED BY <2>1, CountsInRange DEF FreeCountsExact
<1>4. QED BY <1>1, <1>2, <1>3

\* A step that changes no bitmap and no count, and leaves the files and what is in
\* transit as they are.
Quiet(t) ==
  /\ UNCHANGED <<inuse, bg_free, bg_dirs, s_free, own, lost>>
  /\ OthersKept(t)
  /\ Held(t)' = Held(t) /\ DirHeld(t)' = DirHeld(t)
  /\ CallWellFormed(t)'

\* A step that moves a thread and changes neither bitmaps, counts nor owners
\* keeps the invariant.
LEMMA QuietStep ==
  ASSUME IInv, NEW t \in Threads, Quiet(t), TypeOK'
  PROVE  IInv'
<1>1. InodePartition'
  <2>1. inuse = Rest(t) \cup DOMAIN own \cup lost \cup Held(t)
    BY DEF IInv, InodePartition, Rest
  <2>2. (DOMAIN own \cup lost \cup Held(t)) \cap Rest(t) = {}
    BY DEF Rest
  <2>3. lost \cap DOMAIN own = {} /\ Held(t) \cap (DOMAIN own \cup lost) = {}
    BY DEF IInv, InodePartition
  <2>4. DOMAIN own' = DOMAIN own /\ lost' = lost /\ inuse' = inuse /\ Held(t)' = Held(t) /\ OthersKept(t)
    BY DEF Quiet
  <2>5. QED BY <2>1, <2>2, <2>3, <2>4, PartitionStep DEF IInv
<1>2. FreeCountsExact'
  BY DEF IInv, FreeCountsExact, Quiet
<1>3. DirsCounted'
  <2>1. PICK left \in SUBSET lost : \A g \in Groups :
          bg_dirs[g] = Cardinality(CountedDirs(left) \cap GroupInodes(g))
    BY DEF IInv, DirsCounted
  <2>2. Directories' = Directories
    BY DEF Quiet, Directories
  <2>3. CountedDirs(left)' = CountedDirs(left)
    BY <2>2, CountedDirsStep DEF Quiet
  <2>4. QED BY <2>1, <2>3 DEF DirsCounted, Quiet
<1>4. CallsWellFormed'
  BY OthersHeld DEF IInv, CallsWellFormed, Quiet
<1>5. QED BY <1>1, <1>2, <1>3, <1>4 DEF IInv
-----------------------------------------------------------------------------
(***************************************************************************)
(* The search for a group.                                                 *)
(***************************************************************************)

\* A power of two counts the subsets of a set.
LEMMA PowerOfTwo ==
  ASSUME NEW k \in Nat
  PROVE  2 ^ k \in Nat
<1>1. IsFiniteSet(1 .. k) /\ Cardinality(1 .. k) = k
  BY FS_Interval
<1>2. Cardinality(SUBSET (1 .. k)) = 2 ^ k /\ IsFiniteSet(SUBSET (1 .. k))
  BY <1>1, FS_SUBSET
<1>3. QED BY <1>2, FS_CardinalityType

\* The probes for a file are groups, and every group is probed.
LEMMA ProbesReachAll ==
  ASSUME NEW p \in Groups
  PROVE  /\ Probes(p) \in Seq(Groups)
         /\ \A g \in Groups : \E n \in DOMAIN Probes(p) : Probes(p)[n] = g
<1> DEFINE rounds == {k \in 1 .. GroupsCount : 2 ^ (k - 1) < GroupsCount}
           c == Cardinality(rounds)
           hash == [k \in 1 .. c |-> (p + 2 ^ k - 1) % GroupsCount]
           line == [d \in 1 .. GroupsCount |-> (p + d) % GroupsCount]
           start == <<p>> \o hash
<1>1. c \in Nat
  <2>1. IsFiniteSet(1 .. GroupsCount) /\ rounds \in SUBSET (1 .. GroupsCount)
    BY FS_Interval
  <2> HIDE DEF rounds
  <2>2. QED BY <2>1, FS_Subset, FS_CardinalityType
<1>2. <<p>> \in Seq(Groups) /\ Len(<<p>>) = 1
  OBVIOUS
<1>3. hash \in Seq(Groups) /\ Len(hash) = c
  <2> HIDE DEF c
  <2>1. \A k \in 1 .. c : (p + 2 ^ k - 1) % GroupsCount \in Groups
    <3> TAKE k \in 1 .. c
    <3>1. 2 ^ k \in Nat /\ p \in Nat
      BY <1>1, PowerOfTwo DEF Groups
    <3>2. QED BY <3>1 DEF Groups
  <2>2. hash \in [1 .. c -> Groups]
    BY <2>1
  <2>3. QED BY <1>1, <2>2
<1>4. line \in Seq(Groups) /\ Len(line) = GroupsCount
  <2>1. \A d \in 1 .. GroupsCount : (p + d) % GroupsCount \in Groups
    BY DEF Groups
  <2>2. line \in [1 .. GroupsCount -> Groups]
    BY <2>1
  <2>3. QED BY <2>2
<1> HIDE DEF c, hash
<1>5. start \in Seq(Groups) /\ Len(start) = 1 + c
  BY <1>2, <1>3, ConcatProperties
<1>6. Probes(p) = start \o line
  BY DEF Probes, c, hash
<1> HIDE DEF start, line
<1>7. /\ start \o line \in Seq(Groups) /\ Len(start \o line) = Len(start) + Len(line)
      /\ \A i \in 1 .. Len(start) + Len(line) :
           (start \o line)[i] = IF i <= Len(start) THEN start[i] ELSE line[i - Len(start)]
  BY <1>4, <1>5, ConcatProperties, Zenon
<1>8. ASSUME NEW g \in Groups
      PROVE  \E n \in DOMAIN Probes(p) : Probes(p)[n] = g
  <2> DEFINE d == IF p < g THEN g - p ELSE g - p + GroupsCount
  <2>1. d \in 1 .. GroupsCount /\ (p + d) % GroupsCount = g
    BY DEF Groups
  <2>2. line[d] = g
    BY <2>1 DEF line
  <2>3. 1 + c + d \in 1 .. 1 + c + GroupsCount /\ ~(1 + c + d <= 1 + c) /\ 1 + c + d - (1 + c) = d
    BY <1>1, <2>1
  <2> HIDE DEF d
  <2> DEFINE n == 1 + c + d
  <2>4. n \in 1 .. Len(start) + Len(line) /\ ~(n <= Len(start)) /\ n - Len(start) = d
    BY <1>1, <1>4, <1>5, <2>1, <2>3
  <2> HIDE DEF n
  <2>5. (start \o line)[n] = g
    BY <1>7, <2>2, <2>4
  <2>6. n \in DOMAIN (start \o line)
    BY <1>7, <2>4
  <2>7. QED BY <1>6, <2>5, <2>6
<1>9. QED BY <1>6, <1>7, <1>8

\* FileGroups is empty, or the first probed group with a free inode.
LEMMA FileGroupsMeaning ==
  ASSUME NEW p \in Groups
  PROVE  /\ FileGroups(p) \subseteq Groups
         /\ FileGroups(p) = {} => \A g \in Groups : bg_free[g] = 0
<1> DEFINE hits == {n \in DOMAIN Probes(p) : bg_free[Probes(p)[n]] # 0}
<1>1. Probes(p) \in Seq(Groups) /\ hits \in SUBSET Nat
  <2>1. Probes(p) \in Seq(Groups)
    BY ProbesReachAll
  <2>2. DOMAIN Probes(p) = 1 .. Len(Probes(p)) /\ Len(Probes(p)) \in Nat
    BY <2>1, LenProperties
  <2>3. DOMAIN Probes(p) \subseteq Nat
    BY <2>2
  <2>4. QED BY <2>1, <2>3
<1>2. FileGroups(p) = IF hits = {} THEN {} ELSE {Probes(p)[First(hits)]}
  BY DEF FileGroups
<1>3. CASE hits = {}
  <2>1. ASSUME NEW g \in Groups PROVE bg_free[g] = 0
    <3>1. PICK n \in DOMAIN Probes(p) : Probes(p)[n] = g
      BY ProbesReachAll
    <3>2. QED BY <1>3, <3>1
  <2>2. QED BY <1>2, <1>3, <2>1
<1>4. CASE hits # {}
  <2>1. First(hits) \in DOMAIN Probes(p)
    BY <1>1, <1>4, FirstIsMember
  <2>2. Probes(p)[First(hits)] \in Groups
    BY <1>1, <2>1
  <2>3. QED BY <1>2, <1>4, <2>2
<1>5. QED BY <1>3, <1>4

\* No group is good enough for a directory only if no group has a free inode: the
\* average never excludes them all.
LEMMA DirGroupsMeaning ==
  ASSUME TypeOK, FreeCountsExact, DirGroups = {}
  PROVE  \A g \in Groups : bg_free[g] = 0
<1> DEFINE avg == s_free \div GroupsCount
<1>1. s_free \in Nat /\ avg \in Nat /\ GroupsCount * avg <= s_free
  <2>1. s_free \in Nat
    BY FiniteInodes, FS_CardinalityType DEF TypeOK
  <2>2. QED BY <2>1, SMTT(30)
<1>2. \A g \in Groups : bg_free[g] \in Nat /\ (bg_free[g] = 0 \/ bg_free[g] < avg)
  BY <1>1 DEF DirGroups, TypeOK
<1> HIDE DEF avg
<1>3. CASE avg = 0
  BY <1>2, <1>3
<1>4. CASE avg > 0
  <2>1. avg - 1 \in Nat
    BY <1>1, <1>4
  <2>2. \A g \in Groups : Cardinality(GroupInodes(g) \ inuse) <= avg - 1
    BY <1>1, <1>2, <1>4 DEF FreeCountsExact
  <2>3. s_free <= GroupsCount * (avg - 1)
    BY <2>1, <2>2, SumBound DEF FreeCountsExact, TypeOK
  <2>4. GroupsCount * (avg - 1) = GroupsCount * avg - GroupsCount
    BY <1>1
  <2>5. QED BY <1>1, <2>3, <2>4
<1>5. QED BY <1>1, <1>3, <1>4

\* What the search does to the thread: it waits for the bitmap of some group, or it
\* ends the call, and then no inode of the volume is free.
LEMMA ChooseGroupEffect ==
  ASSUME TypeOK, FreeCountsExact, NEW t \in Threads, NEW dir \in Inodes, NEW mode \in Modes,
         ChooseGroup(t, dir, mode)
  PROVE  \/ \E g, h \in Groups :
              /\ req' = [req EXCEPT ![t] = [ip |-> dir, mode |-> mode, grp |-> g, mark |-> DescBlock(h)]]
              /\ pc' = [pc EXCEPT ![t] = "newread"]
              /\ ret' = ret
         \/ /\ ret' = [ret EXCEPT ![t] = 0]
            /\ pc' = [pc EXCEPT ![t] = "done"]
            /\ req' = req
            /\ inuse = Inodes
<1> DEFINE found == IF mode = "dir" THEN DirGroups ELSE FileGroups(GroupOf(dir))
<1>1. GroupOf(dir) \in Groups
  BY GroupOfRange
<1>2. found \subseteq Groups
  BY <1>1, FileGroupsMeaning DEF DirGroups
<1>3. ASSUME found = {} PROVE inuse = Inodes
  <2>1. \A g \in Groups : bg_free[g] = 0
    BY <1>1, <1>3, FileGroupsMeaning, DirGroupsMeaning
  <2>2. \A g \in Groups : GroupInodes(g) \subseteq inuse
    BY <2>1, FiniteInodes, FS_Difference, FS_EmptySet DEF FreeCountsExact
  <2>3. \A ino \in Inodes : ino \in GroupInodes(GroupOf(ino)) /\ GroupOf(ino) \in Groups
    BY GroupOfRange DEF GroupInodes
  <2>4. QED BY <2>2, <2>3 DEF TypeOK
<1>4. GroupsCount - 1 \in Groups
  BY DEF Groups
<1> HIDE DEF found
<1>5. CASE \E g \in found :
             /\ req' = [req EXCEPT ![t] =
                  [ip |-> dir, mode |-> mode, grp |-> g,
                   mark |-> DescBlock(IF mode = "dir" THEN GroupsCount - 1 ELSE g)]]
             /\ Goto(t, "newread")
             /\ UNCHANGED ret
  BY <1>2, <1>4, <1>5 DEF Goto
<1>6. CASE /\ found = {}
           /\ ret' = [ret EXCEPT ![t] = 0]
           /\ Goto(t, "done")
           /\ UNCHANGED req
  BY <1>3, <1>6 DEF Goto
<1>7. QED BY <1>5, <1>6 DEF ChooseGroup, found
-----------------------------------------------------------------------------
(***************************************************************************)
(* One lemma per action.                                                   *)
(***************************************************************************)

\* The search for a group changes nothing but the thread.
LEMMA ChooseGroupInv ==
  ASSUME IInv, NEW t \in Threads, Held(t) = {}, NEW dir \in Inodes, NEW mode \in Modes,
         ChooseGroup(t, dir, mode), UNCHANGED <<inuse, countVars, own, lost>>,
         buf' \in [Groups -> Threads \cup {NoThread}]
  PROVE  IInv'
<1>1. CASE \E g, h \in Groups :
              /\ req' = [req EXCEPT ![t] = [ip |-> dir, mode |-> mode, grp |-> g, mark |-> DescBlock(h)]]
              /\ pc' = [pc EXCEPT ![t] = "newread"]
              /\ ret' = ret
  <2>1. TypeOK'
    BY <1>1 DEF IInv, TypeOK, countVars
  <2>2. pc'[t] = "newread" /\ req'[t].ip = dir /\ OthersKept(t)
    BY <1>1 DEF IInv, TypeOK, OthersKept
  <2>3. Held(t)' = {} /\ DirHeld(t)' = {} /\ DirHeld(t) = {} /\ CallWellFormed(t)'
    BY <2>2 DEF Held, DirHeld, CallWellFormed
  <2>4. QED BY <2>1, <2>2, <2>3, QuietStep DEF Quiet, countVars
<1>2. CASE /\ ret' = [ret EXCEPT ![t] = 0]
           /\ pc' = [pc EXCEPT ![t] = "done"]
           /\ req' = req
  <2>1. TypeOK'
    BY <1>2 DEF IInv, TypeOK, countVars
  <2>2. pc'[t] = "done" /\ OthersKept(t)
    BY <1>2 DEF IInv, TypeOK, OthersKept
  <2>3. Held(t)' = {} /\ DirHeld(t)' = {} /\ DirHeld(t) = {} /\ CallWellFormed(t)'
    BY <2>2 DEF Held, DirHeld, CallWellFormed
  <2>4. QED BY <2>1, <2>2, <2>3, QuietStep DEF Quiet, countVars
<1>3. QED BY <1>1, <1>2, ChooseGroupEffect DEF IInv

\* ext2_valloc only looks at the count.
LEMMA VallocInv ==
  ASSUME IInv, NEW t \in Threads, NEW dir \in Directories, NEW mode \in Modes, Valloc(t, dir, mode)
  PROVE  IInv'
<1>1. dir \in Inodes
  BY DEF IInv, TypeOK, Directories, Reserved, Inodes
<1>2. DescBlock(0) = 0 /\ 0 \in Groups
  BY SMT DEF DescBlock, Groups
<1>3. /\ pc[t] = "idle" /\ pc'[t] \in {"done", "choose"}
      /\ pc' \in [Threads -> {"idle", "choose", "newread", "new", "freeread", "free", "write", "vget", "done"}]
      /\ OthersKept(t)
      /\ req'[t] = [ip |-> dir, mode |-> mode, grp |-> 0, mark |-> 0]
  BY DEF IInv, TypeOK, Valloc, Goto, OthersKept, NoReq
<1>4. TypeOK'
  BY <1>1, <1>2, <1>3 DEF IInv, TypeOK, Valloc, countVars, NoReq
<1>5. /\ Held(t) = {} /\ Held(t)' = {} /\ DirHeld(t) = {} /\ DirHeld(t)' = {}
      /\ CallWellFormed(t)'
  BY <1>1, <1>3 DEF Held, DirHeld, CallWellFormed
<1>6. QED BY <1>3, <1>4, <1>5, QuietStep DEF Quiet, Valloc, countVars

\* ext2_new_inode choosing a group keeps the invariant.
LEMMA NewInodeInv ==
  ASSUME IInv, NEW t \in Threads, NewInode(t)
  PROVE  IInv'
<1>1. req[t].ip \in Inodes /\ req[t].mode \in Modes /\ Held(t) = {}
  BY DEF IInv, TypeOK, CallsWellFormed, CallWellFormed, NewInode, Held
<1>2. QED BY <1>1, ChooseGroupInv DEF IInv, TypeOK, NewInode

\* Waiting for the bitmap's buffer changes no bitmap.
LEMMA ReadBitmapInv ==
  ASSUME IInv, NEW t \in Threads, ReadBitmap(t)
  PROVE  IInv'
<1>1. TypeOK'
  BY DEF IInv, TypeOK, ReadBitmap, Goto, countVars
<1>2. /\ OthersKept(t) /\ req' = req /\ ret' = ret
      /\ (pc[t] = "newread" /\ pc'[t] = "new") \/ (pc[t] = "freeread" /\ pc'[t] = "free")
  BY DEF IInv, TypeOK, ReadBitmap, Goto, OthersKept
<1>3. Held(t)' = Held(t) /\ DirHeld(t)' = DirHeld(t)
  BY <1>2 DEF Held, DirHeld
<1>4. CallWellFormed(t)'
  BY <1>2 DEF IInv, CallsWellFormed, CallWellFormed
<1>5. QED BY <1>1, <1>2, <1>3, <1>4, QuietStep DEF Quiet, ReadBitmap, countVars

\* Nor does giving the buffer back; a number that is returned goes on to ext2_vget.
LEMMA ReleaseBitmapInv ==
  ASSUME IInv, NEW t \in Threads, ReleaseBitmap(t)
  PROVE  IInv'
<1>1. TypeOK'
  BY DEF IInv, TypeOK, ReleaseBitmap, Goto, countVars
<1>2. /\ OthersKept(t) /\ req' = req /\ ret' = ret
      /\ pc[t] = "write" /\ pc'[t] = IF ret[t] # 0 THEN "vget" ELSE "done"
  BY DEF IInv, TypeOK, ReleaseBitmap, Goto, OthersKept
<1>3. Held(t)' = Held(t) /\ DirHeld(t)' = DirHeld(t)
  BY <1>2 DEF Held, DirHeld
<1>4. CallWellFormed(t)'
  BY <1>2 DEF CallWellFormed
<1>5. QED BY <1>1, <1>2, <1>3, <1>4, QuietStep DEF Quiet, ReleaseBitmap, countVars

\* The end of a call keeps the invariant.
LEMMA ReturnInv ==
  ASSUME IInv, NEW t \in Threads, Return(t)
  PROVE  IInv'
<1>1. TypeOK'
  <2>1. DescBlock(0) = 0 /\ 0 \in Groups
    BY SMT DEF DescBlock, Groups
  <2>2. QED BY <2>1 DEF IInv, TypeOK, Return, Goto, countVars, NoReq, Modes
<1>2. OthersKept(t) /\ pc[t] = "done" /\ pc'[t] = "idle"
  BY DEF IInv, TypeOK, Return, Goto, OthersKept
<1>3. Held(t) = {} /\ Held(t)' = {} /\ DirHeld(t) = {} /\ DirHeld(t)' = {} /\ CallWellFormed(t)'
  BY <1>2 DEF Held, DirHeld, CallWellFormed
<1>4. QED BY <1>1, <1>2, <1>3, QuietStep DEF Quiet, Return, countVars

\* ext2_sbupdate only writes.
LEMMA SbupdateInv ==
  ASSUME IInv, Sbupdate
  PROVE  IInv'
<1>1. TypeOK'
  BY DEF IInv, TypeOK, Sbupdate
<1>2. InodePartition'
  BY DEF IInv, InodePartition, Sbupdate, Held
<1>3. FreeCountsExact'
  BY DEF IInv, FreeCountsExact, Sbupdate
<1>4. DirsCounted'
  <2>1. \A t \in Threads : DirHeld(t)' = DirHeld(t)
    BY DEF Sbupdate, DirHeld, Held
  <2>2. \A left : CountedDirs(left)' = CountedDirs(left)
    BY <2>1 DEF Sbupdate, CountedDirs, Directories
  <2>3. QED BY <2>2 DEF IInv, DirsCounted, Sbupdate
<1>5. CallsWellFormed'
  BY DEF IInv, CallsWellFormed, CallWellFormed, Sbupdate
<1>6. QED BY <1>1, <1>2, <1>3, <1>4, <1>5 DEF IInv

\* A number is found: it is a usable one, and the counts follow the bitmap.
LEMMA FoundInodeInv ==
  ASSUME IInv, NEW t \in Threads, pc[t] = "new", NEW ino \in GroupInodes(req[t].grp) \ inuse,
         FoundInode(t, req[t].grp, ino), UNCHANGED <<own, lost>>
  PROVE  IInv'
<1> DEFINE g == req[t].grp
<1>1. /\ g \in Groups /\ inuse \in SUBSET Inodes /\ ino \in Inodes /\ ino \notin Reserved
      /\ req[t].mode \in Modes /\ req[t].mark \in {DescBlock(h) : h \in Groups}
  BY DEF IInv, TypeOK, InodePartition, GroupInodes
<1>2. ~(ino < FirstIno \/ ino > Cardinality(Inodes))
  BY <1>1, FiniteInodes DEF Reserved, Inodes
<1>3. /\ inuse' = inuse \cup {ino}
      /\ ret' = [ret EXCEPT ![t] = ino]
      /\ bg_free' = [bg_free EXCEPT ![g] = @ - 1]
      /\ bg_dirs' = IF req[t].mode = "dir" THEN [bg_dirs EXCEPT ![g] = @ + 1] ELSE bg_dirs
      /\ s_free' = s_free - 1
      /\ dirty' = dirty \cup {req[t].mark}
      /\ unwritten' = unwritten \cup {<<g, req[t].mode>>}
      /\ pc' = [pc EXCEPT ![t] = "write"]
      /\ UNCHANGED <<buf, req>>
  BY <1>1, <1>2 DEF FoundInode, Bump, Goto, IInv, TypeOK
<1>4. /\ OthersKept(t) /\ pc'[t] = "write" /\ ret'[t] = ino /\ req'[t] = req[t]
      /\ Held(t) = {} /\ DirHeld(t) = {} /\ Held(t)' = {ino}
      /\ DirHeld(t)' = IF req[t].mode = "dir" THEN {ino} ELSE {}
  <2>1. OthersKept(t) /\ pc'[t] = "write" /\ ret'[t] = ino /\ req'[t] = req[t]
    BY <1>1, <1>3 DEF IInv, TypeOK, OthersKept
  <2>2. ino # 0
    BY <1>1 DEF Inodes
  <2>3. Held(t) = {} /\ Held(t)' = {ino}
    BY <2>1, <2>2 DEF Held
  <2>4. QED BY <2>1, <2>3 DEF DirHeld
<1>5. InodePartition'
  <2>1. /\ inuse = Rest(t) \cup DOMAIN own \cup lost
        /\ lost \cap DOMAIN own = {}
        /\ (DOMAIN own \cup lost \cup {ino}) \cap Rest(t) = {}
    BY <1>4 DEF IInv, InodePartition, Rest
  <2>2. {ino} \cap (DOMAIN own \cup lost) = {}
    BY <2>1
  <2>3. QED BY <1>3, <1>4, <2>1, <2>2, PartitionStep DEF IInv
<1>6. FreeCountsExact'
  <2>0. /\ Cardinality(GroupInodes(g) \ (inuse \cup {ino})) = Cardinality(GroupInodes(g) \ inuse) - 1
        /\ Cardinality(Inodes \ (inuse \cup {ino})) = Cardinality(Inodes \ inuse) - 1
        /\ \A h \in Groups \ {g} : GroupInodes(h) \ (inuse \cup {ino}) = GroupInodes(h) \ inuse
    BY <1>1, TakeOne
  <2>1. /\ Cardinality(GroupInodes(g) \ inuse') = bg_free[g] - 1
        /\ Cardinality(Inodes \ inuse') = s_free - 1
        /\ \A h \in Groups \ {g} : GroupInodes(h) \ inuse' = GroupInodes(h) \ inuse
    BY <1>1, <1>3, <2>0 DEF IInv, FreeCountsExact
  <2>2. ASSUME NEW h \in Groups PROVE bg_free'[h] = Cardinality(GroupInodes(h) \ inuse')
    BY <1>1, <1>3, <2>1 DEF IInv, TypeOK, FreeCountsExact
  <2>3. QED BY <1>3, <2>1, <2>2 DEF FreeCountsExact
<1>7. DirsCounted'
  <2>1. PICK left \in SUBSET lost : \A h \in Groups :
          bg_dirs[h] = Cardinality(CountedDirs(left) \cap GroupInodes(h))
    BY DEF IInv, DirsCounted
  <2>2. Directories' = Directories
    BY DEF Directories
  <2>3. CountedDirs(left)' = CountedDirs(left) \cup DirHeld(t)'
    BY <1>4, <2>2, CountedDirsStep
  <2>4. CASE req[t].mode = "dir"
    <3>1. ino \notin CountedDirs(left)
      BY CountedDirsInUse DEF IInv
    <3>2. /\ Cardinality((CountedDirs(left) \cup {ino}) \cap GroupInodes(g)) = bg_dirs[g] + 1
          /\ \A h \in Groups \ {g} : (CountedDirs(left) \cup {ino}) \cap GroupInodes(h) = CountedDirs(left) \cap GroupInodes(h)
      <4> DEFINE D == CountedDirs(left)
      <4> HIDE DEF D
      <4>1. ino \notin D /\ ino \in GroupInodes(g)
        BY <3>1 DEF D
      <4>2. /\ Cardinality((D \cup {ino}) \cap GroupInodes(g)) = Cardinality(D \cap GroupInodes(g)) + 1
            /\ \A h \in Groups \ {g} : (D \cup {ino}) \cap GroupInodes(h) = D \cap GroupInodes(h)
        BY <1>1, <4>1, AddDirectory
      <4>3. QED BY <1>1, <2>1, <4>2 DEF D
    <3>3. ASSUME NEW h \in Groups
          PROVE  bg_dirs'[h] = Cardinality(CountedDirs(left)' \cap GroupInodes(h))
      BY <1>1, <1>3, <1>4, <2>1, <2>3, <2>4, <3>2 DEF IInv, TypeOK
    <3>4. QED BY <3>3 DEF DirsCounted
  <2>5. CASE req[t].mode # "dir"
    BY <1>3, <1>4, <2>1, <2>3, <2>5 DEF DirsCounted
  <2>6. QED BY <2>4, <2>5
<1>8. TypeOK'
  <2>1. /\ bg_free' = [h \in Groups |-> bg_free'[h]]
        /\ bg_dirs' = [h \in Groups |-> bg_dirs'[h]]
    BY <1>3 DEF IInv, TypeOK
  <2>2. unwritten' \in SUBSET (Groups \X Changes)
    BY <1>1, <1>3 DEF IInv, TypeOK, Changes
  <2>3. QED BY <1>1, <1>3, <1>6, <1>7, <2>1, <2>2, CountTypes DEF IInv, TypeOK
<1>9. CallsWellFormed'
  BY <1>4, OthersHeld DEF IInv, CallsWellFormed, CallWellFormed
<1>10. QED BY <1>5, <1>6, <1>7, <1>8, <1>9 DEF IInv

\* The bitmap is searched: a number is found, or the search starts over or ends.
LEMMA SearchBitmapInv ==
  ASSUME IInv, NEW t \in Threads, SearchBitmap(t)
  PROVE  IInv'
<1> DEFINE g == req[t].grp
           clear == GroupInodes(g) \ inuse
<1>1. pc[t] = "new" /\ g \in Groups /\ UNCHANGED <<own, lost>>
  BY DEF SearchBitmap, IInv, TypeOK
<1>2. CASE clear # {} /\ FoundInode(t, g, First(clear))
  <2>1. clear \in SUBSET Nat
    BY DEF GroupInodes, Inodes
  <2>2. First(clear) \in clear
    BY <1>2, <2>1, FirstIsMember
  <2>3. QED BY <1>1, <1>2, <2>2, FoundInodeInv
<1>3. CASE /\ clear = {}
           /\ buf' = [buf EXCEPT ![g] = NoThread]
           /\ \/ bg_free[g] # 0 /\ ret' = [ret EXCEPT ![t] = 0] /\ Goto(t, "done") /\ UNCHANGED req
              \/ bg_free[g] = 0 /\ ChooseGroup(t, req[t].ip, req[t].mode)
           /\ UNCHANGED <<inuse, countVars>>
  <2>1. buf' \in [Groups -> Threads \cup {NoThread}]
    BY <1>3 DEF IInv, TypeOK
  <2>2. bg_free[g] = 0
    BY <1>1, <1>3, FS_EmptySet DEF IInv, FreeCountsExact
  <2>3. ChooseGroup(t, req[t].ip, req[t].mode)
    BY <1>3, <2>2
  <2>4. req[t].ip \in Inodes /\ req[t].mode \in Modes /\ Held(t) = {}
    BY <1>1 DEF IInv, TypeOK, CallsWellFormed, CallWellFormed, Held
  <2>5. QED BY <1>1, <1>3, <2>1, <2>3, <2>4, ChooseGroupInv
<1>4. QED BY <1>2, <1>3 DEF SearchBitmap

\* A file without links gives up its number: from the files to the thread.
LEMMA InactiveInv ==
  ASSUME IInv, NEW t \in Threads, NEW ino \in DOMAIN own, Inactive(t, ino)
  PROVE  IInv'
<1>1. ino \in Inodes /\ ino \notin Reserved /\ own[ino] \in Modes /\ GroupOf(ino) \in Groups
  BY GroupOfRange DEF IInv, TypeOK
<1>2. ~(ino < FirstIno \/ ino > Cardinality(Inodes))
  BY <1>1, FiniteInodes DEF Reserved, Inodes
<1>3. /\ pc[t] = "idle" /\ pc' = [pc EXCEPT ![t] = "freeread"] /\ ret' = [ret EXCEPT ![t] = 0]
      /\ own' = [i \in DOMAIN own \ {ino} |-> own[i]]
      /\ req' = [req EXCEPT ![t] = [ip |-> ino, mode |-> own[ino], grp |-> GroupOf(ino),
                                    mark |-> DescBlock(GroupOf(ino))]]
      /\ UNCHANGED <<inuse, bg_free, bg_dirs, s_free, dirty, unwritten, buf, lost>>
  BY <1>2 DEF Inactive, Goto, countVars
<1>4. /\ OthersKept(t) /\ pc'[t] = "freeread" /\ ret'[t] = 0
      /\ req'[t].ip = ino /\ req'[t].mode = own[ino] /\ req'[t].grp = GroupOf(ino)
  BY <1>3 DEF IInv, TypeOK, OthersKept
<1>5. /\ Held(t) = {} /\ DirHeld(t) = {} /\ Held(t)' = {ino}
      /\ DirHeld(t)' = IF own[ino] = "dir" THEN {ino} ELSE {}
  BY <1>3, <1>4 DEF Held, DirHeld
<1>6. TypeOK'
  BY <1>1, <1>3 DEF IInv, TypeOK
<1>7. InodePartition'
  <2>1. /\ inuse = Rest(t) \cup DOMAIN own \cup lost
        /\ lost \cap DOMAIN own = {}
        /\ (DOMAIN own \cup lost) \cap Rest(t) = {}
    BY <1>5 DEF IInv, InodePartition, Rest
  <2>2. DOMAIN own' = DOMAIN own \ {ino} /\ lost' = lost /\ inuse' = inuse
    BY <1>3
  <2>3. QED BY <1>4, <1>5, <2>1, <2>2, PartitionStep DEF IInv
<1>8. FreeCountsExact'
  BY <1>3 DEF IInv, FreeCountsExact
<1>9. DirsCounted'
  <2>1. PICK left \in SUBSET lost : \A h \in Groups :
          bg_dirs[h] = Cardinality(CountedDirs(left) \cap GroupInodes(h))
    BY DEF IInv, DirsCounted
  <2>2. Directories = Directories' \cup DirHeld(t)'
    <3>1. ino # RootIno
      BY <1>1
    <3>2. DOMAIN own' = DOMAIN own \ {ino} /\ \A i \in DOMAIN own \ {ino} : own'[i] = own[i]
      BY <1>3
    <3>3. QED BY <1>5, <3>1, <3>2 DEF Directories
  <2>3. /\ CountedDirs(left) = Directories \cup left \cup OthersDirs(t) \cup DirHeld(t)
        /\ CountedDirs(left)' = Directories' \cup left \cup OthersDirs(t) \cup DirHeld(t)'
    BY <1>4, CountedDirsStep
  <2>4. CountedDirs(left)' = CountedDirs(left)
    <3>1. DirHeld(t) = {}
      BY <1>5
    <3>2. QED BY <2>2, <2>3, <3>1
  <2>5. QED BY <1>3, <2>1, <2>4 DEF DirsCounted
<1>10. CallsWellFormed'
  BY <1>1, <1>4, OthersHeld DEF IInv, CallsWellFormed, CallWellFormed
<1>11. QED BY <1>6, <1>7, <1>8, <1>9, <1>10 DEF IInv

\* The bit of a freed number is set, is cleared once, and is counted in its group.
LEMMA FreeBitInv ==
  ASSUME IInv, NEW t \in Threads, FreeBit(t)
  PROVE  IInv'
<1> DEFINE g == req[t].grp
           ino == req[t].ip
<1>1. /\ pc[t] = "free" /\ ret[t] = 0 /\ ino \in Inodes /\ g = GroupOf(ino)
      /\ Held(t) = {ino} /\ DirHeld(t) = (IF req[t].mode = "dir" THEN {ino} ELSE {})
  BY DEF FreeBit, IInv, CallsWellFormed, CallWellFormed, Held, DirHeld
<1>2. g \in Groups /\ ino \in GroupInodes(g) /\ ino \in inuse /\ inuse \in SUBSET Inodes
  BY <1>1, GroupOfRange DEF IInv, InodePartition, GroupInodes, TypeOK
<1>3. /\ inuse' = inuse \ {ino}
      /\ bg_free' = [bg_free EXCEPT ![g] = @ + 1]
      /\ bg_dirs' = IF req[t].mode = "dir" THEN [bg_dirs EXCEPT ![g] = @ - 1] ELSE bg_dirs
      /\ s_free' = s_free + 1
      /\ dirty' = dirty \cup {req[t].mark}
      /\ unwritten' = unwritten \cup {<<g, "free">>}
      /\ pc' = [pc EXCEPT ![t] = "write"]
      /\ UNCHANGED <<buf, req, ret, own, lost>>
  BY <1>2 DEF FreeBit, Bump, Goto, IInv, TypeOK
<1> HIDE DEF g, ino
<1>4. OthersKept(t) /\ pc'[t] = "write" /\ Held(t)' = {} /\ DirHeld(t)' = {}
  <2>1. OthersKept(t) /\ pc'[t] = "write" /\ ret'[t] = 0
    BY <1>1, <1>3 DEF IInv, TypeOK, OthersKept
  <2>2. QED BY <2>1 DEF Held, DirHeld
<1>5. InodePartition'
  <2>1. /\ inuse = Rest(t) \cup DOMAIN own \cup lost \cup {ino}
        /\ lost \cap DOMAIN own = {}
        /\ (DOMAIN own \cup lost \cup {ino}) \cap Rest(t) = {}
        /\ ino \notin DOMAIN own \cup lost
    BY <1>1 DEF IInv, InodePartition, Rest
  <2>2. QED BY <1>3, <1>4, <2>1, PartitionStep DEF IInv
<1>6. FreeCountsExact'
  <2>1. /\ (inuse \ {ino}) \cup {ino} = inuse
        /\ ino \in GroupInodes(g) \ (inuse \ {ino})
        /\ inuse \ {ino} \in SUBSET Inodes
    BY <1>2
  <2>2. /\ Cardinality(GroupInodes(g) \ inuse) = Cardinality(GroupInodes(g) \ (inuse \ {ino})) - 1
        /\ Cardinality(Inodes \ inuse) = Cardinality(Inodes \ (inuse \ {ino})) - 1
        /\ \A h \in Groups \ {g} : GroupInodes(h) \ inuse = GroupInodes(h) \ (inuse \ {ino})
    <3> DEFINE used == inuse \ {ino}
    <3> HIDE DEF used
    <3>1. used \in SUBSET Inodes /\ ino \in GroupInodes(g) \ used /\ inuse = used \cup {ino}
      BY <2>1 DEF used
    <3>2. /\ Cardinality(GroupInodes(g) \ (used \cup {ino})) = Cardinality(GroupInodes(g) \ used) - 1
          /\ Cardinality(Inodes \ (used \cup {ino})) = Cardinality(Inodes \ used) - 1
          /\ \A h \in Groups \ {g} : GroupInodes(h) \ (used \cup {ino}) = GroupInodes(h) \ used
      BY <1>2, <3>1, TakeOne
    <3>3. QED BY <3>1, <3>2 DEF used
  <2>3. /\ Cardinality(GroupInodes(g) \ (inuse \ {ino})) \in Nat
        /\ Cardinality(Inodes \ (inuse \ {ino})) \in Nat
    BY <1>2, CountsInRange
  <2>4. /\ Cardinality(GroupInodes(g) \ inuse') = bg_free[g] + 1
        /\ Cardinality(Inodes \ inuse') = s_free + 1
        /\ \A h \in Groups \ {g} : GroupInodes(h) \ inuse' = GroupInodes(h) \ inuse
    BY <1>2, <1>3, <2>2, <2>3 DEF IInv, FreeCountsExact
  <2>5. ASSUME NEW h \in Groups PROVE bg_free'[h] = Cardinality(GroupInodes(h) \ inuse')
    BY <1>2, <1>3, <2>4 DEF IInv, TypeOK, FreeCountsExact
  <2>6. QED BY <1>3, <2>4, <2>5 DEF FreeCountsExact
<1>7. DirsCounted'
  <2>1. PICK left \in SUBSET lost : \A h \in Groups :
          bg_dirs[h] = Cardinality(CountedDirs(left) \cap GroupInodes(h))
    BY DEF IInv, DirsCounted
  <2>2. Directories' = Directories
    BY <1>3 DEF Directories
  <2>3. CountedDirs(left) = CountedDirs(left)' \cup DirHeld(t)
    BY <1>4, <2>2, CountedDirsStep
  <2>4. CASE req[t].mode = "dir"
    <3>1. ino \notin CountedDirs(left)'
      <4>1. CountedDirs(left)' = Directories \cup left \cup OthersDirs(t)
        BY <1>4, <2>2, CountedDirsStep
      <4>2. ino \notin Directories \cup left
        BY <1>1 DEF IInv, InodePartition, Directories
      <4>3. \A u \in Threads \ {t} : ino \notin DirHeld(u)
        BY <1>1 DEF IInv, InodePartition, DirHeld
      <4>4. QED BY <4>1, <4>2, <4>3 DEF OthersDirs
    <3>2. /\ bg_dirs[g] = Cardinality(CountedDirs(left)' \cap GroupInodes(g)) + 1
          /\ \A h \in Groups \ {g} : CountedDirs(left) \cap GroupInodes(h) = CountedDirs(left)' \cap GroupInodes(h)
      <4> DEFINE D == CountedDirs(left)'
      <4>1. ino \notin D /\ ino \in GroupInodes(g) /\ CountedDirs(left) = D \cup {ino}
        BY <1>1, <1>2, <2>3, <2>4, <3>1
      <4> HIDE DEF D
      <4>2. /\ Cardinality((D \cup {ino}) \cap GroupInodes(g)) = Cardinality(D \cap GroupInodes(g)) + 1
            /\ \A h \in Groups \ {g} : (D \cup {ino}) \cap GroupInodes(h) = D \cap GroupInodes(h)
        BY <1>2, <4>1, AddDirectory
      <4>3. QED BY <1>2, <2>1, <4>1, <4>2 DEF D
    <3>3. Cardinality(CountedDirs(left)' \cap GroupInodes(g)) \in Nat
      BY <1>2, CountsInRange
    <3>4. ASSUME NEW h \in Groups
          PROVE  bg_dirs'[h] = Cardinality(CountedDirs(left)' \cap GroupInodes(h))
      <4>1. CASE h = g
        BY <1>2, <1>3, <2>4, <3>2, <3>3, <4>1 DEF IInv, TypeOK
      <4>2. CASE h # g
        BY <1>2, <1>3, <2>1, <2>4, <3>2, <4>2 DEF IInv, TypeOK
      <4>3. QED BY <4>1, <4>2
    <3>5. QED BY <1>3, <3>4 DEF DirsCounted
  <2>5. CASE req[t].mode # "dir"
    BY <1>1, <1>3, <2>1, <2>3, <2>5 DEF DirsCounted
  <2>6. QED BY <2>4, <2>5
<1>8. TypeOK'
  <2>1. /\ bg_free' = [h \in Groups |-> bg_free'[h]]
        /\ bg_dirs' = [h \in Groups |-> bg_dirs'[h]]
    BY <1>3 DEF IInv, TypeOK
  <2>2. unwritten' \in SUBSET (Groups \X Changes)
    BY <1>2, <1>3 DEF IInv, TypeOK, Changes
  <2>3. QED BY <1>2, <1>3, <1>6, <1>7, <2>1, <2>2, CountTypes DEF IInv, TypeOK
<1>9. CallsWellFormed'
  BY <1>4, OthersHeld DEF IInv, CallsWellFormed, CallWellFormed
<1>10. QED BY <1>5, <1>6, <1>7, <1>8, <1>9 DEF IInv

\* ext2_vget makes the number a file's, or it is left behind.
LEMMA VgetInv ==
  ASSUME IInv, NEW t \in Threads, Vget(t)
  PROVE  IInv'
<1> DEFINE ino == ret[t]
<1>1. /\ pc[t] = "vget" /\ ino # 0 /\ Held(t) = {ino}
      /\ DirHeld(t) = (IF req[t].mode = "dir" THEN {ino} ELSE {})
  BY DEF Vget, IInv, CallsWellFormed, CallWellFormed, Held, DirHeld
<1>2. ino \in Inodes /\ ino \notin Reserved /\ ino \notin DOMAIN own \cup lost /\ req[t].mode \in Modes
  BY <1>1 DEF IInv, InodePartition, TypeOK
<1> HIDE DEF ino
<1>3. /\ pc' = [pc EXCEPT ![t] = "done"] /\ req' = req
      /\ UNCHANGED <<inuse, bg_free, bg_dirs, s_free, dirty, unwritten, buf>>
  BY DEF Vget, Goto, countVars
<1>4. /\ inuse = Rest(t) \cup DOMAIN own \cup lost \cup {ino}
      /\ lost \cap DOMAIN own = {}
      /\ (DOMAIN own \cup lost \cup {ino}) \cap Rest(t) = {}
  BY <1>1 DEF IInv, InodePartition, Rest
<1>5. FreeCountsExact'
  BY <1>3 DEF IInv, FreeCountsExact
<1>6. PICK left \in SUBSET lost : \A h \in Groups :
        bg_dirs[h] = Cardinality(CountedDirs(left) \cap GroupInodes(h))
  BY DEF IInv, DirsCounted
<1>7. CASE /\ own' = [i \in DOMAIN own \cup {ino} |-> IF i = ino THEN req[t].mode ELSE own[i]]
           /\ lost' = lost /\ ret' = ret
  <2>1. OthersKept(t) /\ pc'[t] = "done"
    BY <1>3, <1>7 DEF IInv, TypeOK, OthersKept
  <2>2. Held(t)' = {} /\ DirHeld(t)' = {}
    BY <2>1 DEF Held, DirHeld
  <2>3. /\ DOMAIN own' = DOMAIN own \cup {ino} /\ own'[ino] = req[t].mode
        /\ \A i \in DOMAIN own : own'[i] = own[i]
    BY <1>2, <1>7
  <2>4. TypeOK'
    BY <1>2, <1>3, <1>7, <2>3 DEF IInv, TypeOK
  <2>5. InodePartition'
    BY <1>2, <1>3, <1>4, <1>7, <2>1, <2>2, <2>3, PartitionStep DEF IInv
  <2>6. Directories' = Directories \cup DirHeld(t)
    BY <1>1, <1>2, <2>3 DEF Directories
  <2>7. CountedDirs(left)' = CountedDirs(left)
    <3>1. /\ CountedDirs(left) = Directories \cup left \cup OthersDirs(t) \cup DirHeld(t)
          /\ CountedDirs(left)' = Directories' \cup left \cup OthersDirs(t) \cup DirHeld(t)'
      BY <2>1, CountedDirsStep
    <3>2. QED BY <2>2, <2>6, <3>1
  <2>8. DirsCounted'
    BY <1>3, <1>6, <1>7, <2>7 DEF DirsCounted
  <2>9. CallsWellFormed'
    BY <2>1, OthersHeld DEF IInv, CallsWellFormed, CallWellFormed
  <2>10. QED BY <1>5, <2>4, <2>5, <2>8, <2>9 DEF IInv
<1>8. CASE /\ lost' = lost \cup {ino}
           /\ ret' = [ret EXCEPT ![t] = 0] /\ own' = own
  <2>1. OthersKept(t) /\ pc'[t] = "done"
    BY <1>3, <1>8 DEF IInv, TypeOK, OthersKept
  <2>2. Held(t)' = {} /\ DirHeld(t)' = {}
    BY <2>1 DEF Held, DirHeld
  <2>3. TypeOK'
    BY <1>2, <1>3, <1>8 DEF IInv, TypeOK
  <2>4. InodePartition'
    BY <1>2, <1>3, <1>4, <1>8, <2>1, <2>2, PartitionStep DEF IInv
  <2>5. Directories' = Directories
    BY <1>8 DEF Directories
  <2>6. PICK more : more = left \cup DirHeld(t)
    OBVIOUS
  <2>7. CountedDirs(more)' = CountedDirs(left)
    <3>1. /\ CountedDirs(left) = Directories \cup left \cup OthersDirs(t) \cup DirHeld(t)
          /\ CountedDirs(more)' = Directories' \cup more \cup OthersDirs(t) \cup DirHeld(t)'
      BY <2>1, CountedDirsStep
    <3>2. QED BY <2>2, <2>5, <2>6, <3>1
  <2>8. more \in SUBSET lost'
    BY <1>1, <1>8, <2>6
  <2>9. DirsCounted'
    BY <1>3, <1>6, <2>7, <2>8 DEF DirsCounted
  <2>10. CallsWellFormed'
    BY <2>1, OthersHeld DEF IInv, CallsWellFormed, CallWellFormed
  <2>11. QED BY <1>5, <2>3, <2>4, <2>9, <2>10 DEF IInv
<1>9. QED BY <1>7, <1>8 DEF Vget, ino

\* So does a step that changes nothing.
LEMMA StutterInv ==
  ASSUME IInv, UNCHANGED vars
  PROVE  IInv'
<1>1. TypeOK'
  BY DEF vars, countVars, IInv, TypeOK
<1>2. InodePartition'
  BY DEF vars, IInv, InodePartition, Held
<1>3. FreeCountsExact'
  BY DEF vars, countVars, IInv, FreeCountsExact
<1>4. DirsCounted'
  <2>1. \A t \in Threads : DirHeld(t)' = DirHeld(t)
    BY DEF vars, DirHeld, Held
  <2>2. \A left : CountedDirs(left)' = CountedDirs(left)
    BY <2>1 DEF vars, CountedDirs, Directories
  <2>3. QED BY <2>2 DEF IInv, DirsCounted, vars, countVars
<1>5. CallsWellFormed'
  BY DEF vars, IInv, CallsWellFormed, CallWellFormed
<1>6. QED BY <1>1, <1>2, <1>3, <1>4, <1>5 DEF IInv

\* Every step keeps the invariant.
LEMMA NextInv == IInv /\ [Next]_vars => IInv'
<1> SUFFICES ASSUME IInv, [Next]_vars PROVE IInv'
  OBVIOUS
<1>1. ASSUME NEW t \in Threads, NEW dir \in Directories, NEW mode \in Modes, Valloc(t, dir, mode)
      PROVE  IInv'
  BY <1>1, VallocInv
<1>2. ASSUME NEW t \in Threads, NEW ino \in DOMAIN own, Inactive(t, ino)
      PROVE  IInv'
  BY <1>2, InactiveInv
<1>3. ASSUME NEW t \in Threads, Step(t) PROVE IInv'
  BY <1>3, NewInodeInv, ReadBitmapInv, SearchBitmapInv, FreeBitInv, ReleaseBitmapInv, VgetInv, ReturnInv
     DEF Step
<1>4. QED BY <1>1, <1>2, <1>3, SbupdateInv, StutterInv DEF Next
-----------------------------------------------------------------------------
(***************************************************************************)
(* The theorems.                                                           *)
(***************************************************************************)

\* The inductive invariant holds in every reachable state.
THEOREM Invariance == Spec => []IInv
BY InitInv, NextInv, PTL DEF Spec

\* ext2_new_inode and ext2_free_inode, called from any number of threads on any
\* geometry, keep every variable in its range: no count leaves its group's range,
\* and no reserved number is handed out.
THEOREM TypeCorrect == Spec => []TypeOK
BY Invariance, PTL DEF IInv

\* No inode number is given to two files, and none is lost except by an
\* ext2_valloc whose ext2_vget failed.
THEOREM NumbersPartitioned == Spec => []InodePartition
BY Invariance, PTL DEF IInv

\* The free counts of the descriptors and of the superblock agree with the
\* bitmaps, and the directory counts with the directories once nothing is in
\* transit or left behind.
THEOREM CountsExact == Spec => []InodeCountsExact
<1>1. IInv => InodeCountsExact
  <2> SUFFICES ASSUME IInv PROVE InodeCountsExact
    OBVIOUS
  <2>1. ASSUME lost = {}, \A t \in Threads : pc[t] \in {"idle", "done"}, NEW g \in Groups
        PROVE  bg_dirs[g] = Cardinality(Directories \cap GroupInodes(g))
    <3>1. \A t \in Threads : DirHeld(t) = {}
      BY <2>1 DEF DirHeld, Held
    <3>2. CountedDirs({}) = Directories
      BY <3>1 DEF CountedDirs
    <3>3. QED BY <2>1, <3>2 DEF IInv, DirsCounted
  <2>2. QED BY <2>1 DEF IInv, FreeCountsExact, InodeCountsExact
<1>2. QED BY <1>1, Invariance, PTL

\* The descriptor buffer a call keeps over its wait: that of its group, except
\* for a new directory, which keeps the last group's.
MarkRight(t) ==
  /\ pc[t] \in {"newread", "new"} =>
       req[t].mark = DescBlock(IF req[t].mode = "dir" THEN GroupsCount - 1 ELSE req[t].grp)
  /\ pc[t] \in {"freeread", "free"} => req[t].mark = DescBlock(req[t].grp)
MarksRight == \A t \in Threads : MarkRight(t)

\* A thread that nothing was done to keeps its buffer.
LEMMA MarkKept ==
  ASSUME NEW u \in Threads, MarkRight(u), pc'[u] = pc[u], req'[u] = req[u]
  PROVE  MarkRight(u)'
BY DEF MarkRight

\* The search for a group, from the beginning or over again, leaves the buffer of
\* the group it found, or the last one's.
LEMMA ChooseMarks ==
  ASSUME NEW t \in Threads, NEW dir, NEW mode, ChooseGroup(t, dir, mode),
         DOMAIN pc = Threads, DOMAIN req = Threads
  PROVE  /\ MarkRight(t)'
         /\ \A u \in Threads \ {t} : pc'[u] = pc[u] /\ req'[u] = req[u]
<1>1. CASE pc' = [pc EXCEPT ![t] = "done"] /\ UNCHANGED req
  BY <1>1 DEF MarkRight
<1>2. ASSUME NEW g,
             req' = [req EXCEPT ![t] =
                [ip |-> dir, mode |-> mode, grp |-> g,
                 mark |-> DescBlock(IF mode = "dir" THEN GroupsCount - 1 ELSE g)]],
             pc' = [pc EXCEPT ![t] = "newread"]
      PROVE  /\ MarkRight(t)'
             /\ \A u \in Threads \ {t} : pc'[u] = pc[u] /\ req'[u] = req[u]
  BY <1>2 DEF MarkRight
<1>3. QED BY <1>1, <1>2 DEF ChooseGroup, Goto

\* Every step keeps the buffers right.
LEMMA NextMarks == IInv /\ MarksRight /\ [Next]_vars => MarksRight'
<1> SUFFICES ASSUME IInv, MarksRight, [Next]_vars PROVE MarksRight'
  OBVIOUS
<1>1. /\ DOMAIN pc = Threads /\ DOMAIN req = Threads
      /\ \A u \in Threads : MarkRight(u)
  BY DEF IInv, TypeOK, MarksRight
<1>2. ASSUME NEW t \in Threads, MarkRight(t)',
             \A u \in Threads \ {t} : pc'[u] = pc[u] /\ req'[u] = req[u]
      PROVE  MarksRight'
  BY <1>1, <1>2, MarkKept, Zenon DEF MarksRight
<1>3. CASE UNCHANGED <<pc, req>>
  BY <1>1, <1>3, MarkKept DEF MarksRight
<1>4. ASSUME NEW t \in Threads, NEW l, l \notin {"newread", "new", "freeread", "free"}, Goto(t, l),
             \A u \in Threads \ {t} : req'[u] = req[u]
      PROVE  MarksRight'
  <2>1. pc'[t] = l /\ \A u \in Threads \ {t} : pc'[u] = pc[u]
    BY <1>1, <1>4 DEF Goto
  <2>2. QED BY <1>2, <1>4, <2>1 DEF MarkRight
<1>5. ASSUME NEW t \in Threads, NEW dir \in Directories, NEW mode \in Modes, Valloc(t, dir, mode)
      PROVE  MarksRight'
  BY <1>1, <1>4, <1>5 DEF Valloc
<1>6. ASSUME NEW t \in Threads, NEW ino \in DOMAIN own, Inactive(t, ino)
      PROVE  MarksRight'
  <2>1. /\ req'[t].mark = DescBlock(req'[t].grp) /\ pc'[t] \in {"done", "freeread"}
        /\ \A u \in Threads \ {t} : pc'[u] = pc[u] /\ req'[u] = req[u]
    BY <1>1, <1>6 DEF Inactive, Goto
  <2>2. QED BY <1>2, <2>1 DEF MarkRight
<1>7. ASSUME NEW t \in Threads, NewInode(t) PROVE MarksRight'
  BY <1>1, <1>2, <1>7, ChooseMarks DEF NewInode
<1>8. ASSUME NEW t \in Threads, ReadBitmap(t) PROVE MarksRight'
  <2>1. /\ req' = req /\ \A u \in Threads \ {t} : pc'[u] = pc[u]
        /\ \/ pc[t] = "newread" /\ pc'[t] = "new"
           \/ pc[t] = "freeread" /\ pc'[t] = "free"
    BY <1>1, <1>8 DEF ReadBitmap, Goto
  <2>2. QED BY <1>1, <1>2, <2>1 DEF MarkRight
<1>9. ASSUME NEW t \in Threads, SearchBitmap(t) PROVE MarksRight'
  <2>1. CASE Goto(t, "write") /\ UNCHANGED req
    BY <1>4, <2>1
  <2>2. CASE Goto(t, "done") /\ UNCHANGED req
    BY <1>4, <2>2
  <2>3. CASE ChooseGroup(t, req[t].ip, req[t].mode)
    BY <1>1, <1>2, <2>3, ChooseMarks
  <2>4. QED BY <1>9, <2>1, <2>2, <2>3 DEF SearchBitmap, FoundInode
<1>10. ASSUME NEW t \in Threads, FreeBit(t) \/ ReleaseBitmap(t) \/ Vget(t) \/ Return(t)
       PROVE  MarksRight'
  <2>1. \A u \in Threads \ {t} : req'[u] = req[u]
    BY <1>1, <1>10 DEF FreeBit, ReleaseBitmap, Vget, Return
  <2>2. \E l \in {"write", "vget", "done", "idle"} : Goto(t, l)
    BY <1>10 DEF FreeBit, ReleaseBitmap, Vget, Return
  <2>3. QED BY <1>4, <2>1, <2>2
<1>11. QED
  BY <1>3, <1>5, <1>6, <1>7, <1>8, <1>9, <1>10 DEF Next, Step, Sbupdate, vars

\* On a volume with any number of descriptor blocks, a free and a new file have
\* marked the block of the group they changed until ext2_sbupdate writes it, and
\* so has a new directory in a group that shares the last group's block: the
\* changes that the code can leave unwritten are those of the other directories.
THEOREM DescriptorsWritten == Spec => []DescriptorsTracked
<1>1. Init => MarksRight /\ DescriptorsTracked
  BY DEF Init, MarksRight, MarkRight, DescriptorsTracked
<1>2. IInv /\ MarksRight /\ DescriptorsTracked /\ [Next]_vars => DescriptorsTracked'
  <2> SUFFICES ASSUME IInv, MarksRight, DescriptorsTracked, [Next]_vars PROVE DescriptorsTracked'
    OBVIOUS
  <2>1. CASE UNCHANGED <<dirty, unwritten>>
    BY <2>1 DEF DescriptorsTracked
  <2>2. CASE Sbupdate
    BY <2>2 DEF Sbupdate, DescriptorsTracked
  <2>3. ASSUME NEW g, NEW how, NEW mark,
               dirty' = dirty \cup {mark}, unwritten' = unwritten \cup {<<g, how>>},
               mark = DescBlock(IF how = "dir" THEN GroupsCount - 1 ELSE g)
        PROVE  DescriptorsTracked'
    BY <2>3 DEF DescriptorsTracked
  <2>4. ASSUME NEW t \in Threads, FreeBit(t) PROVE DescriptorsTracked'
    <3>1. pc[t] = "free" /\ req[t].mark = DescBlock(req[t].grp)
      BY <2>4 DEF FreeBit, MarksRight, MarkRight
    <3>2. QED BY <2>1, <2>3, <2>4, <3>1 DEF FreeBit, countVars
  <2>5. ASSUME NEW t \in Threads, SearchBitmap(t) PROVE DescriptorsTracked'
    <3>1. req[t].mark = DescBlock(IF req[t].mode = "dir" THEN GroupsCount - 1 ELSE req[t].grp)
      BY <2>5 DEF SearchBitmap, MarksRight, MarkRight
    <3>2. QED BY <2>1, <2>3, <2>5, <3>1 DEF SearchBitmap, FoundInode, countVars
  <2>6. QED
    BY <2>1, <2>2, <2>4, <2>5
       DEF Next, vars, countVars, Valloc, Inactive, Step, NewInode, ReadBitmap, ReleaseBitmap, Vget, Return
<1>3. QED BY <1>1, <1>2, Invariance, NextMarks, PTL DEF Spec

\* A thread in the middle of a call is moved only by its own step.
LEMMA OwnStep ==
  ASSUME IInv, Next, NEW t \in Threads, pc[t] # "idle", pc'[t] # pc[t]
  PROVE  Step(t)
<1> pc \in [Threads -> {"idle", "choose", "newread", "new", "freeread", "free", "write", "vget", "done"}]
  BY DEF IInv, TypeOK
<1>1. ASSUME NEW u \in Threads, u # t, NEW l, Goto(u, l) PROVE FALSE
  BY <1>1 DEF Goto
<1>2. ASSUME NEW u \in Threads, NEW dir \in Directories, NEW mode \in Modes, Valloc(u, dir, mode)
      PROVE  FALSE
  BY <1>1, <1>2, Zenon DEF Valloc
<1>3. ASSUME NEW u \in Threads, NEW ino \in DOMAIN own, Inactive(u, ino)
      PROVE  FALSE
  BY <1>1, <1>3, Zenon DEF Inactive
<1>4. ~Sbupdate
  BY DEF Sbupdate
<1>5. ASSUME NEW u \in Threads, u # t, Step(u) PROVE FALSE
  <2>1. ASSUME NEW dir, NEW mode, ChooseGroup(u, dir, mode) PROVE FALSE
    BY <2>1, <1>1, <1>5, Zenon DEF ChooseGroup
  <2>2. ASSUME NEW g, NEW ino, FoundInode(u, g, ino) PROVE FALSE
    BY <2>2, <1>1, <1>5, Zenon DEF FoundInode
  <2>3. ~SearchBitmap(u)
    BY <2>1, <2>2, <1>1, <1>5, Zenon DEF SearchBitmap
  <2>4. ~NewInode(u)
    BY <2>1, Zenon DEF NewInode
  <2>5. ~ReadBitmap(u) /\ ~FreeBit(u) /\ ~ReleaseBitmap(u) /\ ~Vget(u) /\ ~Return(u)
    BY <1>1, <1>5, Zenon DEF ReadBitmap, FreeBit, ReleaseBitmap, Vget, Return
  <2>6. QED BY <2>3, <2>4, <2>5, <1>5 DEF Step
<1>6. QED BY <1>2, <1>3, <1>4, <1>5 DEF Next

\* ext2_new_inode gives up before it looks at a bitmap only when no inode of the
\* volume is free: the average over the groups never excludes every group, and the
\* probes for a file reach them all.
THEOREM GivesUpOnlyWhenFull == Spec => FullMeansFull
<1> DEFINE P == \A t \in Threads : (pc[t] = "choose" /\ pc'[t] = "done") => inuse = Inodes
<1>1. IInv /\ [Next]_vars => [P]_vars
  <2> SUFFICES ASSUME IInv, Next, NEW t \in Threads, pc[t] = "choose", pc'[t] = "done"
               PROVE  inuse = Inodes
    OBVIOUS
  <2>1. NewInode(t)
    BY OwnStep DEF Step, ReadBitmap, SearchBitmap, NewInode, FreeBit, ReleaseBitmap, Vget, Return
  <2>2. req[t].ip \in Inodes /\ req[t].mode \in Modes /\ ChooseGroup(t, req[t].ip, req[t].mode)
    BY <2>1 DEF NewInode, IInv, TypeOK, CallsWellFormed, CallWellFormed
  <2>3. QED BY <2>2, ChooseGroupEffect DEF IInv, TypeOK
<1>2. QED BY <1>1, Invariance, PTL DEF Spec, FullMeansFull

\* A search that has looked at a bitmap starts over when other threads took the
\* group's last inodes, and ends without a number only when no inode is free: the
\* message "Free inodes count corrupted" is never about correct counts.
THEOREM RaceStartsOver == Spec => NeverCorrupted
<1> DEFINE P == \A t \in Threads : (pc[t] = "new" /\ pc'[t] = "done") => inuse = Inodes
<1>1. IInv /\ [Next]_vars => [P]_vars
  <2> SUFFICES ASSUME IInv, Next, NEW t \in Threads, pc[t] = "new", pc'[t] = "done"
               PROVE  inuse = Inodes
    OBVIOUS
  <2>1. SearchBitmap(t)
    BY OwnStep DEF Step, ReadBitmap, SearchBitmap, NewInode, FreeBit, ReleaseBitmap, Vget, Return
  <2>2. req[t].grp \in Groups /\ req[t].ip \in Inodes /\ req[t].mode \in Modes
    BY DEF IInv, TypeOK, CallsWellFormed, CallWellFormed
  <2>3. GroupInodes(req[t].grp) \ inuse = {}
    BY <2>1 DEF SearchBitmap, FoundInode, Goto, IInv, TypeOK
  <2>4. bg_free[req[t].grp] = 0
    BY <2>2, <2>3, FS_EmptySet DEF IInv, FreeCountsExact
  <2>5. ChooseGroup(t, req[t].ip, req[t].mode)
    BY <2>1, <2>3, <2>4 DEF SearchBitmap
  <2>6. QED BY <2>2, <2>5, ChooseGroupEffect DEF IInv, TypeOK
<1>2. QED BY <1>1, Invariance, PTL DEF Spec, NeverCorrupted
=============================================================================
