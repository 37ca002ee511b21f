----------------------------- MODULE InodeAlloc -----------------------------
(***************************************************************************)
(* The inode bitmaps of a mounted volume: ext2_new_inode and               *)
(* ext2_free_inode (src/src/gnu/ext2fs/ext2_linux_ialloc.c) with their     *)
(* callers ext2_valloc, ext2_vfree (ext2_alloc.c) and ext2_inactive, and   *)
(* the writing of the group descriptors by ext2_sbupdate.                  *)
(*                                                                         *)
(* As in BlockBitmap, a call holds the superblock mutex except while       *)
(* read_inode_bitmap waits for the bitmap's buffer, and the buffer is busy *)
(* until it is written or released after the mutex is dropped.  "bit       *)
(* already set" (456-463) cannot happen to the first clear bit of a busy   *)
(* buffer and is left out.  Which group has the most free blocks changes   *)
(* all the time: any group that qualifies may be the one.                  *)
(***************************************************************************)
EXTENDS Integers, FiniteSets, Sequences

CONSTANTS
  Threads, NoThread,
  GroupsCount,      \* s_groups_count
  InodesPerGroup,   \* EXT2_INODES_PER_GROUP
  FirstIno,         \* EXT2_FIRST_INO: the numbers below it are reserved
  DescPerBlock,     \* EXT2_DESC_PER_BLOCK
  RootIno           \* the root directory, one of the reserved numbers

Groups  == 0 .. GroupsCount - 1
Inodes  == 1 .. GroupsCount * InodesPerGroup
Reserved == 1 .. FirstIno - 1
Modes   == {"file", "dir"}
Changes == Modes \cup {"free"}

GroupOf(ino)   == (ino - 1) \div InodesPerGroup
GroupInodes(g) == {ino \in Inodes : GroupOf(ino) = g}
DescBlock(g)   == g \div DescPerBlock

ASSUME InodeGeometry ==
  /\ NoThread \notin Threads
  /\ GroupsCount \in Nat \ {0} /\ InodesPerGroup \in Nat \ {0} /\ DescPerBlock \in Nat \ {0}
  /\ FirstIno \in Inodes /\ RootIno \in Reserved

VARIABLES
  inuse,      \* inode numbers whose bitmap bit is set
  bg_free,    \* bg_free_inodes_count
  bg_dirs,    \* bg_used_dirs_count
  s_free,     \* s_free_inodes_count
  dirty,      \* descriptor blocks marked by mark_buffer_dirty
  unwritten,  \* changes of descriptors that are not on disk: the group, and what
              \* was done to it (a file or a directory made there, an inode freed)
  buf,        \* who has each group's bitmap buffer busy
  pc,         \* where each thread is
  req,        \* its arguments (ip: the directory of a new inode, or the inode to
              \* free) and what it keeps over a wait (mark: the descriptor buffer)
  ret,        \* the inode number its call returns
  own,        \* inode numbers of existing files, with their modes
  lost        \* numbers taken for files that ext2_vget then failed to make

countVars == <<bg_free, bg_dirs, s_free, dirty, unwritten>>
vars == <<inuse, countVars, buf, pc, req, ret, own, lost>>

NoReq == [ip |-> 0, mode |-> "file", grp |-> 0, mark |-> 0]
Directories == {RootIno} \cup {ino \in DOMAIN own : own[ino] = "dir"}
Parents == {req[t].ip : t \in {u \in Threads : pc[u] \notin {"idle", "freeread", "free"}}}

\* Type invariant: the counts stay within their groups, a bitmap never names a
\* number outside the volume, and no reserved number is handed out.
TypeOK ==
  /\ inuse \in SUBSET Inodes
  /\ bg_free \in [Groups -> 0 .. InodesPerGroup]
  /\ bg_dirs \in [Groups -> 0 .. InodesPerGroup]
  /\ s_free \in 0 .. Cardinality(Inodes)
  /\ dirty \in SUBSET {DescBlock(g) : g \in Groups}
  /\ unwritten \in SUBSET (Groups \X Changes)
  /\ buf \in [Groups -> Threads \cup {NoThread}]
  /\ pc \in [Threads -> {"idle", "choose", "newread", "new", "freeread", "free", "write", "vget", "done"}]
  /\ req \in [Threads -> [ip : Inodes \cup {0}, mode : Modes, grp : Groups, mark : {DescBlock(g) : g \in Groups}]]
  /\ ret \in [Threads -> Inodes \cup {0}]
  /\ DOMAIN own \subseteq Inodes \ Reserved /\ \A ino \in DOMAIN own : own[ino] \in Modes
  /\ lost \in SUBSET (Inodes \ Reserved)

Init ==
  /\ inuse = Reserved
  /\ bg_free = [g \in Groups |-> Cardinality(GroupInodes(g) \ Reserved)]
  /\ bg_dirs = [g \in Groups |-> Cardinality({RootIno} \cap GroupInodes(g))]
  /\ s_free = Cardinality(Inodes \ Reserved)
  /\ dirty = {} /\ unwritten = {}
  /\ buf = [g \in Groups |-> NoThread]
  /\ pc = [t \in Threads |-> "idle"]
  /\ req = [t \in Threads |-> NoReq]
  /\ ret = [t \in Threads |-> 0]
  /\ own = << >> /\ lost = {}
-----------------------------------------------------------------------------
Goto(t, l) == pc' = [pc EXCEPT ![t] = l]
First(S) == CHOOSE x \in S : \A y \in S : x <= y

\* Groups a directory may go to: a free inode and no fewer of them than average.
DirGroups == {g \in Groups : bg_free[g] # 0 /\ bg_free[g] >= s_free \div GroupsCount}

\* Mutant of Probes: the linear search is forgotten.
ProbesQuadratic(p) ==
  LET rounds == {k \in 1 .. GroupsCount : 2 ^ (k - 1) < GroupsCount}
  IN  <<p>> \o [k \in 1 .. Cardinality(rounds) |-> (p + 2 ^ k - 1) % GroupsCount]

\* The order in which a file's group is looked for: the directory's own, the
\* quadratic hash, then every group from the next one on.
Probes(p) ==
  LET rounds == {k \in 1 .. GroupsCount : 2 ^ (k - 1) < GroupsCount}
  IN  <<p>> \o [k \in 1 .. Cardinality(rounds) |-> (p + 2 ^ k - 1) % GroupsCount]
            \o [d \in 1 .. GroupsCount |-> (p + d) % GroupsCount]

FileGroups(p) ==
  LET probes == Probes(p)
      hits   == {n \in DOMAIN probes : bg_free[probes[n]] # 0}
  IN  IF hits = {} THEN {} ELSE {probes[First(hits)]}

\* Mutant of ChooseGroup: a file marks the descriptor the search began with.
ChooseGroupFirst(t, dir, mode) ==
  LET found == IF mode = "dir" THEN DirGroups ELSE FileGroups(GroupOf(dir))
  IN  \/ \E g \in found :
           /\ req' = [req EXCEPT ![t] =
                [ip |-> dir, mode |-> mode, grp |-> g,
                 mark |-> DescBlock(IF mode = "dir" THEN GroupsCount - 1 ELSE GroupOf(dir))]]
           /\ Goto(t, "newread")
           /\ UNCHANGED ret
      \/ /\ found = {}
         /\ ret' = [ret EXCEPT ![t] = 0]
         /\ Goto(t, "done")
         /\ UNCHANGED req

\* The search for a group under the superblock mutex.  The loop for a directory
\* goes through all descriptors, and the buffer it is left with, to be marked
\* dirty in the end, is the last one's.
ChooseGroup(t, dir, mode) ==
  LET found == IF mode = "dir" THEN DirGroups ELSE FileGroups(GroupOf(dir))
  IN  \/ \E g \in found :
           /\ req' = [req EXCEPT ![t] =
                [ip |-> dir, mode |-> mode, grp |-> g,
                 mark |-> DescBlock(IF mode = "dir" THEN GroupsCount - 1 ELSE g)]]
           /\ Goto(t, "newread")
           /\ UNCHANGED ret
      \/ /\ found = {}
         /\ ret' = [ret EXCEPT ![t] = 0]
         /\ Goto(t, "done")
         /\ UNCHANGED req

\* ext2_valloc looks at the count without the mutex.
Valloc(t, dir, mode) ==
  /\ pc[t] = "idle"
  /\ ret' = [ret EXCEPT ![t] = 0]
  /\ req' = [req EXCEPT ![t] = [NoReq EXCEPT !.ip = dir, !.mode = mode]]
  /\ Goto(t, IF s_free = 0 THEN "done" ELSE "choose")
  /\ UNCHANGED <<inuse, countVars, buf, own, lost>>

NewInode(t) ==
  /\ pc[t] = "choose"
  /\ ChooseGroup(t, req[t].ip, req[t].mode)
  /\ UNCHANGED <<inuse, countVars, buf, own, lost>>

\* read_inode_bitmap: the mutex is dropped until the buffer is ours.
ReadBitmap(t) ==
  /\ pc[t] \in {"newread", "freeread"}
  /\ buf[req[t].grp] = NoThread
  /\ buf' = [buf EXCEPT ![req[t].grp] = t]
  /\ Goto(t, IF pc[t] = "newread" THEN "new" ELSE "free")
  /\ UNCHANGED <<inuse, countVars, req, ret, own, lost>>

Bump(f, g, n) == [f EXCEPT ![g] = @ + n]

\* Mutant of FoundInode: the descriptor's count is left alone for directories.
FoundInodeUncounted(t, g, ino) ==
  /\ inuse' = inuse \cup {ino}
  /\ IF ino < FirstIno \/ ino > Cardinality(Inodes)
     THEN ret' = [ret EXCEPT ![t] = 0] /\ UNCHANGED countVars
     ELSE /\ ret' = [ret EXCEPT ![t] = ino]
          /\ bg_free' = IF req[t].mode = "dir" THEN bg_free ELSE Bump(bg_free, g, -1)
          /\ bg_dirs' = IF req[t].mode = "dir" THEN Bump(bg_dirs, g, 1) ELSE bg_dirs
          /\ s_free' = s_free - 1
          /\ dirty' = dirty \cup {req[t].mark}
          /\ unwritten' = unwritten \cup {<<g, req[t].mode>>}
  /\ Goto(t, "write")
  /\ UNCHANGED <<buf, req>>

\* The bit is set first.  A number outside the usable range is refused after
\* that, uncounted; otherwise the counts of the chosen group are adjusted and
\* the buffer the search was left with is marked.
FoundInode(t, g, ino) ==
  /\ inuse' = inuse \cup {ino}
  /\ IF ino < FirstIno \/ ino > Cardinality(Inodes)
     THEN ret' = [ret EXCEPT ![t] = 0] /\ UNCHANGED countVars
     ELSE /\ ret' = [ret EXCEPT ![t] = ino]
          /\ bg_free' = Bump(bg_free, g, -1)
          /\ bg_dirs' = IF req[t].mode = "dir" THEN Bump(bg_dirs, g, 1) ELSE bg_dirs
          /\ s_free' = s_free - 1
          /\ dirty' = dirty \cup {req[t].mark}
          /\ unwritten' = unwritten \cup {<<g, req[t].mode>>}
  /\ Goto(t, "write")
  /\ UNCHANGED <<buf, req>>

\* Mutant of SearchBitmap: the count used is the one the group was chosen by.
SearchBitmapStale(t) ==
  LET g == req[t].grp
      clear == GroupInodes(g) \ inuse
  IN  /\ pc[t] = "new"
      /\ \/ clear # {} /\ FoundInode(t, g, First(clear))
         \/ /\ clear = {}
            /\ buf' = [buf EXCEPT ![g] = NoThread]
            /\ ret' = [ret EXCEPT ![t] = 0] /\ Goto(t, "done") /\ UNCHANGED req
            /\ UNCHANGED <<inuse, countVars>>
      /\ UNCHANGED <<own, lost>>

\* The bitmap is in hand and the mutex held again.  The group may have filled up
\* in the meantime: the search starts over when its count says so too, and ends
\* with "Free inodes count corrupted" when it does not.
SearchBitmap(t) ==
  LET g == req[t].grp
      clear == GroupInodes(g) \ inuse
  IN  /\ pc[t] = "new"
      /\ \/ clear # {} /\ FoundInode(t, g, First(clear))
         \/ /\ clear = {}
            /\ buf' = [buf EXCEPT ![g] = NoThread]
            /\ \/ bg_free[g] # 0 /\ ret' = [ret EXCEPT ![t] = 0] /\ Goto(t, "done") /\ UNCHANGED req
               \/ bg_free[g] = 0 /\ ChooseGroup(t, req[t].ip, req[t].mode)
            /\ UNCHANGED <<inuse, countVars>>
      /\ UNCHANGED <<own, lost>>

\* Mutant of Inactive: the link count is not looked at.
InactiveLinked(t, ino) ==
  /\ pc[t] = "idle"
  /\ ino \notin Parents
  /\ req' = [req EXCEPT ![t] = [ip |-> ino, mode |-> own[ino], grp |-> GroupOf(ino), mark |-> DescBlock(GroupOf(ino))]]
  /\ ret' = [ret EXCEPT ![t] = 0]
  /\ Goto(t, IF ino < FirstIno \/ ino > Cardinality(Inodes) THEN "done" ELSE "freeread")
  /\ UNCHANGED <<inuse, countVars, buf, own, lost>>

\* ext2_inactive of a file without links: ext2_vfree and ext2_free_inode up to
\* the wait.  The VFS calls it when nothing uses the file.
Inactive(t, ino) ==
  /\ pc[t] = "idle"
  /\ ino \notin Parents
  /\ own' = [i \in DOMAIN own \ {ino} |-> own[i]]
  /\ req' = [req EXCEPT ![t] = [ip |-> ino, mode |-> own[ino], grp |-> GroupOf(ino), mark |-> DescBlock(GroupOf(ino))]]
  /\ ret' = [ret EXCEPT ![t] = 0]
  /\ Goto(t, IF ino < FirstIno \/ ino > Cardinality(Inodes) THEN "done" ELSE "freeread")
  /\ UNCHANGED <<inuse, countVars, buf, lost>>

\* Mutant of FreeBit: ext2_vfree does not put the mode back, so no directory is counted.
FreeBitModeless(t) ==
  LET g == req[t].grp
  IN  /\ pc[t] = "free"
      /\ IF req[t].ip \in inuse
         THEN /\ inuse' = inuse \ {req[t].ip}
              /\ bg_free' = Bump(bg_free, g, 1)
              /\ s_free' = s_free + 1
              /\ dirty' = dirty \cup {req[t].mark}
              /\ unwritten' = unwritten \cup {<<g, "free">>}
              /\ UNCHANGED bg_dirs
         ELSE UNCHANGED <<inuse, countVars>>
      /\ Goto(t, "write")
      /\ UNCHANGED <<buf, req, ret, own, lost>>

\* The bit is cleared and counted, unless it was clear already.
FreeBit(t) ==
  LET g == req[t].grp
  IN  /\ pc[t] = "free"
      /\ IF req[t].ip \in inuse
         THEN /\ inuse' = inuse \ {req[t].ip}
              /\ bg_free' = Bump(bg_free, g, 1)
              /\ bg_dirs' = IF req[t].mode = "dir" THEN Bump(bg_dirs, g, -1) ELSE bg_dirs
              /\ s_free' = s_free + 1
              /\ dirty' = dirty \cup {req[t].mark}
              /\ unwritten' = unwritten \cup {<<g, "free">>}
         ELSE UNCHANGED <<inuse, countVars>>
      /\ Goto(t, "write")
      /\ UNCHANGED <<buf, req, ret, own, lost>>

\* Mutant of ReleaseBitmap: the buffer stays busy.
ReleaseForgotten(t) ==
  /\ pc[t] = "write"
  /\ Goto(t, IF ret[t] # 0 THEN "vget" ELSE "done")
  /\ UNCHANGED <<inuse, countVars, buf, req, ret, own, lost>>

\* The buffer is written or released after the mutex.
ReleaseBitmap(t) ==
  /\ pc[t] = "write"
  /\ buf' = [buf EXCEPT ![req[t].grp] = NoThread]
  /\ Goto(t, IF ret[t] # 0 THEN "vget" ELSE "done")
  /\ UNCHANGED <<inuse, countVars, req, ret, own, lost>>

\* ext2_valloc gets the vnode of the new number.  When that fails it calls
\* ext2_vfree on the directory's vnode: ext2_free_inode then looks at the
\* directory's link count, which is not 0, and returns.
Vget(t) ==
  /\ pc[t] = "vget"
  /\ \/ own' = [i \in DOMAIN own \cup {ret[t]} |-> IF i = ret[t] THEN req[t].mode ELSE own[i]]
        /\ UNCHANGED <<lost, ret>>
     \/ lost' = lost \cup {ret[t]} /\ ret' = [ret EXCEPT ![t] = 0] /\ UNCHANGED own
  /\ Goto(t, "done")
  /\ UNCHANGED <<inuse, countVars, buf, req>>

Return(t) ==
  /\ pc[t] = "done"
  /\ ret' = [ret EXCEPT ![t] = 0] /\ req' = [req EXCEPT ![t] = NoReq]
  /\ Goto(t, "idle")
  /\ UNCHANGED <<inuse, countVars, buf, own, lost>>

\* ext2_sbupdate, under the superblock mutex: the marked descriptor blocks are written.
Sbupdate ==
  /\ unwritten' = {c \in unwritten : DescBlock(c[1]) \notin dirty}
  /\ dirty' = {}
  /\ UNCHANGED <<inuse, bg_free, bg_dirs, s_free, buf, pc, req, ret, own, lost>>

Step(t) ==
  NewInode(t) \/ ReadBitmap(t) \/ SearchBitmap(t) \/ FreeBit(t) \/ ReleaseBitmap(t) \/ Vget(t) \/ Return(t)

Next ==
  \/ \E t \in Threads :
       \/ \E dir \in Directories, mode \in Modes : Valloc(t, dir, mode)
       \/ \E ino \in DOMAIN own : Inactive(t, ino)
       \/ Step(t)
  \/ Sbupdate

Spec == Init /\ [][Next]_vars

\* A thread inside a call is scheduled as long as it can run.
FairSpec == Spec /\ \A t \in Threads : WF_vars(Step(t))
-----------------------------------------------------------------------------
\* Numbers in transit between the bitmap and a file.
Held(t) ==
  IF pc[t] \in {"write", "vget"} /\ ret[t] # 0 THEN {ret[t]}
  ELSE IF pc[t] \in {"freeread", "free"} THEN {req[t].ip} ELSE {}

\* Every number marked in use is reserved, belongs to exactly one file, is in
\* transit in exactly one call, or was left behind by an ext2_valloc whose
\* ext2_vget failed: no number is given to two files and none is lost otherwise.
InodePartition ==
  /\ inuse = Reserved \cup DOMAIN own \cup lost \cup UNION {Held(t) : t \in Threads}
  /\ lost \cap DOMAIN own = {}
  /\ \A t \in Threads : Held(t) \cap (Reserved \cup DOMAIN own \cup lost) = {}
  /\ \A t, u \in Threads : t # u => Held(t) \cap Held(u) = {}

\* Whenever the superblock is unlocked, the free counts of the groups and of the
\* superblock agree with the bitmaps; and when nothing is in transit or lost, the
\* directory counts are those of the directories that exist (ext2_vfree puts the
\* mode back so that ext2_free_inode can tell, ext2_alloc.c:568).
InodeCountsExact ==
  /\ \A g \in Groups : bg_free[g] = Cardinality(GroupInodes(g) \ inuse)
  /\ s_free = Cardinality(Inodes \ inuse)
  /\ (lost = {} /\ \A t \in Threads : pc[t] \in {"idle", "done"}) =>
        \A g \in Groups : bg_dirs[g] = Cardinality(Directories \cap GroupInodes(g))

\* A change of a group's descriptor is written by the next ext2_sbupdate, over
\* any number of descriptor blocks: a free and a new file have marked the block
\* of the group they changed, wherever the search for it ended, whatever it met
\* when it started over, and although the mark is chosen before the mutex is
\* dropped and made after.  A new directory has done so only where its group
\* shares the last group's block (ext2_linux_ialloc.c:385-396, 503); the others
\* stay unwritten until something else marks their block (AllTracked).
DescriptorsTracked ==
  \A c \in unwritten :
    (c[2] = "dir" => DescBlock(c[1]) = DescBlock(GroupsCount - 1)) => DescBlock(c[1]) \in dirty

\* What ext2_sbupdate relies on (ext2_vfsops.c: it writes the marked blocks only):
\* every change has marked its block.  New directories break it.
AllTracked == \A c \in unwritten : DescBlock(c[1]) \in dirty

\* ext2_new_inode gives up before it looks at a bitmap only when no inode is
\* free: the average never excludes every group, and the probes reach them all.
FullMeansFull ==
  [][\A t \in Threads : (pc[t] = "choose" /\ pc'[t] = "done") => inuse = Inodes]_vars

\* A search that has looked at a bitmap gives up only when no inode is free: when
\* threads race for a group's last inode the loser starts over, and is never told
\* "Free inodes count corrupted" (ext2_linux_ialloc.c:480) while the counts are right.
NeverCorrupted ==
  [][\A t \in Threads : (pc[t] = "new" /\ pc'[t] = "done") => inuse = Inodes]_vars

\* Threads inside the allocator never all wait for each other or start over for ever.
SomeCallReturns ==
  (\E t \in Threads : pc[t] # "idle") ~> (\E t \in Threads : pc[t] = "done")
=============================================================================
