----------------------------- MODULE FileBlocks -----------------------------
(***************************************************************************)
(* The blocks of files: ext2_balloc2 and ext2_alloc with preallocation,    *)
(* ext2_discard_prealloc, the write path that calls them, ext2_truncate,   *)
(* ext2_fsync and ext2_update (src/src/gnu/ext2fs/ext2_balloc.c,           *)
(* ext2_alloc.c, ext2_readwrite.c, ext2_inode.c, ext2_vnops.c), on top of  *)
(* the allocator of BlockBitmap.                                           *)
(*                                                                         *)
(* Sizes and offsets are counted in blocks and a file has direct blocks    *)
(* only.  A step is what happens between two points at which the inode     *)
(* lock is dropped.  The lock is held between steps at three places only,  *)
(* "lcall", "wnext" and the loop of ext2_truncate that frees the blocks    *)
(* ("tblk"), so it is derived from the threads' places.  IN_ACCESS,        *)
(* IN_CHANGE, IN_UPDATE and IN_MODIFIED are one flag, and dinode is the    *)
(* file's entry in the inode table as the last buf_bwrite or buf_bdwrite   *)
(* left it.                                                                *)
(***************************************************************************)
EXTENDS BlockBitmap

CONSTANTS
  Files,       \* inodes
  NoFile,      \* the file of an idle thread
  Regular,     \* those with S_ISREG: only they preallocate
  NDADDR,      \* direct pointers of an inode
  MaxSize,     \* bound on the size a file is given
  Reserved,    \* s_r_blocks_count for a caller other than root, 0 for root
  Prefs,       \* what ext2_blkpref may answer
  Garbage,     \* what uninitialised i_prealloc_block and _count may be
  Exclusive,   \* TRUE when two threads never write or truncate one file at a time
  IOFails      \* TRUE when reading an inode's block and writing data may fail

VARIABLES
  i_db,        \* direct block pointers in core
  i_size,      \* size in core
  prealloc,    \* i_prealloc_block and i_prealloc_count
  i_flag,      \* the inode has changes that ext2_update must write
  dinode,      \* block pointers in the inode table
  op           \* what each thread does to which file

fileVars == <<i_db, i_size, prealloc, i_flag, dinode>>
vars == <<inuse, bg_free, s_free, buf, pc, req, ret, i_db, i_size, prealloc, i_flag, dinode, op>>

Lbns  == 0 .. NDADDR - 1
Sizes == 0 .. NDADDR
Empty == [l \in Lbns |-> 0]

Places == {"out", "wdisc", "wcall", "wnew", "wnext", "wdata", "ldisc", "lcall", "lbuf", "tenter", "tdisc", "tcut",
           "tupd", "tcopy", "trest", "tfree", "tblk", "sdisc", "supd", "scopy", "panic"}

\* The thread is at "at" in an operation on file f.  "lbn" is the block to write,
\* or the new length, "osize" the size on entry, "end" where the data to write
\* ends, "old" the pointers in locals of ext2_truncate and "grow" tells a lengthening
\* ext2_truncate from a write.
Idle == [at |-> "out", f |-> NoFile, lbn |-> 0, osize |-> 0, end |-> 0,
         old |-> Empty, grow |-> FALSE]

ASSUME FileAssumption ==
  /\ NoFile \notin Files /\ Regular \subseteq Files /\ NDADDR \in Nat \ {0} /\ MaxSize \in [Files -> Sizes]
  /\ Reserved \in Nat /\ Prefs \subseteq Nat /\ Garbage \subseteq [blk : Nat, cnt : Nat] 
  /\ Exclusive \in BOOLEAN /\ IOFails \in BOOLEAN

Pointers == [Lbns -> Blocks \cup {0}]

\* Type invariant: in particular every pointer, also one a truncation has put
\* aside, is 0 or a block of the volume, and no size outgrows the direct blocks.
FileTypeOK ==
  /\ TypeOK
  /\ i_db \in [Files -> Pointers] /\ dinode \in [Files -> Pointers]
  /\ i_size \in [Files -> Sizes]
  /\ prealloc \in [Files -> [blk : Nat, cnt : Nat]]
  /\ i_flag \in [Files -> BOOLEAN]
  /\ op \in [Threads -> [at : Places, f : Files \cup {NoFile}, lbn : Sizes, osize : Sizes, end : Sizes,
                         old : Pointers, grow : BOOLEAN]]

Init ==
  /\ AllocInit(Meta)
  /\ i_db = [f \in Files |-> Empty] /\ dinode = [f \in Files |-> Empty]
  /\ i_size = [f \in Files |-> 0]
  /\ prealloc = [f \in Files |-> [blk |-> 0, cnt |-> 0]]
  /\ i_flag = [f \in Files |-> FALSE]
  /\ op = [t \in Threads |-> Idle]
-----------------------------------------------------------------------------
\* IXLOCK succeeds.
Unlocked(f) == \A t \in Threads : ~(op[t].at \in {"lcall", "wnext", "tblk"} /\ op[t].f = f)

Move(t, l) == op' = [op EXCEPT ![t].at = l]
Leave(t)   == op' = [op EXCEPT ![t] = Idle]

\* A call of the allocator returns to its caller.
CallReturns(t) ==
  /\ pc[t] = "done"
  /\ ret' = [ret EXCEPT ![t] = NoRet]
  /\ req' = [req EXCEPT ![t] = [grp |-> 0, bit |-> 0, cnt |-> 0, pre |-> FALSE]]
  /\ Goto(t, "idle")
  /\ UNCHANGED <<bitmapVars, buf>>

\* Mutant of Discard: the count is not reset.
DiscardKeepsCount(t, f) ==
  /\ prealloc[f].cnt > 0
  /\ FreeBlocks(t, prealloc[f].blk, prealloc[f].cnt)
  /\ UNCHANGED prealloc

\* ext2_discard_prealloc with something to discard: the count is zeroed and the
\* inode unlocked for the call of ext2_free_blocks.
Discard(t, f) ==
  /\ prealloc[f].cnt > 0
  /\ prealloc' = [prealloc EXCEPT ![f].cnt = 0]
  /\ FreeBlocks(t, prealloc[f].blk, prealloc[f].cnt)

\* ext2_balloc2 has succeeded: a write goes on to its next block, or drops the lock
\* for the data; a lengthening ext2_truncate drops it to get a buffer, with a new
\* block in a local variable.
Allotted(t, o) ==
  op' = [op EXCEPT ![t] = [o EXCEPT !.at = IF o.grow THEN "lbuf"
                                           ELSE IF o.lbn + 1 < o.end THEN "wnext" ELSE "wdata"]]

\* The new block "b" becomes block o.lbn of the file, and a write grows the size.
Store(t, o, b) ==
  /\ i_flag' = [i_flag EXCEPT ![o.f] = TRUE]
  /\ IF o.grow
     THEN Allotted(t, [o EXCEPT !.old = [Empty EXCEPT ![o.lbn] = b]]) /\ UNCHANGED <<i_db, i_size>>
     ELSE /\ Allotted(t, o)
          /\ i_db' = [i_db EXCEPT ![o.f][o.lbn] = b]
          /\ i_size' = [i_size EXCEPT ![o.f] = IF o.lbn >= @ THEN o.lbn + 1 ELSE @]

\* ENOSPC: ext2_truncate returns it, a write goes on with the blocks it has.
Fail(t, o) ==
  /\ op' = [op EXCEPT ![t] = IF o.grow THEN Idle ELSE [o EXCEPT !.at = "wdata", !.end = o.lbn]]
  /\ UNCHANGED <<i_db, i_size, i_flag>>

\* The call of ext2_new_block on a preallocation miss.
NewBlockFor(t, o) ==
  /\ \E bpref \in Prefs : NewBlock(t, bpref, o.f \in Regular)
  /\ op' = [op EXCEPT ![t] = [o EXCEPT !.at = "wnew"]]
  /\ UNCHANGED fileVars

NoSpace == s_free = 0 \/ s_free < Reserved

\* ext2_balloc2 for block o.lbn of o.f with the inode locked, up to the point
\* where ext2_alloc drops the lock.  A block that is there though the file ends at
\* or before it is the panic "Something is terribly wrong".
Balloc(t, o) ==
  LET f == o.f
      p == prealloc[f]
      near == {p.blk - 1, p.blk}
  IN  \/ /\ i_db[f][o.lbn] # 0
         /\ IF o.lbn < i_size[f] THEN Allotted(t, o) ELSE op' = [op EXCEPT ![t] = [o EXCEPT !.at = "panic"]]
         /\ UNCHANGED <<allocVars, fileVars>>
      \/ /\ i_db[f][o.lbn] = 0 /\ NoSpace
         /\ Fail(t, o)
         /\ UNCHANGED <<allocVars, prealloc, dinode>>
      \/ /\ i_db[f][o.lbn] = 0 /\ ~NoSpace
         /\ \/ /\ p.cnt > 0 /\ Prefs \cap near # {}
               /\ prealloc' = [prealloc EXCEPT ![f] = [blk |-> p.blk + 1, cnt |-> p.cnt - 1]]
               /\ Store(t, o, p.blk)
               /\ UNCHANGED <<allocVars, dinode>>
            \/ /\ Prefs \ near # {}
               /\ Discard(t, f)
               /\ op' = [op EXCEPT ![t] = [o EXCEPT !.at = "wdisc"]]
               /\ UNCHANGED <<i_db, i_size, i_flag, dinode>>
            \/ p.cnt = 0 /\ NewBlockFor(t, o)

\* The miss after its discard: the inode is locked, unlocked, and a block asked for.
MissDiscarded(t) ==
  /\ op[t].at = "wdisc" /\ Unlocked(op[t].f)
  /\ CallReturns(t)
  /\ Move(t, "wcall")
  /\ UNCHANGED fileVars

Miss(t) == op[t].at = "wcall" /\ NewBlockFor(t, op[t])

\* ext2_new_block has returned and the inode is locked again.  Of a regular file
\* the preallocation is stored whether or not the call has set it.
MissDone(t) ==
  LET o == op[t]
      r == ret[t]
  IN  /\ o.at = "wnew" /\ Unlocked(o.f)
      /\ IF o.f \notin Regular THEN UNCHANGED prealloc
         ELSE \E g \in IF r.pset THEN {[blk |-> r.pblk, cnt |-> r.pcnt]} ELSE Garbage :
                prealloc' = [prealloc EXCEPT ![o.f] = g]
      /\ CallReturns(t)
      /\ IF r.blk # 0 THEN Store(t, o, r.blk) ELSE Fail(t, o)
      /\ UNCHANGED dinode
-----------------------------------------------------------------------------
\* Threads that write or truncate f.
Changing(f) ==
  {t \in Threads : op[t].f = f /\ op[t].at \notin {"out", "sdisc", "supd", "scopy"}}

Enter(t, f) ==
  /\ op[t].at = "out" /\ Unlocked(f)
  /\ Exclusive => Changing(f) = {}

\* ext2_write of the blocks from lbn to end - 1, which are first allocated one by
\* one; it drops the lock for the data.
Write(t, f, lbn, end) ==
  /\ Enter(t, f)
  /\ Balloc(t, [Idle EXCEPT !.f = f, !.lbn = lbn, !.osize = i_size[f], !.end = end])

WriteNext(t) == op[t].at = "wnext" /\ Balloc(t, [op[t] EXCEPT !.lbn = @ + 1])

\* After cluster_write, which may fail in the last block: a write that ended past
\* the size it found sets the size to its end.  A failed one truncates back to that
\* size, and one with IO_SYNC updates the inode.
WriteDone(t) ==
  LET o == op[t]
  IN  \E end \in {o.end} \cup (IF IOFails THEN {o.lbn} ELSE {}) :
        /\ o.at = "wdata" /\ Unlocked(o.f)
        /\ i_size' = [i_size EXCEPT ![o.f] = IF end > o.osize THEN end ELSE @]
        /\ i_flag' = [i_flag EXCEPT ![o.f] = TRUE]
        /\ IF end = o.lbn THEN op' = [op EXCEPT ![t] = [o EXCEPT !.at = "tenter", !.lbn = o.osize, !.end = 0]]
           ELSE Leave(t) \/ op' = [op EXCEPT ![t] = [Idle EXCEPT !.at = "supd", !.f = o.f]]
        /\ UNCHANGED <<allocVars, i_db, prealloc, dinode>>

\* ext2_truncate to o.lbn blocks, entered with the inode locked: nothing to do,
\* or to longer, or to shorter; the preallocation is discarded first.
TruncateTo(t, o) ==
  LET len == o.lbn
      up  == [o EXCEPT !.lbn = len - 1, !.grow = TRUE]
      discarding(p) ==
        /\ Discard(t, o.f)
        /\ op' = [op EXCEPT ![t] = p]
        /\ UNCHANGED <<i_db, i_size, i_flag, dinode>>
  IN  \/ /\ len = i_size[o.f]
         /\ i_flag' = [i_flag EXCEPT ![o.f] = TRUE]
         /\ op' = [op EXCEPT ![t] = [o EXCEPT !.at = "supd"]]
         /\ UNCHANGED <<allocVars, i_db, i_size, prealloc, dinode>>
      \/ len > i_size[o.f] /\ discarding([up EXCEPT !.at = "ldisc"])
      \/ len > i_size[o.f] /\ prealloc[o.f].cnt = 0 /\ Balloc(t, up)
      \/ len < i_size[o.f] /\ discarding([o EXCEPT !.at = "tdisc", !.osize = i_size[o.f]])
      \/ /\ len < i_size[o.f] /\ prealloc[o.f].cnt = 0
         /\ op' = [op EXCEPT ![t] = [o EXCEPT !.at = "tcut", !.osize = i_size[o.f]]]
         /\ UNCHANGED <<allocVars, fileVars>>

Truncate(t, f, len) == Enter(t, f) /\ TruncateTo(t, [Idle EXCEPT !.f = f, !.lbn = len])

UndoWrite(t) == op[t].at = "tenter" /\ Unlocked(op[t].f) /\ TruncateTo(t, op[t])

\* Lengthening, after the discard: the inode stays locked into ext2_balloc.
GrowDiscarded(t) ==
  /\ op[t].at = "ldisc" /\ Unlocked(op[t].f)
  /\ CallReturns(t)
  /\ Move(t, "lcall")
  /\ UNCHANGED fileVars

Grow(t) == op[t].at = "lcall" /\ Balloc(t, op[t])

\* Mutant of Buffered: the size becomes one block too large.
BufferedFar(t) ==
  LET o == op[t]
  IN  /\ o.at = "lbuf" /\ Unlocked(o.f)
      /\ i_db' = [i_db EXCEPT ![o.f][o.lbn] = IF o.old[o.lbn] = 0 THEN @ ELSE o.old[o.lbn]]
      /\ i_size' = [i_size EXCEPT ![o.f] = o.lbn + 2]
      /\ i_flag' = [i_flag EXCEPT ![o.f] = TRUE]
      /\ op' = [op EXCEPT ![t] = [o EXCEPT !.at = "supd", !.old = Empty]]
      /\ UNCHANGED <<allocVars, prealloc, dinode>>

\* Mutant of Buffered: the size is not updated.
BufferedForgetsSize(t) ==
  LET o == op[t]
  IN  /\ o.at = "lbuf" /\ Unlocked(o.f)
      /\ i_db' = [i_db EXCEPT ![o.f][o.lbn] = IF o.old[o.lbn] = 0 THEN @ ELSE o.old[o.lbn]]
      /\ i_flag' = [i_flag EXCEPT ![o.f] = TRUE]
      /\ op' = [op EXCEPT ![t] = [o EXCEPT !.at = "supd", !.old = Empty]]
      /\ UNCHANGED <<allocVars, i_size, prealloc, dinode>>

\* With the buffer in hand the pointer to a new block is set, then the size; ext2_update follows.
Buffered(t) ==
  LET o == op[t]
  IN  /\ o.at = "lbuf" /\ Unlocked(o.f)
      /\ i_db' = [i_db EXCEPT ![o.f][o.lbn] = IF o.old[o.lbn] = 0 THEN @ ELSE o.old[o.lbn]]
      /\ i_size' = [i_size EXCEPT ![o.f] = o.lbn + 1]
      /\ i_flag' = [i_flag EXCEPT ![o.f] = TRUE]
      /\ op' = [op EXCEPT ![t] = [o EXCEPT !.at = "supd", !.old = Empty]]
      /\ UNCHANGED <<allocVars, prealloc, dinode>>

ShrinkDiscarded(t) ==
  /\ op[t].at = "tdisc" /\ Unlocked(op[t].f)
  /\ CallReturns(t)
  /\ Move(t, "tcut")
  /\ UNCHANGED fileVars

Kept(blks, len) == [l \in Lbns |-> IF l < len THEN blks[l] ELSE 0]

\* Shortening: the pointers are saved and those past the new size zeroed, for
\* ext2_update to write.
Cut(t) ==
  LET o == op[t]
  IN  /\ o.at = "tcut" /\ Unlocked(o.f)
      /\ i_size' = [i_size EXCEPT ![o.f] = o.lbn]
      /\ i_db' = [i_db EXCEPT ![o.f] = Kept(@, o.lbn)]
      /\ i_flag' = [i_flag EXCEPT ![o.f] = TRUE]
      /\ op' = [op EXCEPT ![t].at = "tupd", ![t].old = i_db[o.f]]
      /\ UNCHANGED <<allocVars, prealloc, dinode>>

\* Mutant of Restore: the old pointers are not put back.
RestoreForgotten(t) ==
  LET o == op[t]
  IN  /\ o.at = "trest" /\ Unlocked(o.f)
      /\ i_size' = [i_size EXCEPT ![o.f] = o.osize]
      /\ op' = [op EXCEPT ![t].at = "tfree", ![t].old = Empty]
      /\ UNCHANGED <<allocVars, i_db, prealloc, i_flag, dinode>>

\* Having written the inode, ext2_truncate puts the old pointers and size back.
Restore(t) ==
  LET o == op[t]
  IN  /\ o.at = "trest" /\ Unlocked(o.f)
      /\ i_db' = [i_db EXCEPT ![o.f] = o.old]
      /\ i_size' = [i_size EXCEPT ![o.f] = o.osize]
      /\ op' = [op EXCEPT ![t].at = "tfree", ![t].old = Empty]
      /\ UNCHANGED <<allocVars, prealloc, i_flag, dinode>>

FreeLoop(t) ==
  /\ op[t].at = "tfree" /\ Unlocked(op[t].f)
  /\ Move(t, "tblk")
  /\ UNCHANGED <<allocVars, fileVars>>

\* One round of the loop, from the last block down, under the inode lock, and
\* its end: the real size is put back.
FreeNext(t) ==
  LET o == op[t]
      todo == {l \in Lbns : l >= o.lbn /\ i_db[o.f][l] # 0}
  IN  /\ o.at = "tblk" /\ pc[t] = "idle"
      /\ \/ \E l \in todo :
              /\ \A m \in todo : m <= l
              /\ i_db' = [i_db EXCEPT ![o.f][l] = 0]
              /\ FreeBlocks(t, i_db[o.f][l], 1)
              /\ UNCHANGED <<i_size, prealloc, i_flag, dinode, op>>
         \/ /\ todo = {}
            /\ i_size' = [i_size EXCEPT ![o.f] = o.lbn]
            /\ i_flag' = [i_flag EXCEPT ![o.f] = TRUE]
            /\ Leave(t)
            /\ UNCHANGED <<allocVars, i_db, prealloc, dinode>>

FreeReturns(t) == op[t].at = "tblk" /\ CallReturns(t) /\ UNCHANGED <<fileVars, op>>

\* ext2_fsync, which ext2_sync runs on every changed inode, and likewise
\* ext2_inactive of a file that keeps a link: discard, then update.
Fsync(t, f) ==
  /\ op[t].at = "out" /\ Unlocked(f)
  /\ \/ Discard(t, f) /\ op' = [op EXCEPT ![t] = [Idle EXCEPT !.at = "sdisc", !.f = f]]
     \/ /\ prealloc[f].cnt = 0
        /\ op' = [op EXCEPT ![t] = [Idle EXCEPT !.at = "supd", !.f = f]]
        /\ UNCHANGED <<allocVars, prealloc>>
  /\ UNCHANGED <<i_db, i_size, i_flag, dinode>>

FsyncDiscarded(t) ==
  /\ op[t].at = "sdisc" /\ Unlocked(op[t].f)
  /\ CallReturns(t)
  /\ Move(t, "supd")
  /\ UNCHANGED fileVars

\* ext2_update returns: to ext2_truncate, or from the system call.
UpdateReturns(t) == IF op[t].at \in {"tupd", "tcopy"} THEN Move(t, "trest") ELSE Leave(t)

\* ext2_update looks at the flags, unlocks the inode and reads its block ...
UpdateCheck(t) ==
  /\ op[t].at \in {"supd", "tupd"} /\ Unlocked(op[t].f)
  /\ IF i_flag[op[t].f] THEN Move(t, IF op[t].at = "tupd" THEN "tcopy" ELSE "scopy")
     ELSE UpdateReturns(t)
  /\ UNCHANGED <<allocVars, fileVars>>

\* ... which may fail, locks it again, copies it as it now is, and writes the block.
UpdateCopy(t) ==
  LET f == op[t].f
  IN  /\ op[t].at \in {"scopy", "tcopy"}
      /\ \/ /\ Unlocked(f)
            /\ dinode' = [dinode EXCEPT ![f] = i_db[f]]
            /\ i_flag' = [i_flag EXCEPT ![f] = FALSE]
         \/ IOFails /\ UNCHANGED <<dinode, i_flag>>
      /\ UpdateReturns(t)
      /\ UNCHANGED <<allocVars, i_db, i_size, prealloc>>

\* ext2_read marks the access.
Read(t, f) ==
  /\ op[t].at = "out" /\ Unlocked(f)
  /\ i_flag' = [i_flag EXCEPT ![f] = TRUE]
  /\ UNCHANGED <<allocVars, i_db, i_size, prealloc, dinode, op>>
-----------------------------------------------------------------------------
FileStep(t) ==
  \/ MissDiscarded(t) \/ Miss(t) \/ MissDone(t) \/ WriteNext(t) \/ WriteDone(t) \/ UndoWrite(t)
  \/ GrowDiscarded(t) \/ Grow(t) \/ Buffered(t) \/ ShrinkDiscarded(t) \/ Cut(t) \/ Restore(t)
  \/ FreeLoop(t) \/ FreeNext(t) \/ FreeReturns(t)
  \/ FsyncDiscarded(t) \/ UpdateCheck(t) \/ UpdateCopy(t)

Call(t) ==
  \E f \in Files :
    \/ \E l, e \in 0 .. MaxSize[f] : l < e /\ Write(t, f, l, e)
    \/ \E len \in 0 .. MaxSize[f] : Truncate(t, f, len)
    \/ Fsync(t, f)
    \/ Read(t, f)

BitmapStep(t) == AllocStep(t) /\ UNCHANGED <<fileVars, op>>

Next == \E t \in Threads : Call(t) \/ FileStep(t) \/ BitmapStep(t)

Spec == Init /\ [][Next]_vars
-----------------------------------------------------------------------------
\* The blocks of a file: its pointers and those in local variables of ext2_truncate.
Own(f) ==
  LET aside == UNION {{op[t].old[l] : l \in Lbns} :
                        t \in {u \in Threads : op[u].f = f /\ op[u].at \in {"lbuf", "tupd", "tcopy", "trest"}}}
  IN  ({i_db[f][l] : l \in Lbns} \cup aside) \ {0}

Preallocated(f) == LET p == prealloc[f] IN p.blk .. p.blk + p.cnt - 1

FileOwned == UNION {Own(f) \cup Preallocated(f) : f \in Files}

\* No block belongs to two files, to two places in a file, or to a file and a
\* preallocation, through all the windows in which ext2_alloc and ext2_truncate
\* work with the inode unlocked.
NoSharing ==
  /\ \A f \in Files : \A l, m \in Lbns : l # m /\ i_db[f][l] # 0 => i_db[f][l] # i_db[f][m]
  /\ \A f \in Files : Own(f) \cap Preallocated(f) = {}
  /\ \A f, g \in Files : f # g =>
       (Own(f) \cup Preallocated(f)) \cap (Own(g) \cup Preallocated(g)) = {}

\* The allocator under any well-behaved caller, which owns what the files hold.
Allocator == INSTANCE BlockAlloc WITH own <- FileOwned, Goals <- Prefs

\* The files are a well-behaved caller of the allocator: what they hold changes
\* only by what ext2_new_block returns and what they pass to ext2_free_blocks,
\* once, so that no block in use is ever lost or freed by anyone but its owner.
KeepsAllocatorContract == Allocator!Spec

\* A file nobody is changing has no block at or past its end, also after failed
\* writes and truncations: ext2_balloc2 relies on it and panics otherwise.
NothingPastEnd ==
  \A f \in Files : Changing(f) = {} => \A l \in Lbns : i_db[f][l] # 0 => l < i_size[f]

\* "this shouldn't happen w/o fragments" (ext2_balloc.c:143): ext2_balloc2 never
\* reaches its panic "Something is terribly wrong".
NothingTerriblyWrong == \A t \in Threads : op[t].at # "panic"

\* "To have a preallocation hit, we must have at least one block preallocated"
\* (ext2_alloc.c:134): what i_prealloc_count counts is reserved in the bitmap.
PreallocReserved == \A f \in Files : Preallocated(f) \subseteq inuse \ Meta

\* "Update file and block pointers on disk before we start freeing blocks"
\* (ext2_inode.c:268): no block is being freed that the inode on disk points to.
FreedAfterUpdate ==
  \A t \in Threads : pc[t] \in {"freeread", "free"} =>
    \A f \in Files, l \in Lbns : dinode[f][l] \notin FreeRun(t)
=============================================================================
