# ext2fsX in TLA+

ext2fsX is an ext2/ext3 file system for macOS: a kernel extension
(`src/src/gnu/ext2fs`, `src/src/kern`), and around it user tools and a disk
manager.  This directory models the core of the kernel extension.  TLC checks the
models on small instances, and TLAPS proves the main results for every instance.

## Inventory

| Part | Source | Model |
|---|---|---|
| block allocator | `ext2_linux_balloc.c` | `BlockBitmap`, `BlockAlloc`, proofs |
| blocks of files: allocation with preallocation, write, truncate, fsync, update | `ext2_alloc.c`, `ext2_balloc.c`, `ext2_readwrite.c`, `ext2_inode.c` | `FileBlocks` (direct blocks), proofs |
| cache of in-core inodes | `ext2_ihash.c`, `ext2_vget_internal`, `ext2_reclaim` | `InodeCache`, proofs |
| mount, update, unmount, sync and the superblock | `ext2_vfsops.c` | `MountState`, proofs |
| inode allocator | `ext2_linux_ialloc.c`, `ext2_valloc` and `ext2_vfree` of `ext2_alloc.c` | `InodeAlloc`, proofs |
| indirect blocks | `ext2_bmap.c`, parts of `ext2_balloc.c` and `ext2_inode.c` | `Indirect`, `IndirTrunc` |
| linear directories | `ext2_lookup.c` | `Directory` (what is promised), `DirSlots` |
| namespace: create, link, remove, rename, mkdir, rmdir | `ext2_vnops.c`, `ext2_checkpath_nolock`, `ext2_dirempty`, `ext2_inactive` | `Namespace` |
| hashed directories | `ext2_htree.c`, `ext2_hash.c`, `linux/` | not modelled |
| Darwin glue, advisory locks (not compiled in) | `src/src/kern` | not modelled |
| tools, `extfsmgr` | `mount_ext2fs`, `newfs_ext2`, `util`, `extfsmgr` | not modelled: options, user interface and calls of other programs |
| e2fsprogs, e2undel, disklib, xnu headers | vendored | not modelled |

How the parts meet: the VFS calls vnode operations from any thread and does not
serialise them (`VFS_TBLTHREADSAFE`, `ext2_vfsops.c:1879`).  Each inode has a mutex,
the superblock has one, and the hash of inodes has one; the code drops them around
I/O and around calls into the allocator.  A write or truncate calls the block
allocator with its inode unlocked; `ext2_update` copies the inode to the inode table;
`ext2_sync` and the mount operations write the superblock, whose counts the
allocators change.

## Modules

A step of a model is what a thread does between two points at which another thread
can interfere: a lock dropped, a sleep, a busy buffer, an unlocked shared variable.

**BlockBitmap** — `ext2_new_block` and `ext2_free_blocks`.  State: `inuse` (the set
bits of all bitmaps), `bg_free` and `s_free` (counts of the group descriptors and the
superblock), `buf` (which thread has the bitmap buffer of a group), and per thread
`pc`, `req`, `ret`.  `NewBlock` chooses a group under the superblock lock;
`ReadBitmap` is `load_block_bitmap`, which drops that lock while it gets the buffer;
`GoalSearch`, `ScanSearch`, `Commit` are the search around the goal (bit, 64-bit
window, byte, bit), the scan of the groups and `got_block` with its preallocation
loop; `ReleaseBitmap` writes the buffer after the unlock; `FreeBlocks`/`FreeBits` are
the free.  `EXT2_SB_BITMAP_CACHE` is 0 (`src/src/ext2_apple.h:159`), so a bitmap is read each
time.

**BlockAlloc** — the allocator with the most general callers: any thread asks at any
goal, or frees any run of blocks, within a group, that callers own (`own`).

**FileBlocks** — `BlockBitmap` with its real callers.  State: `i_db`, `i_size`,
`prealloc`, `i_flag` in core, `dinode` in the inode table, `op` per thread.
`Write`/`WriteNext`/`WriteDone` are `ext2_write_internal`, `Balloc` is `ext2_balloc2`
with `ext2_alloc` (hit, miss, no space), `Discard` is `ext2_discard_prealloc`;
`Truncate`, `GrowDiscarded`, `Grow`, `Buffered` lengthen and `ShrinkDiscarded`, `Cut`,
`Restore`, `FreeLoop`, `FreeNext`, `FreeReturns` shorten; `Fsync`, `Update*`, `Read` are the
rest.  Abstractions: sizes in whole blocks (so the balloc of a partial last block in
a shortening truncate, `ext2_inode.c:231-254`, does not occur), direct blocks only,
`IO_UNIT` set, no failure of `buf_bread` for an existing block in a lengthening truncate,
none of the DIAGNOSTIC checks.  An uninitialised local is any value of `Garbage`.

**InodeCache** — `ext2_vget_internal`, `ext2_hash_get`, `ext2_vget_irelse`, `ext2_vinit`,
`ext2_reclaim` for one inode number.  `obj` are the in-core inodes with flags, mutex,
`i_refct` and vnode state, `chain` the hash chain, `hash_lock` is
`ext2fs_inode_hash_lock`.  That variable is read with no lock, and its
compare-and-swap takes the expected value from the variable itself: the model lets the
compiler reload it or reuse a loaded value (`Loads`).  The VFS part (`Put`,
`StartReclaim`) is external.

**MountState** — `ext2_mountfs`, `ext2_mount` for updates, `ext2_reload`, `ext2_unmount`,
`ext2_sync`, `ext2_sbupdate`, crashes and e2fsck (external).  Of the superblock it keeps
`EXT2_VALID_FS` and one count for all the fields that change; `pending` says whether
files have changes in core only, `damaged` whether a crash lost something.  A buffer
given to the buffer cache counts as written.

**InodeAlloc** — `ext2_new_inode` and `ext2_free_inode` with their callers `ext2_valloc`,
`ext2_inactive` and the descriptor part of `ext2_sbupdate`.  State: `inuse` (bits of the inode
bitmaps), `bg_free`, `bg_dirs`, `s_free` (counts), `dirty` and `unwritten` (descriptor blocks marked
dirty; changes of descriptors, by group and kind, that the disk does not have), `buf`, and per thread `pc`, `req`, `ret`;
`own` are the numbers of existing files and `lost` those that `ext2_vget` failed to make.
`ChooseGroup` is the search for a group under the superblock lock (a directory: at least the average
number of free inodes; a file: its parent's group, a quadratic hash, a linear search, `Probes`);
`ReadBitmap` drops that lock; `SearchBitmap` starts over when the group has filled up meanwhile.
The search keeps the descriptor buffer of the group it looked at last, and that buffer is the one
marked dirty: for a file it is the chosen group's, for a directory the last group's.

**Directory, DirSlots** — `Directory` says what a directory promises: a map from names to inodes
that entering, removing and rewriting a name change in one step, and a look-up that answers from
it.  `DirSlots` has the records: `mem` maps an offset to the header of the record there, `dp` has the
fields of the directory's inode (`i_offset`, `i_count`, `i_reclen`, `i_endoff`, `i_diroff`,
`i_lastnamei`) in which a look-up leaves parameters for the change that follows, and `dcache` the
copies it keeps by name.  `Lookupi` is `ext2_lookupi`
with both passes and the four name operations, `EnterNewBlock`, `EnterSlot`, `EnterFails`,
`Truncate` are `ext2_direnter` with its compaction (`Squeeze`), `DirRemove` and `DirRewrite` are
the other two changes.  The flag `IN_LOOK` is held over each of them, so each is one step; a
look-up and the change it prepares are two, and other look-ups come in between.  A rename inside
the directory is two look-ups (`SourceLookup`, `TargetLookup`) and two changes: the new name is
entered or rewritten, then the old one removed.  The contents of a record that is no longer
reached are not kept.

**Namespace** — the vnode operations over whole directories, one step per lock hold or write:
entries (`ent`), the ".." entries (`dotdot`), `IN_RENAME` and `IN_LOOK` (`renaming`, `look`), and link
counts in three places.  `nlink` is `i_nlink`; `dinode` is the count in the inode's block in the buffer
cache, where `Ext2Update` (`ext2_update`) copies it if the inode is marked (`modified`); and the
disk has it once the block is written, at once when `ext2_update` waits and otherwise some time
later (`delayed`, `Flush`).  `ext2_update` does nothing for an inode that is not marked, because a
sync (`Sync`) has just copied it, nor for a device, whose changes wait for `ext2_reclaim`
(`Reclaim`); `Async` is a mount with `MNT_ASYNC`, on which it never waits.  An operation begins with
`MakeInode` (create, mknod, symlink and mkdir), `Link`, `Remove`, `Rmdir` or `Rename` and goes on through the
shared steps `Update`, `Parent`, `Template`, `Enter`, ..., `Bad`; each write has an action for its failure.  `damaged`
records a failure that the code does not undo, `unsaved` a failed write of an inode, `leaked` the
inodes of failed creations, whose vnodes the code never drops, so that `Inactive` never has them.

**Indirect, IndirTrunc** — `GetLbns` is `ext2_getlbns` (negative numbers of indirect blocks included),
`BmapArray` is `ext2_bmaparray` over buffers in the cache and blocks on disk, and `Balloc`,
`FirstIndirect`, `ReadIndirect`, `NextIndirect` and their failing forms are `ext2_balloc2`; `Flush` and `Evict`
are the buffer cache (external).  `IndirTrunc` is `ext2_indirtrunc` as a recursive operator, called by
`Truncate` with the arguments in the order of the code; a block read at an address that belongs to
nobody (`wild`) ends the behaviour.

`MC*` modules give the constants of the instances.

## Runs

| Run | Shows |
|---|---|
| `block_alloc` | no block handed out twice or lost, counts exact, no panic, buffers owned by one thread, "all groups full" is true when said, some call always returns |
| `file_blocks` | no block in two files, no block past the end of a file nobody is changing, also after failed writes, and `FileBlocks` implements `BlockAlloc` (`KeepsAllocatorContract`): the callers free only what they own |
| `inode_cache` | what `ext2_vget` returns is initialised and alive, no inode is freed under a sleeper, the chain holds live inodes |
| `mount_state` | `EXT2_VALID_FS` on disk can be trusted, `s_dirt` tracks every unwritten change, changes are written in the end |
| `inode_alloc` | no inode number handed out twice, and one is lost only where `ext2_vget` fails; counts exact; every changed descriptor's block marked for writing, over two blocks of descriptors, but for a new directory outside the last block (`DescriptorsTracked`); "no inodes left" is true when said, "corrupted" is never said, some call always returns |
| `dir_slots` | records tile each block and fit their names (`WellFormed`), what a removal or rewrite uses of an earlier look-up still describes its record, although other threads look up and a rename rewrites another name in between (`ParametersCurrent`), and `DirSlots` implements `Directory` (`Implements`): a failed operation changes nothing |
| `namespace` | no link count, in core or in the inode's block, is below the number of names, whatever fails and whenever a sync comes (`NeverUndercounted`; the block's count not for devices, nor after a failed write of an inode); with nothing under way and nothing damaged counts are exact (`LinksExact`); directories form one tree that ".." agrees with (`TreeRooted`); an inode without a name that no operation uses has no links left (`UnnamedUnlinked`) |
| `indirect` | each allocated block has one place in the tree, also after failed writes (`OwnedOnce`); `ext2_bmaparray` finds through any mixture of cached and written blocks what the tree holds (`BmapAgrees`); no pointer on disk leads to a block not yet written (`NeverGarbage`) |

Four runs show where the code and its comments disagree; TLC gives a trace for each.

| Run | Disagreement |
|---|---|
| `two_writers` | two writers of one file reach the panic "Something is terribly wrong": `i_size` is set back from a stale value |
| `inode_wait` | `ext2_hash_get` sleeps on `&i_flags`, the wakeups are for `&i_flag` |
| `dir_creators` | two threads create names in one directory: `ext2_direnter` takes the slot the other's look-up found for its own, and panics where it is too small |
| `indirtrunc` | `ext2_indirtrunc` is called with two arguments swapped; after a truncate to 0, blocks behind an indirect block are still allocated |

Eleven further configurations of the same modules ask a narrower question each; in all of them TLC
finds the property named violated (`tlc -config <cfg> <MC module>`).

| Configuration | Property | What the trace shows |
|---|---|---|
| `MCBlockAllocCorrupted.cfg` | `CorruptedMeansCorrupted` | `ext2_new_block` says "Free blocks count corrupted" and fails when another thread fills the chosen group while its bitmap is read |
| `MCFileBlocksFull.cfg` | `PreallocReserved` | when the allocator returns 0, uninitialised locals become the inode's preallocation |
| `MCFileBlocksCrash.cfg` | `FreedAfterUpdate` | while truncate frees blocks, an `ext2_update` by another thread can have written the old pointers again |
| `MCInodeCacheDuplicate.cfg` | `NoDuplicate` | the hash lock does not exclude: an inode is in core twice |
| `MCMountStateReload.cfg` | `ReloadLosesNothing` | `ext2_reload` refuses read-only mounts and serves read-write ones, the reverse of its comment (the VFS may refuse such a request first) |
| `MCMountStateDowngrade.cfg` | `CleanMeansConsistent` | an update to read-only that no sync precedes marks the volume clean with changed inodes not written |
| `MCDirSlotsRename.cfg` | `ParametersCurrent` | a rename to a new name inside one directory enters it in the slack of the old record, between the look-up of the old name and its removal, which then uses a record length that is too large |
| `MCInodeAllocDesc.cfg` | `AllTracked` | with several blocks of descriptors, a new directory marks the block of the last group instead of its own |
| `MCNamespacePanic.cfg` | `TargetUnlinked` | a rename over a directory meets another operation on it between its test and its squash: the panic "linked directory" |
| `MCNamespaceSync.cfg` | `InodeFirst` | a sync copies a new inode before `ext2_makeinode` does, which then writes nothing: the entry is on disk before the inode, against the comment "Make sure inode goes to disk before directory entry"; a device's inode is not written at all |
| `MCNamespaceLeak.cfg` | `NothingLeaks` | a creation fails, and its inode is never released: no error exit drops the vnode, against the comment "vrele will do this for us" |

### Assumptions of the passing runs

- `file_blocks` has `Exclusive = TRUE`: one thread at a time writes or truncates a given
  file, while others read and sync it.  `two_writers` shows what happens otherwise.
- `file_blocks` has `Reserved = 3`, a caller other than root: the reserve keeps
  `ext2_new_block` from returning 0.  `MCFileBlocksFull.cfg` has root.
- `mount_state` has `SyncFirst = TRUE`: an update to read-only is asked for when nothing is
  pending.  `MCMountStateDowngrade.cfg` drops that.
- `inode_alloc`: a directory keeps its links while something is created in it.
- `dir_slots` has `Exclusive = TRUE`: one change at a time per directory, with look-ups by others at
  any moment; `dir_creators` shows what happens otherwise.  `NewNames = FALSE`: a rename inside the
  directory is onto a name that exists; `MCDirSlotsRename.cfg` has the others.  The kernel's name cache
  answers look-ups only.
- `namespace` has `Separate = TRUE`: operations in flight use different names, a directory that is
  the subject of one is not used by another, and two moves of directories never overlap (the
  kernel holds a rename lock; without it two crossing moves cut a cycle off the tree).
  `MCNamespacePanic.cfg` drops it.  After damage that the code does not undo, or a failed write of an
  inode, nothing new begins; the writes of a sync do not fail.
- `NeverUndercounted` is about the inode's block in the cache.  The disk has that count unless the
  block waits in a delayed write: after a sync that does not wait, or on a mount with `MNT_ASYNC`
  (`Async`), a crash can leave a name whose inode has not been written (`MCNamespaceSync.cfg`).
- `indirect`: one thread extends the file (see `two_writers` for more), and a behaviour ends with the
  first synchronous write of a parent whose error the code ignores (`ext2_balloc.c:301`).
- `indirtrunc`: lengths are multiples of a block, no read or write fails.

### Bounds

- `block_alloc`: two threads; two groups of four blocks, the second one short; two-bit
  "bytes" and goal windows, so that every branch of the search, a preallocation that stops
  at a used bit or at the group's end, and a full volume all occur.
- `file_blocks`: two threads, a regular file of two blocks and a directory of one, six free
  or used blocks; writes of one and two blocks, failures in either (`IOFails`).  The view
  leaves out `dinode`, which no action reads; threads are symmetric.
- `inode_cache`: three threads (one initialising, one asleep, one reclaiming) and three
  structures.  Deadlock is not checked there because the code can really hang: see
  `inode_wait`, and the wait for the hash lock can miss its wakeup (`ext2_vfsops.c:1393`).
- `mount_state`: three changes, any number of mounts, updates and crashes.
- `inode_alloc`: two threads; three groups of two inodes, three of them reserved, so that a group fills
  up while its bitmap is waited for and all three loops of the search are taken; two descriptors a
  block.  The view leaves out the kinds of changes that are marked already.
- `dir_slots`: two long and three short names in two blocks of ten units (a unit is four bytes), so that
  a block is compacted, extended, emptied and truncated; names of a length are symmetric.
- `namespace`: four inodes, two names a directory, two threads, at most four links (`LINK_MAX`).
  One inode at most is a device or has leaked (`OneApart`), and when an operation begins the inodes that
  no other one uses have been copied to their blocks (`Copied`).  The view leaves out what no
  property can tell apart: `delayed`, the mark of an inode whose copy is up to date, and the copy
  of an inode that is free, leaked or the root.
- `indirect`: one direct block, three levels of three pointers, five blocks: each level is entered, the
  volume fills up half way down a path, and every write on the way can fail.

### Fairness

Weak fairness of each thread's steps inside a call (`BlockAlloc`, `InodeAlloc`, `InodeCache`): the kernel
schedules a thread that can run, and buffers and mutexes are given to waiters.
`MountState` adds strong fairness of `SyncStart`: the update daemon calls `ext2_sync` every
thirty seconds, whatever else goes on.  Requests that were started run to their end.

## Proofs

Each theorem holds for every value of the constants that satisfies the named assumptions of the
module it is about: any number of threads, files, groups, blocks and inodes.  Most of them follow from
the inductive invariant of their module (`IInv`).

**BlockAllocProofs** (with `BlockBitmapProofs`, lemmas about the bitmaps that need no caller): any goals, any
window and byte size.

- `Invariance`: `IInv == TypeOK /\ Partition /\ CountsExact /\ NoPanic /\ FreeWellFormed` is
  inductive.  `Partition` says that the bits in use are metadata, blocks of callers and
  blocks in transit in one call, all disjoint.  `FreeWellFormed` is what must be added: a free
  in progress is about a run inside its group, so that clearing its bits changes that group's
  count only.  The argument rests on lemmas that a search answers a clear bit of its group
  (`SearchGroupFindsZero`, `SearchGoalFindsZero`, `RunIsFree`) and on cardinalities
  (`TakeCounts`, `GiveCounts`).
- `TypeCorrect`, `AllocationSafe`, `CountsAgree`, `PanicFree`, `FullIsFull` follow; `BuffersExclusive` has an
  induction of its own.

**FileBlocksProofs** (with `FileBlocksSteps`): writes, truncations, reads and syncs of files.  All its theorems
have two hypotheses.  `Exclusive`: one thread at a time changes a file; `two_writers` shows what
happens otherwise.  `[]NoGarbage`: when `ext2_new_block` fails for a regular file, the
uninitialised variables that `ext2_alloc` stores hold a count of 0.  The code does not see to it, and
`MCFileBlocksFull.cfg` shows what happens otherwise.  It holds when the call never fails, as
in `file_blocks`, and it would hold always if the variables were initialised.

- `FileInvariance`: `IInv == FilePart /\ AP!IInv`, where `AP` is `BlockAllocProofs` with the blocks of the
  files (`FileOwned`) as those of its callers.  `FilePart` joins `NoSharing` and `NothingPastEnd`
  with what makes them inductive: at most one operation is changing a file (`OneChanger`); a preallocation
  is a run inside one group (`PreallocInGroup`), so that giving it back is a legal free; what an
  operation relies on at each place where it has the inode unlocked (`JobOK`: that the pointer it is
  to fill is still 0, how far the size has grown, which blocks it holds only in its locals);
  and how far the call of the allocator is for which it waits (`CallOK`).
- The two halves need each other.  A step of the files is a step of `BlockAlloc` as long as `FilePart`
  holds (`FileNext`, `Contract`); then the allocator keeps its invariant; then its calls return
  blocks that no file has, and `FilePart` holds again (`NextInv`).
- `FileBlocksSteps` has one lemma for each kind of step: of the one thread that changes a file (`ChangerStep`), of
  a thread that only reads or syncs it (`BystanderStep`), of the allocator.
- `FilesTyped`, `FilesShareNothing`, `FilesEndSound`, `BallocPanicFree` follow, and `FilesKeepContract`:
  `FileBlocks` implements `BlockAlloc`, so the theorems of `BlockAllocProofs` hold of real callers.

**InodeAllocProofs**:

- `Invariance`: `IInv == TypeOK /\ InodePartition /\ FreeCountsExact /\ DirsCounted /\ CallsWellFormed`.
  `CallsWellFormed` says what a call carries between its steps; `DirsCounted` that the directory counts are
  those of the existing directories, and of some of the numbers that a failing `ext2_vget` lost.
- `TypeCorrect`, `NumbersPartitioned`, `CountsExact` follow.
- `GivesUpOnlyWhenFull`: the probes of the quadratic hash and of the linear search together reach every
  group (`ProbesReachAll`), and a sum of counts that are all below the average is below the total
  (`SumBound`); so a search that finds no group is right.
- `RaceStartsOver`: a search that finds its group filled up meanwhile does not report a corrupted count.
- `DescriptorsWritten`: the descriptor buffer that a call keeps from its search is that of the group it
  changes, or for a directory that of the last group (`MarksRight`); so the block of a changed group
  is marked, for any number of descriptor blocks, unless the change is a new directory outside the
  last one.  `MCInodeAllocDesc.cfg` shows that the exception is needed.

**InodeCacheProofs**, for finite sets of threads and in-core inodes (`CacheAssumption`):

- `Invariance`: the types, the chain (`ChainIsLive`), at most one thread initialising or reclaiming an inode
  (`OneChanger`), what each inode and each thread knows at its place (`InodeOK`, `ThreadOK`), and that
  `i_refct` is the number of threads that sleep on the inode.
- `TypeCorrect`, `VgetReturnsReady`, `SleepersSafe`, `ChainExact` follow.

**MountStateProofs**, for any number of changes, assuming `SyncFirst`:

- `CleanIsConsistent` and `ChangesAreTracked`, with `TypeCorrect`.  The strengthening says that
  a volume that can be changed is marked unclean in core and on disk (`WritableUnclean`), that the
  superblock in core would be true if written now (`CoreExact`, `CoreTrusted`), and that nothing is
  pending on a read-only mount (`Quiet`).

Model-checked only:

- The liveness properties (`SomeCallReturns`, `ChangeIsWritten`, and `WaitEnds`, which fails): reasoning under
  fairness is beyond the prover.
- `DirSlots` (`TypeOK`, `WellFormed`, `ParametersCurrent`, `Implements`): what a search leaves is a fold over the
  records of a directory, and facts about folds take an induction over data.
- `Namespace` (`TypeOK`, `NeverUndercounted`, `LinksExact`, `TreeRooted`, `UnnamedUnlinked`): link counts are compared
  with numbers of entries, and the tree is a transitive closure.
- `Indirect` (`TypeOK`, `OwnedOnce`, `BmapAgrees`, `NeverGarbage`): paths through the tree are computed by recursion.
- `IndirTrunc`, a recursive operator.

## Not modelled

- The hashed index of directories (`ext2_htree.c`, `ext2_hash.c`, and the ext3 code under `linux/`): a
  search structure beside the linear one, with splits and a cursor of its own.  `Directory` is the
  specification it would have to implement.
- `ext2_readdir`, attributes, permissions, symbolic links' contents, extended attributes, `pathconf`: they
  change one record or none.
- Partial blocks, mapped pages, clustering and read-ahead: they concern the contents of files.
- Conversions between byte orders and checksums (`ext2_inode_cnv.c`, `ext2_csum.c`): one record to another.
- `ext2_lockf.c`: nothing calls it (`ext2_advlock` is under `#ifdef notyet`, the vnode operation is
  `nop_advlock`).
- The tools, `extfsmgr`, and the vendored trees (e2fsprogs, e2undel, disklib, kernel headers), which make up most
  lines of the repository: programs of their own, or other projects' code.

## Plan

1. Proofs: `OwnedOnce` of `Indirect`; `NeverUndercounted` of `Namespace`.
2. Liveness of the wait for the hash lock and for `IN_LOOK`; appends.
3. Truncates and writes of one file through indirect blocks; several changes at a time in `DirSlots`.
