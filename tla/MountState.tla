----------------------------- MODULE MountState -----------------------------
(***************************************************************************)
(* The superblock of a volume through mounts, updates of a mount, syncs,   *)
(* unmounts and crashes: ext2_mount, ext2_mountfs, ext2_reload,            *)
(* ext2_unmount, ext2_sync and ext2_sbupdate                               *)
(* (src/src/gnu/ext2fs/ext2_vfsops.c).                                     *)
(*                                                                         *)
(* Of the superblock the model keeps EXT2_VALID_FS and one count that      *)
(* stands for every field the file system changes while it is mounted (the *)
(* free counts, the label, the feature flags): each change is made and     *)
(* s_dirt set under the superblock mutex.  EXT2_ERROR_FS, which this code  *)
(* tests and never writes, is left out.                                    *)
(*                                                                         *)
(* What the code hands to the buffer cache counts as written.              *)
(*                                                                         *)
(* The VFS runs one of mount, update and unmount of a volume at a time,    *)
(* sets MNT_RDONLY before it asks for a downgrade and clears it after an   *)
(* upgrade, lets no file be changed while it is set, and calls ext2_sync   *)
(* only when it is not.                                                    *)
(***************************************************************************)
EXTENDS Naturals

CONSTANTS
  MaxChanges,   \* bound on the changes made to a volume
  SyncFirst     \* TRUE when a downgrade is asked for only after a sync

VARIABLES
  rdonly,       \* MNT_RDONLY of the mount
  s_rd_only, s_wasvalid, s_dirt,
  s_es,         \* superblock in core
  disk,         \* superblock on disk
  changes,      \* changes made to the volume
  pending,      \* changes to files in core only, blocks preallocated to them
                \* included: none, made before the sync in progress, or later
  damaged,      \* a crash has left the volume inconsistent
  adm, syn      \* where mount/update/unmount and ext2_sync are

vars == <<rdonly, s_rd_only, s_wasvalid, s_dirt, s_es, disk, changes, pending, damaged, adm, syn>>
flags == <<rdonly, s_rd_only, s_wasvalid>>
volume == <<changes, pending, damaged>>

ASSUME BoundAssumption == MaxChanges \in Nat /\ SyncFirst \in BOOLEAN

Super == [valid : BOOLEAN, count : 0 .. MaxChanges]

Sb(v, n) == [valid |-> v, count |-> n]

\* "off" is unmounted and "on" mounted with no request in progress.
AdmPlaces == {"off", "on", "mount", "down", "downflush", "up", "umflush", "umsuper"}

\* Type invariant: the flags and the steps of the calls, and counts of changes in
\* the superblock, in core and on disk, that stay within the bound.
TypeOK ==
  /\ rdonly \in BOOLEAN /\ s_rd_only \in BOOLEAN /\ s_wasvalid \in BOOLEAN /\ s_dirt \in BOOLEAN
  /\ s_es \in Super /\ disk \in Super
  /\ changes \in 0 .. MaxChanges /\ pending \in {"no", "old", "new"} /\ damaged \in BOOLEAN
  /\ adm \in AdmPlaces /\ syn \in {"no", "flush", "test", "write", "panic"}

Unmounted ==
  /\ rdonly' = FALSE /\ s_rd_only' = FALSE /\ s_wasvalid' = FALSE /\ s_dirt' = FALSE
  /\ s_es' = Sb(FALSE, 0)
  /\ adm' = "off" /\ syn' = "no"

Init ==
  /\ rdonly = FALSE /\ s_rd_only = FALSE /\ s_wasvalid = FALSE /\ s_dirt = FALSE
  /\ s_es = Sb(FALSE, 0)
  /\ disk = Sb(TRUE, 0)
  /\ changes = 0 /\ pending = "no" /\ damaged = FALSE
  /\ adm = "off" /\ syn = "no"
-----------------------------------------------------------------------------
\* ext2_mountfs.  A volume that is not clean is mounted read-write only by force;
\* a read-write mount writes the superblock without EXT2_VALID_FS.
Mountfs(ro, force) ==
  /\ adm = "off"
  /\ disk.valid \/ ro \/ force
  /\ rdonly' = ro /\ s_rd_only' = ro
  /\ s_wasvalid' = disk.valid
  /\ s_dirt' = ~ro
  /\ s_es' = Sb(ro /\ disk.valid, disk.count)
  /\ adm' = IF ro THEN "on" ELSE "mount"
  /\ UNCHANGED <<disk, volume, syn>>

\* ext2_sbupdate with MNT_WAIT at the end of ext2_mountfs, of an upgrade (which
\* then clears s_rd_only) and of a downgrade (which then sets it).
SbUpdate ==
  /\ adm \in {"mount", "up", "down"}
  /\ disk' = s_es
  /\ s_rd_only' = (adm = "down")
  /\ rdonly' = (adm = "down")
  /\ adm' = "on"
  /\ UNCHANGED <<s_wasvalid, s_dirt, s_es, volume, syn>>

\* An update to read-only; ext2_flushfiles fails on a file open for writing.
Downgrade ==
  /\ adm = "on" /\ ~s_rd_only
  /\ SyncFirst => pending = "no"
  /\ rdonly' = TRUE
  /\ adm' = "downflush"
  /\ UNCHANGED <<s_rd_only, s_wasvalid, s_dirt, s_es, disk, volume, syn>>

DowngradeBusy ==
  /\ adm = "downflush"
  /\ rdonly' = FALSE
  /\ adm' = "on"
  /\ UNCHANGED <<s_rd_only, s_wasvalid, s_dirt, s_es, disk, volume, syn>>

\* No file is open for writing any more.  vflush with WRITECLOSE looks at no other
\* file, and as MNT_RDONLY is set ext2_update would write none.  Only a volume that
\* was clean when it was mounted is marked clean and has its superblock written.
DowngradeFlushed ==
  /\ adm = "downflush"
  /\ IF s_wasvalid THEN s_es' = Sb(TRUE, s_es.count) /\ adm' = "down" /\ UNCHANGED s_rd_only
     ELSE s_rd_only' = TRUE /\ adm' = "on" /\ UNCHANGED s_es
  /\ UNCHANGED <<rdonly, s_wasvalid, s_dirt, disk, volume, syn>>

\* An update to read-write, of an unclean volume only by force.
Upgrade(force) ==
  /\ adm = "on" /\ s_rd_only
  /\ s_es.valid \/ force
  /\ s_es' = Sb(FALSE, s_es.count)
  /\ adm' = "up"
  /\ UNCHANGED <<flags, s_dirt, disk, volume, syn>>

\* ext2_reload: the superblock is read again.  It is refused when MNT_RDONLY is set.
Reload ==
  /\ adm = "on" /\ ~rdonly
  /\ s_es' = disk
  /\ UNCHANGED <<flags, s_dirt, disk, volume, adm, syn>>

\* ext2_unmount: flush, which may fail, mark the volume clean if it was, write.
Unmount ==
  /\ adm = "on" /\ syn = "no"
  /\ adm' = "umflush"
  /\ UNCHANGED <<flags, s_dirt, s_es, disk, volume, syn>>

UnmountBusy ==
  /\ adm = "umflush"
  /\ adm' = "on"
  /\ UNCHANGED <<flags, s_dirt, s_es, disk, volume, syn>>

\* A file that ext2_flushfiles makes inactive gives its preallocated blocks back.
FlushDiscards ==
  /\ adm \in {"downflush", "umflush"}
  /\ pending # "no" /\ changes < MaxChanges
  /\ changes' = changes + 1
  /\ s_es' = Sb(s_es.valid, s_es.count + 1)
  /\ s_dirt' = TRUE
  /\ UNCHANGED <<flags, disk, pending, damaged, adm, syn>>

\* Mutant of UnmountFlushed: s_wasvalid is not looked at.
UnmountAlwaysClean ==
  /\ adm = "umflush"
  /\ pending' = "no"
  /\ s_es' = Sb(TRUE, s_es.count)
  /\ adm' = "umsuper"
  /\ UNCHANGED <<flags, s_dirt, disk, changes, damaged, syn>>

\* Every file is inactive and, unless MNT_RDONLY is set, written.
UnmountFlushed ==
  /\ adm = "umflush"
  /\ pending' = "no"
  /\ damaged' = (damaged \/ (rdonly /\ pending # "no"))
  /\ s_es' = Sb(s_es.valid \/ (s_wasvalid /\ ~s_rd_only), s_es.count)
  /\ adm' = "umsuper"
  /\ UNCHANGED <<flags, s_dirt, disk, changes, syn>>

UnmountDone ==
  /\ adm = "umsuper"
  /\ disk' = IF s_rd_only THEN disk ELSE s_es
  /\ Unmounted
  /\ UNCHANGED volume
-----------------------------------------------------------------------------
\* Mutant of Change: it is counted twice.
ChangeTwice ==
  /\ adm = "on" /\ ~rdonly
  /\ changes < MaxChanges
  /\ changes' = changes + 1
  /\ s_es' = Sb(s_es.valid, s_es.count + 2)
  /\ s_dirt' = TRUE
  /\ pending' = "new"
  /\ UNCHANGED <<flags, disk, damaged, adm, syn>>

\* Mutant of Change: s_dirt is not set.
ChangeNotMarked ==
  /\ adm = "on" /\ ~rdonly
  /\ changes < MaxChanges
  /\ changes' = changes + 1
  /\ s_es' = Sb(s_es.valid, s_es.count + 1)
  /\ pending' = "new"
  /\ UNCHANGED <<flags, s_dirt, disk, damaged, adm, syn>>

\* Any operation that changes the volume: counts and s_dirt change together.
Change ==
  /\ adm = "on" /\ ~rdonly
  /\ changes < MaxChanges
  /\ changes' = changes + 1
  /\ s_es' = Sb(s_es.valid, s_es.count + 1)
  /\ s_dirt' = TRUE
  /\ pending' = "new"
  /\ UNCHANGED <<flags, disk, damaged, adm, syn>>

\* ext2_sync: a changed superblock on a read-only mount is a panic.
SyncStart ==
  /\ syn = "no" /\ adm = "on" /\ ~rdonly
  /\ syn' = IF s_dirt /\ s_rd_only THEN "panic" ELSE "flush"
  /\ pending' = IF pending = "no" THEN "no" ELSE "old"
  /\ UNCHANGED <<flags, s_dirt, s_es, disk, changes, damaged, adm>>

\* Mutant of SyncTest: s_dirt is cleared and the write left to the next sync.
SyncTestForgets ==
  /\ syn = "flush"
  /\ syn' = "no"
  /\ s_dirt' = FALSE
  /\ UNCHANGED <<flags, s_es, disk, volume, adm>>

\* After every inode and the device have been written, s_dirt is tested and cleared ...
SyncTest ==
  /\ syn = "flush"
  /\ syn' = IF s_dirt THEN "write" ELSE "no"
  /\ s_dirt' = FALSE
  /\ pending' = IF pending = "old" /\ ~rdonly THEN "no" ELSE pending
  /\ UNCHANGED <<flags, s_es, disk, changes, damaged, adm>>

\* ... and the superblock written.
SyncWrite ==
  /\ syn = "write"
  /\ disk' = s_es
  /\ syn' = "no"
  /\ UNCHANGED <<flags, s_dirt, s_es, volume, adm>>

\* The machine stops; what was not written is lost.
Crash ==
  /\ adm # "off"
  /\ damaged' = (damaged \/ pending # "no" \/ disk.count # changes)
  /\ changes' = disk.count
  /\ pending' = "no"
  /\ Unmounted
  /\ UNCHANGED disk

\* e2fsck repairs the unmounted volume and marks it clean.
Fsck ==
  /\ adm = "off"
  /\ disk' = Sb(TRUE, changes)
  /\ damaged' = FALSE
  /\ UNCHANGED <<flags, s_dirt, s_es, changes, pending, adm, syn>>

Next ==
  \/ \E ro, force \in BOOLEAN : Mountfs(ro, force)
  \/ SbUpdate
  \/ Downgrade \/ DowngradeBusy \/ DowngradeFlushed
  \/ \E force \in BOOLEAN : Upgrade(force)
  \/ Unmount \/ UnmountBusy \/ FlushDiscards \/ UnmountFlushed \/ UnmountDone
  \/ Change
  \/ SyncStart \/ SyncTest \/ SyncWrite
  \/ Crash \/ Fsck

Spec == Init /\ [][Next]_vars

\* The update daemon calls ext2_sync again and again, and a sync and a request
\* run to their end.
FairSpec ==
  /\ Spec
  /\ SF_vars(SyncStart) /\ WF_vars(SyncTest) /\ WF_vars(SyncWrite)
  /\ WF_vars(SbUpdate \/ DowngradeBusy \/ DowngradeFlushed)
  /\ WF_vars(UnmountBusy \/ UnmountFlushed \/ UnmountDone)

\* With requests for a reload, which the code grants to read-write mounts.
ReloadSpec == Init /\ [][Next \/ Reload]_vars
-----------------------------------------------------------------------------
\* EXT2_VALID_FS on disk, "Unmounted cleanly" (ext2_fs.h:454), is to be trusted: it
\* is there only when everything has been written and no crash has hurt the volume
\* since it was last checked, whatever mounts (forced ones too), updates, syncs and
\* crashes came before.
CleanMeansConsistent ==
  disk.valid => ~damaged /\ pending = "no" /\ disk.count = changes

\* A change of the superblock that is not on disk is announced by s_dirt or about
\* to be written: ext2_sync, which clears s_dirt unlocked, loses none.
ChangeIsTracked ==
  adm # "off" /\ s_es.count # disk.count => s_dirt \/ syn = "write"

\* Changes made to a read-write mount reach the superblock on disk as long as the
\* volume stays mounted read-write.
ChangeIsWritten ==
  \A n \in 1 .. MaxChanges :
    (adm # "off" /\ s_es.count >= n) ~> (disk.count >= n \/ rdonly \/ adm = "off")

\* "The filesystem must be mounted read-only" (ext2_vfsops.c:631-632) for a reload:
\* the superblock in core of a read-write mount never goes back to an older one.
ReloadLosesNothing ==
  [][adm = "on" /\ adm' = "on" /\ ~rdonly => s_es'.count >= s_es.count]_vars
=============================================================================
