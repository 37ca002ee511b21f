-------------------------- MODULE MountStateProofs --------------------------
(***************************************************************************)
(* That EXT2_VALID_FS on disk can be trusted and that no change of the     *)
(* superblock is lost, for any number of changes, when a volume is synced  *)
(* before it is made read-only.                                            *)
(***************************************************************************)
EXTENDS MountState, TLAPS

\* No superblock counts a change that was not made, and one in core that is or may
\* be marked clean counts them all.  (A volume mounted unclean by force may have
\* lost counts: a downgrade does not write its superblock.)
CoreExact ==
  /\ disk.count <= changes
  /\ adm # "off" => /\ s_es.count <= changes
                    /\ s_es.valid \/ s_wasvalid => s_es.count = changes

\* A volume that can be changed, or has just refused a request, is marked unclean
\* both in core and on disk.
WritableUnclean ==
  /\ (adm \in {"on", "umflush"} /\ ~rdonly) \/ adm = "downflush" => ~disk.valid /\ ~s_es.valid /\ ~s_rd_only
  /\ adm \in {"mount", "up"} => ~s_es.valid
  /\ adm \in {"on", "umflush"} => rdonly = s_rd_only

\* What the superblock in core would say if it were written now is true.
CoreTrusted ==
  adm # "off" => /\ s_es.valid => ~damaged /\ pending = "no"
                 /\ s_wasvalid => ~damaged

\* A read-only mount, and a volume whose files have been flushed, has nothing pending.
Quiet ==
  /\ rdonly \/ adm \in {"off", "mount", "umsuper"} => pending = "no"
  /\ adm \in {"downflush", "down", "up"} => rdonly
  /\ adm \in {"off", "umflush", "umsuper"} => syn = "no"

\* The properties and what they need to be kept by every step.
Conjuncts ==
  /\ CleanMeansConsistent /\ ChangeIsTracked
  /\ CoreExact /\ WritableUnclean /\ CoreTrusted /\ Quiet

\* The inductive invariant.
IInv == TypeOK /\ Conjuncts

\* What the superblock constructor and its fields are.
LEMMA SbFields == \A v \in BOOLEAN, n \in 0 .. MaxChanges :
                    Sb(v, n) \in Super /\ Sb(v, n).valid = v /\ Sb(v, n).count = n
  BY DEF Sb, Super

\* A superblock has a flag and a count in range.
LEMMA SuperFields == \A s \in Super : s.valid \in BOOLEAN /\ s.count \in 0 .. MaxChanges
  BY DEF Super

\* A volume may have seen no change.
LEMMA ZeroCount == 0 \in 0 .. MaxChanges
  BY BoundAssumption

\* The strengthening holds initially.
LEMMA InitIInv == Init => IInv
  <1>. SUFFICES ASSUME Init PROVE IInv
    OBVIOUS
  <1>1. disk \in Super /\ disk.count = 0 /\ s_es \in Super /\ s_es.count = 0
    BY SbFields, ZeroCount DEF Init
  <1>2. TypeOK BY <1>1, ZeroCount, Zenon DEF Init, TypeOK, AdmPlaces
  <1>3. CleanMeansConsistent BY <1>1 DEF Init, CleanMeansConsistent
  <1>4. CoreExact
    <2>1. changes = 0 /\ adm = "off" BY DEF Init
    <2>. QED BY <1>1, <2>1 DEF CoreExact
  <1>. QED
    BY <1>2, <1>3, <1>4
    DEF Init, IInv, Conjuncts, ChangeIsTracked, WritableUnclean, CoreTrusted, Quiet

\* Every step of a mount, an update, an unmount, a sync, a change and a crash
\* keeps the types.
LEMMA StepTypes == ASSUME IInv, [Next]_vars PROVE TypeOK'
  <1>. USE DEF TypeOK, AdmPlaces, flags, volume
  <1>t. /\ TypeOK
        /\ s_es.valid \in BOOLEAN /\ s_es.count \in 0 .. MaxChanges
        /\ disk.valid \in BOOLEAN /\ disk.count \in 0 .. MaxChanges
    BY SuperFields DEF IInv
  <1>1. CASE \E ro, force \in BOOLEAN : Mountfs(ro, force)
    BY <1>1, <1>t, SbFields DEF Mountfs
  <1>2. CASE SbUpdate BY <1>2, <1>t DEF SbUpdate
  <1>3. CASE Downgrade \/ DowngradeBusy \/ DowngradeFlushed
    BY <1>3, <1>t, SbFields DEF Downgrade, DowngradeBusy, DowngradeFlushed
  <1>4. CASE \E force \in BOOLEAN : Upgrade(force)
    BY <1>4, <1>t, SbFields DEF Upgrade
  <1>5. CASE Unmount \/ UnmountBusy
    BY <1>5, <1>t DEF Unmount, UnmountBusy
  <1>6. CASE UnmountFlushed
    BY <1>6, <1>t, SbFields DEF UnmountFlushed
  <1>7. CASE UnmountDone
    BY <1>7, <1>t, SbFields, ZeroCount DEF UnmountDone, Unmounted
  <1>8. CASE Change \/ FlushDiscards
    <2>1. adm # "off" /\ changes < MaxChanges BY <1>8 DEF Change, FlushDiscards
    <2>2. changes + 1 \in 0 .. MaxChanges /\ s_es.count + 1 \in 0 .. MaxChanges
      BY <1>t, <2>1, BoundAssumption DEF IInv, Conjuncts, CoreExact
    <2>. QED BY <1>8, <1>t, <2>2, SbFields DEF Change, FlushDiscards
  <1>9. CASE SyncStart \/ SyncTest \/ SyncWrite
    BY <1>9, <1>t DEF SyncStart, SyncTest, SyncWrite
  <1>10. CASE Crash
    BY <1>10, <1>t, SbFields, ZeroCount DEF Crash, Unmounted
  <1>11. CASE Fsck BY <1>11, <1>t, SbFields DEF Fsck
  <1>12. CASE UNCHANGED vars BY <1>12, <1>t DEF vars
  <1>. QED
    BY <1>1, <1>2, <1>3, <1>4, <1>5, <1>6, <1>7, <1>8, <1>9, <1>10, <1>11, <1>12 DEF Next

\* A volume that is synced before it is made read-only: a step that writes the
\* superblock writes what is true, and no other step makes what it says untrue.
LEMMA StepIInv == ASSUME SyncFirst, IInv, [Next]_vars PROVE IInv'
  <1>t. /\ TypeOK /\ Conjuncts
        /\ s_es.valid \in BOOLEAN /\ s_es.count \in 0 .. MaxChanges
        /\ disk.valid \in BOOLEAN /\ disk.count \in 0 .. MaxChanges
    BY SuperFields DEF IInv, TypeOK
  <1>. SUFFICES Conjuncts'
    BY StepTypes DEF IInv
  <1>. USE <1>t DEF TypeOK, Conjuncts, flags, volume, CleanMeansConsistent, ChangeIsTracked,
                CoreExact, WritableUnclean, CoreTrusted, Quiet
  <1>1. ASSUME NEW ro \in BOOLEAN, NEW force \in BOOLEAN, Mountfs(ro, force) PROVE Conjuncts'
    <2>1. s_es'.count = disk.count /\ s_es'.valid = (ro /\ disk.valid)
      BY <1>1, SbFields DEF Mountfs
    <2>2. CASE ro BY <1>1, <2>1, <2>2 DEF Mountfs
    <2>3. CASE ~ro BY <1>1, <2>1, <2>3 DEF Mountfs
    <2>. QED BY <2>2, <2>3
  <1>2. CASE SbUpdate BY <1>2 DEF SbUpdate
  <1>3. CASE Downgrade BY <1>3 DEF Downgrade
  <1>4. CASE DowngradeBusy BY <1>4 DEF DowngradeBusy
  <1>5. CASE DowngradeFlushed
    <2>1. s_es'.count = s_es.count /\ s_es'.valid = (s_wasvalid \/ s_es.valid)
      BY <1>5, SbFields DEF DowngradeFlushed
    <2>. QED BY <1>5, <2>1 DEF DowngradeFlushed
  <1>6. ASSUME NEW force \in BOOLEAN, Upgrade(force) PROVE Conjuncts'
    <2>1. s_es'.count = s_es.count /\ s_es'.valid = FALSE
      BY <1>6, SbFields DEF Upgrade
    <2>. QED BY <1>6, <2>1 DEF Upgrade
  <1>7. CASE Unmount BY <1>7 DEF Unmount
  <1>8. CASE UnmountBusy BY <1>8 DEF UnmountBusy
  <1>9. CASE UnmountFlushed
    <2>1. s_es'.count = s_es.count /\ s_es'.valid = (s_es.valid \/ (s_wasvalid /\ ~s_rd_only))
      BY <1>9, SbFields DEF UnmountFlushed
    <2>. QED BY <1>9, <2>1 DEF UnmountFlushed
  <1>10. CASE UnmountDone BY <1>10 DEF UnmountDone, Unmounted
  <1>11. CASE Change
    <2>1. s_es.count + 1 \in 0 .. MaxChanges
      BY <1>11, BoundAssumption DEF Change
    <2>2. s_es'.count = s_es.count + 1 /\ s_es'.valid = s_es.valid
      BY <1>11, <2>1, SbFields DEF Change
    <2>. QED BY <1>11, <2>2 DEF Change
  <1>12. CASE FlushDiscards
    <2>1. s_es.count + 1 \in 0 .. MaxChanges
      BY <1>12, BoundAssumption DEF FlushDiscards
    <2>2. s_es'.count = s_es.count + 1 /\ s_es'.valid = s_es.valid
      BY <1>12, <2>1, SbFields DEF FlushDiscards
    <2>. QED BY <1>12, <2>2 DEF FlushDiscards
  <1>13. CASE SyncStart BY <1>13 DEF SyncStart
  <1>14. CASE SyncTest BY <1>14 DEF SyncTest
  <1>15. CASE SyncWrite BY <1>15 DEF SyncWrite
  <1>16. CASE Crash BY <1>16 DEF Crash, Unmounted
  <1>17. CASE Fsck
    <2>1. disk'.count = changes
      BY <1>17, SbFields DEF Fsck
    <2>2. changes' = changes BY <1>17 DEF Fsck
    <2>3. disk'.count <= changes' BY <2>1, <2>2
    <2>. QED BY <1>17, <2>1, <2>2, <2>3 DEF Fsck
  <1>18. CASE UNCHANGED vars BY <1>18 DEF vars
  <1>. QED
    BY <1>1, <1>2, <1>3, <1>4, <1>5, <1>6, <1>7, <1>8, <1>9, <1>10, <1>11, <1>12, <1>13,
       <1>14, <1>15, <1>16, <1>17, <1>18 DEF Next

\* The strengthening is an invariant of every behaviour in which a volume is
\* synced before it is made read-only.
THEOREM Invariance == ASSUME SyncFirst PROVE Spec => []IInv
  <1>1. Init => IInv BY InitIInv
  <1>2. IInv /\ [Next]_vars => IInv' BY StepIInv
  <1>. QED BY <1>1, <1>2, PTL DEF Spec

\* Every mount, update, sync, unmount and crash keeps the flags and the superblocks
\* in core and on disk in their ranges.
THEOREM TypeCorrect == ASSUME SyncFirst PROVE Spec => []TypeOK
  <1>1. IInv => TypeOK BY DEF IInv
  <1>. QED BY <1>1, Invariance, PTL

\* EXT2_VALID_FS on disk can be trusted: whatever mounts, updates, syncs, unmounts
\* and crashes came before, it is set only on a volume on which nothing is missing.
THEOREM CleanIsConsistent == ASSUME SyncFirst PROVE Spec => []CleanMeansConsistent
  <1>1. IInv => CleanMeansConsistent BY DEF IInv, Conjuncts
  <1>. QED BY <1>1, Invariance, PTL

\* ext2_sync loses no change of the superblock by clearing s_dirt before it writes.
THEOREM ChangesAreTracked == ASSUME SyncFirst PROVE Spec => []ChangeIsTracked
  <1>1. IInv => ChangeIsTracked BY DEF IInv, Conjuncts
  <1>. QED BY <1>1, Invariance, PTL
=============================================================================
