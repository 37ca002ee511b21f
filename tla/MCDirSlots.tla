---------------------------- MODULE MCDirSlots ----------------------------
(***************************************************************************)
(* Two long names and three short ones in blocks of 40 bytes: long holes   *)
(* refilled with short names leave room that only compaction can use.      *)
(***************************************************************************)
EXTENDS DirSlots, TLC

CONSTANTS l1, l2, s1, s2, s3

MCNeed == [n \in Names |-> IF n \in {l1, l2} THEN 5 ELSE 3]
MCSymmetry == Permutations({l1, l2}) \cup Permutations({s1, s2, s3})
                \cup Permutations(Inodes) \cup Permutations(Threads)

(* Parameters that no operation in flight will read are left out: a        *)
(* look-up sets them again before the next one does.                       *)
Pending(n) == \E t \in Threads : thr[t].pc # "idle" /\ n \in {thr[t].name, thr[t].from}
ReadLater ==
    <<mem, thr, panic, dp.size, dp.diroff,
      IF dp.lastnamei = "CREATE" /\ \E t \in Threads : thr[t].pc = "enter" THEN dp ELSE None,
      [n \in Names |-> IF Pending(n) THEN dcache[n] ELSE None]>>
=============================================================================
