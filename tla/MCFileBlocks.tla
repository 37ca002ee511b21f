---------------------------- MODULE MCFileBlocks ----------------------------
(***************************************************************************)
(* Two threads on files of two blocks.                                     *)
(***************************************************************************)
EXTENDS FileBlocks, TLC

MCMeta == {1}
MCPrefs == {3}
MCGarbage == [blk : {0, 3}, cnt : {0, 1}]
MCMaxSize == [f \in Files |-> IF f \in Regular THEN 2 ELSE 1]
Perms == Permutations(Threads)
WithoutDisk == <<inuse, bg_free, s_free, buf, pc, req, ret, i_db, i_size, prealloc, i_flag, op>>
=============================================================================
