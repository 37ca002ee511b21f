---------------------------- MODULE MCInodeCache ----------------------------
(***************************************************************************)
(* Three threads and room for three copies of the inode.                   *)
(***************************************************************************)
EXTENDS InodeCache, TLC

Perms == Permutations(Threads) \cup Permutations(Objs)
=============================================================================
