---------------------------- MODULE MCInodeAlloc ----------------------------
(***************************************************************************)
(* Three groups of two inodes, whose descriptors take two blocks.  The     *)
(* first group, where the root directory is, has only reserved numbers, so *)
(* a file of the root goes elsewhere.                                      *)
(***************************************************************************)
EXTENDS InodeAlloc

\* Changes whose block is marked are left out: the block stays marked until
\* ext2_sbupdate writes it, and them with it.
Unmarked ==
  <<inuse, bg_free, bg_dirs, s_free, dirty, {c \in unwritten : DescBlock(c[1]) \notin dirty},
    buf, pc, req, ret, own, lost>>
=============================================================================
