---------------------------- MODULE MCBlockAlloc ----------------------------
(***************************************************************************)
(* Two groups of four blocks, the second one block short, with two-bit     *)
(* "bytes" and a two-bit goal window: every branch of the search is taken. *)
(***************************************************************************)
EXTENDS BlockAlloc

MCMeta  == {1, 5}
MCGoals == {0, 2, 3, 4, 6}
=============================================================================
