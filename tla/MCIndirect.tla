----------------------------- MODULE MCIndirect -----------------------------
EXTENDS Indirect

(* A direct block, and boundaries of the levels: the first block of the    *)
(* first, the last of the second and of the third.                         *)
MCTargets == {0, Start(1), Start(3) - 1, Start(4) - 1}
=============================================================================
