---------------------------- MODULE MCMountState ----------------------------
(***************************************************************************)
(* A volume that is changed up to three times.                             *)
(***************************************************************************)
EXTENDS MountState
=============================================================================
