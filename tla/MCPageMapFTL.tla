---------------------------- MODULE MCPageMapFTL ----------------------------
(***************************************************************************)
(* Instances of the page-mapping FTL for TLC; the .cfg files give the      *)
(* geometry, the part of the logical space the host uses and the bounds.   *)
(***************************************************************************)
EXTENDS PageMapDisk, TLC

\* Page contents are only stored, copied and returned, never looked at.
DataSymmetry == Permutations(Data)
=============================================================================
