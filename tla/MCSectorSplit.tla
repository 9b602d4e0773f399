--------------------------- MODULE MCSectorSplit ----------------------------
(***************************************************************************)
(* Instances of the splitting of requests for TLC.                         *)
(***************************************************************************)
EXTENDS SectorSplit
=============================================================================
