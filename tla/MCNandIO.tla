------------------------------ MODULE MCNandIO ------------------------------
(***************************************************************************)
(* Small instances of NandIO for model checking.                           *)
(***************************************************************************)
EXTENDS NandIO, TLC
=============================================================================
