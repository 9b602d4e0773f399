---------------------------- MODULE MCFirmBuffer ----------------------------
(***************************************************************************)
(* Instances of the firmware buffer for TLC.                               *)
(***************************************************************************)
EXTENDS FirmBuffer, TLC

Ask(type, s, n) == [io_type |-> type, sector_nb |-> s, length |-> n]

\* Requests of the sectors 0 and 1.
TwoSectors ==
  {Ask("WRITE", 0, 1), Ask("WRITE", 1, 1), Ask("WRITE", 0, 2),
   Ask("READ", 0, 1), Ask("READ", 0, 2)}

\* Two writes that overlap, so that the second is merged into the first.
Overlapping == {Ask("WRITE", 0, 3), Ask("WRITE", 1, 3)}

\* A read that the merged write covers, and one that goes beyond the device.
ReadBack    == Overlapping \cup {Ask("READ", 2, 2)}
ReadBeyond  == Overlapping \cup {Ask("READ", 3, 2)}

\* Sector contents are only stored, copied and returned, never looked at.
DataSymmetry == Permutations(Data)
=============================================================================
