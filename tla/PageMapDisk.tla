---------------------------- MODULE PageMapDisk -----------------------------
(***************************************************************************)
(* The page-mapping FTL seen as a logical disk: the contents of a logical  *)
(* page are what the physical page it is mapped to holds.                  *)
(***************************************************************************)
EXTENDS PageMapFTL

\* The pages of the current request that are still to be written.
Pending == IF pc = "write" THEN remain ELSE 0

DiskContents ==
  [l \in LPN |-> IF mapping_table[l] = None THEN NoData ELSE nand[mapping_table[l]]]

Disk == INSTANCE LogicalDisk WITH
  disk <- DiskContents,
  next <- IF Pending > 0 THEN lpn ELSE 0,
  left <- Pending,
  data <- IF Pending > 0 THEN data ELSE NoData,
  result <- result

\* The FTL implements the logical disk: allocation, garbage collection,
\* failed collections and restarts never change what a read returns, and a
\* write that runs out of pages leaves exactly a prefix of its data.
ImplementsDisk == Disk!Spec
=============================================================================
