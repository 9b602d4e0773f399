----------------------------- MODULE BlockLists -----------------------------
(***************************************************************************)
(* The two tables of block lists, empty_block_list and victim_block_list:  *)
(* one list of blocks per flash memory and plane.  A list is the sequence  *)
(* of its blocks from head to tail; the count that its root record keeps   *)
(* is the length of the sequence.                                          *)
(***************************************************************************)
EXTENDS PhysAddr, Lists, FiniteSets, Functions

\* The entries (list, position) of a table of block lists.
Entries(list) == UNION {{r} \X (1 .. Len(list[r])) : r \in Root}

\* The list that INIT_EMPTY_BLOCK_LIST builds for a plane of a flash memory:
\* its blocks in ascending order.
InitialList(r) ==
  [n \in 1 .. EACH_EMPTY_TABLE_ENTRY_NB |->
     StateIndex(r % FLASH_NB, r \div FLASH_NB + (n - 1) * PLANES_PER_FLASH)]

\* The blocks in some list of the table.
Listed(list) == UNION {Range(list[r]) : r \in Root}

\* No block twice in a list, and each in the list of its own plane.
FiledIn(s, r) == IsInjective(s) /\ \A b \in Range(s) : RootOf(b) = r
Filed(list) == \A r \in Root : FiledIn(list[r], r)
=============================================================================
