------------------------------ MODULE PhysAddr ------------------------------
(***************************************************************************)
(* The physical address arithmetic of the page-mapping FTL: how a physical *)
(* page number (ppn) encodes flash, block and page, and which of the       *)
(* per-plane lists a block belongs to.                                     *)
(*                                                                         *)
(* A block is identified by its index in block_state_table, a page by its  *)
(* ppn, a list by its mapping_index.                                       *)
(***************************************************************************)
EXTENDS Integers

CONSTANTS
  FLASH_NB,          \* flash memories in the SSD
  BLOCK_NB,          \* blocks per flash memory
  PAGE_NB,           \* pages per block
  PLANES_PER_FLASH   \* planes per flash memory

ASSUME GeometryAssumption ==
  /\ FLASH_NB \in Nat \ {0}
  /\ BLOCK_NB \in Nat \ {0}
  /\ PAGE_NB \in Nat \ {0}
  /\ PLANES_PER_FLASH \in Nat \ {0}

(***************************************************************************)
(* INIT_EMPTY_BLOCK_LIST gives every list BLOCK_NB / PLANES_PER_FLASH      *)
(* entries by count but links all blocks of the plane, k = plane, plane +   *)
(* PLANES_PER_FLASH, ..., into it; the two agree only when the planes      *)
(* share the blocks of a flash evenly.                                     *)
(***************************************************************************)
ASSUME PlanesAssumption == BLOCK_NB % PLANES_PER_FLASH = 0

EACH_EMPTY_TABLE_ENTRY_NB == BLOCK_NB \div PLANES_PER_FLASH
EMPTY_TABLE_ENTRY_NB      == FLASH_NB * PLANES_PER_FLASH
BLOCK_MAPPING_ENTRY_NB    == FLASH_NB * BLOCK_NB
PAGE_MAPPING_ENTRY_NB     == BLOCK_MAPPING_ENTRY_NB * PAGE_NB

Flash == 0 .. FLASH_NB - 1
Block == 0 .. BLOCK_MAPPING_ENTRY_NB - 1     \* indices of block_state_table
Page  == 0 .. PAGE_NB - 1
PPN   == 0 .. PAGE_MAPPING_ENTRY_NB - 1
LPN   == 0 .. PAGE_MAPPING_ENTRY_NB - 1      \* the logical space has the same size
Root  == 0 .. EMPTY_TABLE_ENTRY_NB - 1       \* indices of both block lists

CALC_FLASH(ppn) == (ppn \div PAGE_NB) \div BLOCK_NB
CALC_BLOCK(ppn) == (ppn \div PAGE_NB) % BLOCK_NB
CALC_PAGE(ppn)  == ppn % PAGE_NB

\* The ppn that GET_NEW_PAGE and GARBAGE_COLLECTION build from an address.
PpnOf(flash, block, page) ==
  flash * BLOCK_NB * PAGE_NB + block * PAGE_NB + page

\* The entry of block_state_table that stands for a block of a flash memory.
StateIndex(flash, block) == flash * BLOCK_NB + block

\* The list that a block of a flash memory is kept in.
ListIndex(flash, block) == (block % PLANES_PER_FLASH) * FLASH_NB + flash

\* The same three, for a block given by its index in block_state_table.
FlashOf(b) == b \div BLOCK_NB
RootOf(b)  == ListIndex(b \div BLOCK_NB, b % BLOCK_NB)
PpnAt(b, page) == PpnOf(b \div BLOCK_NB, b % BLOCK_NB, page)

\* The block a ppn lies in.
BlockOf(ppn) == StateIndex(CALC_FLASH(ppn), CALC_BLOCK(ppn))
=============================================================================
