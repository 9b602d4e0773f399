----------------------------- MODULE PageMapFTL -----------------------------
(***************************************************************************)
(* The page-mapping flash translation layer: host writes and reads, page   *)
(* allocation from the per-plane lists of empty blocks, the mapping and    *)
(* inverse mapping tables, and greedy garbage collection.                  *)
(*                                                                         *)
(* The FTL runs one request at a time.  A call is split where its loops    *)
(* iterate, with pc as the place reached:                                  *)
(*   "idle"   no call in progress                                          *)
(*   "write"  the page loop of _FTL_WRITE, allocating inside GET_NEW_PAGE  *)
(*   "gc"     the victim loop of GC_CHECK                                  *)
(*   "copy"   the page loop of GARBAGE_COLLECTION                          *)
(* Each step is forced by the one before it; nothing else runs in between. *)
(*                                                                         *)
(* nand and leaked are not variables of the program: nand is what the      *)
(* flash the program simulates would hold, leaked what it lost track of.   *)
(* An operator F_X is F with a mistake put into it, to see that a property *)
(* notices; nothing uses it.                                               *)
(***************************************************************************)
EXTENDS BlockLists

CONSTANTS
  GC_VICTIM_NB,      \* blocks one GC_CHECK tries to collect
  HOST_PAGE_NB,      \* the host uses the logical pages 0 .. HOST_PAGE_NB - 1
  MAX_REQ_PAGES,     \* bound: pages of one host request
  Data,              \* the contents a page can be given
  NoData             \* an unwritten logical page, an erased physical page

ASSUME HostAssumption ==
  /\ GC_VICTIM_NB \in Nat
  /\ HOST_PAGE_NB \in 0 .. PAGE_MAPPING_ENTRY_NB
  /\ MAX_REQ_PAGES \in Nat
  /\ NoData \notin Data

VARIABLES
  mapping_table,            \* lpn -> ppn, -1 when never written
  inverse_mapping_table,    \* ppn -> lpn, -1 when unused
  valid_array,              \* ppn -> "V", "I" or "0", the flag of its page
  empty_block_list,         \* root -> sequence of blocks with free pages
  curr_phy_page_nb,         \* block -> next page to program
  victim_block_list,        \* root -> sequence of full blocks
  total_empty_block_nb,
  total_victim_block_nb,
  empty_block_table_index,  \* the list the next write starts at
  nand,                     \* ppn -> contents: what the flash holds
  leaked,                   \* blocks a failed collection left in no list
  pc,
  lpn, remain, data,                   \* locals of _FTL_WRITE
  gc_i, victim, page, copy_page_nb,    \* locals of GC_CHECK, GARBAGE_COLLECTION
  mode, mapping_index,                 \* arguments of GET_EMPTY_BLOCK
  result                               \* what the last read returned

mapVars   == <<mapping_table, inverse_mapping_table, valid_array, nand>>
listVars  == <<empty_block_list, victim_block_list, total_empty_block_nb,
               total_victim_block_nb>>
reqVars   == <<lpn, remain, data>>
gcVars    == <<gc_i, victim, page, copy_page_nb>>
allocVars == <<mode, mapping_index>>
vars == <<mapVars, listVars, curr_phy_page_nb, empty_block_table_index, leaked,
          pc, reqVars, gcVars, allocVars, result>>

None == -1

ValidPageNb(b) == Cardinality({i \in Page : valid_array[PpnAt(b, i)] = "V"})
-----------------------------------------------------------------------------
(***************************************************************************)
(* FTL_INIT with no data files: every block is in the empty list of its    *)
(* plane, in ascending order.                                              *)
(***************************************************************************)
INIT_MAPPING_TABLE == mapping_table = [l \in LPN |-> None]

INIT_INVERSE_MAPPING_TABLE == inverse_mapping_table = [p \in PPN |-> None]

\* The valid arrays of block_state_table, and the erased flash they describe.
INIT_VALID_ARRAY ==
  /\ valid_array = [p \in PPN |-> "0"]
  /\ nand = [p \in PPN |-> NoData]

INIT_EMPTY_BLOCK_LIST ==
  /\ empty_block_list = [r \in Root |-> InitialList(r)]
  /\ curr_phy_page_nb = [b \in Block |-> 0]
  /\ total_empty_block_nb = BLOCK_MAPPING_ENTRY_NB
  /\ empty_block_table_index = 0

INIT_VICTIM_BLOCK_LIST ==
  /\ victim_block_list = [r \in Root |-> <<>>]
  /\ total_victim_block_nb = 0

Init ==
  /\ INIT_MAPPING_TABLE /\ INIT_INVERSE_MAPPING_TABLE /\ INIT_VALID_ARRAY
  /\ INIT_EMPTY_BLOCK_LIST /\ INIT_VICTIM_BLOCK_LIST
  /\ leaked = {}
  /\ pc = "idle"
  /\ lpn = 0 /\ remain = 0 /\ data = NoData
  /\ gc_i = 0 /\ victim = None /\ page = 0 /\ copy_page_nb = 0
  /\ mode = "OVERALL" /\ mapping_index = 0
  /\ result = <<>>
-----------------------------------------------------------------------------
(***************************************************************************)
(* GET_EMPTY_BLOCK.  NeedPage: the caller is inside GET_NEW_PAGE.  One     *)
(* action per way through the body of its while loop that does not return  *)
(* a block.                                                                *)
(***************************************************************************)
VictimPageValid_NotFirst == page # 0 /\ valid_array[PpnAt(victim, page)] = "V"
VictimPageValid == valid_array[PpnAt(victim, page)] = "V"

NeedPage ==
  \/ pc = "write" /\ remain > 0
  \/ pc = "copy" /\ page < PAGE_NB /\ VictimPageValid

CurrRoot_Overall == empty_block_table_index

\* The list that the current iteration looks at.
CurrRoot == IF mode = "OVERALL" THEN empty_block_table_index ELSE mapping_index

NextTableIndex_NoWrap(i) == i + 1
NextTableIndex_Stuck(i) == IF i + 1 = EMPTY_TABLE_ENTRY_NB THEN i ELSE i + 1
NextTableIndex(i) == IF i + 1 = EMPTY_TABLE_ENTRY_NB THEN 0 ELSE i + 1

HeadFull(r) == curr_phy_page_nb[Head(empty_block_list[r])] = PAGE_NB

\* The victim lists with block b, which just filled up, at the end of its own.
INSERT_VICTIM_BLOCK_NoPlane(b) ==
  [victim_block_list EXCEPT ![FlashOf(b)] = Append(@, b)]
INSERT_VICTIM_BLOCK(b) ==
  [victim_block_list EXCEPT ![RootOf(b)] = Append(@, b)]

\* The full head of list r is taken off it and becomes a victim candidate.
RetireHead(r) ==
  /\ empty_block_list' = [empty_block_list EXCEPT ![r] = Tail(@)]
  /\ total_empty_block_nb' = total_empty_block_nb - 1
  /\ victim_block_list' = INSERT_VICTIM_BLOCK(Head(empty_block_list[r]))
  /\ total_victim_block_nb' = total_victim_block_nb + 1

\* An empty list is passed over.
SkipRoot ==
  /\ NeedPage /\ mode = "OVERALL" /\ total_empty_block_nb # 0
  /\ empty_block_list[empty_block_table_index] = <<>>
  /\ empty_block_table_index' = NextTableIndex(empty_block_table_index)
  /\ UNCHANGED <<mapVars, listVars, curr_phy_page_nb, leaked, pc, reqVars, gcVars,
                 allocVars, result>>

\* A full head block moves to the victim list; OVERALL also moves on.
RetireBlock ==
  /\ NeedPage /\ total_empty_block_nb # 0
  /\ empty_block_list[CurrRoot] # <<>>
  /\ HeadFull(CurrRoot)
  /\ RetireHead(CurrRoot)
  /\ empty_block_table_index' = IF mode = "OVERALL"
                                THEN NextTableIndex(empty_block_table_index)
                                ELSE empty_block_table_index
  /\ UNCHANGED <<mapVars, curr_phy_page_nb, leaked, pc, reqVars, gcVars, allocVars,
                 result>>

\* INCHIP, list empty, several planes: the next index, as the code steps it.
NextPlaneIndex(i) ==
  IF (i + 1) % PLANES_PER_FLASH = 0 THEN i + 1 - (PLANES_PER_FLASH - 1) ELSE i + 1

\* INCHIP moves to the next plane, unless that is where it started.
MovePlane ==
  /\ NeedPage /\ mode = "INCHIP" /\ total_empty_block_nb # 0
  /\ empty_block_list[mapping_index] = <<>>
  /\ PLANES_PER_FLASH # 1
  /\ NextPlaneIndex(mapping_index) # RootOf(victim)
  /\ mapping_index' = NextPlaneIndex(mapping_index)
  /\ UNCHANGED <<mapVars, listVars, curr_phy_page_nb, empty_block_table_index, leaked,
                 pc, reqVars, gcVars, mode, result>>

\* INCHIP returns NULL and GET_NEW_PAGE tries again with VICTIM_OVERALL.
LeaveChip ==
  /\ NeedPage /\ mode = "INCHIP" /\ total_empty_block_nb # 0
  /\ empty_block_list[mapping_index] = <<>>
  /\ PLANES_PER_FLASH = 1 \/ NextPlaneIndex(mapping_index) = RootOf(victim)
  /\ mode' = "OVERALL"
  /\ UNCHANGED <<mapVars, listVars, curr_phy_page_nb, empty_block_table_index, leaked,
                 pc, reqVars, gcVars, mapping_index, result>>
-----------------------------------------------------------------------------
(***************************************************************************)
(* GET_NEW_PAGE returns the next free page of the head of CurrRoot.        *)
(***************************************************************************)
PageFound ==
  /\ NeedPage /\ total_empty_block_nb # 0
  /\ empty_block_list[CurrRoot] # <<>>
  /\ ~HeadFull(CurrRoot)

NewBlock == Head(empty_block_list[CurrRoot])
NewPpn   == PpnAt(NewBlock, curr_phy_page_nb[NewBlock])

TakePage ==
  /\ PageFound
  /\ curr_phy_page_nb' = [curr_phy_page_nb EXCEPT ![NewBlock] = @ + 1]
  /\ empty_block_table_index' = IF mode = "OVERALL"
                                THEN NextTableIndex(empty_block_table_index)
                                ELSE empty_block_table_index

\* UPDATE_OLD_PAGE_MAPPING: the page l was mapped to becomes invalid.
OldValid_Kept(l) == valid_array
OldValid(l) ==
  IF mapping_table[l] = None THEN valid_array
  ELSE [valid_array EXCEPT ![mapping_table[l]] = "I"]

OldInverse(l) ==
  IF mapping_table[l] = None THEN inverse_mapping_table
  ELSE [inverse_mapping_table EXCEPT ![mapping_table[l]] = None]

MapPage_NoInverse(l, ppn, contents, valid, inverse) ==
  /\ mapping_table' = [mapping_table EXCEPT ![l] = ppn]
  /\ valid_array' = [valid EXCEPT ![ppn] = "V"]
  /\ inverse_mapping_table' = inverse
  /\ nand' = [nand EXCEPT ![ppn] = contents]

\* UPDATE_NEW_PAGE_MAPPING on the tables valid and inverse, and the program
\* operation that precedes it.
MapPage(l, ppn, contents, valid, inverse) ==
  /\ mapping_table' = [mapping_table EXCEPT ![l] = ppn]
  /\ valid_array' = [valid EXCEPT ![ppn] = "V"]
  /\ inverse_mapping_table' = [inverse EXCEPT ![ppn] = l]
  /\ nand' = [nand EXCEPT ![ppn] = contents]
-----------------------------------------------------------------------------
(***************************************************************************)
(* _FTL_WRITE.                                                             *)
(***************************************************************************)
SSD_WRITE(l, n, d) ==
  /\ pc = "idle"
  /\ l + n <= HOST_PAGE_NB
  /\ pc' = "write"
  /\ lpn' = l /\ remain' = n /\ data' = d
  /\ mode' = "OVERALL"
  /\ result' = <<>>
  /\ UNCHANGED <<mapVars, listVars, curr_phy_page_nb, empty_block_table_index, leaked,
                 gcVars, mapping_index>>

WritePage_SameLpn ==
  /\ pc = "write"
  /\ TakePage
  /\ MapPage(lpn, NewPpn, data, OldValid(lpn), OldInverse(lpn))
  /\ lpn' = lpn /\ remain' = remain - 1
  /\ UNCHANGED <<listVars, leaked, pc, data, gcVars, allocVars, result>>

\* One iteration of the page loop.
WritePage ==
  /\ pc = "write"
  /\ TakePage
  /\ MapPage(lpn, NewPpn, data, OldValid(lpn), OldInverse(lpn))
  /\ lpn' = lpn + 1 /\ remain' = remain - 1
  /\ UNCHANGED <<listVars, leaked, pc, data, gcVars, allocVars, result>>

\* The request is over, whether it succeeded or not: its locals are dead.
EndRequest ==
  /\ pc' = "idle"
  /\ lpn' = 0 /\ remain' = 0 /\ data' = NoData
  /\ gc_i' = 0 /\ victim' = None /\ page' = 0 /\ copy_page_nb' = 0
  /\ mode' = "OVERALL" /\ mapping_index' = 0

\* GET_NEW_PAGE fails: the rest of the request and GC_CHECK are skipped.
WriteFail ==
  /\ pc = "write" /\ remain > 0 /\ total_empty_block_nb = 0
  /\ EndRequest
  /\ UNCHANGED <<mapVars, listVars, curr_phy_page_nb, empty_block_table_index, leaked,
                 result>>

GcTriggered_Less == total_empty_block_nb < FLASH_NB * PLANES_PER_FLASH
GcTriggered == total_empty_block_nb <= FLASH_NB * PLANES_PER_FLASH

\* All pages written, GC_CHECK decides to collect ...
WriteDoneGc ==
  /\ pc = "write" /\ remain = 0 /\ GcTriggered
  /\ pc' = "gc" /\ gc_i' = 0
  /\ UNCHANGED <<mapVars, listVars, curr_phy_page_nb, empty_block_table_index, leaked,
                 reqVars, victim, page, copy_page_nb, allocVars, result>>

\* ... or not to.
WriteDone ==
  /\ pc = "write" /\ remain = 0 /\ ~GcTriggered
  /\ EndRequest
  /\ UNCHANGED <<mapVars, listVars, curr_phy_page_nb, empty_block_table_index, leaked,
                 result>>
-----------------------------------------------------------------------------
(***************************************************************************)
(* GC_CHECK and GARBAGE_COLLECTION.                                        *)
(***************************************************************************)
Before(e, f) == e[1] < f[1] \/ (e[1] = f[1] /\ e[2] < f[2])

\* SELECT_VICTIM_BLOCK scans all lists in order and keeps the first entry
\* with the fewest valid pages.
VictimAt(e) == victim_block_list[e[1]][e[2]]

IsGreedyChoice(e) ==
  \A f \in Entries(victim_block_list) :
    \/ ValidPageNb(VictimAt(f)) > ValidPageNb(VictimAt(e))
    \/ /\ ValidPageNb(VictimAt(f)) = ValidPageNb(VictimAt(e))
       /\ ~Before(f, e)

\* The victim lists without the entry e.
EJECT_VICTIM_BLOCK_Head(e) ==
  [victim_block_list EXCEPT ![e[1]] = Tail(@)]
EJECT_VICTIM_BLOCK(e) ==
  [victim_block_list EXCEPT ![e[1]] = Unlink(@, e[2])]

SelectVictim ==
  /\ pc = "gc" /\ gc_i < GC_VICTIM_NB /\ total_victim_block_nb # 0
  /\ \E e \in Entries(victim_block_list) :
       /\ IsGreedyChoice(e)
       /\ ValidPageNb(VictimAt(e)) # PAGE_NB
       /\ victim' = VictimAt(e)
       /\ victim_block_list' = EJECT_VICTIM_BLOCK(e)
       /\ mapping_index' = RootOf(VictimAt(e))
  /\ total_victim_block_nb' = total_victim_block_nb - 1
  /\ pc' = "copy" /\ page' = 0 /\ copy_page_nb' = 0
  /\ mode' = "INCHIP"
  /\ UNCHANGED <<mapVars, empty_block_list, total_empty_block_nb, curr_phy_page_nb,
                 empty_block_table_index, leaked, reqVars, gc_i, result>>

\* No victim block, or even the best one is valid throughout.
NoVictim ==
  /\ pc = "gc" /\ gc_i < GC_VICTIM_NB
  /\ \/ total_victim_block_nb = 0
     \/ \A e \in Entries(victim_block_list) : ValidPageNb(VictimAt(e)) = PAGE_NB
  /\ EndRequest
  /\ UNCHANGED <<mapVars, listVars, curr_phy_page_nb, empty_block_table_index, leaked,
                 result>>

GcQuotaDone ==
  /\ pc = "gc" /\ gc_i = GC_VICTIM_NB
  /\ EndRequest
  /\ UNCHANGED <<mapVars, listVars, curr_phy_page_nb, empty_block_table_index, leaked,
                 result>>

\* A page that is not valid is not copied.
SkipPage ==
  /\ pc = "copy" /\ page < PAGE_NB
  /\ ~VictimPageValid
  /\ page' = page + 1
  /\ UNCHANGED <<mapVars, listVars, curr_phy_page_nb, empty_block_table_index, leaked,
                 pc, reqVars, gc_i, victim, copy_page_nb, allocVars, result>>

\* A valid page is read and programmed into the new page, and its lpn, taken
\* from the inverse table, is mapped there.  The old page's flag stays "V".
CopyData_InvalidatesOld(old) ==
  MapPage(inverse_mapping_table[old], NewPpn, nand[old],
          OldValid(inverse_mapping_table[old]), inverse_mapping_table)
CopyData(old) ==
  MapPage(inverse_mapping_table[old], NewPpn, nand[old],
          valid_array, inverse_mapping_table)

CopyPage ==
  /\ pc = "copy"
  /\ TakePage
  /\ CopyData(PpnAt(victim, page))
  /\ page' = page + 1 /\ copy_page_nb' = copy_page_nb + 1
  /\ mode' = "INCHIP" /\ mapping_index' = RootOf(victim)
  /\ UNCHANGED <<listVars, leaked, pc, reqVars, gc_i, victim, result>>

\* GET_NEW_PAGE fails: the victim, already ejected, is in no list any more.
CopyFail ==
  /\ pc = "copy" /\ NeedPage /\ total_empty_block_nb = 0
  /\ leaked' = leaked \cup {victim}
  /\ EndRequest
  /\ UNCHANGED <<mapVars, listVars, curr_phy_page_nb, empty_block_table_index, result>>

\* The table over PPN with the entries of block b reset by an erase.
SSD_BLOCK_ERASE_Nothing(table, b, erased) == table
SSD_BLOCK_ERASE(table, b, erased) ==
  [p \in PPN |-> IF BlockOf(p) = b THEN erased ELSE table[p]]

\* INSERT_EMPTY_BLOCK: a fresh entry at the end of the block's list.
INSERT_EMPTY_BLOCK_KeepPage(b) ==
  /\ UNCHANGED curr_phy_page_nb
  /\ empty_block_list' = [empty_block_list EXCEPT ![RootOf(b)] = Append(@, b)]
  /\ total_empty_block_nb' = total_empty_block_nb + 1
INSERT_EMPTY_BLOCK_NotCounted(b) ==
  /\ curr_phy_page_nb' = [curr_phy_page_nb EXCEPT ![b] = 0]
  /\ empty_block_list' = [empty_block_list EXCEPT ![RootOf(b)] = Append(@, b)]
  /\ UNCHANGED total_empty_block_nb
INSERT_EMPTY_BLOCK(b) ==
  /\ curr_phy_page_nb' = [curr_phy_page_nb EXCEPT ![b] = 0]
  /\ empty_block_list' = [empty_block_list EXCEPT ![RootOf(b)] = Append(@, b)]
  /\ total_empty_block_nb' = total_empty_block_nb + 1

\* The erase operation, UPDATE_BLOCK_STATE and INSERT_EMPTY_BLOCK of the victim.
EraseVictim ==
  /\ nand' = SSD_BLOCK_ERASE(nand, victim, NoData)
  /\ valid_array' = SSD_BLOCK_ERASE(valid_array, victim, "0")
  /\ INSERT_EMPTY_BLOCK(victim)
  /\ UNCHANGED <<mapping_table, inverse_mapping_table>>

\* All pages looked at: the victim is erased, unless the count is wrong.
FinishVictim ==
  /\ pc = "copy" /\ page = PAGE_NB
  /\ IF copy_page_nb = ValidPageNb(victim)
     THEN /\ EraseVictim
          /\ pc' = "gc" /\ gc_i' = gc_i + 1
          /\ victim' = None /\ page' = 0 /\ copy_page_nb' = 0
          /\ mode' = "OVERALL" /\ mapping_index' = 0
          /\ UNCHANGED <<leaked, reqVars>>
     ELSE /\ leaked' = leaked \cup {victim}
          /\ EndRequest
          /\ UNCHANGED <<mapVars, curr_phy_page_nb, empty_block_list,
                         total_empty_block_nb>>
  /\ UNCHANGED <<victim_block_list, total_victim_block_nb, empty_block_table_index,
                 result>>
-----------------------------------------------------------------------------
(***************************************************************************)
(* _FTL_READ: the first loop refuses the request if any page is unmapped,  *)
(* the second reads the pages in order.                                    *)
(***************************************************************************)
SSD_READ(l, n) ==
  /\ pc = "idle"
  /\ l + n <= HOST_PAGE_NB
  /\ result' = IF \E k \in l .. l + n - 1 : mapping_table[k] = None
               THEN <<NoData>>
               ELSE [k \in 1 .. n |-> nand[mapping_table[l + k - 1]]]
  /\ UNCHANGED <<mapVars, listVars, curr_phy_page_nb, empty_block_table_index, leaked,
                 pc, reqVars, gcVars, allocVars>>

(***************************************************************************)
(* SSD_TERM in one run of the simulator and SSD_INIT in the next: the      *)
(* tables and lists come back from the data files, the totals are counted  *)
(* again, the table index starts at 0.                                     *)
(***************************************************************************)
Restart ==
  /\ pc = "idle"
  /\ total_empty_block_nb' = Cardinality(Entries(empty_block_list))
  /\ total_victim_block_nb' = Cardinality(Entries(victim_block_list))
  /\ empty_block_table_index' = 0
  /\ result' = <<>>
  /\ UNCHANGED <<mapVars, empty_block_list, victim_block_list, curr_phy_page_nb, leaked,
                 pc, reqVars, gcVars, allocVars>>
-----------------------------------------------------------------------------
Host ==
  \/ \E l \in LPN, n \in 1 .. MAX_REQ_PAGES, d \in Data : SSD_WRITE(l, n, d)
  \/ \E l \in LPN, n \in 1 .. MAX_REQ_PAGES : SSD_READ(l, n)
  \/ Restart

\* The steps of a call in progress.
Step ==
  \/ SkipRoot \/ RetireBlock \/ MovePlane \/ LeaveChip
  \/ WritePage \/ WriteFail \/ WriteDoneGc \/ WriteDone
  \/ SelectVictim \/ NoVictim \/ GcQuotaDone
  \/ SkipPage \/ CopyPage \/ CopyFail \/ FinishVictim

Next == Host \/ Step

Spec == Init /\ [][Next]_vars

\* The thread inside a call keeps running.
FairSpec == Spec /\ WF_vars(Step)
-----------------------------------------------------------------------------
(***************************************************************************)
(* Properties.                                                             *)
(***************************************************************************)
\* Every variable stays in the range its C type and the code's arithmetic
\* give it.
TypeOK ==
  /\ mapping_table \in [LPN -> PPN \cup {None}]
  /\ inverse_mapping_table \in [PPN -> LPN \cup {None}]
  /\ valid_array \in [PPN -> {"V", "I", "0"}]
  /\ nand \in [PPN -> Data \cup {NoData}]
  /\ empty_block_list \in [Root -> Seq(Block)]
  /\ victim_block_list \in [Root -> Seq(Block)]
  /\ curr_phy_page_nb \in [Block -> 0 .. PAGE_NB]
  /\ total_empty_block_nb \in Int /\ total_victim_block_nb \in Int
  /\ empty_block_table_index \in Root
  /\ leaked \subseteq Block
  /\ pc \in {"idle", "write", "gc", "copy"}
  /\ lpn \in 0 .. HOST_PAGE_NB /\ remain \in Nat /\ data \in Data \cup {NoData}
  /\ gc_i \in 0 .. GC_VICTIM_NB
  /\ victim \in Block \cup {None}
  /\ page \in 0 .. PAGE_NB /\ copy_page_nb \in Nat
  /\ mode \in {"OVERALL", "INCHIP"} /\ mapping_index \in Root
  /\ result \in Seq(Data \cup {NoData})

\* A logical page is mapped to a page that is flagged valid, that holds data
\* and whose inverse entry points back.  So no two logical pages share a
\* physical page, and neither an erase nor the reuse of a block can take the
\* page away while it is mapped.
MappingSound ==
  \A l \in LPN : mapping_table[l] # None =>
    /\ valid_array[mapping_table[l]] = "V"
    /\ nand[mapping_table[l]] # NoData
    /\ inverse_mapping_table[mapping_table[l]] = l

\* In a block that is in a list, and in the part of the victim not yet
\* copied, a page flagged valid is the current page of its logical page: the
\* inverse table entry GARBAGE_COLLECTION reads is never stale, so a copy
\* never replaces newer data by older.
ValidIsCurrent ==
  \A p \in PPN :
    /\ \/ BlockOf(p) \in Listed(empty_block_list) \cup Listed(victim_block_list)
       \/ pc = "copy" /\ BlockOf(p) = victim /\ CALC_PAGE(p) >= page
    /\ valid_array[p] = "V"
    => /\ inverse_mapping_table[p] # None
       /\ mapping_table[inverse_mapping_table[p]] = p

\* The block that GARBAGE_COLLECTION is emptying.
Collected == IF pc = "copy" THEN {victim} ELSE {}

\* Every block is in exactly one place: once in the empty list of its own
\* plane, once in the victim list of its own plane, under collection, or
\* leaked by a failed collection.
BlocksPartitioned ==
  /\ Filed(empty_block_list) /\ Filed(victim_block_list)
  /\ Listed(empty_block_list) \cap Listed(victim_block_list) = {}
  /\ (Listed(empty_block_list) \cup Listed(victim_block_list))
       \cap (Collected \cup leaked) = {}
  /\ Collected \cap leaked = {}
  /\ Block = Listed(empty_block_list) \cup Listed(victim_block_list)
               \cup Collected \cup leaked

\* The two totals that end the allocation loop, trigger garbage collection
\* and let victim selection start count exactly the entries of the lists.
TotalsExact ==
  /\ total_empty_block_nb = Cardinality(Entries(empty_block_list))
  /\ total_victim_block_nb = Cardinality(Entries(victim_block_list))

\* The page at curr_phy_page_nb of a block in an empty list, and every page
\* after it, is erased and unmapped; every page before it is programmed.
FreePagesErased ==
  \A p \in PPN : BlockOf(p) \in Listed(empty_block_list) =>
    IF CALC_PAGE(p) < curr_phy_page_nb[BlockOf(p)]
    THEN nand[p] # NoData /\ valid_array[p] # "0"
    ELSE nand[p] = NoData /\ valid_array[p] = "0"

\* The pages of the victim already passed over by GARBAGE_COLLECTION are not
\* mapped any more, so the erase that follows destroys no data.
VictimDrained ==
  pc = "copy" =>
    \A l \in LPN : mapping_table[l] # None /\ BlockOf(mapping_table[l]) = victim
                     => CALC_PAGE(mapping_table[l]) >= page

\* The sanity check of GARBAGE_COLLECTION, "The number of valid page is not
\* correct", never fires.
CopyCountRight ==
  pc = "copy" /\ page = PAGE_NB => copy_page_nb = ValidPageNb(victim)

\* A page that a logical page is newly mapped to was erased just before, and
\* exactly the pages below it in its block were programmed: the flash is only
\* written in ascending order inside a block and never in place.
ProgramOnlyErased ==
  [][\A l \in LPN : mapping_table'[l] # mapping_table[l] =>
       \A q \in PPN : BlockOf(q) = BlockOf(mapping_table'[l]) =>
         (nand[q] # NoData <=> q < mapping_table'[l])]_vars

(***************************************************************************)
(* The inductive invariant behind the properties above.  Beside them it    *)
(* says what the place in the program implies for the locals, and how many *)
(* pages have been copied so far.                                          *)
(***************************************************************************)
LocalsInScope ==
  /\ pc = "write" => /\ mode = "OVERALL" /\ data \in Data
                     /\ lpn + remain <= HOST_PAGE_NB
  /\ pc = "copy" => victim \in Block /\ gc_i < GC_VICTIM_NB

CopyCountSoFar ==
  pc = "copy" =>
    copy_page_nb = Cardinality({i \in 0 .. page - 1 : valid_array[PpnAt(victim, i)] = "V"})

ListsFinite ==
  IsFiniteSet(Entries(empty_block_list)) /\ IsFiniteSet(Entries(victim_block_list))

\* The state that every step of the FTL preserves: types, locals, the block
\* lists and their totals, the page flags and both mapping tables agree.
IInv ==
  /\ TypeOK /\ LocalsInScope
  /\ BlocksPartitioned /\ ListsFinite /\ TotalsExact
  /\ FreePagesErased /\ MappingSound /\ ValidIsCurrent
  /\ VictimDrained /\ CopyCountSoFar

\* The page a collection copies to is in the victim's own flash memory, unless
\* that has no block left in its empty lists (GET_NEW_PAGE: "If the flash
\* memory has no empty block, Get empty block from the other flash memories").
CopyStaysInFlash ==
  [][pc = "copy" /\ copy_page_nb' = copy_page_nb + 1
       => \/ FlashOf(NewBlock) = FlashOf(victim)
          \/ \A b \in Listed(empty_block_list) : FlashOf(b) # FlashOf(victim)]_vars

\* As long as the host fills only part of the device, one page per request,
\* garbage collection keeps ahead of it: GET_NEW_PAGE never fails and no
\* block leaks.
SpareSuffices == leaked = {} /\ ~(NeedPage /\ total_empty_block_nb = 0)

\* A call that was accepted returns: none of the loops of GET_EMPTY_BLOCK,
\* _FTL_WRITE, GC_CHECK and GARBAGE_COLLECTION runs forever.
CallReturns == (pc # "idle") ~> (pc = "idle")

\* A write that leaves fewer empty blocks than planes does not return before
\* garbage collection is triggered (doc/hw2.md: "If number of empty blocks is less
\* than total number of planes in all flash chips, garbage collection is
\* triggered").
LowSpaceCollects ==
  [][pc = "write" /\ pc' = "idle"
       => total_empty_block_nb >= FLASH_NB * PLANES_PER_FLASH]_vars

\* The converse of the same sentence: with as many empty blocks as planes no
\* collection starts.
CollectsOnlyLow ==
  [][pc = "write" /\ pc' = "gc"
       => total_empty_block_nb < FLASH_NB * PLANES_PER_FLASH]_vars
=============================================================================
