-------------------------- MODULE PageMapFTLProofs --------------------------
(***************************************************************************)
(* The page-mapping FTL keeps its tables consistent, for every geometry,   *)
(* every part of the logical space the host uses and every request size.   *)
(*                                                                         *)
(* IInv is inductive: one lemma per action, and under it one step per part *)
(* of IInv that the action can disturb.                                    *)
(***************************************************************************)
EXTENDS PageMapDisk, PageMapListProofs

\* Time the provers get for a leaf that does not choose its own.
USE ZenonT(2), SMTT(30), ZenonT(30)
-----------------------------------------------------------------------------
(***************************************************************************)
(* The steps that program a page.                                          *)
(***************************************************************************)
\* Taking a page moves the write position of its block, and of no other, by
\* one: the page taken is now below it, every other page is where it was.
LEMMA TakePageFacts ==
  ASSUME IInv, TakePage
  PROVE  /\ curr_phy_page_nb' \in [Block -> 0 .. PAGE_NB]
         /\ empty_block_table_index' \in Root
         /\ CALC_PAGE(NewPpn) < curr_phy_page_nb'[BlockOf(NewPpn)]
         /\ \A p \in PPN : p # NewPpn =>
              (CALC_PAGE(p) < curr_phy_page_nb'[BlockOf(p)]
                 <=> CALC_PAGE(p) < curr_phy_page_nb[BlockOf(p)])
<1> DEFINE b == NewBlock
           c == curr_phy_page_nb[b]
<1>1. /\ b \in Block /\ c \in 0 .. PAGE_NB - 1
      /\ NewPpn \in PPN /\ BlockOf(NewPpn) = b /\ CALC_PAGE(NewPpn) = c
  BY NewPageFacts DEF TakePage
<1>2. curr_phy_page_nb' = [curr_phy_page_nb EXCEPT ![b] = c + 1]
  BY DEF TakePage
<1>3. curr_phy_page_nb \in [Block -> 0 .. PAGE_NB]
  BY DEF IInv, TypeOK
<1> HIDE DEF b
<1>4. c + 1 \in 0 .. PAGE_NB /\ c \in Int /\ c < c + 1
  BY <1>1, GeometryAssumption
<1> HIDE DEF c
<1>5. curr_phy_page_nb' \in [Block -> 0 .. PAGE_NB] /\ curr_phy_page_nb'[b] = c + 1
  BY <1>1, <1>2, <1>3, <1>4
<1>6. empty_block_table_index' \in Root
  BY NextTableIndexInRange DEF IInv, TypeOK, TakePage
<1>7. ASSUME NEW p \in PPN, p # NewPpn
      PROVE  CALC_PAGE(p) < curr_phy_page_nb'[BlockOf(p)]
               <=> CALC_PAGE(p) < curr_phy_page_nb[BlockOf(p)]
  <2>1. BlockOf(p) \in Block /\ CALC_PAGE(p) \in Int
    BY PpnFacts DEF Page
  <2>2. CASE BlockOf(p) = b
    <3>1. CALC_PAGE(p) # c
      BY <1>1, <1>7, <2>2, PpnFacts
    <3>2. curr_phy_page_nb[BlockOf(p)] = c
      BY <2>2 DEF c
    <3> QED
      BY <1>4, <1>5, <2>1, <2>2, <3>1, <3>2
  <2>3. CASE BlockOf(p) # b
    BY <1>2, <1>3, <2>1, <2>3
  <2> QED
    BY <2>2, <2>3
<1> QED
  BY <1>1, <1>4, <1>5, <1>6, <1>7

\* A step that takes a page and programs it keeps FreePagesErased, if it
\* flags no other page as unused, or as used when it was not.
LEMMA ProgramKeepsFree ==
  ASSUME IInv, TakePage, UNCHANGED empty_block_list,
         nand'[NewPpn] # NoData, valid_array'[NewPpn] # "0",
         \A p \in PPN : p # NewPpn =>
           nand'[p] = nand[p] /\ (valid_array'[p] = "0" <=> valid_array[p] = "0")
  PROVE  FreePagesErased'
<1> SUFFICES ASSUME NEW p \in PPN, BlockOf(p) \in Listed(empty_block_list')
             PROVE  IF CALC_PAGE(p) < curr_phy_page_nb'[BlockOf(p)]
                    THEN nand'[p] # NoData /\ valid_array'[p] # "0"
                    ELSE nand'[p] = NoData /\ valid_array'[p] = "0"
  BY DEF FreePagesErased
<1>1. CASE p = NewPpn
  BY <1>1, TakePageFacts
<1>2. CASE p # NewPpn
  BY <1>2, TakePageFacts DEF IInv, FreePagesErased
<1> QED
  BY <1>1, <1>2

\* What WritePage does to the mapping and to the flash.
LEMMA WritePageEffect ==
  ASSUME IInv, WritePage
  PROVE  /\ NewPpn \in PPN /\ lpn \in LPN /\ data \in Data /\ data # NoData
         /\ \A l \in LPN : mapping_table[l] # NewPpn
         /\ mapping_table'[lpn] = NewPpn
         /\ \A l \in LPN : l # lpn => mapping_table'[l] = mapping_table[l]
         /\ nand'[NewPpn] = data
         /\ \A p \in PPN : p # NewPpn => nand'[p] = nand[p]
<1>1. pc = "write" /\ PageFound /\ remain > 0
  BY DEF WritePage, TakePage, PageFound, NeedPage
<1>2. NewPpn \in PPN /\ \A l \in LPN : mapping_table[l] # NewPpn
  BY <1>1, NewPageFacts
<1>3. lpn \in LPN
  <2>1. lpn \in 0 .. HOST_PAGE_NB /\ remain \in Nat /\ lpn + remain <= HOST_PAGE_NB
    BY <1>1 DEF IInv, TypeOK, LocalsInScope
  <2> QED
    BY <1>1, <2>1, HostAssumption, Sizes DEF LPN
<1>4. data \in Data /\ data # NoData
  BY <1>1, HostAssumption DEF IInv, LocalsInScope
<1>5. /\ mapping_table' = [mapping_table EXCEPT ![lpn] = NewPpn]
      /\ nand' = [nand EXCEPT ![NewPpn] = data]
  BY DEF WritePage, MapPage
<1> QED
  BY <1>2, <1>3, <1>4, <1>5 DEF IInv, TypeOK

\* One iteration of the page loop of _FTL_WRITE preserves the invariant.
LEMMA WritePageInv == IInv /\ WritePage => IInv'
<1> SUFFICES ASSUME IInv, WritePage PROVE IInv'
  OBVIOUS
<1> DEFINE new == NewPpn
           old == mapping_table[lpn]
<1>1. /\ pc = "write" /\ TakePage /\ PageFound /\ remain > 0
      /\ lpn' = lpn + 1 /\ remain' = remain - 1
      /\ UNCHANGED <<listVars, leaked, pc, data, gcVars, allocVars, result>>
  BY DEF WritePage, TakePage, PageFound, NeedPage
<1>2. new \in PPN /\ \A l \in LPN : mapping_table[l] # new
  BY WritePageEffect
<1>3. lpn \in LPN /\ lpn + 1 \in 0 .. HOST_PAGE_NB /\ remain - 1 \in Nat
      /\ (lpn + 1) + (remain - 1) <= HOST_PAGE_NB
  <2>1. lpn \in 0 .. HOST_PAGE_NB /\ remain \in Nat /\ lpn + remain <= HOST_PAGE_NB
    BY <1>1 DEF IInv, TypeOK, LocalsInScope
  <2> QED
    BY <1>1, <2>1, WritePageEffect, HostAssumption
<1>4. data \in Data /\ data # NoData
  BY WritePageEffect
<1>5. /\ mapping_table' = [mapping_table EXCEPT ![lpn] = new]
      /\ valid_array' = [OldValid(lpn) EXCEPT ![new] = "V"]
      /\ inverse_mapping_table' = [OldInverse(lpn) EXCEPT ![new] = lpn]
      /\ nand' = [nand EXCEPT ![new] = data]
  BY DEF WritePage, MapPage
<1>6. old = None \/ old \in PPN
  BY <1>3 DEF IInv, TypeOK
<1>7. old # None => /\ old \in PPN /\ valid_array[old] = "V"
                    /\ inverse_mapping_table[old] = lpn
  BY <1>3, <1>6 DEF IInv, MappingSound
<1>8. /\ OldValid(lpn) \in [PPN -> {"V", "I", "0"}]
      /\ OldInverse(lpn) \in [PPN -> LPN \cup {None}]
  BY <1>6 DEF IInv, TypeOK, OldValid, OldInverse
<1>9. \A p \in PPN : p # old =>
        OldValid(lpn)[p] = valid_array[p] /\ OldInverse(lpn)[p] = inverse_mapping_table[p]
  BY <1>6 DEF IInv, TypeOK, OldValid, OldInverse
<1>10. old # None => OldValid(lpn)[old] = "I"
  BY <1>7 DEF IInv, TypeOK, OldValid
\* The effect on each table, entry by entry.
<1>11. /\ mapping_table'[lpn] = new
       /\ \A l \in LPN : l # lpn => mapping_table'[l] = mapping_table[l]
  BY WritePageEffect, Zenon
<1>12. /\ nand'[new] = data
       /\ \A p \in PPN : p # new => nand'[p] = nand[p]
  BY WritePageEffect
<1> HIDE DEF new, old
<1>13. /\ valid_array'[new] = "V"
       /\ \A p \in PPN : p # new /\ p # old => valid_array'[p] = valid_array[p]
       /\ old # None /\ old # new => valid_array'[old] = "I"
  BY <1>2, <1>5, <1>7, <1>8, <1>9, <1>10
<1>14. /\ inverse_mapping_table'[new] = lpn
       /\ \A p \in PPN : p # new /\ p # old => inverse_mapping_table'[p] = inverse_mapping_table[p]
  BY <1>2, <1>5, <1>8, <1>9
<1>15. old # new
  BY <1>2, <1>3 DEF old
<1>16. TypeOK'
  <2>1. mapping_table' \in [LPN -> PPN \cup {None}]
    BY <1>2, <1>5, Zenon DEF IInv, TypeOK
  <2>2. valid_array' \in [PPN -> {"V", "I", "0"}]
    BY <1>5, <1>8, Zenon
  <2>3. inverse_mapping_table' \in [PPN -> LPN \cup {None}]
    BY <1>3, <1>5, <1>8, Zenon
  <2>4. nand' \in [PPN -> Data \cup {NoData}]
    BY <1>4, <1>5, ZenonT(40) DEF IInv, TypeOK
  <2> QED
    BY <1>1, <1>3, <2>1, <2>2, <2>3, <2>4, TakePageFacts, ZenonT(40)
       DEF IInv, TypeOK, listVars, gcVars, allocVars
<1>17. LocalsInScope'
  BY <1>1, <1>3 DEF IInv, LocalsInScope, allocVars
<1>18. BlocksPartitioned' /\ ListsFinite' /\ TotalsExact'
  BY <1>1 DEF IInv, BlocksPartitioned, Collected, ListsFinite, TotalsExact, listVars
<1>19. FreePagesErased'
  <2>1. \A p \in PPN : p # new =>
          nand'[p] = nand[p] /\ (valid_array'[p] = "0" <=> valid_array[p] = "0")
    <3> SUFFICES ASSUME NEW p \in PPN, p # new
                 PROVE  nand'[p] = nand[p] /\ (valid_array'[p] = "0" <=> valid_array[p] = "0")
      OBVIOUS
    <3>1. CASE p = old
      <4>1. old # None
        BY <3>1, NoneFacts
      <4> QED
        BY <1>7, <1>12, <1>13, <1>15, <3>1, <4>1, ZenonT(40) DEF old
    <3>2. CASE p # old
      BY <1>12, <1>13, <3>2, ZenonT(40)
    <3> QED
      BY <3>1, <3>2
  <2>2. nand'[new] # NoData /\ valid_array'[new] # "0" /\ UNCHANGED empty_block_list
    BY <1>1, <1>4, <1>12, <1>13 DEF listVars
  <2> QED
    BY <1>1, <2>1, <2>2, ProgramKeepsFree, ZenonT(40) DEF new
<1>20. MappingSound'
  <2> SUFFICES ASSUME NEW l \in LPN, mapping_table'[l] # None
               PROVE  /\ valid_array'[mapping_table'[l]] = "V"
                      /\ nand'[mapping_table'[l]] # NoData
                      /\ inverse_mapping_table'[mapping_table'[l]] = l
    BY DEF MappingSound
  <2>1. CASE l = lpn
    BY <1>4, <1>11, <1>12, <1>13, <1>14, <2>1
  <2>2. CASE l # lpn
    <3> DEFINE p == mapping_table[l]
    <3>1. mapping_table'[l] = p /\ p # None /\ p \in PPN
      BY <1>11, <2>2 DEF IInv, TypeOK
    <3>2. valid_array[p] = "V" /\ nand[p] # NoData /\ inverse_mapping_table[p] = l
      BY <3>1 DEF IInv, MappingSound
    <3>3. p # new
      BY <1>2
    <3>4. p # old
      BY <1>7, <2>2, <3>1, <3>2 DEF old
    <3> QED
      BY <1>12, <1>13, <1>14, <3>1, <3>2, <3>3, <3>4
  <2> QED
    BY <2>1, <2>2
<1>21. ValidIsCurrent'
  <2> SUFFICES ASSUME NEW p \in PPN, valid_array'[p] = "V",
                      BlockOf(p) \in Listed(empty_block_list) \cup Listed(victim_block_list)
               PROVE  /\ inverse_mapping_table'[p] # None
                      /\ mapping_table'[inverse_mapping_table'[p]] = p
    BY <1>1 DEF ValidIsCurrent, listVars
  <2>1. CASE p = new
    BY <1>3, <1>11, <1>14, <2>1, NoneFacts
  <2>2. CASE p # new
    <3>1. p # old
      <4>1. ASSUME p = old PROVE FALSE
        <5>1. old # None
          BY <4>1, NoneFacts
        <5> QED
          BY <1>13, <1>15, <4>1, <5>1
      <4> QED
        BY <4>1
    <3> DEFINE k == inverse_mapping_table[p]
    <3>2. valid_array[p] = "V" /\ inverse_mapping_table'[p] = k
      BY <1>13, <1>14, <2>2, <3>1
    <3>3. k # None /\ mapping_table[k] = p /\ k \in LPN
      BY <3>2, ZenonT(40) DEF IInv, ValidIsCurrent, TypeOK
    <3>4. k # lpn
      BY <3>1, <3>3 DEF old
    <3> QED
      BY <1>11, <3>2, <3>3, <3>4, Zenon
  <2> QED
    BY <2>1, <2>2
<1>22. VictimDrained' /\ CopyCountSoFar'
  BY <1>1 DEF VictimDrained, CopyCountSoFar
<1> QED
  BY <1>16, <1>17, <1>18, <1>19, <1>20, <1>21, <1>22 DEF IInv

\* The page CopyPage moves, and what it does to the tables and the flash.
LEMMA CopyPageEffect ==
  ASSUME IInv, CopyPage,
         NEW new, new = NewPpn, NEW old, old = PpnAt(victim, page),
         NEW l, l = inverse_mapping_table[old]
  PROVE  /\ new \in PPN /\ BlockOf(new) # victim /\ \A k \in LPN : mapping_table[k] # new
         /\ page < PAGE_NB /\ valid_array[old] = "V"
         /\ old \in PPN /\ BlockOf(old) = victim /\ CALC_PAGE(old) = page
         /\ l # None /\ l \in LPN /\ mapping_table[l] = old
         /\ nand[old] # NoData /\ nand[old] \in Data \cup {NoData}
         /\ mapping_table'[l] = new
         /\ \A k \in LPN : k # l => mapping_table'[k] = mapping_table[k]
         /\ nand'[new] = nand[old] /\ valid_array'[new] = "V" /\ inverse_mapping_table'[new] = l
         /\ \A p \in PPN : p # new => /\ nand'[p] = nand[p]
                                      /\ valid_array'[p] = valid_array[p]
                                      /\ inverse_mapping_table'[p] = inverse_mapping_table[p]
<1>1. pc = "copy" /\ PageFound /\ page < PAGE_NB /\ valid_array[old] = "V"
  BY DEF CopyPage, TakePage, PageFound, NeedPage, VictimPageValid
<1>2. new \in PPN /\ BlockOf(new) # victim /\ \A k \in LPN : mapping_table[k] # new
  BY <1>1, NewPageFacts DEF Collected
<1>3. page \in Page /\ old \in PPN /\ BlockOf(old) = victim /\ CALC_PAGE(old) = page
  BY <1>1, VictimPage
<1>4. CALC_PAGE(old) >= page
  BY <1>3, GeometryAssumption DEF Page
\* The inverse entry of a valid page under collection is current.
<1>5. l # None /\ l \in LPN /\ mapping_table[l] = old
  BY <1>1, <1>3, <1>4 DEF IInv, ValidIsCurrent, TypeOK
<1>6. nand[old] # NoData /\ nand[old] \in Data \cup {NoData}
  <2>1. old # None
    BY <1>3, NoneFacts
  <2> QED
    BY <1>3, <1>5, <2>1 DEF IInv, MappingSound, TypeOK
<1>7. /\ mapping_table' = [mapping_table EXCEPT ![l] = new]
      /\ valid_array' = [valid_array EXCEPT ![new] = "V"]
      /\ inverse_mapping_table' = [inverse_mapping_table EXCEPT ![new] = l]
      /\ nand' = [nand EXCEPT ![new] = nand[old]]
  BY DEF CopyPage, CopyData, MapPage
<1>8. /\ mapping_table'[l] = new
      /\ \A k \in LPN : k # l => mapping_table'[k] = mapping_table[k]
  BY <1>5, <1>7 DEF IInv, TypeOK
<1>9. /\ nand'[new] = nand[old] /\ valid_array'[new] = "V" /\ inverse_mapping_table'[new] = l
      /\ \A p \in PPN : p # new => /\ nand'[p] = nand[p]
                                   /\ valid_array'[p] = valid_array[p]
                                   /\ inverse_mapping_table'[p] = inverse_mapping_table[p]
  BY <1>2, <1>7 DEF IInv, TypeOK
<1> QED
  BY <1>1, <1>2, <1>3, <1>5, <1>6, <1>8, <1>9, ZenonT(40)

\* One copied page of GARBAGE_COLLECTION preserves the invariant.
LEMMA CopyPageInv == IInv /\ CopyPage => IInv'
<1> SUFFICES ASSUME IInv, CopyPage PROVE IInv'
  OBVIOUS
<1> DEFINE new == NewPpn
           old == PpnAt(victim, page)
           l   == inverse_mapping_table[old]
<1>1. /\ pc = "copy" /\ TakePage /\ page < PAGE_NB /\ valid_array[old] = "V"
      /\ page' = page + 1 /\ copy_page_nb' = copy_page_nb + 1
      /\ mode' = "INCHIP" /\ mapping_index' = RootOf(victim)
      /\ UNCHANGED <<listVars, leaked, pc, reqVars, gc_i, victim, result>>
  BY ZenonT(40) DEF CopyPage, TakePage, PageFound, NeedPage, VictimPageValid
<1>2. new \in PPN /\ BlockOf(new) # victim /\ \A k \in LPN : mapping_table[k] # new
  BY CopyPageEffect, ZenonT(40)
<1>3. /\ victim \in Block /\ page \in Page /\ page + 1 \in 0 .. PAGE_NB
      /\ old \in PPN /\ BlockOf(old) = victim /\ CALC_PAGE(old) = page
  BY <1>1, VictimPage
<1>4. page \in Nat
  BY <1>3, GeometryAssumption DEF Page
<1>5. l # None /\ l \in LPN /\ mapping_table[l] = old
  BY CopyPageEffect
<1>6. nand[old] # NoData /\ nand[old] \in Data \cup {NoData}
  BY CopyPageEffect
<1>7. /\ mapping_table' = [mapping_table EXCEPT ![l] = new]
      /\ valid_array' = [valid_array EXCEPT ![new] = "V"]
      /\ inverse_mapping_table' = [inverse_mapping_table EXCEPT ![new] = l]
      /\ nand' = [nand EXCEPT ![new] = nand[old]]
  BY DEF CopyPage, CopyData, MapPage
<1>8. /\ mapping_table'[l] = new
      /\ \A k \in LPN : k # l => mapping_table'[k] = mapping_table[k]
  <2>1. mapping_table \in [LPN -> PPN \cup {None}]
    BY DEF IInv, TypeOK
  <2> HIDE DEF new, old, l
  <2> QED
    BY <1>5, <1>7, <2>1
<1>9. /\ nand'[new] = nand[old] /\ valid_array'[new] = "V" /\ inverse_mapping_table'[new] = l
      /\ \A p \in PPN : p # new => /\ nand'[p] = nand[p]
                                   /\ valid_array'[p] = valid_array[p]
                                   /\ inverse_mapping_table'[p] = inverse_mapping_table[p]
  BY CopyPageEffect
<1> HIDE DEF new, old, l
<1>10. TypeOK'
  <2>1. mapping_table' \in [LPN -> PPN \cup {None}]
    BY <1>2, <1>7, Zenon DEF IInv, TypeOK
  <2>2. valid_array' \in [PPN -> {"V", "I", "0"}]
    BY <1>7, Zenon DEF IInv, TypeOK
  <2>3. inverse_mapping_table' \in [PPN -> LPN \cup {None}]
    BY <1>5, <1>7, Zenon DEF IInv, TypeOK
  <2>4. nand' \in [PPN -> Data \cup {NoData}]
    BY <1>6, <1>7, ZenonT(40) DEF IInv, TypeOK
  <2>5. copy_page_nb' \in Nat /\ mapping_index' \in Root
    BY <1>1, <1>3, RootInRange DEF IInv, TypeOK
  <2> QED
    BY <1>1, <1>3, <2>1, <2>2, <2>3, <2>4, <2>5, TakePageFacts, ZenonT(40)
       DEF IInv, TypeOK, listVars, reqVars
<1>11. LocalsInScope'
  BY <1>1 DEF IInv, LocalsInScope
<1>12. BlocksPartitioned' /\ ListsFinite' /\ TotalsExact'
  BY <1>1 DEF IInv, BlocksPartitioned, Collected, ListsFinite, TotalsExact, listVars
<1>13. FreePagesErased'
  <2>1. /\ nand'[new] # NoData /\ valid_array'[new] # "0" /\ UNCHANGED empty_block_list
        /\ \A p \in PPN : p # new =>
             nand'[p] = nand[p] /\ (valid_array'[p] = "0" <=> valid_array[p] = "0")
    BY <1>1, <1>6, <1>9, ZenonT(40) DEF listVars
  <2> QED
    BY <1>1, <2>1, ProgramKeepsFree, ZenonT(40) DEF new
<1>14. MappingSound'
  <2> SUFFICES ASSUME NEW k \in LPN, mapping_table'[k] # None
               PROVE  /\ valid_array'[mapping_table'[k]] = "V"
                      /\ nand'[mapping_table'[k]] # NoData
                      /\ inverse_mapping_table'[mapping_table'[k]] = k
    BY DEF MappingSound
  <2>1. CASE k = l
    BY <1>6, <1>8, <1>9, <2>1
  <2>2. CASE k # l
    <3> DEFINE p == mapping_table[k]
    <3>1. mapping_table'[k] = p /\ p # None /\ p \in PPN /\ p # new
      BY <1>2, <1>8, <2>2 DEF IInv, TypeOK
    <3> QED
      BY <1>9, <3>1 DEF IInv, MappingSound
  <2> QED
    BY <2>1, <2>2, ZenonT(40)
<1>15. ValidIsCurrent'
  <2> SUFFICES ASSUME NEW p \in PPN, valid_array'[p] = "V",
                      \/ BlockOf(p) \in Listed(empty_block_list) \cup Listed(victim_block_list)
                      \/ BlockOf(p) = victim /\ CALC_PAGE(p) >= page + 1
               PROVE  /\ inverse_mapping_table'[p] # None
                      /\ mapping_table'[inverse_mapping_table'[p]] = p
    BY <1>1 DEF ValidIsCurrent, listVars
  <2>1. CASE p = new
    BY <1>5, <1>8, <1>9, <2>1, ZenonT(40)
  <2>2. CASE p # new
    <3> DEFINE k == inverse_mapping_table[p]
    <3>1. valid_array[p] = "V" /\ inverse_mapping_table'[p] = k
      BY <1>9, <2>2
    \* The page just copied lies in no list, and is behind the loop.
    <3>2. p # old
      <4>1. victim \notin Listed(empty_block_list) \cup Listed(victim_block_list)
        BY <1>1 DEF IInv, BlocksPartitioned, Collected
      <4>2. ~(CALC_PAGE(old) >= page + 1)
        BY <1>3, <1>4
      <4> QED
        BY <1>3, <4>1, <4>2
    <3>3. \/ BlockOf(p) \in Listed(empty_block_list) \cup Listed(victim_block_list)
          \/ BlockOf(p) = victim /\ CALC_PAGE(p) >= page
      <4>1. CALC_PAGE(p) \in Int
        BY PpnFacts DEF Page
      <4>2. CALC_PAGE(p) >= page + 1 => CALC_PAGE(p) >= page
        BY <1>4, <4>1
      <4> QED
        BY <4>2
    <3>4. k # None /\ mapping_table[k] = p /\ k \in LPN
      BY <1>1, <3>1, <3>3, ZenonT(40) DEF IInv, ValidIsCurrent, TypeOK
    <3>5. k # l
      BY <1>5, <3>2, <3>4, ZenonT(40)
    <3> QED
      BY <1>8, <3>1, <3>4, <3>5
  <2> QED
    BY <2>1, <2>2
<1>16. VictimDrained'
  <2> SUFFICES ASSUME NEW k \in LPN, mapping_table'[k] # None, BlockOf(mapping_table'[k]) = victim
               PROVE  CALC_PAGE(mapping_table'[k]) >= page + 1
    BY <1>1 DEF VictimDrained
  <2>1. k # l
    BY <1>2, <1>8
  <2> DEFINE p == mapping_table[k]
  <2>2. mapping_table'[k] = p /\ p # None /\ p \in PPN /\ BlockOf(p) = victim
    BY <1>8, <2>1, ZenonT(40) DEF IInv, TypeOK
  <2>3. CALC_PAGE(p) >= page
    BY <1>1, <2>2 DEF IInv, VictimDrained
  <2>4. p # old
    <3>1. inverse_mapping_table[p] = k
      BY <2>2 DEF IInv, MappingSound
    <3> QED
      BY <2>1, <3>1 DEF l
  <2> QED
    BY <1>1, <2>2, <2>3, <2>4, VictimPage, ZenonT(40) DEF old
<1>17. CopyCountSoFar'
  <2>1. ValidBelow(valid_array', victim, page + 1) = ValidBelow(valid_array, victim, page + 1)
    <3>1. ASSUME NEW i \in 0 .. (page + 1) - 1
          PROVE  valid_array'[PpnAt(victim, i)] = valid_array[PpnAt(victim, i)]
      <4>1. i \in Page
        BY <1>3, <1>4, GeometryAssumption DEF Page
      <4>2. PpnAt(victim, i) \in PPN /\ BlockOf(PpnAt(victim, i)) = victim
        BY <1>3, <4>1, EncodeDecode
      <4>3. PpnAt(victim, i) # new
        BY <1>2, <4>2
      <4> QED
        BY <1>9, <4>2, <4>3
    <3> QED
      BY <3>1 DEF ValidBelow
  <2>2. copy_page_nb = Cardinality(ValidBelow(valid_array, victim, page))
    BY <1>1 DEF IInv, CopyCountSoFar, ValidBelow
  <2>3. Cardinality(ValidBelow(valid_array, victim, page + 1))
          = Cardinality(ValidBelow(valid_array, victim, page)) + 1
    BY <1>1, <1>4, ValidBelowNext DEF old
  <2>4. copy_page_nb' = Cardinality(ValidBelow(valid_array', victim', page'))
    BY <1>1, <2>1, <2>2, <2>3
  <2> QED
    BY <2>4 DEF CopyCountSoFar, ValidBelow
<1> QED
  BY <1>10, <1>11, <1>12, <1>13, <1>14, <1>15, <1>16, <1>17 DEF IInv
-----------------------------------------------------------------------------
(***************************************************************************)
(* The theorems.                                                           *)
(***************************************************************************)
LEMMA NextInv == IInv /\ [Next]_vars => IInv'
<1> SUFFICES ASSUME IInv, [Next]_vars PROVE IInv'
  OBVIOUS
<1>1. CASE Host
  <2>1. CASE \E l \in LPN, n \in 1 .. MAX_REQ_PAGES, d \in Data : SSD_WRITE(l, n, d)
    BY <2>1, WriteCallInv
  <2>2. CASE \E l \in LPN, n \in 1 .. MAX_REQ_PAGES : SSD_READ(l, n)
    BY <2>2, ReadInv
  <2>3. CASE Restart
    BY <2>3, RestartInv
  <2> QED
    BY <1>1, <2>1, <2>2, <2>3 DEF Host
<1>2. CASE Step
  BY <1>2, SkipRootInv, RetireBlockInv, MovePlaneInv, LeaveChipInv, WritePageInv, EndInv,
     WriteDoneGcInv, SelectVictimInv, SkipPageInv, CopyPageInv, CopyFailInv, FinishVictimInv
     DEF Step
<1>3. CASE UNCHANGED vars
  <2>1. /\ UNCHANGED tables /\ UNCHANGED <<pc, victim, page, copy_page_nb>>
        /\ UNCHANGED <<mapVars, listVars, curr_phy_page_nb, empty_block_table_index, leaked,
                       reqVars, gcVars, allocVars, result>>
    BY <1>3 DEF vars, tables, gcVars
  <2>2. TypeOK'
    BY <2>1 DEF IInv, TypeOK, mapVars, listVars, reqVars, gcVars, allocVars
  <2>3. LocalsInScope'
    BY <2>1 DEF IInv, LocalsInScope, reqVars, gcVars, allocVars
  <2> QED
    BY <2>1, <2>2, <2>3, SamePlace
<1> QED
  BY <1>1, <1>2, <1>3 DEF Next

\* Every reachable state of the FTL satisfies the inductive invariant.
THEOREM Invariance == Spec => []IInv
  BY InitInv, NextInv, PTL DEF Spec

\* No variable leaves the range its C type and the code's arithmetic give it:
\* no index into a table is out of bounds.
THEOREM TypeCorrect == Spec => []TypeOK
<1>1. IInv => TypeOK
  BY DEF IInv
<1> QED
  BY <1>1, Invariance, PTL

\* What the host has written stays reachable: a mapped page is valid, holds
\* data and points back, whatever allocation and collection do.
THEOREM MappingAlwaysSound == Spec => []MappingSound
<1>1. IInv => MappingSound
  BY DEF IInv
<1> QED
  BY <1>1, Invariance, PTL

\* GARBAGE_COLLECTION never copies a page that has been superseded.
THEOREM CopiesAreCurrent == Spec => []ValidIsCurrent
<1>1. IInv => ValidIsCurrent
  BY DEF IInv
<1> QED
  BY <1>1, Invariance, PTL

\* Every block is in exactly one place at any time.
THEOREM NoBlockTwice == Spec => []BlocksPartitioned
<1>1. IInv => BlocksPartitioned
  BY DEF IInv
<1> QED
  BY <1>1, Invariance, PTL

\* The counters that drive allocation and collection are exact.
THEOREM TotalsAlwaysExact == Spec => []TotalsExact
<1>1. IInv => TotalsExact
  BY DEF IInv
<1> QED
  BY <1>1, Invariance, PTL

\* A page handed out by GET_NEW_PAGE is erased.
THEOREM FreePagesAlwaysErased == Spec => []FreePagesErased
<1>1. IInv => FreePagesErased
  BY DEF IInv
<1> QED
  BY <1>1, Invariance, PTL

\* The erase at the end of a collection destroys no data.
THEOREM EraseIsSafe == Spec => []VictimDrained
<1>1. IInv => VictimDrained
  BY DEF IInv
<1> QED
  BY <1>1, Invariance, PTL

\* The error path of GARBAGE_COLLECTION for a wrong number of valid pages is
\* dead code.
THEOREM CopyCountAlwaysRight == Spec => []CopyCountRight
  BY CountRight, Invariance, PTL

\* Inside a block ppns are ordered like page numbers.
LEMMA SameBlockOrder ==
  ASSUME NEW p \in PPN, NEW q \in PPN, BlockOf(q) = BlockOf(p)
  PROVE  q < p <=> CALC_PAGE(q) < CALC_PAGE(p)
<1>1. /\ BlockOf(p) \in Block /\ CALC_PAGE(p) \in Page /\ PpnAt(BlockOf(p), CALC_PAGE(p)) = p
      /\ BlockOf(q) \in Block /\ CALC_PAGE(q) \in Page /\ PpnAt(BlockOf(q), CALC_PAGE(q)) = q
  BY DecodeEncode
<1>2. p = PAGE_NB * BlockOf(p) + CALC_PAGE(p) /\ q = PAGE_NB * BlockOf(p) + CALC_PAGE(q)
  BY <1>1, PpnAtValue
<1> DEFINE b == PAGE_NB * BlockOf(p)
           x == CALC_PAGE(p)
           y == CALC_PAGE(q)
<1>3. b \in Int /\ x \in Int /\ y \in Int
  BY <1>1, GeometryAssumption, Sizes DEF Block, Page
<1>4. p = b + x /\ q = b + y
  BY <1>2
<1> HIDE DEF b, x, y
<1>5. q < p <=> y < x
  BY <1>3, <1>4
<1> QED
  BY <1>5 DEF x, y

\* Below the page that GET_NEW_PAGE returns its block is programmed, from
\* that page on it is erased.
LEMMA NewPageOrder ==
  ASSUME IInv, PageFound, NEW q \in PPN, BlockOf(q) = BlockOf(NewPpn)
  PROVE  nand[q] # NoData <=> q < NewPpn
<1>1. /\ NewPpn \in PPN /\ BlockOf(NewPpn) = NewBlock
      /\ NewBlock \in Listed(empty_block_list)
      /\ CALC_PAGE(NewPpn) = curr_phy_page_nb[NewBlock]
  BY NewPageFacts
<1>2. nand[q] # NoData <=> CALC_PAGE(q) < curr_phy_page_nb[NewBlock]
  BY <1>1 DEF IInv, FreePagesErased
<1> QED
  BY <1>1, <1>2, SameBlockOrder

\* The flash is programmed in ascending order inside a block, and never in
\* place.
THEOREM ProgramsOnlyErased == Spec => ProgramOnlyErased
<1> DEFINE A == \A l \in LPN : mapping_table'[l] # mapping_table[l] =>
                  \A q \in PPN : BlockOf(q) = BlockOf(mapping_table'[l]) =>
                    (nand[q] # NoData <=> q < mapping_table'[l])
<1>1. ASSUME IInv, Next PROVE A
  <2>1. CASE WritePage
    <3>1. PageFound
      BY <2>1 DEF WritePage, TakePage
    <3>2. \A l \in LPN : mapping_table'[l] # mapping_table[l] => mapping_table'[l] = NewPpn
      BY <1>1, <2>1, WritePageEffect
    <3> QED
      BY <1>1, <3>1, <3>2, NewPageOrder
  <2>2. CASE CopyPage
    <3>1. PageFound
      BY <2>2 DEF CopyPage, TakePage
    <3>2. mapping_table \in [LPN -> PPN \cup {None}]
      BY <1>1 DEF IInv, TypeOK
    <3>3. PICK m : mapping_table' = [mapping_table EXCEPT ![m] = NewPpn]
      BY <2>2, Zenon DEF CopyPage, CopyData, MapPage
    <3>4. \A l \in LPN : mapping_table'[l] # mapping_table[l] => mapping_table'[l] = NewPpn
      BY <3>2, <3>3
    <3> QED
      BY <1>1, <3>1, <3>4, NewPageOrder
  <2>3. CASE ~WritePage /\ ~CopyPage
    <3>1. UNCHANGED mapping_table
      BY <1>1, <2>3, ZenonT(40) DEF Next, Host, Step, SSD_WRITE, SSD_READ, Restart, SkipRoot, RetireBlock,
         MovePlane, LeaveChip, WriteFail, WriteDoneGc, WriteDone, SelectVictim, NoVictim,
         GcQuotaDone, SkipPage, CopyFail, FinishVictim, EraseVictim, mapVars
    <3> QED
      BY <3>1
  <2> QED
    BY <2>1, <2>2, <2>3
<1>2. IInv /\ [Next]_vars => [A]_vars
  BY <1>1
<1>3. [][A]_vars => ProgramOnlyErased
  BY PTL DEF ProgramOnlyErased
<1> QED
  BY <1>2, <1>3, Invariance, PTL DEF Spec

-----------------------------------------------------------------------------
\* FTL_INIT without data files gives a disk on which nothing is written.
LEMMA DiskInit == Init => Disk!Init
<1> SUFFICES ASSUME Init PROVE Disk!Init
  OBVIOUS
<1> USE DEF INIT_MAPPING_TABLE, INIT_INVERSE_MAPPING_TABLE, INIT_VALID_ARRAY,
            INIT_EMPTY_BLOCK_LIST, INIT_VICTIM_BLOCK_LIST
<1>1. Pending = 0
  BY DEF Init, Pending
<1>2. DiskContents = [l \in LPN |-> NoData]
  BY DEF Init, DiskContents
<1> QED
  BY <1>1, <1>2 DEF Init, Disk!Init

\* A step that changes neither the contents nor the pending part of the
\* request is a stuttering step of the disk.
LEMMA Stutter ==
  ASSUME DiskContents' = DiskContents, Pending' = Pending, UNCHANGED result,
         Pending = 0 \/ UNCHANGED <<lpn, data>>
  PROVE  UNCHANGED Disk!diskVars
<1>1. ~(0 > 0)
  OBVIOUS
<1> QED
  BY <1>1 DEF Disk!diskVars

\* A page with contents is a page that is mapped.
LEMMA ContentsMapped ==
  ASSUME IInv, NEW l \in LPN
  PROVE  /\ DiskContents[l] = NoData <=> mapping_table[l] = None
         /\ mapping_table[l] # None => DiskContents[l] = nand[mapping_table[l]]
  BY DEF DiskContents, IInv, MappingSound

\* A step that leaves the mapping table and the flash alone changes no logical
\* page.
LEMMA SameTables ==
  ASSUME UNCHANGED mapVars
  PROVE  DiskContents' = DiskContents
  BY DEF mapVars, DiskContents

\* The steps that only look for a page, choose a victim or pass over a page,
\* and those that end a request with nothing pending.
LEMMA QuietSteps ==
  ASSUME IInv,
         \/ SkipRoot \/ RetireBlock \/ MovePlane \/ LeaveChip
         \/ WriteDoneGc \/ WriteDone \/ SelectVictim \/ NoVictim \/ GcQuotaDone
         \/ SkipPage \/ CopyFail
  PROVE  UNCHANGED Disk!diskVars
<1>1. UNCHANGED mapVars /\ UNCHANGED result
  BY DEF SkipRoot, RetireBlock, MovePlane, LeaveChip, WriteDoneGc, WriteDone, SelectVictim,
         NoVictim, GcQuotaDone, SkipPage, CopyFail
<1>2. CASE SkipRoot \/ RetireBlock \/ MovePlane \/ LeaveChip
  <2>1. UNCHANGED <<pc, lpn, remain, data>>
    BY <1>2 DEF SkipRoot, RetireBlock, MovePlane, LeaveChip, reqVars
  <2>2. Pending' = Pending
    BY <2>1 DEF Pending
  <2> QED
    BY <1>1, <2>1, <2>2, SameTables, Stutter
<1>3. CASE WriteDoneGc \/ WriteDone \/ SelectVictim \/ NoVictim \/ GcQuotaDone
           \/ SkipPage \/ CopyFail
  <2>1. pc # "write" \/ remain = 0
    BY <1>3 DEF WriteDoneGc, WriteDone, SelectVictim, NoVictim, GcQuotaDone, SkipPage, CopyFail
  <2>2. pc' # "write"
    BY <1>3 DEF WriteDoneGc, WriteDone, SelectVictim, NoVictim, GcQuotaDone, SkipPage, CopyFail,
                EndRequest
  <2>3. Pending = 0 /\ Pending' = 0
    BY <2>1, <2>2 DEF Pending
  <2> QED
    BY <1>1, <2>3, SameTables, Stutter
<1> QED
  BY <1>2, <1>3

\* The copy of a page: its lpn is mapped elsewhere, to the same contents.
LEMMA CopyPageStep ==
  ASSUME IInv, CopyPage
  PROVE  UNCHANGED Disk!diskVars
<1> DEFINE new == NewPpn
           old == PpnAt(victim, page)
           l   == inverse_mapping_table[old]
<1>0. new = NewPpn /\ old = PpnAt(victim, page) /\ l = inverse_mapping_table[old]
  OBVIOUS
<1> HIDE DEF new, old, l
<1>1. /\ new \in PPN /\ \A k \in LPN : mapping_table[k] # new
      /\ old \in PPN /\ l \in LPN /\ mapping_table[l] = old
      /\ mapping_table'[l] = new
      /\ \A k \in LPN : k # l => mapping_table'[k] = mapping_table[k]
      /\ nand'[new] = nand[old] /\ \A p \in PPN : p # new => nand'[p] = nand[p]
  BY <1>0, CopyPageEffect
<1>2. new # None /\ old # None
  BY <1>1, NoneFacts
<1>3. ASSUME NEW k \in LPN
      PROVE  (IF mapping_table'[k] = None THEN NoData ELSE nand'[mapping_table'[k]])
               = (IF mapping_table[k] = None THEN NoData ELSE nand[mapping_table[k]])
  <2>1. CASE k = l
    BY <1>1, <1>2, <2>1
  <2>2. CASE k # l
    <3>1. mapping_table'[k] = mapping_table[k] /\ mapping_table[k] # new
      BY <1>1, <2>2
    <3>2. mapping_table[k] = None \/ mapping_table[k] \in PPN
      BY DEF IInv, TypeOK
    <3> QED
      BY <1>1, <3>1, <3>2
  <2> QED
    BY <2>1, <2>2
<1>4. DiskContents' = DiskContents
  BY <1>3 DEF DiskContents
<1>5. Pending = 0 /\ Pending' = 0 /\ UNCHANGED result
  BY DEF CopyPage, Pending
<1> QED
  BY <1>4, <1>5, Stutter

\* The erase of the victim: no logical page is mapped into it.
LEMMA FinishVictimStep ==
  ASSUME IInv, FinishVictim
  PROVE  UNCHANGED Disk!diskVars
<1>1. /\ pc = "copy" /\ page = PAGE_NB /\ pc' = "gc" /\ UNCHANGED result /\ EraseVictim
  BY CountRight DEF FinishVictim, CopyCountRight
<1>2. /\ nand' = [p \in PPN |-> IF BlockOf(p) = victim THEN NoData ELSE nand[p]]
      /\ UNCHANGED mapping_table
  BY <1>1 DEF EraseVictim, SSD_BLOCK_ERASE
<1>3. ASSUME NEW k \in LPN, mapping_table[k] # None
      PROVE  nand'[mapping_table[k]] = nand[mapping_table[k]]
  BY <1>1, <1>2, <1>3, VictimUnmapped
<1>4. DiskContents' = DiskContents
  BY <1>2, <1>3 DEF DiskContents
<1>5. Pending = 0 /\ Pending' = 0
  BY <1>1 DEF Pending
<1> QED
  BY <1>1, <1>4, <1>5, Stutter

\* One page of a write request becomes visible, at once.
LEMMA WritePageStep ==
  ASSUME IInv, WritePage
  PROVE  Disk!Commit
<1>1. /\ NewPpn \in PPN /\ lpn \in LPN /\ data \in Data
      /\ \A l \in LPN : mapping_table[l] # NewPpn
      /\ mapping_table'[lpn] = NewPpn
      /\ \A l \in LPN : l # lpn => mapping_table'[l] = mapping_table[l]
      /\ nand'[NewPpn] = data
      /\ \A p \in PPN : p # NewPpn => nand'[p] = nand[p]
  BY WritePageEffect
<1>2. /\ pc = "write" /\ pc' = "write" /\ remain > 0 /\ remain \in Nat
      /\ lpn' = lpn + 1 /\ remain' = remain - 1 /\ UNCHANGED <<data, result>>
  BY DEF WritePage, TakePage, PageFound, NeedPage, IInv, TypeOK
<1>3. Pending = remain /\ Pending' = remain - 1 /\ Pending > 0
  BY <1>2 DEF Pending
<1>4. ASSUME NEW k \in LPN
      PROVE  (IF mapping_table'[k] = None THEN NoData ELSE nand'[mapping_table'[k]])
               = (IF k = lpn THEN data
                  ELSE IF mapping_table[k] = None THEN NoData ELSE nand[mapping_table[k]])
  <2>1. CASE k = lpn
    BY <1>1, <2>1, NoneFacts
  <2>2. CASE k # lpn
    <3>1. mapping_table[k] = None \/ mapping_table[k] \in PPN
      BY DEF IInv, TypeOK
    <3> QED
      BY <1>1, <2>2, <3>1
  <2> QED
    BY <2>1, <2>2
<1>5. DiskContents' = [DiskContents EXCEPT ![lpn] = data]
  BY <1>1, <1>4, Zenon DEF DiskContents
<1>6. (IF Pending' > 0 THEN lpn' ELSE 0) = (IF Pending = 1 THEN 0 ELSE lpn + 1)
  BY <1>2, <1>3
<1>7. (IF Pending' > 0 THEN data' ELSE NoData) = (IF Pending = 1 THEN NoData ELSE data)
  BY <1>2, <1>3
<1> QED
  BY <1>2, <1>3, <1>5, <1>6, <1>7 DEF Disk!Commit

\* No page left: the rest of the request is dropped.
LEMMA WriteFailStep ==
  ASSUME IInv, WriteFail
  PROVE  Disk!Abort
<1>1. /\ pc = "write" /\ remain > 0 /\ pc' = "idle"
      /\ UNCHANGED mapVars /\ UNCHANGED result
  BY DEF WriteFail, EndRequest
<1>2. Pending > 0 /\ Pending' = 0 /\ ~(0 > 0)
  BY <1>1 DEF Pending
<1> QED
  BY <1>1, <1>2, SameTables DEF Disk!Abort

\* An accepted write request is accepted by the disk.
LEMMA WriteCallStep ==
  ASSUME NEW l \in LPN, NEW n \in 1 .. MAX_REQ_PAGES, NEW d \in Data, SSD_WRITE(l, n, d)
  PROVE  Disk!Accept(l, n, d)
<1>1. /\ pc = "idle" /\ pc' = "write" /\ lpn' = l /\ remain' = n /\ data' = d
      /\ result' = <<>> /\ l + n <= HOST_PAGE_NB /\ UNCHANGED mapVars
  BY DEF SSD_WRITE
<1>2. Pending = 0 /\ Pending' = n /\ n > 0
  BY <1>1, HostAssumption DEF Pending
<1> QED
  BY <1>1, <1>2, SameTables DEF Disk!Accept

\* _FTL_READ returns what the disk returns.
LEMMA ReadStep ==
  ASSUME IInv, NEW l \in LPN, NEW n \in 1 .. MAX_REQ_PAGES, SSD_READ(l, n)
  PROVE  Disk!Read(l, n)
<1>1. /\ pc = "idle" /\ l + n <= HOST_PAGE_NB
      /\ UNCHANGED mapVars /\ UNCHANGED <<pc, lpn, remain, data>>
  BY DEF SSD_READ, reqVars
<1>2. l \in Nat /\ n \in Nat /\ HOST_PAGE_NB \in Int /\ HOST_PAGE_NB <= PAGE_MAPPING_ENTRY_NB
  BY HostAssumption, Sizes DEF LPN
<1>3. \A k \in l .. l + n - 1 : k \in LPN
  BY <1>1, <1>2, Sizes DEF LPN
<1>4. (\E k \in l .. l + n - 1 : DiskContents[k] = NoData)
        <=> (\E k \in l .. l + n - 1 : mapping_table[k] = None)
  BY <1>3, ContentsMapped
<1>5. (~ \E k \in l .. l + n - 1 : mapping_table[k] = None) =>
        [k \in 1 .. n |-> nand[mapping_table[l + k - 1]]]
          = [k \in 1 .. n |-> DiskContents[l + k - 1]]
  <2> SUFFICES ASSUME ~ \E k \in l .. l + n - 1 : mapping_table[k] = None, NEW k \in 1 .. n
               PROVE  nand[mapping_table[l + k - 1]] = DiskContents[l + k - 1]
    OBVIOUS
  <2>1. l + k - 1 \in l .. l + n - 1
    BY <1>2
  <2> QED
    BY <1>3, <2>1, ContentsMapped
<1>6. result' = IF \E k \in l .. l + n - 1 : DiskContents[k] = NoData
                THEN <<NoData>>
                ELSE [k \in 1 .. n |-> DiskContents[l + k - 1]]
  BY <1>4, <1>5 DEF SSD_READ
<1>7. Pending = 0 /\ Pending' = 0 /\ ~(0 > 0)
  BY <1>1 DEF Pending
<1> QED
  BY <1>1, <1>6, <1>7, SameTables DEF Disk!Read

\* SSD_TERM and SSD_INIT are a power cycle of the disk.
LEMMA RestartStep ==
  ASSUME Restart
  PROVE  Disk!PowerCycle
<1>1. /\ pc = "idle" /\ result' = <<>>
      /\ UNCHANGED mapVars /\ UNCHANGED <<pc, lpn, remain, data>>
  BY DEF Restart, reqVars
<1>2. Pending = 0 /\ Pending' = 0 /\ ~(0 > 0)
  BY <1>1 DEF Pending
<1> QED
  BY <1>1, <1>2, SameTables DEF Disk!PowerCycle

\* Every step of the FTL is a step of the disk or leaves it alone.
LEMMA DiskNext == IInv /\ [Next]_vars => [Disk!Next]_(Disk!diskVars)
<1> SUFFICES ASSUME IInv, [Next]_vars PROVE Disk!Next \/ UNCHANGED Disk!diskVars
  OBVIOUS
<1>1. CASE Host
  <2>1. CASE \E l \in LPN, n \in 1 .. MAX_REQ_PAGES, d \in Data : SSD_WRITE(l, n, d)
    BY <2>1, WriteCallStep DEF Disk!Next
  <2>2. CASE \E l \in LPN, n \in 1 .. MAX_REQ_PAGES : SSD_READ(l, n)
    BY <2>2, ReadStep DEF Disk!Next
  <2>3. CASE Restart
    BY <2>3, RestartStep DEF Disk!Next
  <2> QED
    BY <1>1, <2>1, <2>2, <2>3 DEF Host
<1>2. CASE Step
  <2>1. CASE WritePage
    BY <2>1, WritePageStep DEF Disk!Next
  <2>2. CASE WriteFail
    BY <2>2, WriteFailStep DEF Disk!Next
  <2> QED
    BY <1>2, <2>1, <2>2, QuietSteps, CopyPageStep, FinishVictimStep DEF Step
<1>3. CASE UNCHANGED vars
  <2>1. UNCHANGED mapVars /\ UNCHANGED <<pc, lpn, remain, data, result>>
    BY <1>3 DEF vars, reqVars
  <2>2. Pending' = Pending
    BY <2>1 DEF Pending
  <2> QED
    BY <2>1, <2>2, SameTables, Stutter
<1> QED
  BY <1>1, <1>2, <1>3 DEF Next

\* A reader of the simulated device sees a disk: neither allocation nor
\* garbage collection, failed or not, nor a restart changes what it holds,
\* and a request that runs out of pages leaves a prefix of its data.
THEOREM FTLImplementsDisk == Spec => ImplementsDisk
  BY DiskInit, DiskNext, Invariance, PTL DEF Spec, ImplementsDisk, Disk!Spec
=============================================================================
