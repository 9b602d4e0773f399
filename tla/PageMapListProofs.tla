------------------------- MODULE PageMapListProofs --------------------------
(***************************************************************************)
(* Facts about the address arithmetic, for every geometry, and what the    *)
(* list operations of GET_EMPTY_BLOCK, INSERT_EMPTY_BLOCK,                 *)
(* INSERT_VICTIM_BLOCK and EJECT_VICTIM_BLOCK do to a table of block       *)
(* lists: to the set of blocks it holds and to the number of its entries.  *)
(* Then: the steps of the page-mapping FTL that move blocks between lists, *)
(* and those that set locals only, preserve IInv.  The steps that program  *)
(* a page, and the theorems, are in PageMapFTLProofs.                      *)
(***************************************************************************)
EXTENDS PageMapFTL, SequenceTheorems, FiniteSetTheorems, TLAPS

\* Time the provers get for a leaf that does not choose its own.
USE ZenonT(2), SMTT(30), ZenonT(30)

\* What the C division and remainder of nonnegative integers compute.
LEMMA DivMod ==
  ASSUME NEW a \in Nat, NEW d \in Nat \ {0}
  PROVE  /\ a \div d \in Nat
         /\ a % d \in 0 .. d - 1
         /\ a = d * (a \div d) + (a % d)
  BY SMT

\* Quotient and remainder are unique.
LEMMA DivUnique ==
  ASSUME NEW d \in Nat \ {0}, NEW q \in Nat, NEW r \in 0 .. d - 1
  PROVE  /\ (d * q + r) \div d = q
         /\ (d * q + r) % d = r
  BY SMT

\* The sizes of the tables are positive.
LEMMA Sizes ==
  /\ BLOCK_MAPPING_ENTRY_NB \in Nat \ {0}
  /\ PAGE_MAPPING_ENTRY_NB \in Nat \ {0}
  /\ EMPTY_TABLE_ENTRY_NB \in Nat \ {0}
  BY GeometryAssumption DEF BLOCK_MAPPING_ENTRY_NB, PAGE_MAPPING_ENTRY_NB,
                            EMPTY_TABLE_ENTRY_NB

\* A block of block_state_table has a flash and a block number in range.
LEMMA BlockParts ==
  ASSUME NEW b \in Block
  PROVE  /\ b \div BLOCK_NB \in Flash
         /\ b % BLOCK_NB \in 0 .. BLOCK_NB - 1
         /\ StateIndex(b \div BLOCK_NB, b % BLOCK_NB) = b
<1> DEFINE f == b \div BLOCK_NB
           k == b % BLOCK_NB
<1>1. b \in Nat /\ b < FLASH_NB * BLOCK_NB
  BY Sizes DEF Block, BLOCK_MAPPING_ENTRY_NB
<1>2. f \in Nat /\ k \in 0 .. BLOCK_NB - 1 /\ b = BLOCK_NB * f + k
  BY <1>1, DivMod, GeometryAssumption, Zenon
<1> HIDE DEF f, k
<1>3. f < FLASH_NB
  <2>1. SUFFICES ASSUME f >= FLASH_NB PROVE FALSE
    BY <1>2, GeometryAssumption
  <2>2. BLOCK_NB * f >= BLOCK_NB * FLASH_NB
    BY <2>1, <1>2, GeometryAssumption
  <2>3. BLOCK_NB * FLASH_NB = FLASH_NB * BLOCK_NB
    BY GeometryAssumption
  <2> QED
    BY <2>2, <2>3, <1>1, <1>2, GeometryAssumption
<1>4. f * BLOCK_NB + k = b
  BY <1>2, GeometryAssumption
<1> QED
  BY <1>2, <1>3, <1>4, GeometryAssumption DEF f, k, Flash, StateIndex

\* The ppn of a page is PAGE_NB times the index of its block plus the page.
LEMMA PpnAtValue ==
  ASSUME NEW b \in Block, NEW i \in Page
  PROVE  PpnAt(b, i) = PAGE_NB * b + i
<1> DEFINE f == b \div BLOCK_NB
           k == b % BLOCK_NB
<1>1. f \in Nat /\ k \in Nat /\ b \in Nat /\ i \in Nat /\ f * BLOCK_NB + k = b
  BY BlockParts, Sizes, GeometryAssumption DEF Flash, StateIndex, Block, Page
<1>2. PpnAt(b, i) = f * BLOCK_NB * PAGE_NB + k * PAGE_NB + i
  BY DEF PpnAt, PpnOf
<1> HIDE DEF f, k
<1>3. f * BLOCK_NB * PAGE_NB + k * PAGE_NB = (f * BLOCK_NB + k) * PAGE_NB
  BY <1>1, GeometryAssumption
<1>4. f * BLOCK_NB * PAGE_NB + k * PAGE_NB = PAGE_NB * b
  BY <1>1, <1>3, GeometryAssumption
<1> QED
  BY <1>1, <1>2, <1>4, GeometryAssumption

\* The block of a ppn is the quotient by PAGE_NB.
LEMMA BlockOfValue ==
  ASSUME NEW p \in Nat
  PROVE  BlockOf(p) = p \div PAGE_NB
<1> DEFINE x == p \div PAGE_NB
<1>1. x \in Nat
  BY DivMod, GeometryAssumption
<1> HIDE DEF x
<1>2. /\ x \div BLOCK_NB \in Nat /\ x % BLOCK_NB \in Nat
      /\ x = BLOCK_NB * (x \div BLOCK_NB) + (x % BLOCK_NB)
  BY <1>1, DivMod, GeometryAssumption
<1>3. (x \div BLOCK_NB) * BLOCK_NB + (x % BLOCK_NB) = x
  BY <1>1, <1>2, GeometryAssumption
<1> QED
  BY <1>3 DEF x, BlockOf, StateIndex, CALC_FLASH, CALC_BLOCK

\* Encoding an address and decoding it again gives the address back, and the
\* ppn is in the tables: CALC_FLASH, CALC_BLOCK and CALC_PAGE invert the
\* arithmetic of GET_NEW_PAGE and GARBAGE_COLLECTION.
THEOREM EncodeDecode ==
  ASSUME NEW b \in Block, NEW i \in Page
  PROVE  /\ PpnAt(b, i) \in PPN
         /\ BlockOf(PpnAt(b, i)) = b
         /\ CALC_PAGE(PpnAt(b, i)) = i
<1>1. /\ b \in Nat /\ b <= BLOCK_MAPPING_ENTRY_NB - 1
      /\ i \in 0 .. PAGE_NB - 1
  BY Sizes DEF Block, Page
<1>2. PpnAt(b, i) = PAGE_NB * b + i
  BY PpnAtValue
<1>3. PAGE_NB * b + i \in Nat
  BY <1>1, GeometryAssumption
<1>4. PpnAt(b, i) \in PPN
  <2>1. PAGE_NB * b <= PAGE_NB * (BLOCK_MAPPING_ENTRY_NB - 1)
    BY <1>1, Sizes, GeometryAssumption
  <2>2. PAGE_NB * (BLOCK_MAPPING_ENTRY_NB - 1) = PAGE_MAPPING_ENTRY_NB - PAGE_NB
    BY Sizes, GeometryAssumption DEF PAGE_MAPPING_ENTRY_NB
  <2> HIDE DEF PAGE_MAPPING_ENTRY_NB, BLOCK_MAPPING_ENTRY_NB
  <2> QED
    BY <1>1, <1>2, <1>3, <2>1, <2>2, Sizes, GeometryAssumption DEF PPN
<1>5. (PAGE_NB * b + i) \div PAGE_NB = b /\ (PAGE_NB * b + i) % PAGE_NB = i
  BY <1>1, DivUnique, GeometryAssumption, Zenon
<1> QED
  BY <1>2, <1>3, <1>4, <1>5, BlockOfValue DEF CALC_PAGE

\* Every ppn is the encoding of its block and page.
THEOREM DecodeEncode ==
  ASSUME NEW p \in PPN
  PROVE  /\ BlockOf(p) \in Block
         /\ CALC_PAGE(p) \in Page
         /\ PpnAt(BlockOf(p), CALC_PAGE(p)) = p
<1> DEFINE q == p \div PAGE_NB
           m == p % PAGE_NB
<1>1. p \in Nat /\ p < PAGE_MAPPING_ENTRY_NB
  BY Sizes DEF PPN
<1>2. BlockOf(p) = q /\ CALC_PAGE(p) = m
  BY <1>1, BlockOfValue DEF CALC_PAGE
<1>3. q \in Nat /\ m \in 0 .. PAGE_NB - 1 /\ p = PAGE_NB * q + m
  BY <1>1, DivMod, GeometryAssumption, Zenon
<1> HIDE DEF q, m
<1>4. q < BLOCK_MAPPING_ENTRY_NB
  <2>1. SUFFICES ASSUME q >= BLOCK_MAPPING_ENTRY_NB PROVE FALSE
    BY <1>3, Sizes
  <2>2. PAGE_NB * q >= PAGE_NB * BLOCK_MAPPING_ENTRY_NB
    BY <2>1, <1>3, Sizes, GeometryAssumption
  <2>3. PAGE_NB * BLOCK_MAPPING_ENTRY_NB = PAGE_MAPPING_ENTRY_NB
    BY Sizes, GeometryAssumption DEF PAGE_MAPPING_ENTRY_NB
  <2> QED
    BY <2>2, <2>3, <1>1, <1>3, Sizes, GeometryAssumption
<1>5. q \in Block /\ m \in Page
  BY <1>3, <1>4, Sizes DEF Block, Page
<1> QED
  BY <1>2, <1>3, <1>5, PpnAtValue

\* The list of a block is an entry of the list tables.
THEOREM RootInRange ==
  ASSUME NEW b \in Block
  PROVE  RootOf(b) \in Root
<1> DEFINE f == b \div BLOCK_NB
           k == b % BLOCK_NB
           j == k % PLANES_PER_FLASH
<1>1. f \in 0 .. FLASH_NB - 1 /\ k \in Nat
  BY BlockParts, GeometryAssumption DEF Flash
<1>2. j \in 0 .. PLANES_PER_FLASH - 1
  BY <1>1, DivMod, GeometryAssumption, Zenon
<1>3. RootOf(b) = j * FLASH_NB + f
  BY DEF RootOf, ListIndex
<1> HIDE DEF f, k, j
<1>4. j * FLASH_NB <= (PLANES_PER_FLASH - 1) * FLASH_NB /\ j * FLASH_NB \in Nat
  BY <1>2, GeometryAssumption
<1>5. (PLANES_PER_FLASH - 1) * FLASH_NB = EMPTY_TABLE_ENTRY_NB - FLASH_NB
  BY GeometryAssumption DEF EMPTY_TABLE_ENTRY_NB
<1> QED
  BY <1>1, <1>3, <1>4, <1>5, Sizes, GeometryAssumption DEF Root

-----------------------------------------------------------------------------

\* Taking the head off a list without duplicates.
LEMMA TailOfList ==
  ASSUME NEW S, NEW s \in Seq(S), s # <<>>, IsInjective(s)
  PROVE  /\ IsInjective(Tail(s))
         /\ Head(s) \in Range(s)
         /\ Range(Tail(s)) = Range(s) \ {Head(s)}
<1>1. /\ Len(s) \in Nat /\ DOMAIN s = 1 .. Len(s) /\ Len(s) > 0
      /\ Head(s) = s[1]
  BY LenProperties, EmptySeq
<1>2. /\ Tail(s) \in Seq(S) /\ Len(Tail(s)) = Len(s) - 1
      /\ \A i \in 1 .. Len(Tail(s)) : Tail(s)[i] = s[i + 1]
  BY HeadTailProperties
<1>3. DOMAIN Tail(s) = 1 .. Len(s) - 1
  BY <1>2, LenProperties
<1>4. \A i \in 1 .. Len(s) - 1 : Tail(s)[i] = s[i + 1] /\ i + 1 \in 1 .. Len(s)
  BY <1>1, <1>2
<1>5. IsInjective(Tail(s))
  BY <1>1, <1>3, <1>4 DEF IsInjective
<1>6. Head(s) \in Range(s)
  BY <1>1 DEF Range
<1>7. Range(Tail(s)) \subseteq Range(s) \ {Head(s)}
  BY <1>1, <1>3, <1>4 DEF Range, IsInjective
<1>8. Range(s) \ {Head(s)} \subseteq Range(Tail(s))
  <2>1. SUFFICES ASSUME NEW i \in 1 .. Len(s), s[i] # Head(s)
                 PROVE  s[i] \in Range(Tail(s))
    BY <1>1 DEF Range
  <2>2. i - 1 \in 1 .. Len(s) - 1 /\ Tail(s)[i - 1] = s[i]
    BY <1>1, <1>4, <2>1
  <2> QED
    BY <1>3, <2>2, Zenon DEF Range
<1> QED
  BY <1>5, <1>6, <1>7, <1>8

\* Adding an element a list does not have.
LEMMA AppendToList ==
  ASSUME NEW S, NEW s \in Seq(S), IsInjective(s), NEW x \in S, x \notin Range(s)
  PROVE  /\ IsInjective(Append(s, x))
         /\ Range(Append(s, x)) = Range(s) \cup {x}
<1> DEFINE t == Append(s, x)
<1>1. Len(s) \in Nat /\ DOMAIN s = 1 .. Len(s)
  BY LenProperties
<1>2. /\ t \in Seq(S) /\ Len(t) = Len(s) + 1
      /\ \A i \in 1 .. Len(s) : t[i] = s[i]
      /\ t[Len(s) + 1] = x
  BY AppendProperties
<1>3. DOMAIN t = 1 .. Len(s) + 1
  BY <1>2, LenProperties
<1> HIDE DEF t
<1>4. \A i \in 1 .. Len(s) : s[i] # x
  BY <1>1 DEF Range
<1>5. IsInjective(t)
  BY <1>1, <1>2, <1>3, <1>4 DEF IsInjective
<1>6. Range(t) = Range(s) \cup {x}
  BY <1>1, <1>2, <1>3 DEF Range
<1> QED
  BY <1>5, <1>6 DEF t

\* Unlinking the entry at position n.
LEMMA RemoveFromList ==
  ASSUME NEW S, NEW s \in Seq(S), IsInjective(s), NEW n \in 1 .. Len(s)
  PROVE  /\ Unlink(s, n) \in Seq(S)
         /\ Len(Unlink(s, n)) = Len(s) - 1
         /\ IsInjective(Unlink(s, n))
         /\ s[n] \in Range(s)
         /\ Range(Unlink(s, n)) = Range(s) \ {s[n]}
<1> DEFINE a == SubSeq(s, 1, n - 1)
           b == SubSeq(s, n + 1, Len(s))
           t == a \o b
<1>1. Len(s) \in Nat /\ DOMAIN s = 1 .. Len(s)
  BY LenProperties
<1>2. /\ a \in Seq(S) /\ Len(a) = n - 1
      /\ \A i \in 1 .. n - 1 : a[i] = s[i]
  <2>1. \A i \in 1 .. n - 1 : s[i] \in S
    BY <1>1, ElementOfSeq
  <2>2. /\ a \in Seq(S) /\ Len(a) = IF 1 <= n - 1 THEN (n - 1) - 1 + 1 ELSE 0
        /\ \A i \in 1 .. (n - 1) - 1 + 1 : a[i] = s[1 + i - 1]
    BY <1>1, <2>1, SubSeqProperties
  <2> HIDE DEF a
  <2> QED
    BY <1>1, <2>2
<1>3. /\ b \in Seq(S) /\ Len(b) = Len(s) - n
      /\ \A i \in 1 .. Len(s) - n : b[i] = s[n + i]
  <2>1. \A i \in n + 1 .. Len(s) : s[i] \in S
    BY <1>1, ElementOfSeq
  <2>2. /\ b \in Seq(S) /\ Len(b) = IF n + 1 <= Len(s) THEN Len(s) - (n + 1) + 1 ELSE 0
        /\ \A i \in 1 .. Len(s) - (n + 1) + 1 : b[i] = s[(n + 1) + i - 1]
    BY <1>1, <2>1, SubSeqProperties
  <2> HIDE DEF b
  <2>3. Len(b) = Len(s) - n
    <3>1. Len(s) \in Nat
      BY <1>1
    <3> QED
      BY <2>2, <3>1
  <2>4. ASSUME NEW i \in 1 .. Len(s) - n PROVE b[i] = s[n + i]
    <3>1. i \in 1 .. Len(s) - (n + 1) + 1 /\ (n + 1) + i - 1 = n + i
      BY <1>1
    <3> QED
      BY <2>2, <3>1
  <2> QED
    BY <2>2, <2>3, <2>4
<1>4. t \in Seq(S) /\ Len(t) = Len(a) + Len(b)
      /\ \A i \in 1 .. Len(a) + Len(b) : t[i] = IF i <= Len(a) THEN a[i] ELSE b[i - Len(a)]
  BY <1>2, <1>3, ConcatProperties, Zenon
<1> HIDE DEF a, b
<1>5. Len(t) = Len(s) - 1
  BY <1>1, <1>2, <1>3, <1>4
<1>6. DOMAIN t = 1 .. Len(s) - 1
  BY <1>4, <1>5, LenProperties
<1> HIDE DEF t
<1>7. ASSUME NEW i \in 1 .. Len(s) - 1
      PROVE  t[i] = IF i < n THEN s[i] ELSE s[i + 1]
  <2>1. i \in 1 .. Len(a) + Len(b)
    BY <1>1, <1>2, <1>3
  <2>2. CASE i < n
    <3>1. i \in 1 .. n - 1 /\ i <= Len(a)
      BY <1>1, <1>2, <2>2
    <3> QED
      BY <1>2, <1>4, <2>1, <2>2, <3>1
  <2>3. CASE ~(i < n)
    <3>1. /\ i - (n - 1) \in 1 .. Len(s) - n /\ n + (i - (n - 1)) = i + 1
          /\ ~(i <= Len(a)) /\ i - Len(a) = i - (n - 1)
      BY <1>1, <1>2, <2>3
    <3>2. b[i - (n - 1)] = s[n + (i - (n - 1))]
      BY <3>1, <1>3
    <3> QED
      BY <1>4, <2>1, <2>3, <3>1, <3>2
  <2> QED
    BY <2>2, <2>3
<1>8. IsInjective(t)
  <2>1. SUFFICES ASSUME NEW i \in 1 .. Len(s) - 1, NEW j \in 1 .. Len(s) - 1,
                        t[i] = t[j]
                 PROVE  i = j
    BY <1>6 DEF IsInjective
  <2>2. i \in DOMAIN s /\ i + 1 \in DOMAIN s /\ j \in DOMAIN s /\ j + 1 \in DOMAIN s
    BY <1>1
  <2>3. (IF i < n THEN s[i] ELSE s[i + 1]) = (IF j < n THEN s[j] ELSE s[j + 1])
    BY <1>7, <2>1
  <2>4. (IF i < n THEN i ELSE i + 1) = (IF j < n THEN j ELSE j + 1)
    BY <2>2, <2>3 DEF IsInjective
  <2> QED
    BY <2>4, <1>1
<1>9. Range(t) \subseteq Range(s) \ {s[n]}
  <2>1. SUFFICES ASSUME NEW i \in 1 .. Len(s) - 1
                 PROVE  t[i] \in Range(s) /\ t[i] # s[n]
    BY <1>6 DEF Range
  <2>2. \E j \in 1 .. Len(s) : t[i] = s[j] /\ j # n
    BY <1>1, <1>7
  <2> QED
    BY <2>2, <1>1 DEF Range, IsInjective
<1>10. Range(s) \ {s[n]} \subseteq Range(t)
  <2>1. SUFFICES ASSUME NEW i \in 1 .. Len(s), s[i] # s[n]
                 PROVE  s[i] \in Range(t)
    BY <1>1 DEF Range
  <2>2. \E j \in 1 .. Len(s) - 1 : t[j] = s[i]
    <3>1. CASE i < n
      BY <3>1, <1>1, <1>7
    <3>2. CASE i > n
      <4>1. i - 1 \in 1 .. Len(s) - 1 /\ ~(i - 1 < n) /\ (i - 1) + 1 = i
        BY <3>2, <1>1
      <4> QED
        BY <4>1, <1>7, Zenon
    <3> QED
      BY <2>1, <3>1, <3>2, <1>1
  <2> QED
    BY <2>2, <1>6 DEF Range
<1>11. s[n] \in Range(s)
  BY <1>1 DEF Range
<1> QED
  BY <1>4, <1>5, <1>8, <1>9, <1>10, <1>11 DEF t, a, b, Unlink
-----------------------------------------------------------------------------
\* Membership in the set of entries of a table.
LEMMA EntriesOf ==
  ASSUME NEW list
  PROVE  /\ \A r \in Root : \A n \in 1 .. Len(list[r]) : <<r, n>> \in Entries(list)
         /\ \A e \in Entries(list) :
              \E r \in Root : \E n \in 1 .. Len(list[r]) : e = <<r, n>>
         /\ \A r, n : <<r, n>> \in Entries(list) =>
              r \in Root /\ n \in 1 .. Len(list[r])
  BY DEF Entries

DiffersOnlyAt(new, list, r) ==
  /\ new \in [Root -> Seq(Block)]
  /\ \A q \in Root \ {r} : new[q] = list[q]

\* Replacing list r of a table by another list of blocks of the same plane.
LEMMA ReplaceList ==
  ASSUME NEW list \in [Root -> Seq(Block)], Filed(list), NEW r \in Root,
         NEW new, DiffersOnlyAt(new, list, r), FiledIn(new[r], r)
  PROVE  /\ Filed(new)
         /\ Listed(new) = (Listed(list) \ Range(list[r])) \cup Range(new[r])
<1> USE DEF DiffersOnlyAt
<1>1. Filed(new)
  BY Zenon DEF Filed
<1>2. \A q \in Root \ {r} : Range(list[q]) \cap Range(list[r]) = {}
  BY DEF Filed, FiledIn
<1>3. Listed(new) \subseteq (Listed(list) \ Range(list[r])) \cup Range(new[r])
  <2>1. SUFFICES ASSUME NEW q \in Root, NEW b \in Range(new[q]), b \notin Range(new[r])
                 PROVE  b \in Listed(list) /\ b \notin Range(list[r])
    BY DEF Listed
  <2>2. q # r /\ b \in Range(list[q])
    BY <2>1
  <2> QED
    BY <1>2, <2>2 DEF Listed
<1>4. (Listed(list) \ Range(list[r])) \cup Range(new[r]) \subseteq Listed(new)
  <2>1. Range(new[r]) \subseteq Listed(new)
    BY DEF Listed
  <2>2. SUFFICES ASSUME NEW q \in Root, NEW b \in Range(list[q]), b \notin Range(list[r])
                 PROVE  b \in Listed(new)
    BY <2>1 DEF Listed
  <2>3. q # r /\ b \in Range(new[q])
    BY <2>2
  <2> QED
    BY <2>3 DEF Listed
<1> QED
  BY <1>1, <1>3, <1>4

\* GET_EMPTY_BLOCK takes the head off list r.
LEMMA TailOfTable ==
  ASSUME NEW list \in [Root -> Seq(Block)], Filed(list), IsFiniteSet(Entries(list)),
         NEW r \in Root, list[r] # <<>>,
         NEW new, new = [list EXCEPT ![r] = Tail(list[r])]
  PROVE  /\ new \in [Root -> Seq(Block)]
         /\ Filed(new)
         /\ Head(list[r]) \in Listed(list)
         /\ Listed(new) = Listed(list) \ {Head(list[r])}
         /\ IsFiniteSet(Entries(new))
         /\ Cardinality(Entries(new)) = Cardinality(Entries(list)) - 1
<1> DEFINE s == Tail(list[r])
<1>1. list[r] \in Seq(Block) /\ IsInjective(list[r])
  BY DEF Filed, FiledIn
<1>2. /\ IsInjective(s)
      /\ Head(list[r]) \in Range(list[r])
      /\ Range(s) = Range(list[r]) \ {Head(list[r])}
  BY <1>1, TailOfList
<1>3. s \in Seq(Block) /\ Len(s) = Len(list[r]) - 1
  BY <1>1, HeadTailProperties
<1>4. Len(list[r]) \in Nat \ {0}
  BY <1>1, EmptySeq
<1> HIDE DEF s
<1>5. \A b \in Range(s) : RootOf(b) = r
  BY <1>2 DEF Filed, FiledIn
<1>6. /\ new \in [Root -> Seq(Block)] /\ Filed(new)
      /\ Listed(new) = (Listed(list) \ Range(list[r])) \cup Range(s)
  <2>1. /\ new \in [Root -> Seq(Block)] /\ new[r] = s
        /\ \A q \in Root \ {r} : new[q] = list[q]
    BY <1>3 DEF s
  <2>2. DiffersOnlyAt(new, list, r) /\ FiledIn(new[r], r)
    BY <1>2, <1>5, <2>1, Zenon DEF DiffersOnlyAt, FiledIn
  <2>3. /\ Filed(new)
        /\ Listed(new) = (Listed(list) \ Range(list[r])) \cup Range(new[r])
    BY <2>2, ReplaceList, Zenon
  <2> QED
    BY <2>1, <2>3, Zenon
<1>7. Range(list[r]) \subseteq Listed(list)
  BY DEF Listed
<1>8. Listed(new) = Listed(list) \ {Head(list[r])}
  BY <1>2, <1>6, <1>7, Zenon
<1>9. Entries(new) = Entries(list) \ {<<r, Len(list[r])>>}
  <2>1. /\ Len(new[r]) = Len(list[r]) - 1
        /\ \A q \in Root \ {r} : new[q] = list[q]
    BY <1>3 DEF s
  <2>2. 1 .. Len(new[r]) = (1 .. Len(list[r])) \ {Len(list[r])}
    BY <2>1, <1>4
  <2> QED
    BY <2>1, <2>2 DEF Entries
<1>10. <<r, Len(list[r])>> \in Entries(list)
  BY <1>4, EntriesOf
<1>11. /\ IsFiniteSet(Entries(new))
       /\ Cardinality(Entries(new)) = Cardinality(Entries(list)) - 1
  <2> DEFINE x == <<r, Len(list[r])>>
  <2> HIDE DEF x
  <2>1. /\ IsFiniteSet(Entries(list) \ {x})
        /\ Cardinality(Entries(list) \ {x}) = Cardinality(Entries(list)) - 1
    BY <1>10, FS_RemoveElement, Zenon DEF x
  <2> QED
    BY <1>9, <2>1, Zenon DEF x
<1> QED
  BY <1>2, <1>6, <1>7, <1>8, <1>11, Zenon

\* INSERT_EMPTY_BLOCK and INSERT_VICTIM_BLOCK add b to the end of its list.
LEMMA AppendToTable ==
  ASSUME NEW list \in [Root -> Seq(Block)], Filed(list), IsFiniteSet(Entries(list)),
         NEW b \in Block, b \notin Listed(list),
         NEW new, new = [list EXCEPT ![RootOf(b)] = Append(list[RootOf(b)], b)]
  PROVE  /\ new \in [Root -> Seq(Block)]
         /\ Filed(new)
         /\ Listed(new) = Listed(list) \cup {b}
         /\ IsFiniteSet(Entries(new))
         /\ Cardinality(Entries(new)) = Cardinality(Entries(list)) + 1
<1> DEFINE r == RootOf(b)
           s == Append(list[r], b)
<1>1. r \in Root
  BY RootInRange
<1>2. list[r] \in Seq(Block) /\ IsInjective(list[r])
  BY <1>1 DEF Filed, FiledIn
<1>3. Range(list[r]) \subseteq Listed(list)
  BY <1>1 DEF Listed
<1>4. IsInjective(s) /\ Range(s) = Range(list[r]) \cup {b}
  BY <1>2, <1>3, AppendToList
<1>5. s \in Seq(Block) /\ Len(s) = Len(list[r]) + 1
  BY <1>2, AppendProperties
<1>6. Len(list[r]) \in Nat
  BY <1>2, LenProperties
<1>7. \A x \in Range(s) : RootOf(x) = r
  BY <1>1, <1>4 DEF Filed, FiledIn
<1>8. new = [list EXCEPT ![r] = s]
  OBVIOUS
<1> HIDE DEF r, s
<1>9. /\ new \in [Root -> Seq(Block)] /\ Filed(new)
      /\ Listed(new) = (Listed(list) \ Range(list[r])) \cup Range(s)
  <2>1. /\ new \in [Root -> Seq(Block)] /\ new[r] = s
        /\ \A q \in Root \ {r} : new[q] = list[q]
    BY <1>1, <1>5, <1>8
  <2>2. DiffersOnlyAt(new, list, r) /\ FiledIn(new[r], r)
    BY <1>1, <1>4, <1>7, <2>1, Zenon DEF DiffersOnlyAt, FiledIn
  <2>3. /\ Filed(new)
        /\ Listed(new) = (Listed(list) \ Range(list[r])) \cup Range(new[r])
    BY <1>1, <2>2, ReplaceList, Zenon
  <2> QED
    BY <2>1, <2>3, Zenon
<1>10. Listed(new) = Listed(list) \cup {b}
  BY <1>3, <1>4, <1>9, Zenon
<1>11. Entries(new) = Entries(list) \cup {<<r, Len(list[r]) + 1>>}
  <2>1. /\ Len(new[r]) = Len(list[r]) + 1
        /\ \A q \in Root \ {r} : new[q] = list[q]
    BY <1>1, <1>5, <1>8
  <2>2. 1 .. Len(new[r]) = (1 .. Len(list[r])) \cup {Len(list[r]) + 1}
    BY <2>1, <1>6
  <2> QED
    BY <1>1, <2>1, <2>2 DEF Entries
<1>12. <<r, Len(list[r]) + 1>> \notin Entries(list)
  BY <1>6, EntriesOf
<1>13. /\ IsFiniteSet(Entries(new))
       /\ Cardinality(Entries(new)) = Cardinality(Entries(list)) + 1
  BY <1>11, <1>12, FS_AddElement, ZenonT(40)
<1> QED
  BY <1>9, <1>10, <1>13, Zenon

\* EJECT_VICTIM_BLOCK unlinks an entry of a table.
LEMMA RemoveFromTable ==
  ASSUME NEW list \in [Root -> Seq(Block)], Filed(list), IsFiniteSet(Entries(list)),
         NEW e \in Entries(list),
         NEW new, new = [list EXCEPT ![e[1]] = Unlink(list[e[1]], e[2])]
  PROVE  /\ new \in [Root -> Seq(Block)]
         /\ Filed(new)
         /\ list[e[1]][e[2]] \in Listed(list)
         /\ Listed(new) = Listed(list) \ {list[e[1]][e[2]]}
         /\ IsFiniteSet(Entries(new))
         /\ Cardinality(Entries(new)) = Cardinality(Entries(list)) - 1
<1> DEFINE r == e[1]
           n == e[2]
           s == Unlink(list[r], n)
<1>1. r \in Root /\ n \in 1 .. Len(list[r])
  BY EntriesOf
<1>2. list[r] \in Seq(Block) /\ IsInjective(list[r])
  BY <1>1 DEF Filed, FiledIn
<1>3. /\ s \in Seq(Block) /\ Len(s) = Len(list[r]) - 1
      /\ IsInjective(s)
      /\ list[r][n] \in Range(list[r])
      /\ Range(s) = Range(list[r]) \ {list[r][n]}
  BY <1>1, <1>2, RemoveFromList, Zenon
<1>4. Len(list[r]) \in Nat
  BY <1>2, LenProperties
<1>5. new = [list EXCEPT ![r] = s]
  OBVIOUS
<1>6. \A b \in Range(s) : RootOf(b) = r
  BY <1>1, <1>3 DEF Filed, FiledIn
<1> HIDE DEF r, n, s
<1>7. /\ new \in [Root -> Seq(Block)] /\ Filed(new)
      /\ Listed(new) = (Listed(list) \ Range(list[r])) \cup Range(s)
  <2>1. /\ new \in [Root -> Seq(Block)] /\ new[r] = s
        /\ \A q \in Root \ {r} : new[q] = list[q]
    BY <1>1, <1>3, <1>5
  <2>2. DiffersOnlyAt(new, list, r) /\ FiledIn(new[r], r)
    BY <1>1, <1>3, <1>6, <2>1 DEF DiffersOnlyAt, FiledIn
  <2>3. /\ Filed(new)
        /\ Listed(new) = (Listed(list) \ Range(list[r])) \cup Range(new[r])
    BY <1>1, <2>2, ReplaceList, Zenon
  <2> QED
    BY <2>1, <2>3, Zenon
<1>8. Range(list[r]) \subseteq Listed(list)
  BY <1>1 DEF Listed
<1>9. Listed(new) = Listed(list) \ {list[r][n]}
  BY <1>3, <1>7, <1>8, Zenon
<1>10. Entries(new) = Entries(list) \ {<<r, Len(list[r])>>}
  <2>1. /\ Len(new[r]) = Len(list[r]) - 1
        /\ \A q \in Root \ {r} : new[q] = list[q]
    BY <1>1, <1>3, <1>5, Zenon
  <2>2. 1 .. Len(new[r]) = (1 .. Len(list[r])) \ {Len(list[r])}
    BY <2>1, <1>1, <1>4
  <2> QED
    BY <1>1, <2>1, <2>2 DEF Entries
<1>11. <<r, Len(list[r])>> \in Entries(list)
  <2>1. Len(list[r]) \in 1 .. Len(list[r])
    BY <1>1, <1>4
  <2> QED
    BY <1>1, <2>1, EntriesOf
<1>12. /\ IsFiniteSet(Entries(new))
       /\ Cardinality(Entries(new)) = Cardinality(Entries(list)) - 1
  <2> DEFINE x == <<r, Len(list[r])>>
  <2> HIDE DEF x
  <2>1. /\ IsFiniteSet(Entries(list) \ {x})
        /\ Cardinality(Entries(list) \ {x}) = Cardinality(Entries(list)) - 1
    BY <1>11, FS_RemoveElement, Zenon DEF x
  <2> QED
    BY <1>10, <2>1, Zenon DEF x
<1> QED
  BY <1>3, <1>7, <1>8, <1>9, <1>12, Zenon DEF r, n
-----------------------------------------------------------------------------
(***************************************************************************)
(* The lists that INIT_EMPTY_BLOCK_LIST builds.                            *)
(***************************************************************************)
\* The planes share the blocks of a flash memory evenly.
LEMMA EachCount ==
  /\ EACH_EMPTY_TABLE_ENTRY_NB \in Nat
  /\ BLOCK_NB = PLANES_PER_FLASH * EACH_EMPTY_TABLE_ENTRY_NB
  BY DivMod, GeometryAssumption, PlanesAssumption DEF EACH_EMPTY_TABLE_ENTRY_NB

\* The parts of a list index.
LEMMA RootParts ==
  ASSUME NEW r \in Root
  PROVE  /\ r % FLASH_NB \in Flash
         /\ r \div FLASH_NB \in 0 .. PLANES_PER_FLASH - 1
         /\ r = (r \div FLASH_NB) * FLASH_NB + (r % FLASH_NB)
<1> DEFINE j == r \div FLASH_NB
           f == r % FLASH_NB
<1>1. r \in Nat /\ r < FLASH_NB * PLANES_PER_FLASH
  BY Sizes DEF Root, EMPTY_TABLE_ENTRY_NB
<1>2. j \in Nat /\ f \in 0 .. FLASH_NB - 1 /\ r = FLASH_NB * j + f
  BY <1>1, DivMod, GeometryAssumption, Zenon
<1> HIDE DEF j, f
<1>3. j < PLANES_PER_FLASH
  <2>1. SUFFICES ASSUME j >= PLANES_PER_FLASH PROVE FALSE
    BY <1>2, GeometryAssumption
  <2>2. FLASH_NB * j >= FLASH_NB * PLANES_PER_FLASH
    BY <2>1, <1>2, GeometryAssumption
  <2> QED
    BY <2>2, <1>1, <1>2, GeometryAssumption
<1>4. FLASH_NB * j = j * FLASH_NB
  BY <1>2, GeometryAssumption
<1> QED
  BY <1>2, <1>3, <1>4, GeometryAssumption DEF j, f, Flash

\* A block given by flash memory and block number, and its parts.
LEMMA StateIndexParts ==
  ASSUME NEW f \in Flash, NEW k \in 0 .. BLOCK_NB - 1
  PROVE  /\ StateIndex(f, k) \in Block
         /\ StateIndex(f, k) \div BLOCK_NB = f
         /\ StateIndex(f, k) % BLOCK_NB = k
         /\ RootOf(StateIndex(f, k)) = (k % PLANES_PER_FLASH) * FLASH_NB + f
<1>1. f \in Nat /\ f <= FLASH_NB - 1 /\ k \in Nat
  BY GeometryAssumption DEF Flash
<1>2. StateIndex(f, k) = BLOCK_NB * f + k
  BY <1>1, GeometryAssumption DEF StateIndex
<1>3. StateIndex(f, k) \div BLOCK_NB = f /\ StateIndex(f, k) % BLOCK_NB = k
  BY <1>1, <1>2, DivUnique, GeometryAssumption
<1>4. StateIndex(f, k) \in Block
  <2>1. BLOCK_NB * f <= BLOCK_NB * (FLASH_NB - 1) /\ BLOCK_NB * f \in Nat
    BY <1>1, GeometryAssumption
  <2>2. BLOCK_NB * (FLASH_NB - 1) = BLOCK_MAPPING_ENTRY_NB - BLOCK_NB
    BY GeometryAssumption DEF BLOCK_MAPPING_ENTRY_NB
  <2> QED
    BY <1>1, <1>2, <2>1, <2>2, Sizes, GeometryAssumption DEF Block
<1> QED
  BY <1>3, <1>4 DEF RootOf, ListIndex

\* The n-th block of an initial list.
LEMMA InitialEntry ==
  ASSUME NEW r \in Root, NEW n \in 1 .. EACH_EMPTY_TABLE_ENTRY_NB
  PROVE  /\ InitialList(r)[n] \in Block
         /\ RootOf(InitialList(r)[n]) = r
         /\ (InitialList(r)[n] % BLOCK_NB) \div PLANES_PER_FLASH = n - 1
<1> DEFINE j == r \div FLASH_NB
           f == r % FLASH_NB
           k == j + (n - 1) * PLANES_PER_FLASH
<1>1. f \in Flash /\ j \in 0 .. PLANES_PER_FLASH - 1 /\ r = j * FLASH_NB + f
  BY RootParts
<1>2. InitialList(r)[n] = StateIndex(f, k)
  BY DEF InitialList
<1> HIDE DEF j, f
<1>3. n - 1 \in Nat /\ n - 1 <= EACH_EMPTY_TABLE_ENTRY_NB - 1
  BY EachCount
<1>4. k = PLANES_PER_FLASH * (n - 1) + j
  BY <1>1, <1>3, GeometryAssumption
<1> HIDE DEF k
<1>5. k \div PLANES_PER_FLASH = n - 1 /\ k % PLANES_PER_FLASH = j
  BY <1>1, <1>3, <1>4, DivUnique, GeometryAssumption, Zenon
<1>6. k \in 0 .. BLOCK_NB - 1
  <2> DEFINE e == EACH_EMPTY_TABLE_ENTRY_NB
  <2>1. e \in Nat /\ BLOCK_NB = PLANES_PER_FLASH * e
    BY EachCount
  <2> HIDE DEF e
  <2>2. n - 1 <= e - 1
    BY <1>3 DEF e
  <2>3. /\ PLANES_PER_FLASH * (n - 1) <= PLANES_PER_FLASH * (e - 1)
        /\ PLANES_PER_FLASH * (n - 1) \in Nat
    BY <1>3, <2>1, <2>2, GeometryAssumption
  <2>4. PLANES_PER_FLASH * (e - 1) = BLOCK_NB - PLANES_PER_FLASH
    BY <2>1, GeometryAssumption
  <2> QED
    BY <1>1, <1>4, <2>3, <2>4, GeometryAssumption
<1>7. /\ StateIndex(f, k) \in Block
      /\ StateIndex(f, k) % BLOCK_NB = k
      /\ RootOf(StateIndex(f, k)) = (k % PLANES_PER_FLASH) * FLASH_NB + f
  BY <1>1, <1>6, StateIndexParts
<1> QED
  BY <1>1, <1>2, <1>5, <1>7

\* Every block is in the initial list of its plane.
LEMMA InitialCover ==
  ASSUME NEW b \in Block
  PROVE  \E n \in 1 .. EACH_EMPTY_TABLE_ENTRY_NB : InitialList(RootOf(b))[n] = b
<1> DEFINE f == b \div BLOCK_NB
           k == b % BLOCK_NB
           j == k % PLANES_PER_FLASH
           m == k \div PLANES_PER_FLASH
           r == RootOf(b)
           e == EACH_EMPTY_TABLE_ENTRY_NB
<1>1. f \in Flash /\ k \in 0 .. BLOCK_NB - 1 /\ StateIndex(f, k) = b
  BY BlockParts
<1>2. f \in 0 .. FLASH_NB - 1 /\ k \in Nat
  BY <1>1, GeometryAssumption DEF Flash
<1>3. r = j * FLASH_NB + f
  BY DEF RootOf, ListIndex
<1>4. r \in Root
  BY RootInRange
<1>5. e \in Nat /\ BLOCK_NB = PLANES_PER_FLASH * e
  BY EachCount
<1> HIDE DEF f, k
<1>6. m \in Nat /\ j \in 0 .. PLANES_PER_FLASH - 1 /\ k = PLANES_PER_FLASH * m + j
  BY <1>2, DivMod, GeometryAssumption, Zenon
<1> HIDE DEF j, m, r
<1>7. r \div FLASH_NB = j /\ r % FLASH_NB = f
  <2>1. r = FLASH_NB * j + f
    BY <1>2, <1>3, <1>6, GeometryAssumption
  <2> QED
    BY <1>2, <1>6, <2>1, DivUnique, GeometryAssumption
<1> HIDE DEF e
<1>8. m < e
  <2>1. SUFFICES ASSUME m >= e PROVE FALSE
    BY <1>5, <1>6
  <2>2. PLANES_PER_FLASH * m >= PLANES_PER_FLASH * e
    BY <2>1, <1>5, <1>6, GeometryAssumption
  <2> QED
    BY <2>2, <1>1, <1>5, <1>6, GeometryAssumption
<1>9. m + 1 \in 1 .. e
  BY <1>5, <1>6, <1>8
<1>10. j + ((m + 1) - 1) * PLANES_PER_FLASH = k
  BY <1>6, GeometryAssumption
<1>11. InitialList(r)[m + 1] = b
  BY <1>1, <1>7, <1>9, <1>10 DEF InitialList, e
<1> QED
  BY <1>9, <1>11 DEF e, r

\* After FTL_INIT on a fresh device every block is in the empty list of its
\* plane, once, and the total that FTL_INIT sets is the number of entries.
THEOREM InitialTable ==
  ASSUME NEW list, list = [r \in Root |-> InitialList(r)]
  PROVE  /\ list \in [Root -> Seq(Block)]
         /\ Filed(list)
         /\ Listed(list) = Block
         /\ IsFiniteSet(Entries(list))
         /\ Cardinality(Entries(list)) = BLOCK_MAPPING_ENTRY_NB
<1> DEFINE e == EACH_EMPTY_TABLE_ENTRY_NB
<1>1. e \in Nat /\ BLOCK_NB = PLANES_PER_FLASH * e
  BY EachCount
<1>2. ASSUME NEW r \in Root
      PROVE  /\ list[r] \in Seq(Block)
             /\ Len(list[r]) = e /\ DOMAIN list[r] = 1 .. e
             /\ \A n \in 1 .. e : list[r][n] = InitialList(r)[n]
  <2>1. list[r] = InitialList(r)
    OBVIOUS
  <2>2. InitialList(r) \in [1 .. e -> Block]
    BY InitialEntry DEF InitialList
  <2>3. InitialList(r) \in Seq(Block)
    BY <1>1, <2>2
  <2>4. DOMAIN InitialList(r) = 1 .. e /\ Len(InitialList(r)) = e
    BY <1>1, <2>2, <2>3, LenProperties
  <2> QED
    BY <2>1, <2>3, <2>4
<1> HIDE DEF e
<1>3. list \in [Root -> Seq(Block)]
  BY <1>2
<1>4. ASSUME NEW r \in Root PROVE FiledIn(list[r], r)
  <2>1. \A n \in 1 .. e : RootOf(list[r][n]) = r
    BY <1>2, InitialEntry DEF e
  <2>2. ASSUME NEW m \in 1 .. e, NEW n \in 1 .. e, list[r][m] = list[r][n]
        PROVE  m = n
    <3>1. m - 1 = n - 1
      BY <1>2, <2>2, InitialEntry DEF e
    <3> QED
      BY <3>1, <1>1
  <2> QED
    BY <1>2, <2>1, <2>2 DEF FiledIn, IsInjective, Range
<1>5. Filed(list)
  BY <1>4 DEF Filed
<1>6. Listed(list) \subseteq Block
  BY <1>2, ElementOfSeq DEF Listed, Range
<1>7. Block \subseteq Listed(list)
  <2>1. SUFFICES ASSUME NEW b \in Block PROVE b \in Listed(list)
    OBVIOUS
  <2>2. PICK n \in 1 .. e : InitialList(RootOf(b))[n] = b
    BY InitialCover DEF e
  <2>3. RootOf(b) \in Root
    BY RootInRange
  <2>4. b \in Range(list[RootOf(b)])
    BY <1>2, <2>2, <2>3 DEF Range
  <2> QED
    BY <2>3, <2>4 DEF Listed
<1>8. Entries(list) = Root \X (1 .. e)
  BY <1>2 DEF Entries
<1>9. IsFiniteSet(Root) /\ Cardinality(Root) = EMPTY_TABLE_ENTRY_NB
  BY FS_Interval, Sizes DEF Root
<1>10. IsFiniteSet(1 .. e) /\ Cardinality(1 .. e) = e
  BY FS_Interval, <1>1
<1>11. /\ IsFiniteSet(Entries(list))
       /\ Cardinality(Entries(list)) = EMPTY_TABLE_ENTRY_NB * e
  <2> DEFINE T == 1 .. e
  <2> HIDE DEF T
  <2>1. /\ IsFiniteSet(Root \X T)
        /\ Cardinality(Root \X T) = Cardinality(Root) * Cardinality(T)
    BY <1>9, <1>10, FS_Product, Zenon DEF T
  <2> QED
    BY <1>8, <1>9, <1>10, <2>1, Zenon DEF T
<1>12. EMPTY_TABLE_ENTRY_NB * e = BLOCK_MAPPING_ENTRY_NB
  <2>1. FLASH_NB * PLANES_PER_FLASH * e = FLASH_NB * (PLANES_PER_FLASH * e)
    BY <1>1, GeometryAssumption
  <2> QED
    BY <1>1, <2>1 DEF EMPTY_TABLE_ENTRY_NB, BLOCK_MAPPING_ENTRY_NB
<1> QED
  BY <1>3, <1>5, <1>6, <1>7, <1>11, <1>12, Zenon
-----------------------------------------------------------------------------
(***************************************************************************)
(* The steps that move blocks between lists.                               *)
(***************************************************************************)
\* A ppn and its parts determine each other.
LEMMA PpnFacts ==
  /\ \A p \in PPN : BlockOf(p) \in Block /\ CALC_PAGE(p) \in Page
  /\ \A p, q \in PPN : BlockOf(p) = BlockOf(q) /\ CALC_PAGE(p) = CALC_PAGE(q) => p = q
  BY DecodeEncode

\* -1 is no page number and no block.
LEMMA NoneFacts == None \notin PPN /\ None \notin LPN /\ None \notin Block
  BY Sizes DEF None, PPN, LPN, Block

\* FTL_INIT on a fresh device establishes the invariant.
LEMMA InitInv == Init => IInv
<1> SUFFICES ASSUME Init PROVE IInv
  OBVIOUS
<1> USE DEF INIT_MAPPING_TABLE, INIT_INVERSE_MAPPING_TABLE, INIT_VALID_ARRAY,
            INIT_EMPTY_BLOCK_LIST, INIT_VICTIM_BLOCK_LIST
<1>1. empty_block_list = [r \in Root |-> InitialList(r)]
  BY DEF Init
<1>2. /\ empty_block_list \in [Root -> Seq(Block)] /\ Filed(empty_block_list)
      /\ Listed(empty_block_list) = Block
      /\ IsFiniteSet(Entries(empty_block_list))
      /\ Cardinality(Entries(empty_block_list)) = BLOCK_MAPPING_ENTRY_NB
  BY <1>1, InitialTable
<1>3. victim_block_list \in [Root -> Seq(Block)] /\ \A r \in Root : victim_block_list[r] = <<>>
  BY DEF Init
<1>4. Listed(victim_block_list) = {} /\ Entries(victim_block_list) = {}
  BY <1>3 DEF Listed, Entries, Range
<1>5. Filed(victim_block_list)
  BY <1>3 DEF Filed, FiledIn, IsInjective, Range
<1>6. TypeOK
  <2>1. 0 \in Root /\ 0 \in 0 .. PAGE_NB /\ 0 \in 0 .. HOST_PAGE_NB /\ 0 \in 0 .. GC_VICTIM_NB
    BY Sizes, GeometryAssumption, HostAssumption DEF Root
  <2>2. BLOCK_MAPPING_ENTRY_NB \in Int
    BY Sizes
  <2>3. result \in Seq(Data \cup {NoData})
    BY DEF Init
  <2> QED
    BY <1>2, <1>3, <2>1, <2>2, <2>3 DEF Init, TypeOK
<1>7. BlocksPartitioned
  BY <1>2, <1>4, <1>5, Zenon DEF Init, BlocksPartitioned, Collected
<1>8. ListsFinite /\ TotalsExact
  BY <1>2, <1>4, FS_EmptySet, Zenon DEF Init, ListsFinite, TotalsExact
<1>9. FreePagesErased
  <2>1. ASSUME NEW p \in PPN PROVE ~(CALC_PAGE(p) < curr_phy_page_nb[BlockOf(p)])
    <3>1. BlockOf(p) \in Block /\ CALC_PAGE(p) \in Page
      BY PpnFacts
    <3>2. curr_phy_page_nb[BlockOf(p)] = 0
      BY <3>1 DEF Init
    <3> QED
      BY <3>1, <3>2, GeometryAssumption DEF Page
  <2> QED
    BY <2>1 DEF Init, FreePagesErased
<1>10. MappingSound
  BY DEF Init, MappingSound
<1>11. ValidIsCurrent
  BY DEF Init, ValidIsCurrent
<1>12. LocalsInScope /\ VictimDrained /\ CopyCountSoFar
  BY DEF Init, LocalsInScope, VictimDrained, CopyCountSoFar
<1> QED
  BY <1>6, <1>7, <1>8, <1>9, <1>10, <1>11, <1>12 DEF IInv
-----------------------------------------------------------------------------
(***************************************************************************)
(* Allocation.                                                             *)
(***************************************************************************)
\* The list that is looked at is one of the table.
LEMMA CurrRootInRange == TypeOK => CurrRoot \in Root
  BY DEF TypeOK, CurrRoot

\* empty_block_table_index wraps inside the table.
LEMMA NextTableIndexInRange ==
  ASSUME NEW i \in Root
  PROVE  NextTableIndex(i) \in Root
  BY Sizes DEF NextTableIndex, Root

\* The page that GET_NEW_PAGE returns is a page of a block in an empty list;
\* it is erased and nothing is mapped to it.
LEMMA NewPageFacts ==
  ASSUME IInv, PageFound
  PROVE  /\ NewBlock \in Block
         /\ NewBlock \in Listed(empty_block_list)
         /\ NewBlock \notin Collected
         /\ curr_phy_page_nb[NewBlock] \in 0 .. PAGE_NB - 1
         /\ NewPpn \in PPN
         /\ BlockOf(NewPpn) = NewBlock
         /\ CALC_PAGE(NewPpn) = curr_phy_page_nb[NewBlock]
         /\ valid_array[NewPpn] = "0" /\ nand[NewPpn] = NoData
         /\ \A l \in LPN : mapping_table[l] # NewPpn
<1> DEFINE s == empty_block_list[CurrRoot]
           c == curr_phy_page_nb[NewBlock]
<1>1. CurrRoot \in Root
  BY CurrRootInRange DEF IInv
<1>2. s \in Seq(Block) /\ s # <<>> /\ IsInjective(s)
  BY <1>1 DEF IInv, TypeOK, BlocksPartitioned, Filed, FiledIn, PageFound
<1>3. NewBlock = Head(s) /\ Head(s) \in Block /\ Head(s) \in Range(s)
  BY <1>2, TailOfList, HeadTailProperties DEF NewBlock
<1>4. NewBlock \in Listed(empty_block_list)
  BY <1>1, <1>3 DEF Listed
<1>5. NewBlock \notin Collected
  BY <1>4 DEF IInv, BlocksPartitioned
<1>6. c \in 0 .. PAGE_NB - 1
  <2>1. c \in 0 .. PAGE_NB
    BY <1>3 DEF IInv, TypeOK
  <2>2. c # PAGE_NB
    BY DEF PageFound, HeadFull, NewBlock
  <2> QED
    BY <2>1, <2>2, GeometryAssumption
<1>7. NewPpn \in PPN /\ BlockOf(NewPpn) = NewBlock /\ CALC_PAGE(NewPpn) = c
  BY <1>3, <1>6, EncodeDecode DEF NewPpn, Page
<1>8. valid_array[NewPpn] = "0" /\ nand[NewPpn] = NoData
  <2>1. ~(CALC_PAGE(NewPpn) < curr_phy_page_nb[BlockOf(NewPpn)])
    BY <1>6, <1>7, GeometryAssumption
  <2> QED
    BY <1>4, <1>7, <2>1 DEF IInv, FreePagesErased
<1>9. ASSUME NEW l \in LPN PROVE mapping_table[l] # NewPpn
  <2>1. NewPpn # None
    BY <1>7, NoneFacts
  <2> QED
    BY <1>8, <2>1 DEF IInv, MappingSound
<1> QED
  BY <1>3, <1>4, <1>5, <1>6, <1>7, <1>8, <1>9
-----------------------------------------------------------------------------
(***************************************************************************)
(* The steps that leave the tables and the lists alone.                    *)
(***************************************************************************)
tables == <<mapVars, listVars, curr_phy_page_nb, leaked>>

\* Inside a collection such a step keeps the invariant if it keeps the place
\* the collection has reached.
LEMMA SamePlace ==
  ASSUME IInv, UNCHANGED tables, TypeOK', LocalsInScope',
         UNCHANGED <<pc, victim, page, copy_page_nb>>
  PROVE  IInv'
<1>1. UNCHANGED <<mapVars, listVars, curr_phy_page_nb, leaked>>
  BY DEF tables
<1>2. BlocksPartitioned' /\ ListsFinite' /\ TotalsExact'
  BY <1>1 DEF IInv, listVars, BlocksPartitioned, Collected, ListsFinite, TotalsExact
<1>3. FreePagesErased' /\ MappingSound' /\ ValidIsCurrent' /\ VictimDrained'
  BY <1>1 DEF IInv, listVars, mapVars, FreePagesErased, MappingSound, ValidIsCurrent,
              VictimDrained
<1>4. CopyCountSoFar'
  BY <1>1 DEF IInv, mapVars, CopyCountSoFar
<1> QED
  BY <1>2, <1>3, <1>4 DEF IInv

\* Outside a collection any such step does.
LEMMA OutsideCollection ==
  ASSUME IInv, UNCHANGED tables, TypeOK', LocalsInScope', pc # "copy", pc' # "copy"
  PROVE  IInv'
<1>1. UNCHANGED <<mapVars, listVars, curr_phy_page_nb, leaked>>
  BY DEF tables
<1>2. BlocksPartitioned' /\ ListsFinite' /\ TotalsExact'
  BY <1>1 DEF IInv, listVars, BlocksPartitioned, Collected, ListsFinite, TotalsExact
<1>3. FreePagesErased' /\ MappingSound' /\ ValidIsCurrent' /\ VictimDrained'
  BY <1>1 DEF IInv, listVars, mapVars, FreePagesErased, MappingSound, ValidIsCurrent,
              VictimDrained
<1>4. CopyCountSoFar'
  BY DEF CopyCountSoFar
<1> QED
  BY <1>2, <1>3, <1>4 DEF IInv

\* Passing over an empty list preserves the invariant.
LEMMA SkipRootInv == IInv /\ SkipRoot => IInv'
<1> SUFFICES ASSUME IInv, SkipRoot PROVE IInv'
  OBVIOUS
<1>1. UNCHANGED tables /\ UNCHANGED <<pc, victim, page, copy_page_nb>>
  BY DEF SkipRoot, tables, gcVars
<1>2. TypeOK'
  BY NextTableIndexInRange
     DEF IInv, TypeOK, SkipRoot, mapVars, listVars, reqVars, gcVars, allocVars
<1>3. LocalsInScope'
  BY DEF IInv, LocalsInScope, SkipRoot, reqVars, gcVars, allocVars
<1> QED
  BY <1>1, <1>2, <1>3, SamePlace

\* The index INCHIP steps to, whatever plane it is, stays inside the table.
LEMMA NextPlaneIndexInRange ==
  ASSUME NEW i \in Root, PLANES_PER_FLASH # 1
  PROVE  NextPlaneIndex(i) \in Root
<1> DEFINE pl == PLANES_PER_FLASH
<1>1. i \in Nat /\ pl \in Nat /\ pl > 1 /\ FLASH_NB \in Nat /\ i + 1 <= FLASH_NB * pl
      /\ FLASH_NB * pl \in Nat
  BY Sizes, GeometryAssumption DEF Root, EMPTY_TABLE_ENTRY_NB
<1>2. CASE (i + 1) % pl = 0
  <2> DEFINE k == (i + 1) \div pl
  <2>1. k \in Nat /\ i + 1 = pl * k
    BY <1>1, <1>2, DivMod
  <2>2. k # 0
    BY <1>1, <2>1
  <2>3. pl * k >= pl
    BY <1>1, <2>1, <2>2
  <2>4. NextPlaneIndex(i) = i + 1 - (pl - 1)
    BY <1>2 DEF NextPlaneIndex
  <2> QED
    BY <1>1, <2>1, <2>3, <2>4 DEF Root, EMPTY_TABLE_ENTRY_NB
<1>3. CASE (i + 1) % pl # 0
  <2>1. i + 1 # FLASH_NB * pl
    <3>1. ASSUME i + 1 = FLASH_NB * pl PROVE FALSE
      <4>1. i + 1 = pl * FLASH_NB + 0
        BY <1>1, <3>1
      <4>2. 0 \in 0 .. pl - 1 /\ pl \in Nat \ {0}
        BY <1>1
      <4>3. (pl * FLASH_NB + 0) % pl = 0
        BY <1>1, <4>2, DivUnique
      <4> QED
        BY <1>3, <4>1, <4>3
    <3> QED
      BY <3>1
  <2>2. NextPlaneIndex(i) = i + 1
    BY <1>3 DEF NextPlaneIndex
  <2> QED
    BY <1>1, <2>1, <2>2 DEF Root, EMPTY_TABLE_ENTRY_NB
<1> QED
  BY <1>2, <1>3

\* So moving to it preserves the invariant.
LEMMA MovePlaneInv == IInv /\ MovePlane => IInv'
<1> SUFFICES ASSUME IInv, MovePlane PROVE IInv'
  OBVIOUS
<1>1. UNCHANGED tables /\ UNCHANGED <<pc, victim, page, copy_page_nb>>
  BY DEF MovePlane, tables, gcVars
<1>2. TypeOK'
  BY NextPlaneIndexInRange
     DEF IInv, TypeOK, MovePlane, mapVars, listVars, reqVars, gcVars
<1>3. LocalsInScope'
  BY DEF IInv, LocalsInScope, MovePlane, reqVars, gcVars
<1> QED
  BY <1>1, <1>2, <1>3, SamePlace

\* So does the second try of GET_NEW_PAGE.
LEMMA LeaveChipInv == IInv /\ LeaveChip => IInv'
<1> SUFFICES ASSUME IInv, LeaveChip PROVE IInv'
  OBVIOUS
<1>1. UNCHANGED tables /\ UNCHANGED <<pc, victim, page, copy_page_nb>>
  BY DEF LeaveChip, tables, gcVars
<1>2. TypeOK'
  BY DEF IInv, TypeOK, LeaveChip, mapVars, listVars, reqVars, gcVars
<1>3. LocalsInScope'
  BY DEF IInv, LocalsInScope, LeaveChip, reqVars, gcVars
<1> QED
  BY <1>1, <1>2, <1>3, SamePlace

\* Accepting a write request sets locals only.
LEMMA WriteCallInv ==
  ASSUME IInv, NEW l \in LPN, NEW n \in 1 .. MAX_REQ_PAGES, NEW d \in Data, SSD_WRITE(l, n, d)
  PROVE  IInv'
<1>1. UNCHANGED tables /\ pc # "copy" /\ pc' # "copy"
  BY DEF SSD_WRITE, tables
<1>2. l \in 0 .. HOST_PAGE_NB /\ n \in Nat
  BY HostAssumption, Sizes DEF SSD_WRITE, LPN
<1>3. result' \in Seq(Data \cup {NoData})
  BY DEF SSD_WRITE
<1>4. TypeOK'
  BY <1>2, <1>3 DEF IInv, TypeOK, SSD_WRITE, mapVars, listVars, gcVars
<1>5. LocalsInScope'
  BY <1>2 DEF IInv, LocalsInScope, SSD_WRITE
<1> QED
  BY <1>1, <1>4, <1>5, OutsideCollection

\* _FTL_READ changes nothing but its result.
LEMMA ReadInv ==
  ASSUME IInv, NEW l \in LPN, NEW n \in 1 .. MAX_REQ_PAGES, SSD_READ(l, n)
  PROVE  IInv'
<1>1. UNCHANGED tables /\ pc # "copy" /\ pc' # "copy"
  BY DEF SSD_READ, tables
<1>2. result' \in Seq(Data \cup {NoData})
  <2>1. CASE \E k \in l .. l + n - 1 : mapping_table[k] = None
    <3>1. result' = <<NoData>>
      BY <2>1 DEF SSD_READ
    <3> QED
      BY <3>1
  <2>2. CASE ~ \E k \in l .. l + n - 1 : mapping_table[k] = None
    <3>1. n \in Nat /\ l \in Nat /\ l + n <= HOST_PAGE_NB /\ HOST_PAGE_NB <= PAGE_MAPPING_ENTRY_NB
      BY HostAssumption, Sizes DEF SSD_READ, LPN
    <3>2. ASSUME NEW k \in 1 .. n PROVE nand[mapping_table[l + k - 1]] \in Data \cup {NoData}
      <4>1. l + k - 1 \in l .. l + n - 1 /\ l + k - 1 \in LPN
        BY <3>1, Sizes, HostAssumption DEF LPN
      <4>2. mapping_table[l + k - 1] \in PPN
        BY <2>2, <4>1 DEF IInv, TypeOK
      <4> QED
        BY <4>2 DEF IInv, TypeOK
    <3>3. result' = [k \in 1 .. n |-> nand[mapping_table[l + k - 1]]]
      BY <2>2 DEF SSD_READ
    <3>4. result' \in [1 .. n -> Data \cup {NoData}]
      BY <3>2, <3>3
    <3> QED
      BY <3>1, <3>4, SeqDef
  <2> QED
    BY <2>1, <2>2
<1>3. TypeOK'
  BY <1>2 DEF IInv, TypeOK, SSD_READ, mapVars, listVars, reqVars, gcVars, allocVars
<1>4. LocalsInScope'
  BY DEF IInv, LocalsInScope, SSD_READ
<1> QED
  BY <1>1, <1>3, <1>4, OutsideCollection

\* The totals that a restart counts are the ones that were kept.
LEMMA RestartInv == IInv /\ Restart => IInv'
<1> SUFFICES ASSUME IInv, Restart PROVE IInv'
  OBVIOUS
<1>1. UNCHANGED tables /\ pc # "copy" /\ pc' # "copy"
  BY DEF IInv, TotalsExact, Restart, tables, listVars
<1>2. 0 \in Root /\ result' \in Seq(Data \cup {NoData})
  BY Sizes DEF Root, Restart
<1>3. TypeOK'
  BY <1>1, <1>2 DEF IInv, TypeOK, Restart, tables, mapVars, listVars, reqVars, gcVars, allocVars
<1>4. LocalsInScope'
  BY DEF IInv, LocalsInScope, Restart
<1> QED
  BY <1>1, <1>3, <1>4, OutsideCollection

\* EndRequest leaves the locals in their ranges.
LEMMA EndRequestTypes ==
  ASSUME EndRequest
  PROVE  /\ pc' = "idle"
         /\ lpn' \in 0 .. HOST_PAGE_NB /\ remain' \in Nat /\ data' \in Data \cup {NoData}
         /\ gc_i' \in 0 .. GC_VICTIM_NB /\ victim' \in Block \cup {None}
         /\ page' \in 0 .. PAGE_NB /\ copy_page_nb' \in Nat
         /\ mode' \in {"OVERALL", "INCHIP"} /\ mapping_index' \in Root
<1>1. 0 \in 0 .. HOST_PAGE_NB /\ 0 \in 0 .. GC_VICTIM_NB /\ 0 \in 0 .. PAGE_NB /\ 0 \in Root
  BY HostAssumption, GeometryAssumption, Sizes DEF Root
<1> QED
  BY <1>1 DEF EndRequest

\* A request that ends outside a collection: WriteFail, WriteDone, NoVictim
\* and GcQuotaDone.
LEMMA EndOutside ==
  ASSUME IInv, pc # "copy", EndRequest, UNCHANGED tables,
         UNCHANGED <<empty_block_table_index, result>>
  PROVE  IInv'
<1>1. TypeOK'
  BY EndRequestTypes DEF IInv, TypeOK, tables, mapVars, listVars
<1>2. LocalsInScope'
  BY EndRequestTypes DEF LocalsInScope
<1> QED
  BY <1>1, <1>2, EndRequestTypes, OutsideCollection

\* Every way a request ends, outside a collection, preserves the invariant.
LEMMA EndInv == IInv /\ (WriteFail \/ WriteDone \/ NoVictim \/ GcQuotaDone) => IInv'
<1> SUFFICES ASSUME IInv, WriteFail \/ WriteDone \/ NoVictim \/ GcQuotaDone PROVE IInv'
  OBVIOUS
<1>1. /\ pc # "copy" /\ EndRequest /\ UNCHANGED tables
      /\ UNCHANGED <<empty_block_table_index, result>>
  BY DEF WriteFail, WriteDone, NoVictim, GcQuotaDone, tables
<1> QED
  BY <1>1, EndOutside

\* Entering GC_CHECK preserves the invariant.
LEMMA WriteDoneGcInv == IInv /\ WriteDoneGc => IInv'
<1> SUFFICES ASSUME IInv, WriteDoneGc PROVE IInv'
  OBVIOUS
<1>1. UNCHANGED tables /\ pc # "copy" /\ pc' # "copy"
  BY DEF WriteDoneGc, tables
<1>2. 0 \in 0 .. GC_VICTIM_NB
  BY HostAssumption
<1>3. TypeOK'
  BY <1>2 DEF IInv, TypeOK, WriteDoneGc, mapVars, listVars, reqVars, allocVars
<1>4. LocalsInScope'
  BY DEF LocalsInScope, WriteDoneGc
<1> QED
  BY <1>1, <1>3, <1>4, OutsideCollection
-----------------------------------------------------------------------------
(***************************************************************************)
(* The steps that move a block from one list to another.                   *)
(***************************************************************************)
LEMMA RetireBlockInv == IInv /\ RetireBlock => IInv'
<1> SUFFICES ASSUME IInv, RetireBlock PROVE IInv'
  OBVIOUS
<1> DEFINE b == Head(empty_block_list[CurrRoot])
<1>1. CurrRoot \in Root /\ empty_block_list[CurrRoot] # <<>>
  BY CurrRootInRange DEF IInv, RetireBlock
<1>2. /\ empty_block_list \in [Root -> Seq(Block)] /\ victim_block_list \in [Root -> Seq(Block)]
      /\ Filed(empty_block_list) /\ Filed(victim_block_list)
      /\ IsFiniteSet(Entries(empty_block_list)) /\ IsFiniteSet(Entries(victim_block_list))
  BY DEF IInv, TypeOK, BlocksPartitioned, ListsFinite
<1>3. empty_block_list' = [empty_block_list EXCEPT ![CurrRoot] = Tail(empty_block_list[CurrRoot])]
  BY DEF RetireBlock, RetireHead
<1>4. /\ empty_block_list' \in [Root -> Seq(Block)] /\ Filed(empty_block_list')
      /\ b \in Listed(empty_block_list)
      /\ Listed(empty_block_list') = Listed(empty_block_list) \ {b}
      /\ IsFiniteSet(Entries(empty_block_list'))
      /\ Cardinality(Entries(empty_block_list')) = Cardinality(Entries(empty_block_list)) - 1
  BY <1>1, <1>2, <1>3, TailOfTable, Zenon
<1>5. b \in Block /\ b \notin Listed(victim_block_list)
  BY <1>4 DEF IInv, BlocksPartitioned
<1>6. victim_block_list' = [victim_block_list EXCEPT ![RootOf(b)] =
                              Append(victim_block_list[RootOf(b)], b)]
  BY DEF RetireBlock, RetireHead, INSERT_VICTIM_BLOCK
<1> HIDE DEF b
<1>7. /\ victim_block_list' \in [Root -> Seq(Block)] /\ Filed(victim_block_list')
      /\ Listed(victim_block_list') = Listed(victim_block_list) \cup {b}
      /\ IsFiniteSet(Entries(victim_block_list'))
      /\ Cardinality(Entries(victim_block_list')) = Cardinality(Entries(victim_block_list)) + 1
  BY <1>2, <1>5, <1>6, AppendToTable, Zenon
<1>8. UNCHANGED <<mapVars, curr_phy_page_nb, leaked, pc, reqVars, gcVars, allocVars, result>>
  BY DEF RetireBlock
<1>9. TypeOK'
  <2>1. empty_block_table_index' \in Root
    BY NextTableIndexInRange DEF IInv, TypeOK, RetireBlock
  <2>2. total_empty_block_nb' \in Int /\ total_victim_block_nb' \in Int
    BY DEF IInv, TypeOK, RetireBlock, RetireHead
  <2> QED
    BY <1>4, <1>7, <1>8, <2>1, <2>2, Zenon
       DEF IInv, TypeOK, mapVars, reqVars, gcVars, allocVars
<1>10. LocalsInScope'
  BY <1>8 DEF IInv, LocalsInScope, reqVars, gcVars, allocVars
<1>11. BlocksPartitioned'
  BY <1>4, <1>5, <1>7, <1>8 DEF IInv, BlocksPartitioned, Collected, gcVars
<1>12. ListsFinite' /\ TotalsExact'
  BY <1>4, <1>7 DEF IInv, ListsFinite, TotalsExact, RetireBlock, RetireHead
<1>13. FreePagesErased'
  BY <1>4, <1>8 DEF IInv, FreePagesErased, mapVars
<1>14. MappingSound' /\ VictimDrained' /\ CopyCountSoFar'
  BY <1>8 DEF IInv, MappingSound, VictimDrained, CopyCountSoFar, mapVars, gcVars
<1>15. ValidIsCurrent'
  BY <1>4, <1>7, <1>8 DEF IInv, ValidIsCurrent, mapVars, gcVars
<1> QED
  BY <1>9, <1>10, <1>11, <1>12, <1>13, <1>14, <1>15 DEF IInv

\* EJECT_VICTIM_BLOCK moves the block from its list to the collection.
LEMMA SelectVictimInv == IInv /\ SelectVictim => IInv'
<1> SUFFICES ASSUME IInv, SelectVictim PROVE IInv'
  OBVIOUS
<1>1. PICK e \in Entries(victim_block_list) :
        /\ victim' = VictimAt(e)
        /\ victim_block_list' = EJECT_VICTIM_BLOCK(e)
        /\ mapping_index' = RootOf(VictimAt(e))
  BY DEF SelectVictim
<1> DEFINE v == victim_block_list[e[1]][e[2]]
<1>2. /\ victim_block_list \in [Root -> Seq(Block)] /\ Filed(victim_block_list)
      /\ IsFiniteSet(Entries(victim_block_list))
  BY DEF IInv, TypeOK, BlocksPartitioned, ListsFinite
<1>3. victim_block_list' = [victim_block_list EXCEPT ![e[1]] =
                              Unlink(victim_block_list[e[1]], e[2])]
  BY <1>1 DEF EJECT_VICTIM_BLOCK
<1>4. /\ victim_block_list' \in [Root -> Seq(Block)] /\ Filed(victim_block_list')
      /\ v \in Listed(victim_block_list)
      /\ Listed(victim_block_list') = Listed(victim_block_list) \ {v}
      /\ IsFiniteSet(Entries(victim_block_list'))
      /\ Cardinality(Entries(victim_block_list')) = Cardinality(Entries(victim_block_list)) - 1
  BY <1>2, <1>3, RemoveFromTable, Zenon
<1>5. victim' = v /\ mapping_index' = RootOf(v)
  BY <1>1 DEF VictimAt
<1> HIDE DEF v
<1>6. v \in Block /\ RootOf(v) \in Root
  BY <1>4, RootInRange DEF IInv, BlocksPartitioned
<1>7. /\ UNCHANGED <<mapVars, empty_block_list, total_empty_block_nb, curr_phy_page_nb,
                     empty_block_table_index, leaked, reqVars, gc_i, result>>
      /\ pc = "gc" /\ pc' = "copy" /\ page' = 0 /\ copy_page_nb' = 0 /\ mode' = "INCHIP"
      /\ gc_i < GC_VICTIM_NB /\ total_victim_block_nb' = total_victim_block_nb - 1
  BY DEF SelectVictim
<1>8. TypeOK'
  <2>1. 0 \in 0 .. PAGE_NB /\ total_victim_block_nb' \in Int
    BY <1>7, GeometryAssumption DEF IInv, TypeOK
  <2> QED
    BY <1>4, <1>5, <1>6, <1>7, <2>1 DEF IInv, TypeOK, mapVars, reqVars
<1>9. LocalsInScope'
  BY <1>5, <1>6, <1>7 DEF LocalsInScope
<1>10. BlocksPartitioned'
  BY <1>4, <1>5, <1>6, <1>7 DEF IInv, BlocksPartitioned, Collected
<1>11. ListsFinite' /\ TotalsExact'
  BY <1>4, <1>7 DEF IInv, ListsFinite, TotalsExact
<1>12. FreePagesErased' /\ MappingSound'
  BY <1>7 DEF IInv, FreePagesErased, MappingSound, mapVars
<1>13. ValidIsCurrent'
  BY <1>4, <1>5, <1>7 DEF IInv, ValidIsCurrent, mapVars
<1>14. VictimDrained'
  <2>1. ASSUME NEW p \in PPN PROVE CALC_PAGE(p) >= 0
    BY PpnFacts, GeometryAssumption DEF Page
  <2>2. \A l \in LPN : mapping_table'[l] # None => mapping_table'[l] \in PPN
    BY <1>8 DEF TypeOK
  <2> QED
    BY <1>7, <2>1, <2>2 DEF VictimDrained
<1>15. CopyCountSoFar'
  <2>1. {i \in 0 .. page' - 1 : valid_array'[PpnAt(victim', i)] = "V"} = {}
    BY <1>7
  <2> QED
    BY <1>7, <2>1, FS_EmptySet DEF CopyCountSoFar
<1> QED
  BY <1>8, <1>9, <1>10, <1>11, <1>12, <1>13, <1>14, <1>15 DEF IInv

\* A failed collection: the victim joins the leaked blocks.
LEMMA CopyFailInv == IInv /\ CopyFail => IInv'
<1> SUFFICES ASSUME IInv, CopyFail PROVE IInv'
  OBVIOUS
<1>1. /\ UNCHANGED <<mapVars, listVars, curr_phy_page_nb, empty_block_table_index, result>>
      /\ pc = "copy" /\ leaked' = leaked \cup {victim} /\ EndRequest
  BY DEF CopyFail
<1>2. pc' = "idle" /\ victim \in Block
  BY <1>1, EndRequestTypes DEF IInv, LocalsInScope
<1>3. TypeOK'
  BY <1>1, <1>2, EndRequestTypes DEF IInv, TypeOK, mapVars, listVars
<1>4. LocalsInScope' /\ VictimDrained' /\ CopyCountSoFar'
  BY <1>2 DEF LocalsInScope, VictimDrained, CopyCountSoFar
<1>5. BlocksPartitioned'
  BY <1>1, <1>2 DEF IInv, BlocksPartitioned, Collected, listVars
<1>6. ListsFinite' /\ TotalsExact'
  BY <1>1 DEF IInv, ListsFinite, TotalsExact, listVars
<1>7. FreePagesErased' /\ MappingSound' /\ ValidIsCurrent'
  BY <1>1, <1>2 DEF IInv, FreePagesErased, MappingSound, ValidIsCurrent, mapVars, listVars
<1> QED
  BY <1>3, <1>4, <1>5, <1>6, <1>7 DEF IInv
-----------------------------------------------------------------------------
(***************************************************************************)
(* The page loop of GARBAGE_COLLECTION.                                    *)
(***************************************************************************)
\* The page the loop looks at, and what it means for a page to be past it.
LEMMA VictimPage ==
  ASSUME IInv, pc = "copy", page < PAGE_NB
  PROVE  /\ victim \in Block /\ page \in Page /\ page + 1 \in 0 .. PAGE_NB
         /\ PpnAt(victim, page) \in PPN
         /\ BlockOf(PpnAt(victim, page)) = victim /\ CALC_PAGE(PpnAt(victim, page)) = page
         /\ \A p \in PPN : /\ BlockOf(p) = victim /\ CALC_PAGE(p) >= page
                           /\ p # PpnAt(victim, page)
                           => CALC_PAGE(p) >= page + 1
<1>1. victim \in Block /\ page \in Page /\ page + 1 \in 0 .. PAGE_NB
  BY GeometryAssumption DEF IInv, LocalsInScope, TypeOK, Page
<1>2. /\ PpnAt(victim, page) \in PPN
      /\ BlockOf(PpnAt(victim, page)) = victim /\ CALC_PAGE(PpnAt(victim, page)) = page
  BY <1>1, EncodeDecode
<1>3. ASSUME NEW p \in PPN, BlockOf(p) = victim, CALC_PAGE(p) >= page, p # PpnAt(victim, page)
      PROVE  CALC_PAGE(p) >= page + 1
  <2>1. CALC_PAGE(p) # page
    BY <1>2, <1>3, PpnFacts
  <2>2. CALC_PAGE(p) \in Int /\ page \in Int
    BY <1>1, PpnFacts DEF Page
  <2> QED
    BY <1>3, <2>1, <2>2
<1> QED
  BY <1>1, <1>2, <1>3

\* The valid pages below n of a block.
ValidBelow(valid, b, n) == {i \in 0 .. n - 1 : valid[PpnAt(b, i)] = "V"}

\* One more page looked at adds its flag to the count of valid pages so far.
LEMMA ValidBelowNext ==
  ASSUME NEW valid, NEW b, NEW n \in Nat
  PROVE  /\ IsFiniteSet(ValidBelow(valid, b, n))
         /\ Cardinality(ValidBelow(valid, b, n)) \in Nat
         /\ valid[PpnAt(b, n)] # "V" => ValidBelow(valid, b, n + 1) = ValidBelow(valid, b, n)
         /\ valid[PpnAt(b, n)] = "V" =>
              Cardinality(ValidBelow(valid, b, n + 1)) = Cardinality(ValidBelow(valid, b, n)) + 1
<1> DEFINE S == ValidBelow(valid, b, n)
<1>1. IsFiniteSet(0 .. n - 1)
  BY FS_Interval
<1>2. S \subseteq 0 .. n - 1
  BY DEF ValidBelow
<1>3. IsFiniteSet(S)
  BY <1>1, <1>2, FS_Subset
<1>4. Cardinality(S) \in Nat
  BY <1>3, FS_CardinalityType
<1>5. valid[PpnAt(b, n)] # "V" => ValidBelow(valid, b, n + 1) = S
  BY DEF ValidBelow
<1>6. valid[PpnAt(b, n)] = "V" => ValidBelow(valid, b, n + 1) = S \cup {n}
  BY DEF ValidBelow
<1>7. n \notin S
  BY DEF ValidBelow
<1> HIDE DEF S
<1>8. Cardinality(S \cup {n}) = Cardinality(S) + 1
  BY <1>3, <1>7, FS_AddElement
<1> USE DEF S
<1> QED
  BY <1>3, <1>4, <1>5, <1>6, <1>8, Zenon

\* Passing over a page that is not valid preserves the invariant.
LEMMA SkipPageInv == IInv /\ SkipPage => IInv'
<1> SUFFICES ASSUME IInv, SkipPage PROVE IInv'
  OBVIOUS
<1>1. /\ pc = "copy" /\ page < PAGE_NB /\ page' = page + 1
      /\ UNCHANGED <<mapVars, listVars, curr_phy_page_nb, empty_block_table_index, leaked,
                     pc, reqVars, gc_i, victim, copy_page_nb, allocVars, result>>
      /\ valid_array[PpnAt(victim, page)] # "V"
  BY DEF SkipPage, VictimPageValid
<1>2. page \in Nat
  BY DEF IInv, TypeOK
<1>3. TypeOK'
  BY <1>1, VictimPage DEF IInv, TypeOK, mapVars, listVars, reqVars, allocVars
<1>4. LocalsInScope'
  BY <1>1 DEF IInv, LocalsInScope, reqVars, allocVars
<1>5. BlocksPartitioned' /\ ListsFinite' /\ TotalsExact'
  BY <1>1 DEF IInv, BlocksPartitioned, Collected, ListsFinite, TotalsExact, listVars
<1>6. FreePagesErased' /\ MappingSound'
  BY <1>1, ZenonT(40) DEF IInv, FreePagesErased, MappingSound, mapVars, listVars
<1>7. ValidIsCurrent'
  <2>1. \A p \in PPN : CALC_PAGE(p) \in Int
    BY PpnFacts DEF Page
  <2>2. \A p \in PPN : CALC_PAGE(p) >= page + 1 => CALC_PAGE(p) >= page
    BY <1>2, <2>1
  <2> QED
    BY <1>1, <2>2, ZenonT(40) DEF IInv, ValidIsCurrent, mapVars, listVars
<1>8. VictimDrained'
  <2>1. ASSUME NEW l \in LPN, mapping_table[l] # None, BlockOf(mapping_table[l]) = victim
        PROVE  CALC_PAGE(mapping_table[l]) >= page + 1
    <3>1. mapping_table[l] \in PPN
      BY <2>1 DEF IInv, TypeOK
    <3>2. mapping_table[l] # PpnAt(victim, page)
      BY <1>1, <2>1 DEF IInv, MappingSound
    <3>3. CALC_PAGE(mapping_table[l]) >= page
      BY <1>1, <2>1 DEF IInv, VictimDrained
    <3> QED
      BY <1>1, <2>1, <3>1, <3>2, <3>3, VictimPage, ZenonT(40)
  <2> QED
    BY <1>1, <2>1 DEF VictimDrained, mapVars
<1>9. CopyCountSoFar'
  <2>1. ValidBelow(valid_array, victim, page + 1) = ValidBelow(valid_array, victim, page)
    BY <1>1, <1>2, ValidBelowNext
  <2>2. copy_page_nb = Cardinality(ValidBelow(valid_array, victim, page))
    BY <1>1 DEF IInv, CopyCountSoFar, ValidBelow
  <2>3. copy_page_nb' = Cardinality(ValidBelow(valid_array', victim', page'))
    BY <1>1, <2>1, <2>2 DEF mapVars
  <2> QED
    BY <2>3 DEF CopyCountSoFar, ValidBelow
<1> QED
  BY <1>3, <1>4, <1>5, <1>6, <1>7, <1>8, <1>9 DEF IInv

\* At the end of the loop the copied pages are all valid pages of the victim.
LEMMA CountRight == IInv => CopyCountRight
<1> SUFFICES ASSUME IInv, pc = "copy", page = PAGE_NB
             PROVE  copy_page_nb = ValidPageNb(victim)
  BY DEF CopyCountRight
<1> QED
  BY DEF IInv, CopyCountSoFar, ValidPageNb, Page

\* Then no logical page is mapped into the victim any more.
LEMMA VictimUnmapped ==
  ASSUME IInv, pc = "copy", page = PAGE_NB, NEW l \in LPN, mapping_table[l] # None
  PROVE  mapping_table[l] \in PPN /\ BlockOf(mapping_table[l]) # victim
<1>1. mapping_table[l] \in PPN
  BY DEF IInv, TypeOK
<1>2. CALC_PAGE(mapping_table[l]) \in 0 .. PAGE_NB - 1
  BY <1>1, PpnFacts DEF Page
<1>3. ~(CALC_PAGE(mapping_table[l]) >= PAGE_NB)
  BY <1>2, GeometryAssumption
<1> QED
  BY <1>1, <1>3 DEF IInv, VictimDrained

\* The erase and INSERT_EMPTY_BLOCK, or the failed check, preserve the invariant.
LEMMA FinishVictimInv == IInv /\ FinishVictim => IInv'
<1> SUFFICES ASSUME IInv, FinishVictim PROVE IInv'
  OBVIOUS
<1>1. /\ pc = "copy" /\ page = PAGE_NB
      /\ UNCHANGED <<victim_block_list, total_victim_block_nb, empty_block_table_index, result>>
      /\ EraseVictim
      /\ pc' = "gc" /\ gc_i' = gc_i + 1
      /\ victim' = None /\ page' = 0 /\ copy_page_nb' = 0
      /\ mode' = "OVERALL" /\ mapping_index' = 0
      /\ UNCHANGED <<leaked, reqVars>>
  BY CountRight DEF FinishVictim, CopyCountRight
<1> DEFINE v == victim
<1>2. /\ nand' = [p \in PPN |-> IF BlockOf(p) = v THEN NoData ELSE nand[p]]
      /\ valid_array' = [p \in PPN |-> IF BlockOf(p) = v THEN "0" ELSE valid_array[p]]
      /\ curr_phy_page_nb' = [curr_phy_page_nb EXCEPT ![v] = 0]
      /\ empty_block_list' = [empty_block_list EXCEPT ![RootOf(v)] =
                                Append(empty_block_list[RootOf(v)], v)]
      /\ total_empty_block_nb' = total_empty_block_nb + 1
      /\ UNCHANGED <<mapping_table, inverse_mapping_table>>
  BY <1>1 DEF EraseVictim, SSD_BLOCK_ERASE, INSERT_EMPTY_BLOCK
<1>3. /\ v \in Block /\ v \notin Listed(empty_block_list) /\ v \notin Listed(victim_block_list)
      /\ v \notin leaked
  BY <1>1 DEF IInv, LocalsInScope, BlocksPartitioned, Collected
<1>4. /\ empty_block_list \in [Root -> Seq(Block)] /\ Filed(empty_block_list)
      /\ IsFiniteSet(Entries(empty_block_list))
  BY DEF IInv, TypeOK, BlocksPartitioned, ListsFinite
<1>5. /\ empty_block_list' \in [Root -> Seq(Block)] /\ Filed(empty_block_list')
      /\ Listed(empty_block_list') = Listed(empty_block_list) \cup {v}
      /\ IsFiniteSet(Entries(empty_block_list'))
      /\ Cardinality(Entries(empty_block_list')) = Cardinality(Entries(empty_block_list)) + 1
  BY <1>2, <1>3, <1>4, AppendToTable, ZenonT(40)
<1>6. \A l \in LPN : mapping_table[l] # None =>
        mapping_table[l] \in PPN /\ BlockOf(mapping_table[l]) # v
  BY <1>1, VictimUnmapped
<1>7. TypeOK'
  <2>1. nand' \in [PPN -> Data \cup {NoData}] /\ valid_array' \in [PPN -> {"V", "I", "0"}]
    BY <1>2 DEF IInv, TypeOK
  <2>2. /\ 0 \in 0 .. PAGE_NB /\ 0 \in Root /\ gc_i + 1 \in 0 .. GC_VICTIM_NB
        /\ total_empty_block_nb' \in Int
    BY <1>1, <1>2, Sizes, GeometryAssumption, HostAssumption
       DEF IInv, TypeOK, LocalsInScope, Root
  <2>3. curr_phy_page_nb' \in [Block -> 0 .. PAGE_NB]
    BY <1>2, <1>3, <2>2 DEF IInv, TypeOK
  <2> QED
    BY <1>1, <1>2, <1>5, <2>1, <2>2, <2>3 DEF IInv, TypeOK, reqVars
<1>8. LocalsInScope' /\ VictimDrained' /\ CopyCountSoFar'
  BY <1>1 DEF LocalsInScope, VictimDrained, CopyCountSoFar
<1>9. BlocksPartitioned'
  BY <1>1, <1>3, <1>5 DEF IInv, BlocksPartitioned, Collected
<1>10. ListsFinite' /\ TotalsExact'
  BY <1>1, <1>2, <1>5, ZenonT(40) DEF IInv, ListsFinite, TotalsExact
<1>11. FreePagesErased'
  <2> SUFFICES ASSUME NEW p \in PPN, BlockOf(p) \in Listed(empty_block_list')
               PROVE  IF CALC_PAGE(p) < curr_phy_page_nb'[BlockOf(p)]
                      THEN nand'[p] # NoData /\ valid_array'[p] # "0"
                      ELSE nand'[p] = NoData /\ valid_array'[p] = "0"
    BY DEF FreePagesErased
  <2>1. CASE BlockOf(p) = v
    <3>1. curr_phy_page_nb'[BlockOf(p)] = 0
      BY <1>2, <1>3, <2>1 DEF IInv, TypeOK
    <3>2. CALC_PAGE(p) \in 0 .. PAGE_NB - 1
      BY PpnFacts DEF Page
    <3>3. ~(CALC_PAGE(p) < curr_phy_page_nb'[BlockOf(p)])
      BY <3>1, <3>2, GeometryAssumption
    <3> QED
      BY <1>2, <2>1, <3>3
  <2>2. CASE BlockOf(p) # v
    <3>1. BlockOf(p) \in Listed(empty_block_list) /\ BlockOf(p) \in Block
      BY <1>5, <2>2, PpnFacts
    <3>2. curr_phy_page_nb'[BlockOf(p)] = curr_phy_page_nb[BlockOf(p)]
      BY <1>2, <2>2, <3>1 DEF IInv, TypeOK
    <3>3. nand'[p] = nand[p] /\ valid_array'[p] = valid_array[p]
      BY <1>2, <2>2, ZenonT(40)
    <3> QED
      BY <3>1, <3>2, <3>3, ZenonT(40) DEF IInv, FreePagesErased
  <2> QED
    BY <2>1, <2>2
<1>12. MappingSound'
  BY <1>2, <1>6, Zenon DEF IInv, MappingSound
<1>13. ValidIsCurrent'
  <2> SUFFICES ASSUME NEW p \in PPN, valid_array'[p] = "V",
                      BlockOf(p) \in Listed(empty_block_list') \cup Listed(victim_block_list')
               PROVE  /\ inverse_mapping_table'[p] # None
                      /\ mapping_table'[inverse_mapping_table'[p]] = p
    BY <1>1, ZenonT(40) DEF ValidIsCurrent
  <2>1. BlockOf(p) # v /\ valid_array[p] = "V"
    BY <1>2, Zenon
  <2> QED
    BY <1>1, <1>2, <1>5, <2>1, ZenonT(40) DEF IInv, ValidIsCurrent
<1> QED
  BY <1>7, <1>8, <1>9, <1>10, <1>11, <1>12, <1>13 DEF IInv
=============================================================================
