---------------------------- MODULE MemoryProofs -----------------------------
(***************************************************************************)
(* Proofs about Memory for any number of blocks and vectors, any address   *)
(* space, page size, huge page size, lengths and types.  MemInv says that  *)
(* every page belongs to exactly the handle that covers it: with it an     *)
(* unmap, whose result the code ignores, cannot fail or take too much.     *)
(***************************************************************************)
EXTENDS Memory, TLAPS

Owners == Blocks \union Vecs

Owned(o) == {p \in Pages : owner[p] = o}

(* Pages are owned by handles; those of vectors are huge, and no others.   *)
KernelInv ==
  /\ owner \in [Pages -> Owners \union {Free}]
  /\ huge = {p \in Pages : owner[p] \in Vecs}
  /\ locked \subseteq Pages

(* A block owns the pages it covers, all of them and nothing else.         *)
BlockInv ==
  /\ BlockTypeOK
  /\ \A b \in Blocks :
       /\ HoldsBlock(b) => block[b].len # 0
       /\ Owned(b) = IF HoldsBlock(b) THEN BlockPages(b) ELSE {}

(* The mapping of a vector is made of whole huge pages, holds its elements *)
(* and is at an address for them; the loop stops before it goes beyond.    *)
ShapeOf(r) ==
  /\ r.st \in {"none", "fallback"} => r.map_len = 0
  /\ r.st \in {"misaligned", "init", "leaked"} => r.map_len # 0
  /\ r.st = "init" => r.initialized < r.count
  /\ r.map_len # 0 =>
       /\ r.addr % HugePageBytes = 0
       /\ r.map_len % HugePageBytes = 0
       /\ ByteLen(r.count) <= r.map_len
       /\ r.st # "misaligned" => r.addr % elem.align = 0

(* The elements of each vector are those of its state, and it owns its     *)
(* mapping.                                                                *)
VecInv ==
  /\ VecTypeOK
  /\ ElementsAreBalanced
  /\ \A v \in Vecs :
       /\ ShapeOf(vec[v])
       /\ Owned(v) = IF vec[v].map_len # 0 THEN MappedPages(v) ELSE {}

LockInv == locks \subseteq SUBSET Pages /\ LocksHold

(* The inductive invariant.                                                *)
MemInv == KernelInv /\ BlockInv /\ VecInv /\ LockInv
-----------------------------------------------------------------------------
(* Numbers: multiples, and rounding up to one.                             *)
LEMMA Division ==
  ASSUME NEW k \in Nat, NEW m \in Nat, NEW u \in Nat \ {0}, m < u
  PROVE  (k * u + m) % u = m /\ (k * u + m) \div u = k
OBVIOUS

LEMMA MultipleHasNoRest ==
  ASSUME NEW k \in Nat, NEW u \in Nat \ {0}
  PROVE  (k * u) % u = 0
OBVIOUS

LEMMA MultipleOf ==
  ASSUME NEW a \in Nat, NEW u \in Nat \ {0}, a % u = 0
  PROVE  \E k \in Nat : a = k * u
OBVIOUS

LEMMA RestOfDivision ==
  ASSUME NEW a \in Nat, NEW u \in Nat \ {0}
  PROVE  \E k \in Nat : a = k * u + (a % u) /\ a % u \in 0..u - 1
<1> DEFINE k == a \div u
           m == a - k * u
<1>1. k \in Nat /\ a >= u * k /\ a < u * k + u
  OBVIOUS
<1> HIDE DEF k
<1>2. m \in Nat /\ m < u /\ a = k * u + m
  BY <1>1
<1> HIDE DEF m
<1>3. (k * u + m) % u = m
  <2>1. k \in Nat /\ m \in Nat /\ m < u
    BY <1>1, <1>2
  <2>2. QED
    BY ONLY <2>1, u \in Nat \ {0}, Division
<1>4. a = k * u + (a % u) /\ a % u \in 0..u - 1
  BY <1>2, <1>3
<1>5. QED
  BY <1>1, <1>4

LEMMA RoundUpGrows ==
  ASSUME NEW a \in Nat, NEW u \in Nat \ {0}
  PROVE  RoundUp(a, u) \in Nat /\ a <= RoundUp(a, u)
BY DEF RoundUp

LEMMA RoundUpOfMultiple ==
  ASSUME NEW a \in Nat, NEW u \in Nat \ {0}, a % u = 0
  PROVE  RoundUp(a, u) = a
<1>1. PICK k \in Nat : a = k * u
  BY MultipleOf
<1>2. (k * u + (u - 1)) \div u = k
  BY Division
<1>3. (a + u - 1) \div u = k
  BY <1>1, <1>2
<1>4. QED
  BY <1>1, <1>3 DEF RoundUp

LEMMA AlignUpIsMultiple ==
  ASSUME NEW a \in Nat, NEW u \in Nat \ {0}
  PROVE  AlignUp(a, u) \in Nat /\ a <= AlignUp(a, u) /\ AlignUp(a, u) % u = 0
<1>1. PICK k \in Nat : a = k * u + (a % u) /\ a % u \in 0..u - 1
  BY RestOfDivision
<1>2. CASE a % u = 0
  BY <1>2 DEF AlignUp
<1>3. CASE a % u # 0
  <2>1. AlignUp(a, u) = a + (u - (a % u))
    BY <1>3 DEF AlignUp
  <2> DEFINE m == a % u
             next == (k + 1) * u
  <2>2. m \in 0..u - 1 /\ a = k * u + m
    BY <1>1
  <2>3. next \in Nat /\ next = k * u + u /\ k * u \in Nat
    OBVIOUS
  <2>4. next % u = 0
    <3>1. k + 1 \in Nat
      OBVIOUS
    <3>2. QED
      BY <3>1, MultipleHasNoRest
  <2> HIDE DEF m
  <2>5. a + (u - m) = next
    BY <2>2, <2>3
  <2> HIDE DEF next
  <2>6. a <= next
    BY <2>2, <2>3
  <2>7. AlignUp(a, u) = next
    BY <2>1, <2>5 DEF m
  <2>8. QED
    BY <2>3, <2>4, <2>6, <2>7
<1>4. QED
  BY <1>2, <1>3
-----------------------------------------------------------------------------
(* Pages: of a part of a range, and of a range of whole huge pages.        *)
LEMMA PagesOfPart ==
  ASSUME NEW a \in Nat, NEW n \in Nat, NEW b \in Nat, NEW m \in Nat,
         a <= b, b + m <= a + n
  PROVE  PagesOf(b, m) \subseteq PagesOf(a, n)
<1>1. SUFFICES ASSUME NEW p \in Pages, b < (p + 1) * PageSize,
                      p * PageSize < b + m
               PROVE  a < (p + 1) * PageSize /\ p * PageSize < a + n
  BY DEF PagesOf
<1>2. p \in Nat /\ PageSize \in Nat
  BY AddressSpaceAssumption DEF Pages
<1>3. p * PageSize \in Nat /\ (p + 1) * PageSize \in Nat
  BY <1>2
<1>4. QED
  BY <1>1, <1>3

LEMMA HugeRangesAreWhole ==
  ASSUME NEW a \in Nat, NEW n \in Nat,
         a % HugePageBytes = 0, n % HugePageBytes = 0,
         NEW p \in PagesOf(a, n), NEW q \in Pages,
         p \div HugePage = q \div HugePage
  PROVE  q \in PagesOf(a, n)
<1>1. /\ PageSize \in Nat \ {0} /\ HugePage \in Nat \ {0}
      /\ HugePageBytes \in Nat \ {0}
      /\ p \in Nat /\ q \in Nat
      /\ a < (p + 1) * PageSize /\ p * PageSize < a + n
  BY AddressSpaceAssumption DEF Pages, PagesOf, HugePageBytes
<1>2. PICK i \in Nat, j \in Nat : a = i * HugePageBytes /\ n = j * HugePageBytes
  BY <1>1, MultipleOf
<1> DEFINE first == i * HugePage
           last == (i + j) * HugePage
<1>3. /\ first \in Nat /\ last \in Nat
      /\ a = first * PageSize /\ a + n = last * PageSize
  BY <1>1, <1>2 DEF HugePageBytes
<1>4. first < p + 1 /\ p < last
  <2> HIDE DEF first, last
  <2> QED BY <1>1, <1>3
<1> DEFINE k == p \div HugePage
<1>5. /\ k \in Nat
      /\ p >= HugePage * k /\ p < HugePage * k + HugePage
  BY <1>1
<1>6. q >= HugePage * k /\ q < HugePage * k + HugePage
  BY <1>1
<1> HIDE DEF k
<1>7. i * HugePage < (k + 1) * HugePage /\ k * HugePage < (i + j) * HugePage
  BY <1>1, <1>2, <1>4, <1>5
<1>8. i < k + 1 /\ k < i + j
  BY <1>1, <1>2, <1>5, <1>7
<1>9. first <= q /\ q < last
  <2>1. i * HugePage <= k * HugePage
    BY <1>1, <1>2, <1>5, <1>8
  <2>2. (k + 1) * HugePage <= (i + j) * HugePage
    BY <1>1, <1>2, <1>5, <1>8
  <2>3. QED
    BY <1>1, <1>2, <1>5, <1>6, <2>1, <2>2
<1>10. a < (q + 1) * PageSize /\ q * PageSize < a + n
  <2> HIDE DEF first, last
  <2> QED BY <1>1, <1>3, <1>9
<1>11. QED
  BY <1>10 DEF PagesOf
-----------------------------------------------------------------------------
(* What a step of a handle does to the address space: it takes pages that  *)
(* are free, gives back the pages it has, or leaves all of them alone.     *)
Takes(o, S) ==
  /\ Owned(o) = {} /\ S \subseteq Owned(Free)
  /\ owner' = [p \in Pages |-> IF p \in S THEN o ELSE owner[p]]
  /\ locked' = locked

GivesBack(o) ==
  /\ owner' = [p \in Pages |-> IF p \in Owned(o) THEN Free ELSE owner[p]]
  /\ locked' = locked \ Owned(o)

LEMMA TakingPages ==
  ASSUME KernelInv, NEW o \in Owners, NEW S, Takes(o, S)
  PROVE  /\ owner' \in [Pages -> Owners \union {Free}]
         /\ Owned(o)' = S
         /\ \A x \in Owners \ {o} : Owned(x)' = Owned(x)
BY MemoryAssumption DEF KernelInv, Takes, Owned, Owners

LEMMA GivingPagesBack ==
  ASSUME KernelInv, NEW o \in Owners, GivesBack(o)
  PROVE  /\ owner' \in [Pages -> Owners \union {Free}]
         /\ Owned(o)' = {}
         /\ \A x \in Owners \ {o} : Owned(x)' = Owned(x)
         /\ \A p \in locked \ locked' : owner'[p] = Free
BY MemoryAssumption DEF KernelInv, GivesBack, Owned, Owners

(* mmap places a mapping on free pages.                                    *)
LEMMA PlacesAreFree ==
  ASSUME NEW n \in Nat, NEW u \in Nat \ {0}, NEW a \in Places(n, u)
  PROVE  /\ a \in Nat /\ a % u = 0
         /\ PagesOf(a, n) \subseteq Owned(Free)
<1>1. PICK p \in Pages : a = p * PageSize
  BY DEF Places
<1>2. a \in Nat
  BY <1>1, AddressSpaceAssumption DEF Pages
<1>3. \A q \in PagesOf(a, RoundUp(n, u)) : owner[q] = Free
  BY DEF Places
<1>4. PagesOf(a, n) \subseteq PagesOf(a, RoundUp(n, u))
  <2>1. RoundUp(n, u) \in Nat /\ n <= RoundUp(n, u)
    BY RoundUpGrows
  <2>2. QED
    BY <1>2, <2>1, PagesOfPart
<1>5. PagesOf(a, n) \subseteq Pages
  BY DEF PagesOf
<1>6. QED
  BY <1>2, <1>3, <1>4, <1>5 DEF Places, Owned

(* An unmap of a block succeeds, and takes the pages of the block.         *)
LEMMA UnmapBlockGivesBack ==
  ASSUME KernelInv, BlockInv, NEW b \in Blocks, HoldsBlock(b), UnmapRegion(b)
  PROVE  GivesBack(b) /\ huge' = huge
<1>1. block[b].len # 0 /\ Owned(b) = PagesOf(block[b].addr, block[b].len)
  BY DEF BlockInv, BlockPages
<1>2. Owned(b) \intersect huge = {}
  BY MemoryAssumption DEF KernelInv, Owned
<1>3. ~CutsHugePage(Owned(b))
  BY <1>2 DEF CutsHugePage
<1>4. /\ owner' = [p \in Pages |-> IF p \in Owned(b) THEN Free ELSE owner[p]]
      /\ huge' = huge \ Owned(b)
      /\ locked' = locked \ Owned(b)
  BY <1>1, <1>3 DEF UnmapRegion, Munmap
<1>5. QED
  BY <1>2, <1>4 DEF GivesBack

(* So does an unmap of a vector: a mapping of whole huge pages is not cut. *)
LEMMA UnmapVecGivesBack ==
  ASSUME KernelInv, VecInv, NEW v \in Vecs, vec[v].map_len # 0, UnmapVec(v)
  PROVE  GivesBack(v) /\ huge' = huge \ Owned(v)
<1>1. Owned(v) = PagesOf(vec[v].addr, vec[v].map_len)
  BY DEF VecInv, MappedPages
<1>2. ~CutsHugePage(Owned(v))
  <2>1. SUFFICES ASSUME NEW p \in Owned(v), NEW q \in huge \ Owned(v),
                        p \div HugePage = q \div HugePage
                 PROVE  FALSE
    BY DEF CutsHugePage
  <2>2. /\ vec[v].addr \in Nat /\ vec[v].map_len \in Nat
        /\ vec[v].addr % HugePageBytes = 0
        /\ vec[v].map_len % HugePageBytes = 0
    BY DEF VecInv, VecTypeOK, ShapeOf
  <2>3. q \in Pages
    BY DEF KernelInv
  <2>4. QED
    BY <1>1, <2>1, <2>2, <2>3, HugeRangesAreWhole
<1>3. QED
  BY <1>1, <1>2 DEF UnmapVec, Munmap, GivesBack
-----------------------------------------------------------------------------
(* The steps of blocks.                                                    *)
Moves(o) ==
  \/ \E S : Takes(o, S)
  \/ GivesBack(o)
  \/ UNCHANGED <<owner, locked>>

LEMMA BlockKeepsKernel ==
  ASSUME KernelInv, NEW b \in Blocks, huge' = huge,
         (\E S : Takes(b, S)) \/ GivesBack(b)
  PROVE  KernelInv'
<1>1. b \in Owners /\ b \notin Vecs /\ Free \notin Vecs
  BY MemoryAssumption DEF Owners
<1>2. owner' \in [Pages -> Owners \union {Free}]
  BY <1>1, TakingPages, GivingPagesBack
<1>3. \A p \in Pages : owner'[p] \in Vecs <=> owner[p] \in Vecs
  BY <1>1 DEF Takes, GivesBack, Owned
<1>4. locked' \subseteq Pages
  BY DEF KernelInv, Takes, GivesBack
<1>5. QED
  BY <1>2, <1>3, <1>4 DEF KernelInv

LEMMA BlockInvOfStep ==
  ASSUME BlockInv, NEW b \in Blocks, NEW r \in BlockRecords,
         block' = [block EXCEPT ![b] = r], unread' = unread,
         r.st \in {"binding", "live"} => r.len # 0,
         Owned(b)' = IF r.st \in {"binding", "live"}
                       THEN PagesOf(r.addr, r.len) ELSE {},
         \A x \in Owners \ {b} : Owned(x)' = Owned(x)
  PROVE  BlockInv'
<1>1. BlockTypeOK'
  BY DEF BlockInv, BlockTypeOK
<1>2. ASSUME NEW c \in Blocks
      PROVE  /\ HoldsBlock(c)' => block'[c].len # 0
             /\ Owned(c)' = IF HoldsBlock(c)' THEN BlockPages(c)' ELSE {}
  <2>1. CASE c = b
    BY <2>1 DEF BlockInv, BlockTypeOK, HoldsBlock, BlockPages
  <2>2. CASE c # b
    <3>1. block'[c] = block[c] /\ Owned(c)' = Owned(c)
      BY <2>2 DEF BlockInv, BlockTypeOK, Owners
    <3>2. QED
      BY <3>1 DEF BlockInv, HoldsBlock, BlockPages
  <2>3. QED
    BY <2>1, <2>2
<1>3. QED
  BY <1>1, <1>2 DEF BlockInv

LEMMA MapRegionStep ==
  ASSUME MemInv, NEW b \in Blocks, NEW n \in Nat,
         NEW st \in {"binding", "live"}, NEW node \in Nodes \union {NoNode},
         MapRegion(b, n, st, node)
  PROVE  Moves(b) /\ KernelInv' /\ BlockInv'
<1>1. PICK addr \in Places(n, PageSize) :
        Mmap(b, addr, n) /\ SetBlock(b, st, addr, n, node)
  BY DEF MapRegion
<1>2. addr \in Nat /\ PagesOf(addr, n) \subseteq Owned(Free)
  BY AddressSpaceAssumption, PlacesAreFree
<1>3. Owned(b) = {}
  BY DEF MapRegion, Vacant, MemInv, BlockInv, HoldsBlock
<1>4. Takes(b, PagesOf(addr, n)) /\ huge' = huge
  BY <1>1, <1>2, <1>3 DEF Mmap, Takes
<1>5. KernelInv'
  BY <1>4, BlockKeepsKernel DEF MemInv
<1>6. /\ Owned(b)' = PagesOf(addr, n)
      /\ \A x \in Owners \ {b} : Owned(x)' = Owned(x)
  BY <1>4, TakingPages DEF MemInv, Owners
<1>7. BlockInv'
  <2> DEFINE r == [st |-> st, addr |-> addr, len |-> n, node |-> node]
  <2>1. r \in BlockRecords
    BY <1>2 DEF BlockRecords
  <2>2. n # 0 /\ unread' = unread /\ block' = [block EXCEPT ![b] = r]
    BY <1>1 DEF MapRegion, SetBlock
  <2>3. /\ r.st \in {"binding", "live"} /\ r.len # 0
        /\ r.addr = addr /\ r.len = n
    BY <2>2
  <2> HIDE DEF r
  <2>4. QED
    BY <1>6, <2>1, <2>2, <2>3, BlockInvOfStep DEF MemInv
<1>8. QED
  BY <1>4, <1>5, <1>7 DEF Moves

(* Every unmap of a block leaves a handle without memory.                  *)
LEMMA UnmapBlockStep ==
  ASSUME MemInv, NEW b \in Blocks, HoldsBlock(b), UnmapRegion(b),
         NEW r \in BlockRecords, r.st \in {"none", "unbound"},
         block' = [block EXCEPT ![b] = r], unread' = unread
  PROVE  Moves(b) /\ KernelInv' /\ BlockInv'
<1>1. GivesBack(b) /\ huge' = huge
  BY UnmapBlockGivesBack DEF MemInv
<1>2. KernelInv'
  BY <1>1, BlockKeepsKernel DEF MemInv
<1>3. /\ Owned(b)' = {}
      /\ \A x \in Owners \ {b} : Owned(x)' = Owned(x)
  BY <1>1, GivingPagesBack DEF MemInv, Owners
<1>4. BlockInv'
  BY <1>3, BlockInvOfStep DEF MemInv
<1>5. QED
  BY <1>1, <1>2, <1>4 DEF Moves

LEMMA NoBlockIsARecord == NoBlock \in BlockRecords /\ NoBlock.st = "none"
BY DEF NoBlock, BlockRecords

LEMMA BindStep ==
  ASSUME MemInv, NEW b \in Blocks, Bind(b)
  PROVE  Moves(b) /\ KernelInv' /\ BlockInv'
<1>1. HoldsBlock(b) /\ block[b] \in BlockRecords /\ unread' = unread
  BY DEF Bind, HoldsBlock, MemInv, BlockInv, BlockTypeOK
<1>2. CASE UnmapRegion(b) /\ SetBlock(b, "unbound", 0, 0, block[b].node)
  <2> DEFINE r == [st |-> "unbound", addr |-> 0, len |-> 0, node |-> block[b].node]
  <2>1. r \in BlockRecords /\ r.st = "unbound"
    BY <1>1 DEF BlockRecords
  <2>2. block' = [block EXCEPT ![b] = r]
    BY <1>2 DEF SetBlock
  <2> HIDE DEF r
  <2>3. QED
    BY <1>1, <1>2, <2>1, <2>2, UnmapBlockStep
<1>3. CASE block' = [block EXCEPT ![b].st = "live"] /\ UNCHANGED asvars
  <2> DEFINE r == [block[b] EXCEPT !.st = "live"]
  <2>1. /\ r \in BlockRecords /\ r.st = "live"
        /\ r.addr = block[b].addr /\ r.len = block[b].len
    BY <1>1 DEF BlockRecords
  <2>2. block' = [block EXCEPT ![b] = r]
    BY <1>3 DEF MemInv, BlockInv, BlockTypeOK
  <2> HIDE DEF r
  <2>3. \A o : Owned(o)' = Owned(o)
    BY <1>3 DEF asvars, Owned
  <2>4. /\ block[b].len # 0
        /\ Owned(b) = PagesOf(block[b].addr, block[b].len)
    BY <1>1 DEF MemInv, BlockInv, BlockPages
  <2>5. BlockInv'
    BY <1>1, <2>1, <2>2, <2>3, <2>4, BlockInvOfStep DEF MemInv
  <2>6. QED
    BY <1>3, <2>5 DEF MemInv, KernelInv, Moves, asvars
<1>4. QED
  BY <1>2, <1>3 DEF Bind

LEMMA BlockMoves ==
  ASSUME MemInv, NEW b \in Blocks, BlockStep(b)
  PROVE  Moves(b) /\ KernelInv' /\ BlockInv'
<1>1. CASE \E n \in BlockLens : New(b, n)
  BY <1>1, MmapBlockAssumption, MapRegionStep DEF New
<1>2. CASE \E n \in BlockLens, node \in Nodes : NewOnNode(b, n, node)
  BY <1>2, MmapBlockAssumption, MapRegionStep DEF NewOnNode
<1>3. CASE Bind(b)
  BY <1>3, BindStep
<1>4. CASE BindFails(b)
  BY <1>4, NoBlockIsARecord, UnmapBlockStep DEF BindFails, HoldsBlock
<1>5. CASE DropBlock(b)
  BY <1>5, NoBlockIsARecord, UnmapBlockStep DEF DropBlock, HoldsBlock
<1>6. QED
  BY <1>1, <1>2, <1>3, <1>4, <1>5 DEF BlockStep
-----------------------------------------------------------------------------
(* The steps of vectors.                                                   *)
VecRecords ==
  [st : {"none", "misaligned", "init", "fallback", "live", "leaked"}, addr : Nat,
   count : Nat, map_len : Nat, initialized : Nat]

(* The elements a vector has made and not dropped, and the pages of its    *)
(* mapping.                                                                *)
ElementsOf(r) ==
  CASE r.st = "init" -> r.initialized [] r.st = "live" -> r.count [] OTHER -> 0

PagesOfVec(r) == IF r.map_len # 0 THEN PagesOf(r.addr, r.map_len) ELSE {}

LEMMA VecInvOf ==
  ASSUME VecInv, NEW v \in Vecs
  PROVE  /\ vec[v] \in VecRecords /\ ShapeOf(vec[v])
         /\ alive[v] = ElementsOf(vec[v])
         /\ Owned(v) = PagesOfVec(vec[v])
         /\ elem.size \in Nat /\ elem.align \in Nat \ {0}
<1>1. vec[v] \in VecRecords
  BY DEF VecInv, VecTypeOK, VecRecords
<1>2. ShapeOf(vec[v]) /\ Owned(v) = PagesOfVec(vec[v])
  BY DEF VecInv, MappedPages, PagesOfVec
<1>3. alive[v] = ElementsOf(vec[v])
  BY DEF VecInv, ElementsAreBalanced, ElementsOf
<1>4. elem.size \in Nat /\ elem.align \in Nat \ {0}
  BY HugePageVecAssumption DEF VecInv, VecTypeOK
<1>5. QED
  BY <1>1, <1>2, <1>3, <1>4

LEMMA VecInvOfStep ==
  ASSUME VecInv, NEW v \in Vecs, NEW r \in VecRecords,
         vec' = [vec EXCEPT ![v] = r], elem' = elem,
         alive' = [alive EXCEPT ![v] = ElementsOf(r)],
         ShapeOf(r), Owned(v)' = PagesOfVec(r),
         \A x \in Owners \ {v} : Owned(x)' = Owned(x)
  PROVE  VecInv'
<1>1. VecTypeOK'
  <2>1. ElementsOf(r) \in Nat
    BY DEF ElementsOf, VecRecords
  <2>2. QED
    BY <2>1 DEF VecInv, VecTypeOK, VecRecords
<1>2. ASSUME NEW w \in Vecs
      PROVE  /\ ShapeOf(vec[w])'
             /\ alive'[w] = ElementsOf(vec'[w])
             /\ Owned(w)' = PagesOfVec(vec'[w])
  <2>1. CASE w = v
    <3>1. vec'[w] = r /\ alive'[w] = ElementsOf(r)
      BY <2>1 DEF VecInv, VecTypeOK
    <3>2. QED
      BY <2>1, <3>1 DEF ShapeOf, ByteLen
  <2>2. CASE w # v
    <3>1. /\ vec'[w] = vec[w] /\ alive'[w] = alive[w]
          /\ Owned(w)' = Owned(w)
      BY <2>2 DEF VecInv, VecTypeOK, Owners
    <3>2. QED
      BY <3>1, VecInvOf DEF ShapeOf, ByteLen
  <2>3. QED
    BY <2>1, <2>2
<1>3. ElementsAreBalanced'
  BY <1>2 DEF ElementsAreBalanced, ElementsOf
<1>4. \A w \in Vecs :
        Owned(w)' = IF vec'[w].map_len # 0 THEN MappedPages(w)' ELSE {}
  BY <1>2 DEF MappedPages, PagesOfVec
<1>5. QED
  BY <1>1, <1>2, <1>3, <1>4 DEF VecInv

(* The steps that leave the address space alone.                           *)
LEMMA VecStepInPlace ==
  ASSUME MemInv, NEW v \in Vecs, NEW r \in VecRecords,
         vec' = [vec EXCEPT ![v] = r], elem' = elem,
         alive' = [alive EXCEPT ![v] = ElementsOf(r)], UNCHANGED asvars,
         ShapeOf(r), PagesOfVec(r) = PagesOfVec(vec[v])
  PROVE  Moves(v) /\ KernelInv' /\ VecInv'
<1>1. \A o : Owned(o)' = Owned(o)
  BY DEF asvars, Owned
<1>2. KernelInv' /\ Moves(v)
  BY DEF MemInv, KernelInv, asvars, Moves
<1>3. Owned(v)' = PagesOfVec(r)
  BY <1>1, VecInvOf DEF MemInv
<1>4. VecInv'
  BY <1>1, <1>3, VecInvOfStep DEF MemInv
<1>5. QED
  BY <1>2, <1>4

LEMMA NoVecIsARecord ==
  /\ NoVec \in VecRecords /\ ShapeOf(NoVec)
  /\ ElementsOf(NoVec) = 0 /\ PagesOfVec(NoVec) = {}
BY DEF NoVec, VecRecords, ShapeOf, ElementsOf, PagesOfVec

(* The steps that unmap: the handle has no memory and no elements then.    *)
LEMMA UnmapVecStep ==
  ASSUME MemInv, NEW v \in Vecs, vec[v].map_len # 0, UnmapVec(v),
         NEW r \in VecRecords, vec' = [vec EXCEPT ![v] = r], elem' = elem,
         ShapeOf(r), PagesOfVec(r) = {}, alive' = [alive EXCEPT ![v] = 0],
         ElementsOf(r) = 0
  PROVE  Moves(v) /\ KernelInv' /\ VecInv'
<1>1. GivesBack(v) /\ huge' = huge \ Owned(v)
  BY UnmapVecGivesBack DEF MemInv
<1>2. /\ owner' \in [Pages -> Owners \union {Free}]
      /\ Owned(v)' = {}
      /\ \A x \in Owners \ {v} : Owned(x)' = Owned(x)
  BY <1>1, GivingPagesBack DEF MemInv, Owners
<1>3. KernelInv'
  <2>1. \A p \in Pages : owner'[p] \in Vecs
                           <=> owner[p] \in Vecs /\ p \notin Owned(v)
    BY <1>1, MemoryAssumption DEF GivesBack, Owned
  <2>2. locked' \subseteq Pages
    BY <1>1 DEF MemInv, KernelInv, GivesBack
  <2>3. QED
    BY <1>1, <1>2, <2>1, <2>2 DEF MemInv, KernelInv
<1>4. VecInv'
  BY <1>2, VecInvOfStep DEF MemInv
<1>5. QED
  BY <1>1, <1>3, <1>4 DEF Moves

(* A constructor that falls back has no mapping and no elements.           *)
LEMMA FallbackIsARecord ==
  ASSUME NEW v, NEW count \in Nat, Fallback(v, count)
  PROVE  \E r \in VecRecords :
           /\ vec' = [vec EXCEPT ![v] = r]
           /\ ShapeOf(r) /\ ElementsOf(r) = 0 /\ PagesOfVec(r) = {}
<1> DEFINE r == [NoVec EXCEPT !.st = "fallback", !.count = count]
<1>1. r \in VecRecords /\ r.st = "fallback" /\ r.map_len = 0
  BY DEF NoVec, VecRecords
<1>2. ShapeOf(r) /\ ElementsOf(r) = 0 /\ PagesOfVec(r) = {}
  BY <1>1 DEF ShapeOf, ElementsOf, PagesOfVec
<1>3. QED
  BY <1>1, <1>2 DEF Fallback

LEMMA NewWithoutHugePagesStep ==
  ASSUME MemInv, NEW v \in Vecs, NEW count \in Nat,
         NewWithoutHugePages(v, count), elem' = elem
  PROVE  Moves(v) /\ KernelInv' /\ VecInv'
<1>1. PICK r \in VecRecords :
        /\ vec' = [vec EXCEPT ![v] = r]
        /\ ShapeOf(r) /\ ElementsOf(r) = 0 /\ PagesOfVec(r) = {}
  BY FallbackIsARecord DEF NewWithoutHugePages
<1>2. alive[v] = 0 /\ PagesOfVec(vec[v]) = {}
  BY VecInvOf
     DEF NewWithoutHugePages, MemInv, ElementsOf, ShapeOf, PagesOfVec
<1>3. UNCHANGED asvars /\ alive' = [alive EXCEPT ![v] = ElementsOf(r)]
  BY <1>1, <1>2 DEF NewWithoutHugePages, MemInv, VecInv, VecTypeOK
<1>4. QED
  BY <1>1, <1>2, <1>3, VecStepInPlace

(* The mapping that T cannot live in goes back before anything is in it.   *)
LEMMA UnmapMisalignedStep ==
  ASSUME MemInv, NEW v \in Vecs, UnmapMisaligned(v), elem' = elem
  PROVE  Moves(v) /\ KernelInv' /\ VecInv'
<1>1. /\ vec[v] \in VecRecords /\ vec[v].map_len # 0 /\ alive[v] = 0
  BY VecInvOf DEF MemInv, UnmapMisaligned, ElementsOf, ShapeOf
<1>2. PICK r \in VecRecords :
        /\ vec' = [vec EXCEPT ![v] = r]
        /\ ShapeOf(r) /\ ElementsOf(r) = 0 /\ PagesOfVec(r) = {}
  <2>1. vec[v].count \in Nat
    BY <1>1 DEF VecRecords
  <2>2. QED
    BY <2>1, FallbackIsARecord DEF UnmapMisaligned
<1>3. alive' = [alive EXCEPT ![v] = 0]
  BY <1>1 DEF UnmapMisaligned, MemInv, VecInv, VecTypeOK
<1>4. QED
  BY <1>1, <1>2, <1>3, UnmapVecStep DEF UnmapMisaligned

(* A new mapping is at least as long as the elements and made of whole     *)
(* huge pages; it is kept only at an address of their alignment.           *)
LEMMA NewHugeStep ==
  ASSUME MemInv, NEW v \in Vecs, NEW count \in Nat, NewHuge(v, count),
         elem' = elem
  PROVE  Moves(v) /\ KernelInv' /\ VecInv'
<1> DEFINE map_len == AlignUp(ByteLen(count), HugePageBytes)
<1>1. /\ HugePageBytes \in Nat \ {0} /\ vec[v].st = "none"
      /\ count \in Nat \ {0} /\ elem.size \in Nat \ {0}
  BY AddressSpaceAssumption, VecInvOf
     DEF HugePageBytes, NewHuge, AsksForHugePages, MemInv
<1>2. ByteLen(count) \in Nat \ {0}
  BY <1>1 DEF ByteLen
<1>3. /\ map_len \in Nat /\ ByteLen(count) <= map_len
      /\ map_len % HugePageBytes = 0
  BY <1>1, <1>2, AlignUpIsMultiple
<1>4. PICK a \in Places(map_len, HugePageBytes) :
        /\ MmapHuge(v, a, map_len)
        /\ vec' = [vec EXCEPT ![v] =
                     [st |-> IF Misaligned(a) THEN "misaligned" ELSE "init",
                      addr |-> a, count |-> count, map_len |-> map_len,
                      initialized |-> 0]]
  BY DEF NewHuge
<1>5. alive' = alive
  BY DEF NewHuge
<1> HIDE DEF map_len
<1> DEFINE st == IF Misaligned(a) THEN "misaligned" ELSE "init"
           r == [st |-> st, addr |-> a, count |-> count,
                 map_len |-> map_len, initialized |-> 0]
<1>6. /\ a \in Nat /\ a % HugePageBytes = 0
      /\ PagesOf(a, map_len) \subseteq Owned(Free)
  BY <1>1, <1>3, <1>4, PlacesAreFree
<1>7. /\ st \in {"misaligned", "init"}
      /\ st # "misaligned" => a % elem.align = 0
  BY DEF Misaligned
<1>8. r \in VecRecords /\ ElementsOf(r) = 0
  BY <1>3, <1>6, <1>7 DEF VecRecords, ElementsOf
<1>9. map_len # 0
  BY <1>2, <1>3
<1>10. ShapeOf(r) /\ PagesOfVec(r) = PagesOf(a, map_len)
  <2>1. /\ r.st = st /\ r.addr = a /\ r.count = count
        /\ r.map_len = map_len /\ r.initialized = 0
    OBVIOUS
  <2> HIDE DEF r, st
  <2>2. QED
    BY <1>1, <1>3, <1>6, <1>7, <1>9, <2>1 DEF ShapeOf, PagesOfVec
<1>11. alive[v] = 0 /\ Owned(v) = {}
  BY <1>1, VecInvOf DEF MemInv, ElementsOf, ShapeOf, PagesOfVec
<1>12. RoundUp(map_len, HugePageBytes) = map_len
  BY <1>1, <1>3, RoundUpOfMultiple
<1>13. /\ Takes(v, PagesOf(a, map_len))
       /\ huge' = huge \union PagesOf(a, map_len)
  BY <1>4, <1>6, <1>11, <1>12 DEF MmapHuge, Takes
<1>14. /\ owner' \in [Pages -> Owners \union {Free}]
       /\ Owned(v)' = PagesOf(a, map_len)
       /\ \A x \in Owners \ {v} : Owned(x)' = Owned(x)
  BY <1>13, TakingPages DEF MemInv, Owners
<1>15. KernelInv'
  <2>1. \A p \in Pages : owner'[p] \in Vecs
                           <=> owner[p] \in Vecs \/ p \in PagesOf(a, map_len)
    BY <1>6, <1>13, MemoryAssumption DEF Takes, Owned
  <2>2. PagesOf(a, map_len) \subseteq Pages
    BY DEF PagesOf
  <2>3. QED
    BY <1>13, <1>14, <2>1, <2>2 DEF MemInv, KernelInv, Takes
<1>16. /\ vec' = [vec EXCEPT ![v] = r]
       /\ alive' = [alive EXCEPT ![v] = ElementsOf(r)]
  BY <1>4, <1>5, <1>8, <1>11 DEF MemInv, VecInv, VecTypeOK
<1> HIDE DEF r, st
<1>17. VecInv'
  BY <1>8, <1>10, <1>14, <1>16, VecInvOfStep DEF MemInv
<1>18. QED
  BY <1>13, <1>15, <1>17 DEF Moves

LEMMA InitElementStep ==
  ASSUME MemInv, NEW v \in Vecs, InitElement(v), elem' = elem
  PROVE  Moves(v) /\ KernelInv' /\ VecInv'
<1> DEFINE n == vec[v].initialized + 1
           st == IF n = vec[v].count THEN "live" ELSE "init"
           r == [vec[v] EXCEPT !.initialized = n, !.st = st]
<1>1. /\ vec[v] \in VecRecords /\ ShapeOf(vec[v]) /\ vec[v].st = "init"
      /\ alive[v] = vec[v].initialized
  BY VecInvOf DEF MemInv, InitElement, ElementsOf
<1>2. n \in Nat /\ n <= vec[v].count /\ vec[v].count \in Nat
  BY <1>1 DEF ShapeOf, VecRecords
<1>3. st \in {"live", "init"}
  OBVIOUS
<1>4. /\ r \in VecRecords /\ r.st = st /\ r.initialized = n
      /\ r.addr = vec[v].addr /\ r.count = vec[v].count
      /\ r.map_len = vec[v].map_len
  <2> HIDE DEF n, st
  <2> QED BY <1>1, <1>2, <1>3 DEF VecRecords
<1>5. vec' = [vec EXCEPT ![v] = r] /\ UNCHANGED asvars
  BY DEF InitElement, MemInv, VecInv, VecTypeOK
<1>6. ElementsOf(r) = n
  <2> HIDE DEF r
  <2> QED BY <1>4 DEF ElementsOf
<1>7. alive' = [alive EXCEPT ![v] = ElementsOf(r)]
  <2> HIDE DEF r
  <2> QED BY <1>1, <1>6 DEF InitElement
<1>8. ShapeOf(r) /\ PagesOfVec(r) = PagesOfVec(vec[v])
  <2> HIDE DEF r
  <2> QED BY <1>1, <1>2, <1>4 DEF ShapeOf, PagesOfVec
<1> HIDE DEF r
<1>9. QED
  BY <1>4, <1>5, <1>7, <1>8, VecStepInPlace

LEMMA DefaultPanicsStep ==
  ASSUME MemInv, NEW v \in Vecs, DefaultPanics(v), elem' = elem
  PROVE  Moves(v) /\ KernelInv' /\ VecInv'
<1>1. /\ vec[v] \in VecRecords /\ vec[v].map_len # 0
      /\ alive[v] = vec[v].initialized
  BY VecInvOf DEF MemInv, DefaultPanics, ElementsOf, ShapeOf
<1>2. alive[v] - WrittenElements(v) = 0
  BY <1>1 DEF WrittenElements, VecRecords
<1>3. alive' = [alive EXCEPT ![v] = 0]
  BY <1>2 DEF DefaultPanics, DropElements
<1>4. QED
  BY <1>1, <1>3, NoVecIsARecord, UnmapVecStep DEF DefaultPanics, Clear

LEMMA FallbackSucceedsStep ==
  ASSUME MemInv, NEW v \in Vecs, FallbackSucceeds(v), elem' = elem
  PROVE  Moves(v) /\ KernelInv' /\ VecInv'
<1> DEFINE r == [vec[v] EXCEPT !.st = "live"]
<1>1. /\ vec[v] \in VecRecords /\ vec[v].map_len = 0
  BY VecInvOf DEF MemInv, FallbackSucceeds, ShapeOf
<1>2. /\ r \in VecRecords /\ r.st = "live" /\ r.count = vec[v].count
      /\ r.map_len = 0
  BY <1>1 DEF VecRecords
<1>3. vec' = [vec EXCEPT ![v] = r] /\ UNCHANGED asvars
  BY DEF FallbackSucceeds, MemInv, VecInv, VecTypeOK
<1> HIDE DEF r
<1>4. /\ ShapeOf(r) /\ PagesOfVec(r) = PagesOfVec(vec[v])
      /\ ElementsOf(r) = vec[v].count
  BY <1>1, <1>2 DEF ShapeOf, PagesOfVec, ElementsOf
<1>5. elem' = elem /\ alive' = [alive EXCEPT ![v] = ElementsOf(r)]
  BY <1>4 DEF FallbackSucceeds
<1>6. QED
  BY <1>2, <1>3, <1>4, <1>5, VecStepInPlace

LEMMA FallbackFailsStep ==
  ASSUME MemInv, NEW v \in Vecs, FallbackFails(v), elem' = elem
  PROVE  Moves(v) /\ KernelInv' /\ VecInv'
<1>1. alive[v] = 0 /\ PagesOfVec(vec[v]) = {}
  BY VecInvOf DEF MemInv, FallbackFails, ElementsOf, ShapeOf, PagesOfVec
<1>2. alive' = [alive EXCEPT ![v] = ElementsOf(NoVec)]
  BY <1>1, NoVecIsARecord DEF FallbackFails, MemInv, VecInv, VecTypeOK
<1>3. QED
  BY <1>1, <1>2, NoVecIsARecord, VecStepInPlace DEF FallbackFails, Clear

LEMMA DropVecStep ==
  ASSUME MemInv, NEW v \in Vecs, DropVec(v), elem' = elem
  PROVE  Moves(v) /\ KernelInv' /\ VecInv'
<1>1. vec[v] \in VecRecords /\ alive[v] = vec[v].count
  BY VecInvOf DEF MemInv, DropVec, ElementsOf
<1>2. alive' = [alive EXCEPT ![v] = 0]
  <2>1. alive[v] - vec[v].count = 0
    BY <1>1 DEF VecRecords
  <2>2. QED
    BY <2>1 DEF DropVec, DropElements
<1>3. CASE vec[v].map_len = 0
  <2>1. PagesOfVec(vec[v]) = {} /\ UNCHANGED asvars
    BY <1>3 DEF DropVec, PagesOfVec
  <2>2. QED
    BY <1>2, <2>1, NoVecIsARecord, VecStepInPlace DEF DropVec, Clear
<1>4. CASE vec[v].map_len # 0
  BY <1>2, <1>4, NoVecIsARecord, UnmapVecStep DEF DropVec, Clear
<1>5. QED
  BY <1>3, <1>4

LEMMA DropPanicsStep ==
  ASSUME MemInv, NEW v \in Vecs, DropPanics(v), elem' = elem
  PROVE  Moves(v) /\ KernelInv' /\ VecInv'
<1> DEFINE r == [vec[v] EXCEPT !.st = "leaked"]
<1>1. /\ vec[v] \in VecRecords /\ vec[v].map_len # 0 /\ ShapeOf(vec[v])
      /\ vec[v].st = "live" /\ alive[v] = vec[v].count
  BY VecInvOf DEF MemInv, DropPanics, ElementsOf
<1>2. /\ r \in VecRecords /\ r.st = "leaked" /\ r.count = vec[v].count
      /\ r.map_len = vec[v].map_len /\ r.addr = vec[v].addr
  BY <1>1 DEF VecRecords
<1>3. vec' = [vec EXCEPT ![v] = r] /\ UNCHANGED asvars
  BY DEF DropPanics, MemInv, VecInv, VecTypeOK
<1> HIDE DEF r
<1>4. /\ ShapeOf(r) /\ PagesOfVec(r) = PagesOfVec(vec[v])
      /\ ElementsOf(r) = 0
  BY <1>1, <1>2 DEF ShapeOf, PagesOfVec, ElementsOf
<1>5. alive' = [alive EXCEPT ![v] = ElementsOf(r)]
  <2>1. alive[v] - vec[v].count = 0
    BY <1>1 DEF VecRecords
  <2>2. QED
    BY <1>4, <2>1 DEF DropPanics, DropElements
<1>6. QED
  BY <1>2, <1>3, <1>4, <1>5, VecStepInPlace

LEMMA VecMoves ==
  ASSUME MemInv, NEW v \in Vecs, VecStep(v), elem' = elem
  PROVE  Moves(v) /\ KernelInv' /\ VecInv'
<1>1. ASSUME NEW n \in Counts, NewWithoutHugePages(v, n)
      PROVE  Moves(v) /\ KernelInv' /\ VecInv'
  BY <1>1, HugePageVecAssumption, NewWithoutHugePagesStep
<1>2. ASSUME NEW n \in Counts, NewHuge(v, n)
      PROVE  Moves(v) /\ KernelInv' /\ VecInv'
  BY <1>2, HugePageVecAssumption, NewHugeStep
<1>3. QED
  BY <1>1, <1>2, UnmapMisalignedStep, InitElementStep, DefaultPanicsStep,
     FallbackSucceedsStep, FallbackFailsStep, DropVecStep, DropPanicsStep
     DEF VecStep
-----------------------------------------------------------------------------
(* The steps of one handle leave the others alone.                         *)
LEMMA OthersKeepTheirPages ==
  ASSUME KernelInv, NEW o \in Owners, Moves(o)
  PROVE  /\ \A x \in Owners \ {o} : Owned(x)' = Owned(x)
         /\ \A p \in locked \ locked' : owner'[p] = Free
<1>1. CASE \E S : Takes(o, S)
  BY <1>1, TakingPages DEF Takes
<1>2. CASE GivesBack(o)
  BY <1>2, GivingPagesBack
<1>3. CASE UNCHANGED <<owner, locked>>
  BY <1>3 DEF Owned
<1>4. QED
  BY <1>1, <1>2, <1>3 DEF Moves

LEMMA VecsKeepTheirs ==
  ASSUME VecInv, UNCHANGED vecvars, \A v \in Vecs : Owned(v)' = Owned(v)
  PROVE  VecInv'
BY DEF VecInv, vecvars, VecTypeOK, ElementsAreBalanced, ShapeOf, ByteLen,
       MappedPages

LEMMA BlocksKeepTheirs ==
  ASSUME BlockInv, UNCHANGED blockvars, \A b \in Blocks : Owned(b)' = Owned(b)
  PROVE  BlockInv'
BY DEF BlockInv, blockvars, BlockTypeOK, HoldsBlock, BlockPages

(* What can be locked is owned by the handle it is a part of.              *)
LEMMA ElementsAreMapped ==
  ASSUME VecInv, NEW v \in Vecs, vec[v].map_len # 0
  PROVE  ElementPages(v) \subseteq Owned(v)
<1>1. /\ vec[v].addr \in Nat /\ vec[v].map_len \in Nat
      /\ ByteLen(vec[v].count) \in Nat
      /\ ByteLen(vec[v].count) <= vec[v].map_len
  BY VecInvOf DEF VecRecords, ShapeOf, ByteLen
<1>2. ElementPages(v) \subseteq MappedPages(v)
  BY <1>1, PagesOfPart DEF ElementPages, MappedPages
<1>3. QED
  BY <1>2 DEF VecInv

LockableIsOwned ==
  \A o \in Lockable : o \in Owners /\ SlicePages(RegionOf(o)) \subseteq Owned(o)

LEMMA RegionsAreOwned == BlockInv /\ VecInv => LockableIsOwned
<1> SUFFICES ASSUME BlockInv, VecInv, NEW o \in Lockable
             PROVE  o \in Owners /\ SlicePages(RegionOf(o)) \subseteq Owned(o)
  BY DEF LockableIsOwned
<1>1. CASE o \in Blocks
  <2>1. block[o].st = "live"
    BY <1>1, MemoryAssumption DEF Lockable
  <2>2. Owned(o) = PagesOf(block[o].addr, block[o].len)
    BY <1>1, <2>1 DEF BlockInv, HoldsBlock, BlockPages
  <2>3. QED
    BY <1>1, <2>2 DEF Owners, SlicePages, RegionOf
<1>2. CASE o \in Vecs
  <2>1. o \notin Blocks /\ vec[o].map_len # 0
    BY <1>2, MemoryAssumption DEF Lockable
  <2>2. ElementPages(o) \subseteq Owned(o)
    BY <1>2, <2>1, ElementsAreMapped
  <2>3. QED
    BY <1>2, <2>1, <2>2 DEF Owners, SlicePages, RegionOf, ElementPages
<1>3. QED
  BY <1>1, <1>2 DEF Lockable

(* No step unlocks a page of a lock that it leaves in force: the handle it *)
(* is on still has the page.                                               *)
LEMMA MovesKeepLocks ==
  ASSUME MemInv, NEW o \in Owners, Moves(o), LocksOfTheLiving,
         KernelInv', BlockInv', VecInv'
  PROVE  LockInv'
<1>1. BlockInv' /\ VecInv' => LockableIsOwned'
  BY RegionsAreOwned, PTL
<1>2. \A p \in locked \ locked' : owner'[p] = Free
  BY OthersKeepTheirPages DEF MemInv
<1>3. ASSUME NEW l \in locks'
      PROVE  l \subseteq Pages /\ l \subseteq locked'
  <2>1. /\ l \in locks
        /\ (\E x \in Lockable : l \subseteq SlicePages(RegionOf(x)))'
    BY <1>3 DEF LocksOfTheLiving
  <2>2. l \subseteq Pages /\ l \subseteq locked
    BY <2>1 DEF MemInv, LockInv, LocksHold
  <2>3. \E x \in Owners : l \subseteq Owned(x)'
    BY <1>1, <2>1 DEF LockableIsOwned
  <2>4. \A p \in l : owner'[p] # Free
    BY <2>3, MemoryAssumption DEF Owned, Owners
  <2>5. QED
    BY <1>2, <2>2, <2>4
<1>4. QED
  BY <1>3 DEF LockInv, LocksHold
(* Locking and unlocking change nothing but the locks.                     *)
LEMMA LockStep ==
  ASSUME MemInv, NEW r, LockRegion(r) \/ UnlockRegion(r)
  PROVE  MemInv' /\ UNCHANGED owner
<1>1. /\ owner' = owner /\ huge' = huge
      /\ UNCHANGED blockvars /\ UNCHANGED vecvars
  BY DEF LockRegion, UnlockRegion, Mlock, Munlock, asvars
<1>2. \A o : Owned(o)' = Owned(o)
  BY <1>1 DEF Owned
<1>3. SlicePages(r) \subseteq Pages /\ locked \subseteq Pages
  BY DEF SlicePages, PagesOf, MemInv, KernelInv
<1>4. /\ locked' \subseteq Pages
      /\ locks' \subseteq SUBSET Pages
      /\ \A l \in locks' : l \subseteq locked'
  <2>1. \A l \in locks : l \subseteq locked
    BY DEF MemInv, LockInv, LocksHold
  <2>2. locks \subseteq SUBSET Pages
    BY DEF MemInv, LockInv
  <2>3. CASE IsEmpty(r)
    <3>1. locked' = locked /\ locks' \subseteq locks
      BY <2>3 DEF LockRegion, UnlockRegion, asvars
    <3>2. QED
      BY <1>3, <2>1, <2>2, <3>1
  <2>4. CASE ~IsEmpty(r)
    <3>1. SlicePages(r) = PagesOf(r.addr, r.len)
      BY <2>4 DEF IsEmpty, SlicePages
    <3>2. CASE LockRegion(r)
      <4>1. /\ locked' = locked \union SlicePages(r)
            /\ locks' = locks \union {SlicePages(r)}
        BY <2>4, <3>1, <3>2 DEF LockRegion, Mlock
      <4>2. QED
        BY <1>3, <2>1, <2>2, <4>1
    <3>3. CASE UnlockRegion(r)
      <4>1. /\ locked' = locked \ SlicePages(r)
            /\ locks' = {l \in locks : l \intersect SlicePages(r) = {}}
        BY <2>4, <3>1, <3>3 DEF UnlockRegion, Munlock
      <4>2. QED
        BY <1>3, <2>1, <2>2, <4>1
    <3>4. QED
      BY <3>2, <3>3
  <2>5. QED
    BY <2>3, <2>4
<1>5. KernelInv' /\ LockInv'
  BY <1>1, <1>4 DEF MemInv, KernelInv, LockInv, LocksHold
<1>6. VecInv' /\ BlockInv'
  BY <1>1, <1>2, VecsKeepTheirs, BlocksKeepTheirs DEF MemInv
<1>7. QED
  BY <1>1, <1>5, <1>6 DEF MemInv
-----------------------------------------------------------------------------
LEMMA InitMemInv == Init => MemInv
<1> SUFFICES ASSUME Init PROVE MemInv
  OBVIOUS
<1>1. \A o \in Owners : Owned(o) = {}
  BY MemoryAssumption DEF Init, ASInit, Owned, Owners
<1>2. KernelInv /\ LockInv
  BY MemoryAssumption
     DEF Init, ASInit, KernelInv, LockInv, LocksHold, Owners
<1>3. BlockInv
  BY <1>1 DEF Init, BlockInit, BlockInv, BlockTypeOK, HoldsBlock, NoBlock,
              BlockRecords, Owners
<1>4. VecInv
  <2>1. VecTypeOK
    BY DEF Init, VecInit, VecTypeOK, NoVec
  <2>2. ASSUME NEW v \in Vecs
        PROVE  vec[v] = NoVec /\ alive[v] = 0 /\ Owned(v) = {}
    BY <1>1 DEF Init, VecInit, Owners
  <2>3. QED
    BY <2>1, <2>2, NoVecIsARecord DEF VecInv, ElementsAreBalanced, NoVec
<1>5. QED
  BY <1>2, <1>3, <1>4 DEF MemInv

(* Every step is the move of one handle.                                   *)
LEMMA StepMoves ==
  ASSUME MemInv, [Next]_vars
  PROVE  MemInv' /\ (UNCHANGED owner \/ \E o \in Owners : Moves(o))
<1>1. CASE BlockNext /\ UNCHANGED vecvars /\ LocksOfTheLiving
  <2>1. PICK b \in Blocks : BlockStep(b)
    BY <1>1 DEF BlockNext
  <2>2. Moves(b) /\ KernelInv' /\ BlockInv'
    BY <2>1, BlockMoves
  <2>3. b \in Owners /\ \A v \in Vecs : v \in Owners \ {b}
    BY MemoryAssumption DEF Owners
  <2>4. VecInv'
    BY <1>1, <2>2, <2>3, OthersKeepTheirPages, VecsKeepTheirs DEF MemInv
  <2>5. LockInv'
    BY <1>1, <2>2, <2>3, <2>4, MovesKeepLocks
  <2>6. QED
    BY <2>2, <2>3, <2>4, <2>5 DEF MemInv
<1>2. CASE VecNext /\ UNCHANGED blockvars /\ LocksOfTheLiving
  <2>1. PICK v \in Vecs : VecStep(v) /\ elem' = elem
    BY <1>2 DEF VecNext
  <2>2. Moves(v) /\ KernelInv' /\ VecInv'
    BY <2>1, VecMoves
  <2>3. v \in Owners /\ \A b \in Blocks : b \in Owners \ {v}
    BY MemoryAssumption DEF Owners
  <2>4. BlockInv'
    BY <1>2, <2>2, <2>3, OthersKeepTheirPages, BlocksKeepTheirs DEF MemInv
  <2>5. LockInv'
    BY <1>2, <2>2, <2>3, <2>4, MovesKeepLocks
  <2>6. QED
    BY <2>2, <2>3, <2>4, <2>5 DEF MemInv
<1>3. CASE \E o \in Lockable : \E r \in Slices(o) :
             LockRegion(r) \/ UnlockRegion(r)
  BY <1>3, LockStep
<1>4. CASE UNCHANGED vars
  <2>1. \A o : Owned(o)' = Owned(o)
    BY <1>4 DEF vars, Owned
  <2>2. UNCHANGED blockvars /\ UNCHANGED vecvars
    BY <1>4 DEF vars, blockvars, vecvars
  <2>3. BlockInv' /\ VecInv'
    BY <2>1, <2>2, VecsKeepTheirs, BlocksKeepTheirs DEF MemInv
  <2>4. KernelInv' /\ LockInv'
    BY <1>4 DEF vars, MemInv, KernelInv, LockInv, LocksHold
  <2>5. QED
    BY <1>4, <2>3, <2>4 DEF vars, MemInv
<1>5. QED
  BY <1>1, <1>2, <1>3, <1>4 DEF Next

LEMMA MemInvInvariant == Spec => []MemInv
<1>1. MemInv /\ [Next]_vars => MemInv'
  BY StepMoves
<1>2. QED
  BY <1>1, InitMemInv, PTL DEF Spec
-----------------------------------------------------------------------------
(* Every value of the address space and of the handles is of the right     *)
(* kind, and HugePageVec never puts its elements at an address that is not *)
(* aligned for their type.                                                 *)
THEOREM MemoryTypeCorrect == Spec => []TypeOK
<1>1. MemInv => TypeOK
  <2> SUFFICES ASSUME MemInv PROVE TypeOK
    OBVIOUS
  <2>1. /\ owner \in [Pages -> Blocks \union Vecs \union {Free}]
        /\ huge \subseteq Pages /\ locked \subseteq Pages
    BY DEF MemInv, KernelInv, Owners
  <2>2. BlockTypeOK /\ VecTypeOK /\ locks \subseteq SUBSET Pages
    BY DEF MemInv, BlockInv, VecInv, LockInv
  <2>3. \A v \in Vecs : HoldsMapping(v) => vec[v].addr % elem.align = 0
    BY VecInvOf DEF MemInv, HoldsMapping, ShapeOf
  <2>4. QED
    BY <2>1, <2>2, <2>3 DEF TypeOK
<1>2. QED
  BY <1>1, MemInvInvariant, PTL

(* The memory of a block or a vector is its own and mapped to the last     *)
(* byte from construction to drop, and no mapped page outlives its handle, *)
(* but for the vector whose elements panicked in their drop.               *)
THEOREM OwnersHaveTheirPages == Spec => []EachOwnerHasItsPages
<1>1. MemInv => EachOwnerHasItsPages
  <2> SUFFICES ASSUME MemInv PROVE EachOwnerHasItsPages
    OBVIOUS
  <2>1. \A b \in Blocks : HoldsBlock(b) => \A p \in BlockPages(b) : owner[p] = b
    BY DEF MemInv, BlockInv, Owned
  <2>2. \A v \in Vecs : HoldsMapping(v) => \A p \in ElementPages(v) : owner[p] = v
    BY ElementsAreMapped DEF MemInv, HoldsMapping, Owned
  <2>3. ASSUME NEW p \in Pages, owner[p] \in Blocks
        PROVE  HoldsBlock(owner[p]) /\ p \in BlockPages(owner[p])
    BY <2>3 DEF MemInv, BlockInv, Owned
  <2>4. ASSUME NEW p \in Pages, owner[p] \in Vecs
        PROVE  /\ \/ HoldsMapping(owner[p])
                  \/ vec[owner[p]].st \in {"misaligned", "leaked"}
               /\ p \in MappedPages(owner[p])
    <3>1. PICK v \in Vecs : v = owner[p]
      BY <2>4
    <3>2. vec[v].map_len # 0 /\ p \in MappedPages(v)
      BY <3>1 DEF MemInv, VecInv, Owned
    <3>3. vec[v].st \in {"misaligned", "init", "live", "leaked"}
      BY <3>2, VecInvOf DEF MemInv, ShapeOf, VecRecords
    <3>4. QED
      BY <3>1, <3>2, <3>3 DEF HoldsMapping
  <2>5. \A p \in Pages : owner[p] \in Blocks \union Vecs \union {Free}
    BY DEF MemInv, KernelInv, Owners
  <2>6. QED
    BY <2>1, <2>2, <2>3, <2>4, <2>5 DEF EachOwnerHasItsPages
<1>2. QED
  BY <1>1, MemInvInvariant, PTL

(* Each element of a HugePageVec is made once and dropped once, on every   *)
(* path through the constructors, the guard and the drops.                 *)
THEOREM ElementsBalanced == Spec => []ElementsAreBalanced
<1>1. MemInv => ElementsAreBalanced
  BY DEF MemInv, VecInv
<1>2. QED
  BY <1>1, MemInvInvariant, PTL

(* What lock_region locked stays locked until its own memory is dropped or *)
(* a page of it is unlocked.                                               *)
THEOREM LocksAreKept == Spec => []LocksHold
<1>1. MemInv => LocksHold
  BY DEF MemInv, LockInv
<1>2. QED
  BY <1>1, MemInvInvariant, PTL
-----------------------------------------------------------------------------
(* The refinement of Ownership.                                            *)
LEMMA MoveRefines ==
  ASSUME KernelInv, NEW o \in Owners, Moves(o)
  PROVE  Promise!Next \/ UNCHANGED Held
<1> DEFINE mine == Held'[o]
<1>1. /\ Held = [x \in Owners |-> Owned(x)]
      /\ Held' = [x \in Owners |-> Owned(x)']
  BY DEF Held, Owners, Owned
<1>2. Held' = [Held EXCEPT ![o] = mine] /\ mine = Owned(o)'
  BY <1>1, OthersKeepTheirPages
<1>3. CASE \E S : Takes(o, S)
  <2>1. PICK S : Takes(o, S)
    BY <1>3
  <2>2. mine = S /\ Held[o] = {}
    BY <1>1, <1>2, <2>1, TakingPages DEF Takes
  <2>3. mine \subseteq Pages \ UNION {Held[other] : other \in Owners}
    <3>1. \A x \in Owners : Held[x] = Owned(x) /\ x # Free
      BY <1>1, MemoryAssumption DEF Owners
    <3>2. S \subseteq Pages /\ \A x \in Owners : S \intersect Held[x] = {}
      BY <2>1, <3>1 DEF Takes, Owned
    <3>3. QED
      BY <2>2, <3>2
  <2>4. Promise!Take(o)
    BY <1>2, <2>2, <2>3 DEF Promise!Take, Held, Owners
  <2>5. QED
    BY <2>4 DEF Promise!Next, Owners
<1>4. CASE GivesBack(o)
  <2>1. mine = {}
    BY <1>2, <1>4, GivingPagesBack
  <2>2. Promise!GiveBack(o)
    BY <1>2, <2>1 DEF Promise!GiveBack, Held
  <2>3. QED
    BY <2>2 DEF Promise!Next, Owners
<1>5. CASE UNCHANGED <<owner, locked>>
  BY <1>5 DEF Held
<1>6. QED
  BY <1>3, <1>4, <1>5 DEF Moves

(* Blocks and vectors take free pages at once, keep exactly those and give *)
(* all of them back at once: the constructors, the failing ones, the loop, *)
(* the drops and the locks of src/mmap.rs, src/hugepages.rs and            *)
(* src/mlock.rs implement Ownership.                                       *)
THEOREM OwnershipKept == Spec => KeepsOwnership
<1>1. Init => Promise!Init
  <2> SUFFICES ASSUME Init PROVE Promise!Init
    OBVIOUS
  <2>1. \A o \in Owners : {p \in Pages : owner[p] = o} = {}
    BY MemoryAssumption DEF Init, ASInit, Owners
  <2>2. QED
    BY <2>1 DEF Promise!Init, Held, Owners
<1>2. MemInv /\ [Next]_vars => [Promise!Next]_Held
  <2> SUFFICES ASSUME MemInv, [Next]_vars PROVE Promise!Next \/ UNCHANGED Held
    OBVIOUS
  <2>1. CASE UNCHANGED owner
    BY <2>1 DEF Held
  <2>2. CASE \E o \in Owners : Moves(o)
    BY <2>2, MoveRefines DEF MemInv
  <2>3. QED
    BY <2>1, <2>2, StepMoves
<1>3. Spec => Promise!Init /\ [][Promise!Next]_Held
  BY <1>1, <1>2, MemInvInvariant, PTL DEF Spec
<1>4. QED
  BY <1>3 DEF KeepsOwnership, Promise!Spec
=============================================================================
