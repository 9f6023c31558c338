------------------------------- MODULE Memory -------------------------------
(***************************************************************************)
(* Blocks, huge-page vectors and memory locks in one process.  They share  *)
(* the address space and nothing else: an address one of them gives back   *)
(* may be the next address of another.  The locks are those of             *)
(* src/mlock.rs, taken on any bytes of a block or of a mapped vector: the  *)
(* kernel locks whole pages, and it rounds the empty region at an address  *)
(* within a page up to that page.                                          *)
(***************************************************************************)
EXTENDS MmapBlock, HugePageVec, FiniteSets

CONSTANTS
  SliceLens,   \* the lengths of regions tried
  MaxLocks     \* bound: the locks that hold at the same time

VARIABLE locks   \* the pages of each lock_region that is still in force

vars == <<owner, huge, locked, block, unread, elem, vec, alive, locks>>

ASSUME MemoryAssumption ==
  /\ Free \notin Blocks \union Vecs /\ Blocks \intersect Vecs = {}
  /\ SliceLens \subseteq Nat /\ MaxLocks \in Nat

Init == ASInit /\ BlockInit /\ VecInit /\ locks = {}

(* What there is to lock: as_ptr() and len() of a block, or the slice of a *)
(* vector.                                                                 *)
Lockable == {b \in Blocks : block[b].st = "live"}
              \union {v \in Vecs : vec[v].st = "live" /\ vec[v].map_len # 0}

RegionOf(o) ==
  IF o \in Blocks
    THEN [addr |-> block[o].addr, len |-> block[o].len]
    ELSE [addr |-> vec[o].addr, len |-> ByteLen(vec[o].count)]

(* The regions a program can name in o: any of its bytes, or none.         *)
Slices(o) ==
  UNION {{[addr |-> RegionOf(o).addr + from, len |-> n] :
            n \in SliceLens \intersect 0..RegionOf(o).len - from} :
           from \in 0..RegionOf(o).len}

(* Mutant: a region without bytes is passed on to the kernel.              *)
IsEmptyNever(r) == FALSE

(* non_zero_len(len).is_none(): region_call has nothing to do.             *)
IsEmpty(r) == r.len = 0

(* The pages with a byte of the region on them.                            *)
SlicePages(r) == IF r.len = 0 THEN {} ELSE PagesOf(r.addr, r.len)

(* lock_region; where mlock fails there is no lock.                        *)
LockRegion(r) ==
  /\ IF IsEmpty(r)
       THEN UNCHANGED <<asvars, locks>>
       ELSE /\ Mlock(r.addr, r.len)
            /\ locks' = locks \union {SlicePages(r)}
            /\ Cardinality(locks') <= MaxLocks
  /\ UNCHANGED <<blockvars, vecvars>>

(* Locks do not nest: the other locks of these pages end as well.          *)
UnlockRegion(r) ==
  /\ IF IsEmpty(r) THEN UNCHANGED asvars ELSE Munlock(r.addr, r.len)
  /\ locks' = {l \in locks : l \intersect SlicePages(r) = {}}
  /\ UNCHANGED <<blockvars, vecvars>>

(* Locks end with the value whose memory they are on.                      *)
LocksOfTheLiving ==
  locks' = {l \in locks :
              (\E o \in Lockable : l \subseteq SlicePages(RegionOf(o)))'}

Next ==
  \/ BlockNext /\ UNCHANGED vecvars /\ LocksOfTheLiving
  \/ VecNext /\ UNCHANGED blockvars /\ LocksOfTheLiving
  \/ \E o \in Lockable : \E r \in Slices(o) :
       LockRegion(r) \/ UnlockRegion(r)

Spec == Init /\ [][Next]_vars
-----------------------------------------------------------------------------
HoldsBlock(b) == block[b].st \in {"binding", "live"}
HoldsMapping(v) == vec[v].st \in {"init", "live"} /\ vec[v].map_len # 0

(* The address space and the handles are of the right kind, and a mapped   *)
(* vector is at an address its type can live at.                           *)
TypeOK ==
  /\ owner \in [Pages -> Blocks \union Vecs \union {Free}]
  /\ huge \subseteq Pages /\ locked \subseteq Pages
  /\ BlockTypeOK
  /\ VecTypeOK
  /\ \A v \in Vecs : HoldsMapping(v) => vec[v].addr % elem.align = 0
  /\ locks \subseteq SUBSET Pages

(* The memory a block or a vector lets the program touch is its own and    *)
(* mapped, to the last byte, from its construction to its drop: no other   *)
(* drop, failed constructor or recycled address takes it away.  And every  *)
(* mapped page belongs to a block or a vector that exists or is being made *)
(* (the results of munmap are ignored, so an unmap that misses pages or is *)
(* refused would go unnoticed); the only exception is a vector whose       *)
(* elements panicked when they were dropped.                               *)
EachOwnerHasItsPages ==
  /\ \A b \in Blocks : HoldsBlock(b) => \A p \in BlockPages(b) : owner[p] = b
  /\ \A v \in Vecs : HoldsMapping(v) => \A p \in ElementPages(v) : owner[p] = v
  /\ \A p \in Pages :
       \/ owner[p] = Free
       \/ owner[p] \in Blocks /\ HoldsBlock(owner[p]) /\ p \in BlockPages(owner[p])
       \/ /\ owner[p] \in Vecs
          /\ \/ HoldsMapping(owner[p])
             \/ vec[owner[p]].st \in {"misaligned", "leaked"}
          /\ p \in MappedPages(owner[p])

(* Each element is made once and dropped once: a constructor that panics   *)
(* drops the elements it made and not one more, a drop drops all of them.  *)
ElementsAreBalanced ==
  \A v \in Vecs :
    alive[v] = CASE vec[v].st = "init" -> vec[v].initialized
                 [] vec[v].st = "live" -> vec[v].count
                 [] OTHER -> 0

(* What lock_region locked stays locked until an unlock of a region that   *)
(* has a byte on one of its pages, or the drop of the memory: no other     *)
(* unlock, empty regions included, and no other drop undoes it.            *)
LocksHold == \A l \in locks : l \subseteq locked

(* Blocks and vectors implement Ownership: their pages are taken from the  *)
(* free ones at once and given back at once, never a part of them and      *)
(* never somebody else's.                                                  *)
Held == [o \in Blocks \union Vecs |-> {p \in Pages : owner[p] = o}]

Promise == INSTANCE Ownership WITH
  Owners <- Blocks \union Vecs,
  held <- Held

KeepsOwnership == Promise!Spec

(* new_on_node binds the block to its node: mbind does not refuse a node   *)
(* that exists for want of a node in its mask.                             *)
NodeReachesKernel == \A b \in Blocks : block[b].st # "unbound"
=============================================================================
