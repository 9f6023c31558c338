---------------------------- MODULE AddressSpace ----------------------------
(***************************************************************************)
(* The kernel's side of the anonymous mappings kernelkit makes: mmap,      *)
(* munmap, mlock and mbind on a small address space.  External: this is    *)
(* what src/mmap.rs, src/hugepages.rs and src/mlock.rs rely on.            *)
(*                                                                         *)
(* Addresses and lengths are counted in units smaller than a page, so that *)
(* a length that is no multiple of the page size exists.  Addresses that   *)
(* are unmapped are handed out again.                                      *)
(***************************************************************************)
EXTENDS Naturals

CONSTANTS
  NPages,     \* bound: the size of the address space
  PageSize,   \* units in a page
  HugePage,   \* pages in a huge page
  Free        \* the owner of an unmapped page

ASSUME AddressSpaceAssumption ==
  NPages \in Nat /\ PageSize \in Nat \ {0} /\ HugePage \in Nat \ {0}

VARIABLES
  owner,    \* who mapped each page
  huge,     \* the pages of MAP_HUGETLB mappings
  locked    \* the pages kept in memory by mlock

asvars == <<owner, huge, locked>>

Pages == 0..NPages - 1

(* The pages that hold the n units from addr on.                           *)
PagesOf(addr, n) ==
  {p \in Pages : addr < (p + 1) * PageSize /\ p * PageSize < addr + n}

RoundUp(n, unit) == ((n + unit - 1) \div unit) * unit

HugePageBytes == HugePage * PageSize

ASInit ==
  /\ owner = [p \in Pages |-> Free]
  /\ huge = {}
  /\ locked = {}

(* The addresses at which mmap can place n units.                          *)
Places(n, unit) ==
  {a \in {p * PageSize : p \in Pages} :
     /\ a % unit = 0
     /\ a + RoundUp(n, unit) <= NPages * PageSize
     /\ \A p \in PagesOf(a, RoundUp(n, unit)) : owner[p] = Free}

(* mmap(NULL, n) for who, placed at addr; the length is rounded up.        *)
Mmap(who, addr, n) ==
  /\ addr \in Places(n, PageSize)
  /\ owner' = [p \in Pages |-> IF p \in PagesOf(addr, n) THEN who ELSE owner[p]]
  /\ UNCHANGED <<huge, locked>>

MmapHuge(who, addr, n) ==
  /\ addr \in Places(n, HugePageBytes)
  /\ LET range == PagesOf(addr, RoundUp(n, HugePageBytes)) IN
       /\ owner' = [p \in Pages |-> IF p \in range THEN who ELSE owner[p]]
       /\ huge' = huge \union range
  /\ UNCHANGED locked

(* munmap refuses to cut a huge page in two.                               *)
CutsHugePage(range) ==
  \E p \in range \intersect huge, q \in huge \ range :
    p \div HugePage = q \div HugePage

(* munmap(addr, n): all the pages the range touches go, whoever mapped     *)
(* them.  Its result is ignored by every caller.                           *)
Munmap(addr, n) ==
  LET range == PagesOf(addr, n) IN
    IF n = 0 \/ CutsHugePage(range)
      THEN UNCHANGED asvars
      ELSE /\ owner' = [p \in Pages |-> IF p \in range THEN Free ELSE owner[p]]
           /\ huge' = huge \ range
           /\ locked' = locked \ range

Mlock(addr, n) ==
  /\ \A p \in PagesOf(addr, n) : owner[p] # Free
  /\ locked' = locked \union PagesOf(addr, n)
  /\ UNCHANGED <<owner, huge>>

Munlock(addr, n) ==
  /\ \A p \in PagesOf(addr, n) : owner[p] # Free
  /\ locked' = locked \ PagesOf(addr, n)
  /\ UNCHANGED <<owner, huge>>
=============================================================================
