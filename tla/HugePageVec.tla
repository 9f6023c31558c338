---------------------------- MODULE HugePageVec -----------------------------
(***************************************************************************)
(* src/hugepages.rs: HugePageVec<T>.  A constructor first tries a          *)
(* MAP_HUGETLB mapping and writes the elements into it one by one; if that *)
(* is not possible it falls back to a Vec<T>, which lives on the heap and  *)
(* takes no pages of its own here.  T::default() and the destructor of T   *)
(* are the program's code and may panic.                                   *)
(*                                                                         *)
(* new, new_fallible and try_new differ only in how they report that the   *)
(* fallback failed too, which leaves no state behind.                      *)
(***************************************************************************)
EXTENDS AddressSpace, Integers

CONSTANTS
  Vecs,        \* the variables of the program that can hold a HugePageVec
  Counts,      \* the element counts tried
  Types,       \* the types tried for T: size_of and align_of, in units
  UsizeMax,    \* the largest usize
  AllocMax     \* the largest allocation a Vec can make, isize::MAX

ASSUME HugePageVecAssumption ==
  /\ Counts \subseteq Nat
  /\ Types \subseteq [size : Nat, align : Nat \ {0}]
  /\ \A t \in Types : t.size % t.align = 0
  /\ UsizeMax \in Nat /\ AllocMax \in 0..UsizeMax

VARIABLES
  elem,   \* the type T of the elements; it does not change
  vec,    \* each HugePageVec, or how far its constructor is
  alive   \* how many elements made for it have not been dropped

vecvars == <<elem, vec, alive>>

(* map_len is 0 without a mapping; initialized is the field of InitGuard.  *)
NoVec ==
  [st |-> "none", addr |-> 0, count |-> 0, map_len |-> 0, initialized |-> 0]

VecInit ==
  /\ elem \in Types
  /\ vec = [v \in Vecs |-> NoVec]
  /\ alive = [v \in Vecs |-> 0]

VecTypeOK ==
  /\ elem \in Types
  /\ vec \in [Vecs -> [st : {"none", "misaligned", "init", "fallback", "live",
                             "leaked"},
                       addr : Nat, count : Nat, map_len : Nat,
                       initialized : Nat]]
  /\ alive \in [Vecs -> Nat]

ByteLen(count) == count * elem.size

AlignUp(value, alignment) ==
  IF value % alignment = 0 THEN value
                           ELSE value + (alignment - (value % alignment))

(* checked_len and align_up fail where a usize would overflow.             *)
Overflows(n) == n > UsizeMax

(* HugeAllocation::new asks for a mapping.                                 *)
AsksForHugePages(count) ==
  /\ count # 0 /\ elem.size # 0
  /\ ~Overflows(ByteLen(count))
  /\ ~Overflows(AlignUp(ByteLen(count), HugePageBytes))

Fallback(v, count) ==
  vec' = [vec EXCEPT ![v] = [NoVec EXCEPT !.st = "fallback", !.count = count]]

(* HugeAllocation::new gives up: no mapping asked for, or mmap refuses.    *)
NewWithoutHugePages(v, count) ==
  /\ vec[v].st = "none"
  /\ Fallback(v, count)
  /\ UNCHANGED <<asvars, alive>>

(* Mutant: the alignment is not looked at.                                 *)
AnyAlignment(a) == FALSE

Misaligned(a) == a % elem.align # 0

(* HugeAllocation::new up to the guard: mmap, then the look at the address. *)
NewHuge(v, count) ==
  /\ vec[v].st = "none"
  /\ AsksForHugePages(count)
  /\ LET map_len == AlignUp(ByteLen(count), HugePageBytes) IN
       \E a \in Places(map_len, HugePageBytes) :
         /\ MmapHuge(v, a, map_len)
         /\ vec' = [vec EXCEPT ![v] =
                      [st |-> IF Misaligned(a) THEN "misaligned" ELSE "init",
                       addr |-> a, count |-> count, map_len |-> map_len,
                       initialized |-> 0]]
  /\ UNCHANGED alive

(* One round of the initialisation loop; after the last the guard is       *)
(* forgotten and HugeAllocation owns the mapping.                          *)
InitElement(v) ==
  /\ vec[v].st = "init"
  /\ LET n == vec[v].initialized + 1 IN
       vec' = [vec EXCEPT ![v].initialized = n,
                          ![v].st = IF n = vec[v].count THEN "live" ELSE "init"]
  /\ alive' = [alive EXCEPT ![v] = @ + 1]
  /\ UNCHANGED asvars

(* Mutant: the elements are not dropped.                                   *)
KeepElements(v, n) == UNCHANGED alive

(* drop_in_place of the first n elements.                                  *)
DropElements(v, n) == alive' = [alive EXCEPT ![v] = @ - n]

Clear(v) == vec' = [vec EXCEPT ![v] = NoVec]

(* Mutant: only the bytes of the elements are unmapped.                    *)
UnmapElements(v) == Munmap(vec[v].addr, ByteLen(vec[v].count))

UnmapVec(v) == Munmap(vec[v].addr, vec[v].map_len)

(* T cannot live in the mapping, which is given back; new gives up.        *)
UnmapMisaligned(v) ==
  /\ vec[v].st = "misaligned"
  /\ UnmapVec(v)
  /\ Fallback(v, vec[v].count)
  /\ UNCHANGED alive

(* guard.initialized                                                       *)
WrittenElements(v) == vec[v].initialized

(* T::default() panics in the loop, and InitGuard::drop runs.              *)
DefaultPanics(v) ==
  /\ vec[v].st = "init"
  /\ DropElements(v, WrittenElements(v))
  /\ UnmapVec(v)
  /\ Clear(v)

(* The Vec: reserved as a whole, then filled.                              *)
FallbackSucceeds(v) ==
  /\ vec[v].st = "fallback"
  /\ ByteLen(vec[v].count) <= AllocMax
  /\ vec' = [vec EXCEPT ![v].st = "live"]
  /\ alive' = [alive EXCEPT ![v] = vec[v].count]
  /\ UNCHANGED asvars

(* try_reserve or collect fails, or T::default() panics and the Vec drops  *)
(* what it holds.                                                          *)
FallbackFails(v) ==
  /\ vec[v].st = "fallback"
  /\ Clear(v)
  /\ UNCHANGED <<asvars, alive>>

(* The drop of the Vec, or HugeAllocation::drop.                           *)
DropVec(v) ==
  /\ vec[v].st = "live"
  /\ DropElements(v, vec[v].count)
  /\ IF vec[v].map_len = 0 THEN UNCHANGED asvars ELSE UnmapVec(v)
  /\ Clear(v)

(* A destructor panics in drop_in_place: the other elements are dropped,   *)
(* the munmap after it is not reached, and nobody knows the mapping.       *)
DropPanics(v) ==
  /\ vec[v].st = "live"
  /\ vec[v].map_len # 0
  /\ DropElements(v, vec[v].count)
  /\ vec' = [vec EXCEPT ![v].st = "leaked"]
  /\ UNCHANGED asvars

VecStep(v) ==
  \/ \E n \in Counts : NewWithoutHugePages(v, n) \/ NewHuge(v, n)
  \/ UnmapMisaligned(v)
  \/ InitElement(v)
  \/ DefaultPanics(v)
  \/ FallbackSucceeds(v)
  \/ FallbackFails(v)
  \/ DropVec(v)
  \/ DropPanics(v)

VecNext == (\E v \in Vecs : VecStep(v)) /\ UNCHANGED elem

(* The pages of the elements, and those of the mapping.                    *)
ElementPages(v) == PagesOf(vec[v].addr, ByteLen(vec[v].count))
MappedPages(v) == PagesOf(vec[v].addr, vec[v].map_len)
=============================================================================
