----------------------------- MODULE PageCache ------------------------------
(***************************************************************************)
(* src/readahead.rs: readahead, evict_pages and advise_sequential, and the *)
(* page cache of one file behind them.  The kernel is external: it loads   *)
(* what it likes of what it is asked for, and it drops the pages of an     *)
(* eviction that no other program holds on to.  Other programs read the    *)
(* same file, and its pages are theirs as well.                            *)
(*                                                                         *)
(* Offsets and lengths are in bytes.                                       *)
(***************************************************************************)
EXTENDS Naturals, FiniteSetsExt

CONSTANTS
  FileLen,     \* the length of the file
  PageBytes,   \* the bytes of a page
  OffMax,      \* the largest off_t
  Offsets      \* the offsets and lengths tried, as u64

ASSUME PageCacheAssumption ==
  /\ FileLen \in Nat /\ PageBytes \in Nat \ {0} /\ OffMax \in Nat
  /\ FileLen <= OffMax
  /\ Offsets \subseteq Nat

VARIABLES
  cached,       \* the pages of the file in memory
  held,         \* those of them that others have mapped or are writing to
  sequential    \* whether the descriptor was advised to be read in order

pagevars == <<cached, held, sequential>>

FilePages == {p \in 0..FileLen : p * PageBytes < FileLen}

PageInit ==
  /\ cached = {} /\ held = {}
  /\ sequential = FALSE

(* The bytes of the file on page p.                                        *)
BytesOf(p) == {b \in p * PageBytes..(p + 1) * PageBytes - 1 : b < FileLen}

(* Mutant: a u64 beyond off_t is cut to its width.                         *)
ToOffTruncated(n) == {n % (OffMax + 1)}

(* off_t::try_from, off64_t::try_from                                      *)
ToOff(n) == IF n <= OffMax THEN {n} ELSE {}

(* readahead: a hint, so the kernel may load fewer pages, or none.  An     *)
(* offset that does not convert is an error.                               *)
Readahead(off, count) ==
  /\ \E o \in ToOff(off) :
       \E loaded \in SUBSET {p \in FilePages : (p + 1) * PageBytes > o
                                        /\ p * PageBytes < o + count} :
         cached' = cached \union loaded
  /\ UNCHANGED <<held, sequential>>

(* The pages POSIX_FADV_DONTNEED drops: those inside the range, and the    *)
(* last one of a range that ends with the file.  0 is to the end.          *)
DontNeed(off, len) ==
  {p \in FilePages :
     /\ p * PageBytes >= off
     /\ len = 0 \/ off + len = FileLen \/ (p + 1) * PageBytes <= off + len}

(* evict_pages: both conversions, and posix_fadvise.                       *)
EvictPages(off, len) ==
  /\ \E o \in ToOff(off), l \in ToOff(len) :
       cached' = cached \ (DontNeed(o, l) \ held)
  /\ UNCHANGED <<held, sequential>>

(* A conversion fails, or the kernel refuses the descriptor, a pipe's.     *)
HintFails == UNCHANGED pagevars

(* advise_sequential: about the whole file, for this descriptor only.      *)
AdviseSequential ==
  /\ sequential' = TRUE
  /\ UNCHANGED <<cached, held>>

(* The scan reads page p, and the kernel reads ahead of it, twice as far   *)
(* once it was advised.                                                    *)
ReadPage(p) ==
  /\ LET window == IF sequential THEN 2 ELSE 1 IN
       cached' = cached \union (FilePages \intersect p..p + window)
  /\ UNCHANGED <<held, sequential>>

(* Others read, hold and let go of a page, or need the memory of one.      *)
Others(p) ==
  /\ \/ cached' = cached \union {p} /\ UNCHANGED held
     \/ p \in cached /\ held' = held \union {p} /\ UNCHANGED cached
     \/ p \in held /\ held' = held \ {p} /\ UNCHANGED cached
     \/ p \in cached \ held /\ cached' = cached \ {p} /\ UNCHANGED held
  /\ UNCHANGED sequential

PageNext ==
  \/ \E off, len \in Offsets : Readahead(off, len) \/ EvictPages(off, len)
  \/ AdviseSequential
  \/ HintFails
  \/ \E p \in FilePages : ReadPage(p) \/ Others(p)
-----------------------------------------------------------------------------
(* The pages are of the right kind, and held pages are in memory.          *)
PageTypeOK ==
  /\ cached \subseteq FilePages /\ held \subseteq cached
  /\ sequential \in BOOLEAN

(* An eviction takes no page on which the file has a byte outside the      *)
(* range, so a neighbour's half of a shared page stays; the one exception  *)
(* is the length 0, which is everything from the offset on.  Offsets       *)
(* beyond off_t evict nothing at all.                                      *)
EvictsOnlyWholePages ==
  [][\A off, len \in Offsets :
       EvictPages(off, len) =>
         \A p \in cached \ cached' : \A b \in BytesOf(p) :
           b >= off /\ (len = 0 \/ b < off + len)]_pagevars
=============================================================================
