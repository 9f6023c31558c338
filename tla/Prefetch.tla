------------------------------ MODULE Prefetch -------------------------------
(***************************************************************************)
(* src/prefetch.rs: prefetch_range asks detect() for the line size and     *)
(* prefetches one address after the other, a line size apart.  Several     *)
(* threads call it, and detect(), for the first time at once.              *)
(*                                                                         *)
(* The line size the loop steps by is what /sys says, not what the cache   *)
(* has, and the pointer need not be at the beginning of a line.            *)
(***************************************************************************)
EXTENDS CpuFeatures, FiniteSetsExt

CONSTANTS
  Ptrs, Lens,         \* the addresses and lengths tried; 0 is the null pointer
  MaxPrefetchBytes,   \* MAX_PREFETCH_BYTES
  HwLine,             \* the line size of the cache
  MaxCalls            \* bound: the calls of all threads together

ASSUME PrefetchAssumption ==
  /\ Ptrs \subseteq Nat /\ Lens \subseteq Nat
  /\ MaxPrefetchBytes \in 1..UsizeMax
  /\ HwLine \in Nat \ {0}
  /\ MaxCalls \in Nat

VARIABLES
  pc,        \* where each thread is
  arg,       \* the arguments of its call
  offset,    \* the local of prefetch_range
  touched,   \* the addresses its latest call has prefetched
  got,       \* what its latest detect() returned: <<>> before that
  calls

callvars == <<pc, arg, offset, touched, got, calls>>

NoArg == [ptr |-> 0, len |-> 0]

CallInit ==
  /\ pc = [t \in Threads |-> "idle"]
  /\ arg = [t \in Threads |-> NoArg]
  /\ offset = [t \in Threads |-> 0]
  /\ touched = [t \in Threads |-> {}]
  /\ got = [t \in Threads |-> <<>>]
  /\ calls = 0

Count == calls < MaxCalls /\ calls' = calls + 1

Enter(t, step, a) ==
  /\ pc[t] = "idle"
  /\ Count
  /\ pc' = [pc EXCEPT ![t] = step]
  /\ arg' = [arg EXCEPT ![t] = a]
  /\ offset' = [offset EXCEPT ![t] = 0]
  /\ touched' = [touched EXCEPT ![t] = {}]
  /\ UNCHANGED <<got, cpuvars>>

CallDetect(t) == Enter(t, "detect", NoArg)

(* prefetch_range: nothing to do for a null pointer or no bytes.           *)
PrefetchRange(t, ptr, len) ==
  IF ptr = 0 \/ len = 0
    THEN Enter(t, "idle", NoArg)
    ELSE Enter(t, "line size", [ptr |-> ptr, len |-> len])

(* detect() returns, and prefetch_range goes on to its loop.               *)
Detected(t) ==
  /\ pc[t] \in {"detect", "line size"}
  /\ IsDetected
  /\ got' = [got EXCEPT ![t] = cell]
  /\ pc' = [pc EXCEPT ![t] = IF @ = "detect" THEN "idle" ELSE "loop"]
  /\ UNCHANGED <<arg, offset, touched, calls, cpuvars>>

Detecting(t) ==
  /\ pc[t] \in {"detect", "line size"}
  /\ StartProbe(t) \/ Probe(t)
  /\ UNCHANGED callvars

(* Mutant: a line size of 0 is taken as it is.                             *)
CacheLineOrZero(t) == got[t][1].line

(* cache_line_size.max(1)                                                  *)
CacheLine(t) == Max({got[t][1].line, 1})

(* Mutant: the cap is forgotten.                                           *)
UncappedLen(t) == arg[t].len

(* len.min(MAX_PREFETCH_BYTES)                                             *)
CappedLen(t) == Min({arg[t].len, MaxPrefetchBytes})

SaturatingAdd(a, b) == Min({a + b, UsizeMax})

(* Mutant: the next address is a byte too far.                             *)
NextOffsetPast(t) == SaturatingAdd(offset[t], CacheLine(t)) + 1

NextOffset(t) == SaturatingAdd(offset[t], CacheLine(t))

(* One round of the loop, or its end.                                      *)
PrefetchLine(t) ==
  /\ pc[t] = "loop"
  /\ IF offset[t] < CappedLen(t)
       THEN /\ touched' = [touched EXCEPT ![t] = @ \union {arg[t].ptr + offset[t]}]
            /\ offset' = [offset EXCEPT ![t] = NextOffset(t)]
            /\ UNCHANGED pc
       ELSE /\ pc' = [pc EXCEPT ![t] = "idle"]
            /\ UNCHANGED <<touched, offset>>
  /\ UNCHANGED <<arg, got, calls, cpuvars>>

(* What a thread does inside a call.                                       *)
Inside(t) == Detected(t) \/ Detecting(t) \/ PrefetchLine(t)

Call(t) ==
  \/ CallDetect(t)
  \/ \E ptr \in Ptrs, len \in Lens : PrefetchRange(t, ptr, len)

PrefetchInit == CpuInit /\ CallInit
PrefetchNext ==
  \/ \E t \in Threads : Call(t) \/ Inside(t)
  \/ Toggle /\ UNCHANGED callvars
-----------------------------------------------------------------------------
Features == [line : Sizes, l1 : Sizes, l2 : Sizes, l3 : Sizes,
             simd : {s \in SUBSET Extensions :
                       s \intersect Avx512Extensions # {} => "avx512f" \in s}]

(* The cell, the detection and the calls are of the right kind; features   *)
(* never name an AVX-512 extension without its foundation.                 *)
PrefetchTypeOK ==
  /\ files \in Trees /\ present \in BOOLEAN /\ toggles \in 0..MaxToggles
  /\ cell = <<>> \/ cell[1] \in Features
  /\ builder \in Threads \union {NoThread}
  /\ \A size \in {probe.line, probe.l1, probe.l2} : size \in Sizes \union {Absent}
  /\ pc \in [Threads -> {"idle", "detect", "line size", "loop"}]
  /\ \A t \in Threads : touched[t] \subseteq Nat /\ offset[t] \in Nat
  /\ calls \in 0..MaxCalls

(* detect() gives every caller the same answer, first and later calls,     *)
(* though the files change or vanish meanwhile.                            *)
OneAnswerForAll ==
  \A t, u \in Threads : got[t] # <<>> /\ got[u] # <<>> => got[t] = got[u]

(* The size a text stands for, if a usize can hold it.                     *)
Factor(unit) == CASE unit = 0 -> 1 [] unit = 1 -> K
                  [] unit = 2 -> K * K [] unit = 3 -> K * K * K

Meant(text) ==
  LET size == text.n * Factor(text.unit) IN
    IF text.n = Absent \/ size > UsizeMax THEN {} ELSE {size}

(* Each size is that of a file it may come from, to the last byte, or the  *)
(* default.  A product that is too large for a usize is no size at all,    *)
(* never a small one.  Where the files stay, the L1 size is that of the    *)
(* first data cache with a size if there is one; only else it is that of   *)
(* another.                                                                *)
EachSizeHasASource ==
  LET data == {i \in {0, 1} : /\ files[i].type \in {"Data", "Unified"}
                              /\ Meant(files[i].size) # {}}
  IN  IsDetected =>
        /\ cell[1].line \in Meant(files[0].line) \union Meant(files[1].line)
                              \union {DefaultLine}
        /\ cell[1].l1 \in Meant(files[0].size) \union Meant(files[1].size)
                            \union {DefaultL1}
        /\ present /\ toggles = 0 /\ data # {} =>
             cell[1].l1 \in Meant(files[Min(data)].size)
        /\ cell[1].l2 \in Meant(files[2].size) \union {DefaultL2}
        /\ cell[1].l3 \in Meant(files[3].size) \union {0}

(* The bytes a call may read, as far as the cap goes.                      *)
Bytes(t) == arg[t].ptr..arg[t].ptr + CappedLen(t) - 1

LineOf(a) == a \div HwLine

(* No address outside the memory that the caller vouches for is formed,    *)
(* let alone prefetched, and none beyond the cap.                          *)
TouchesOnlyTheRange ==
  \A t \in Threads :
    touched[t] \subseteq arg[t].ptr..arg[t].ptr + arg[t].len - 1
      /\ \A a \in touched[t] : a < arg[t].ptr + MaxPrefetchBytes

(* The line size that was detected is one that steps over no line.         *)
StepsOverNoLine(t) == CacheLine(t) <= HwLine

(* "Prefetch all cache lines that overlap a byte range" holds up to the    *)
(* cap where the range begins at a line and the size detected divides that *)
(* of a line; else the last line may be missed, and no other.              *)
MissesAtMostTheLastLine ==
  \A t \in Threads :
    pc[t] = "idle" /\ touched[t] # {} /\ StepsOverNoLine(t) =>
      LET missed == {LineOf(a) : a \in Bytes(t)} \ {LineOf(a) : a \in touched[t]}
      IN  /\ missed \subseteq {LineOf(Max(Bytes(t)))}
          /\ arg[t].ptr % HwLine = 0 /\ HwLine % CacheLine(t) = 0 =>
               missed = {}

(* detect() and prefetch_range return, whatever becomes of the files and   *)
(* whatever line size they name; 0 is one of them.                         *)
EveryCallReturns == \A t \in Threads : pc[t] # "idle" ~> pc[t] = "idle"
=============================================================================
