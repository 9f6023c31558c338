---------------------------- MODULE CpuFeatures -----------------------------
(***************************************************************************)
(* src/cpu_features.rs: detect() looks at the CPU and at the cache files   *)
(* of cpu0 under /sys once, in whichever thread comes first, and answers   *)
(* from a OnceLock ever after.  The files are external.  They go away when *)
(* cpu0 is taken offline and come back with it, at any time, so the        *)
(* detection may see them at one read and not at the next.                 *)
(*                                                                         *)
(* The text of a file is a number with a unit, or has no number.           *)
(***************************************************************************)
EXTENDS Integers

CONSTANTS
  Threads, NoThread,
  Trees,          \* the contents of the cache files tried
  Cpus,           \* the sets of instruction set extensions tried
  Absent,         \* a text without a number, a size that is not known
  K,              \* 1024
  UsizeMax,       \* the largest usize
  DefaultLine, DefaultL1, DefaultL2,   \* 64, 32K and 256K
  MaxToggles      \* bound: how often cpu0 goes and comes back

Avx512Extensions == {"avx512bw", "avx512vl", "avx512vbmi"}
Extensions == Avx512Extensions \union {"avx512f", "avx2", "neon"}

Texts == [n : 0..UsizeMax \union {Absent}, unit : 0..3]
CacheFiles == [type : {"Data", "Instruction", "Unified", "none"},
               size : Texts, line : Texts]

ASSUME CpuFeaturesAssumption ==
  /\ NoThread \notin Threads
  /\ K \in Nat \ {0} /\ UsizeMax \in Nat /\ Absent \notin Nat
  /\ {DefaultLine, DefaultL1, DefaultL2} \subseteq 1..UsizeMax
  /\ Trees \subseteq [0..3 -> CacheFiles]
  /\ Cpus \subseteq SUBSET Extensions
  /\ MaxToggles \in Nat

VARIABLES
  files,     \* the cache files of cpu0, by index
  present,   \* whether they are there
  toggles,   \* how often they went or came back
  cpu,       \* what is_x86_feature_detected and its like know of
  cell,      \* FEATURES: <<>>, or the features in a tuple
  builder,   \* the thread inside detect_impl
  probe      \* the locals of detect_cache_sizes, and the file it reads next

cpuvars == <<files, present, toggles, cpu, cell, builder, probe>>

Sizes == 0..UsizeMax

NoProbe ==
  [at |-> <<"line", 0>>, line |-> Absent, l1 |-> Absent, l2 |-> Absent]

CpuInit ==
  /\ files \in Trees
  /\ present \in BOOLEAN
  /\ toggles = 0
  /\ cpu \in Cpus
  /\ cell = <<>>
  /\ builder = NoThread
  /\ probe = NoProbe

(* Another program takes cpu0 offline, or online again.                    *)
Toggle ==
  /\ toggles < MaxToggles
  /\ toggles' = toggles + 1
  /\ present' = ~present
  /\ UNCHANGED <<files, cpu, cell, builder, probe>>

-----------------------------------------------------------------------------
(* Mutant: the product wraps.                                              *)
WrappingMul(n, by) ==
  IF n = Absent THEN Absent ELSE (n * by) % (UsizeMax + 1)

(* checked_mul, and and_then before it                                     *)
CheckedMul(n, by) ==
  IF n = Absent \/ n * by > UsizeMax THEN Absent ELSE n * by

(* parse_cache_value: the factors of K, M and G, one checked_mul each.     *)
ParseCacheValue(text) ==
  LET kib == CheckedMul(text.n, K)
      mib == CheckedMul(kib, K)
      gib == CheckedMul(mib, K)
  IN  CASE text.unit = 0 -> text.n [] text.unit = 1 -> kib
        [] text.unit = 2 -> mib [] text.unit = 3 -> gib

(* read_cache_value; probe_l1_cache_size makes the same of a size.         *)
ReadCacheValue(text) == IF present THEN ParseCacheValue(text) ELSE Absent

OrElse(value, default) == IF value = Absent THEN default ELSE value

(* "data" or "unified"                                                     *)
IsDataCache(type) == type \in {"Data", "Unified"}

(* Mutant: what the CPU says is taken as it is.                            *)
AllExtensions == cpu

(* detect_impl: an AVX-512 extension counts only with the foundation.      *)
Simd == {f \in cpu : f \in Avx512Extensions => "avx512f" \in cpu}

-----------------------------------------------------------------------------
Goto(step) == probe' = [probe EXCEPT !.at = step]

(* The two coherency_line_size files, and 64.                              *)
ReadLineSize ==
  \E i \in {0, 1} :
    /\ probe.at = <<"line", i>>
    /\ LET value == ReadCacheValue(files[i].line) IN
         IF value = Absent /\ i = 0
           THEN Goto(<<"line", 1>>)
           ELSE probe' = [probe EXCEPT !.at = <<"type", 0>>,
                                       !.line = OrElse(value, DefaultLine)]
  /\ UNCHANGED cell

(* The step after index i of the loop of probe_l1_cache_size.              *)
NextIndex(i) == Goto(IF i = 0 THEN <<"type", 1>> ELSE <<"any", 0>>)

ReadType ==
  \E i \in {0, 1} :
    /\ probe.at = <<"type", i>>
    /\ IF present /\ IsDataCache(files[i].type)
         THEN Goto(<<"size", i>>)
         ELSE NextIndex(i)
  /\ UNCHANGED cell

GotL1(value) == probe' = [probe EXCEPT !.at = <<"l2", 2>>, !.l1 = value]

ReadL1Size ==
  \E i \in {0, 1} :
    /\ probe.at = <<"size", i>>
    /\ LET value == ReadCacheValue(files[i].size) IN
         IF value = Absent THEN NextIndex(i) ELSE GotL1(value)
  /\ UNCHANGED cell

(* No data cache: the size of index 0 or 1 whatever it is, and 32K.        *)
ReadAnySize ==
  \E i \in {0, 1} :
    /\ probe.at = <<"any", i>>
    /\ LET value == ReadCacheValue(files[i].size) IN
         IF value = Absent /\ i = 0
           THEN Goto(<<"any", 1>>)
           ELSE GotL1(OrElse(value, DefaultL1))
  /\ UNCHANGED cell

ReadL2 ==
  /\ probe.at = <<"l2", 2>>
  /\ probe' = [probe EXCEPT !.at = <<"l3", 3>>,
                            !.l2 = OrElse(ReadCacheValue(files[2].size),
                                          DefaultL2)]
  /\ UNCHANGED cell

(* The last file, and the end of get_or_init: the cell is set for good.    *)
ReadL3 ==
  /\ probe.at = <<"l3", 3>>
  /\ cell' = <<[line |-> probe.line, l1 |-> probe.l1, l2 |-> probe.l2,
                l3 |-> OrElse(ReadCacheValue(files[3].size), 0),
                simd |-> Simd]>>
  /\ probe' = NoProbe

(* The next read of detect_cache_sizes.                                    *)
Probe(t) ==
  /\ builder = t
  /\ \/ ReadLineSize \/ ReadType \/ ReadL1Size \/ ReadAnySize \/ ReadL2
     \/ ReadL3
  /\ builder' = IF cell' = cell THEN builder ELSE NoThread
  /\ UNCHANGED <<files, present, toggles, cpu>>

(* Mutant: every thread that finds no builder builds, set or not.          *)
IsVacantAlways == builder = NoThread

(* get_or_init: the first to find the cell empty builds, others wait.      *)
IsVacant == cell = <<>> /\ builder = NoThread

StartProbe(t) ==
  /\ IsVacant
  /\ builder' = t
  /\ UNCHANGED <<files, present, toggles, cpu, cell, probe>>

(* get_or_init has an answer for those who need not build.                 *)
IsDetected == cell # <<>>
=============================================================================
