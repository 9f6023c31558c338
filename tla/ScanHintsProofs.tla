-------------------------- MODULE ScanHintsProofs ---------------------------
(***************************************************************************)
(* Proofs about ScanHints for any number of threads and calls, any cache   *)
(* files and any ranges.  ScanInv says what the detection has found so far *)
(* at each of its reads, that nobody has an answer but that of the cell,   *)
(* and where the loop of prefetch_range stands.  SourceInv says what the   *)
(* sizes found so far are of, CoverInv which lines the loop has touched.   *)
(***************************************************************************)
EXTENDS ScanHints, TLAPS

(* The files in the order in which they are read: a size the detection is  *)
(* past is one that a usize can hold.                                      *)
Reads ==
  {<<"line", 0>>, <<"line", 1>>, <<"type", 0>>, <<"type", 1>>,
   <<"size", 0>>, <<"size", 1>>, <<"any", 0>>, <<"any", 1>>,
   <<"l2", 2>>, <<"l3", 3>>}

ProbeInv ==
  /\ probe \in [at : Reads, line : Sizes \union {Absent},
                l1 : Sizes \union {Absent}, l2 : Sizes \union {Absent}]
  /\ probe.at \notin {<<"line", 0>>, <<"line", 1>>} => probe.line \in Sizes
  /\ probe.at \in {<<"l2", 2>>, <<"l3", 3>>} => probe.l1 \in Sizes
  /\ probe.at = <<"l3", 3>> => probe.l2 \in Sizes

(* The features in the cell, once they are there.                          *)
CellInv ==
  /\ cell = <<>> \/ \E f \in Features : cell = <<f>>
  /\ builder \in Threads \union {NoThread}
  /\ builder # NoThread => cell = <<>>

(* Nobody has an answer but that of the cell, and the loop needs one.      *)
AnswerInv ==
  /\ got \in [Threads -> {<<>>, cell}]
  /\ pc \in [Threads -> {"idle", "detect", "line size", "loop"}]
  /\ \A t \in Threads : pc[t] = "loop" => got[t] # <<>>

(* The locals of prefetch_range.                                           *)
LoopInv ==
  /\ arg \in [Threads -> [ptr : Nat, len : Nat]]
  /\ offset \in [Threads -> Nat]
  /\ touched \in [Threads -> SUBSET Nat]
  /\ TouchesOnlyTheRange

WorldInv ==
  /\ files \in Trees /\ present \in BOOLEAN /\ toggles \in 0..MaxToggles
  /\ cpu \in Cpus
  /\ calls \in 0..MaxCalls
  /\ PageTypeOK

(* The inductive invariant.                                                *)
ScanInv == WorldInv /\ ProbeInv /\ CellInv /\ AnswerInv /\ LoopInv
-----------------------------------------------------------------------------
(* Min and Max of two numbers.                                             *)
LEMMA MinOfTwo ==
  ASSUME NEW a \in Int, NEW b \in Int
  PROVE  /\ Min({a, b}) \in {a, b}
         /\ Min({a, b}) <= a /\ Min({a, b}) <= b
<1>1. \E x \in {a, b} : \A y \in {a, b} : x <= y
  OBVIOUS
<1>2. Min({a, b}) \in {a, b} /\ \A y \in {a, b} : Min({a, b}) <= y
  BY <1>1 DEF Min
<1>3. QED
  BY <1>2

LEMMA MaxOfTwo ==
  ASSUME NEW a \in Int, NEW b \in Int
  PROVE  /\ Max({a, b}) \in {a, b}
         /\ Max({a, b}) >= a /\ Max({a, b}) >= b
<1>1. \E x \in {a, b} : \A y \in {a, b} : x >= y
  OBVIOUS
<1>2. Max({a, b}) \in {a, b} /\ \A y \in {a, b} : Max({a, b}) >= y
  BY <1>1 DEF Max
<1>3. QED
  BY <1>2

(* A product that fits is a size, and none other is taken for one.         *)
LEMMA CheckedMulIsASize ==
  ASSUME NEW n \in Sizes \union {Absent}
  PROVE  CheckedMul(n, K) \in Sizes \union {Absent}
<1>1. CASE n = Absent
  BY <1>1 DEF CheckedMul
<1>2. CASE n # Absent
  <2>1. n \in Nat /\ K \in Nat
    BY <1>2, CpuFeaturesAssumption DEF Sizes
  <2>2. n * K \in Nat
    BY <2>1
  <2>3. QED
    BY <1>2, <2>2, CpuFeaturesAssumption DEF CheckedMul, Sizes
<1>3. QED
  BY <1>1, <1>2

(* What a file is read as is a size or absent.                             *)
LEMMA ReadIsASize ==
  ASSUME NEW text \in Texts
  PROVE  ReadCacheValue(text) \in Sizes \union {Absent}
<1> DEFINE kib == CheckedMul(text.n, K)
           mib == CheckedMul(kib, K)
           gib == CheckedMul(mib, K)
<1>1. text.n \in Sizes \union {Absent} /\ text.unit \in 0..3
  BY DEF Texts, Sizes
<1>2. kib \in Sizes \union {Absent}
  BY <1>1, CheckedMulIsASize
<1>3. mib \in Sizes \union {Absent}
  <2> HIDE DEF kib
  <2> QED BY <1>2, CheckedMulIsASize
<1>4. gib \in Sizes \union {Absent}
  <2> HIDE DEF mib
  <2> QED BY <1>3, CheckedMulIsASize
<1>5. ParseCacheValue(text) \in {text.n, kib, mib, gib}
  <2>1. text.unit = 0 \/ text.unit = 1 \/ text.unit = 2 \/ text.unit = 3
    BY <1>1
  <2>2. QED
    BY <2>1 DEF ParseCacheValue
<1>6. QED
  <2> HIDE DEF kib, mib, gib
  <2> QED BY <1>1, <1>2, <1>3, <1>4, <1>5 DEF ReadCacheValue

-----------------------------------------------------------------------------
(* ScanInv holds before any call.                                          *)
LEMMA InitScanInv == Init => ScanInv
<1> SUFFICES ASSUME Init
             PROVE  ScanInv
  OBVIOUS
<1> USE DEF Init, PrefetchInit, CpuInit, CallInit, PageInit
<1>1. WorldInv
  <2>1. toggles \in 0..MaxToggles /\ calls \in 0..MaxCalls
    BY CpuFeaturesAssumption, PrefetchAssumption
  <2>2. PageTypeOK
    BY DEF PageTypeOK
  <2>3. files \in Trees /\ present \in BOOLEAN /\ cpu \in Cpus
    OBVIOUS
  <2>4. QED
    BY <2>1, <2>2, <2>3 DEF WorldInv
<1>2. ProbeInv
  BY DEF ProbeInv, NoProbe, Reads
<1>3. CellInv
  BY DEF CellInv
<1>4. AnswerInv
  BY DEF AnswerInv
<1>5. LoopInv
  BY DEF LoopInv, NoArg, TouchesOnlyTheRange
<1>6. QED
  BY <1>1, <1>2, <1>3, <1>4, <1>5 DEF ScanInv

(* The reads of the detection: each finds a size, or goes on to the next   *)
(* file, or takes the default.                                             *)
LEMMA FilesAreTexts ==
  ASSUME ScanInv, NEW i \in 0..3
  PROVE  /\ ReadCacheValue(files[i].line) \in Sizes \union {Absent}
         /\ ReadCacheValue(files[i].size) \in Sizes \union {Absent}
<1>1. files \in [0..3 -> CacheFiles]
  BY CpuFeaturesAssumption DEF ScanInv, WorldInv
<1>2. files[i].line \in Texts /\ files[i].size \in Texts
  BY <1>1 DEF CacheFiles
<1>3. QED
  BY <1>2, ReadIsASize

LEMMA DefaultsAreSizes ==
  /\ DefaultLine \in Sizes /\ DefaultL1 \in Sizes /\ DefaultL2 \in Sizes
  /\ 0 \in Sizes
  /\ Absent \notin Sizes
BY CpuFeaturesAssumption DEF Sizes

LEMMA OrElseIsASize ==
  ASSUME NEW value \in Sizes \union {Absent}, NEW default \in Sizes
  PROVE  OrElse(value, default) \in Sizes
BY DEF OrElse

(* A read that finds nothing, or a type, goes on to another read of the    *)
(* same size: what was found before stays.                                 *)
LEMMA GoingOnKeepsProbe ==
  ASSUME ProbeInv, NEW step \in Reads, Goto(step),
         step \notin {<<"l2", 2>>, <<"l3", 3>>},
         step \in {<<"line", 0>>, <<"line", 1>>} \/ probe.line \in Sizes
  PROVE  ProbeInv'
<1>1. /\ probe'.at = step /\ probe'.line = probe.line
      /\ probe'.l1 = probe.l1 /\ probe'.l2 = probe.l2
  BY DEF ProbeInv, Goto
<1>2. probe' \in [at : Reads, line : Sizes \union {Absent},
                 l1 : Sizes \union {Absent}, l2 : Sizes \union {Absent}]
  BY DEF ProbeInv, Goto
<1>3. QED
  BY <1>1, <1>2 DEF ProbeInv

LEMMA LineSizeKeepsProbe ==
  ASSUME ScanInv, ReadLineSize
  PROVE  ProbeInv'
<1>1. ProbeInv
  BY DEF ScanInv
<1>2. PICK i \in {0, 1} :
        \/ Goto(<<"line", 1>>)
        \/ probe' = [probe EXCEPT
                       !.at = <<"type", 0>>,
                       !.line = OrElse(ReadCacheValue(files[i].line), DefaultLine)]
  BY DEF ReadLineSize
<1> DEFINE found == OrElse(ReadCacheValue(files[i].line), DefaultLine)
<1>3. found \in Sizes
  BY <1>2, FilesAreTexts, OrElseIsASize, DefaultsAreSizes
<1> HIDE DEF found
<1>4. CASE Goto(<<"line", 1>>)
  BY <1>1, <1>4, GoingOnKeepsProbe DEF Reads
<1>5. CASE probe' = [probe EXCEPT !.at = <<"type", 0>>, !.line = found]
  <2>1. probe'.at = <<"type", 0>> /\ probe'.line = found
    BY <1>1, <1>5 DEF ProbeInv
  <2>2. probe' \in [at : Reads, line : Sizes \union {Absent},
                   l1 : Sizes \union {Absent}, l2 : Sizes \union {Absent}]
    BY <1>1, <1>3, <1>5 DEF ProbeInv, Reads
  <2>3. QED
    BY <1>3, <2>1, <2>2 DEF ProbeInv
<1>6. QED
  BY <1>2, <1>4, <1>5 DEF found

LEMMA NextIndexKeepsProbe ==
  ASSUME ProbeInv, probe.line \in Sizes, NEW i \in {0, 1}, NextIndex(i)
  PROVE  ProbeInv'
BY GoingOnKeepsProbe DEF NextIndex, Reads

LEMMA TypeKeepsProbe ==
  ASSUME ScanInv, ReadType
  PROVE  ProbeInv'
<1>1. ProbeInv
  BY DEF ScanInv
<1>2. PICK i \in {0, 1} :
        probe.at = <<"type", i>> /\ (Goto(<<"size", i>>) \/ NextIndex(i))
  BY DEF ReadType
<1>3. probe.line \in Sizes
  BY <1>1, <1>2 DEF ProbeInv
<1>4. QED
  BY <1>1, <1>2, <1>3, GoingOnKeepsProbe, NextIndexKeepsProbe DEF Reads

(* The L1 size is found, and what remains are two reads.                   *)
LEMMA GotL1KeepsProbe ==
  ASSUME ProbeInv, probe.line \in Sizes, NEW value \in Sizes, GotL1(value)
  PROVE  ProbeInv'
<1>1. /\ probe'.at = <<"l2", 2>> /\ probe'.l1 = value
      /\ probe'.line = probe.line
  BY DEF ProbeInv, GotL1
<1>2. probe' \in [at : Reads, line : Sizes \union {Absent},
                 l1 : Sizes \union {Absent}, l2 : Sizes \union {Absent}]
  BY DEF ProbeInv, GotL1, Reads
<1>3. QED
  BY <1>1, <1>2 DEF ProbeInv

LEMMA L1SizeKeepsProbe ==
  ASSUME ScanInv, ReadL1Size
  PROVE  ProbeInv'
<1>1. ProbeInv
  BY DEF ScanInv
<1>2. PICK i \in {0, 1} :
        /\ probe.at = <<"size", i>>
        /\ \/ NextIndex(i)
           \/ /\ ReadCacheValue(files[i].size) # Absent
              /\ GotL1(ReadCacheValue(files[i].size))
  BY DEF ReadL1Size
<1>3. probe.line \in Sizes
  BY <1>1, <1>2 DEF ProbeInv
<1>4. ReadCacheValue(files[i].size) \in Sizes \union {Absent}
  BY <1>2, FilesAreTexts
<1>5. QED
  BY <1>1, <1>2, <1>3, <1>4, NextIndexKeepsProbe, GotL1KeepsProbe

LEMMA AnySizeKeepsProbe ==
  ASSUME ScanInv, ReadAnySize
  PROVE  ProbeInv'
<1>1. ProbeInv
  BY DEF ScanInv
<1>2. PICK i \in {0, 1} :
        /\ probe.at = <<"any", i>>
        /\ \/ Goto(<<"any", 1>>)
           \/ GotL1(OrElse(ReadCacheValue(files[i].size), DefaultL1))
  BY DEF ReadAnySize
<1>3. probe.line \in Sizes
  BY <1>1, <1>2 DEF ProbeInv
<1>4. OrElse(ReadCacheValue(files[i].size), DefaultL1) \in Sizes
  BY <1>2, FilesAreTexts, OrElseIsASize, DefaultsAreSizes
<1>5. QED
  BY <1>1, <1>2, <1>3, <1>4, GoingOnKeepsProbe, GotL1KeepsProbe DEF Reads

LEMMA L2KeepsProbe ==
  ASSUME ScanInv, ReadL2
  PROVE  ProbeInv'
<1>1. ProbeInv
  BY DEF ScanInv
<1> DEFINE found == OrElse(ReadCacheValue(files[2].size), DefaultL2)
<1>2. found \in Sizes
  BY FilesAreTexts, OrElseIsASize, DefaultsAreSizes
<1>3. /\ probe.at = <<"l2", 2>>
      /\ probe' = [probe EXCEPT !.at = <<"l3", 3>>, !.l2 = found]
  BY DEF ReadL2
<1> HIDE DEF found
<1>4. probe.line \in Sizes /\ probe.l1 \in Sizes
  BY <1>1, <1>3 DEF ProbeInv
<1>5. /\ probe'.at = <<"l3", 3>> /\ probe'.l2 = found
      /\ probe'.line = probe.line /\ probe'.l1 = probe.l1
  BY <1>1, <1>3 DEF ProbeInv
<1>6. probe' \in [at : Reads, line : Sizes \union {Absent},
                 l1 : Sizes \union {Absent}, l2 : Sizes \union {Absent}]
  BY <1>1, <1>2, <1>3 DEF ProbeInv, Reads
<1>7. QED
  BY <1>2, <1>4, <1>5, <1>6 DEF ProbeInv

(* An AVX-512 extension is among the features only with the foundation.    *)
LEMMA SimdIsConsistent ==
  ASSUME cpu \in Cpus
  PROVE  /\ Simd \in SUBSET Extensions
         /\ Simd \intersect Avx512Extensions # {} => "avx512f" \in Simd
<1>1. cpu \subseteq Extensions
  BY CpuFeaturesAssumption
<1>2. "avx512f" \notin Avx512Extensions
  BY DEF Avx512Extensions
<1>3. QED
  BY <1>1, <1>2 DEF Simd

(* The last read fills the cell with features, and the probe starts over.  *)
LEMMA L3FillsTheCell ==
  ASSUME ScanInv, ReadL3
  PROVE  /\ \E f \in Features : cell' = <<f>>
         /\ ProbeInv'
<1> DEFINE found == OrElse(ReadCacheValue(files[3].size), 0)
<1>1. probe.line \in Sizes /\ probe.l1 \in Sizes /\ probe.l2 \in Sizes
  BY DEF ScanInv, ProbeInv, ReadL3
<1>2. found \in Sizes
  BY FilesAreTexts, OrElseIsASize, DefaultsAreSizes
<1>3. /\ cell' = <<[line |-> probe.line, l1 |-> probe.l1, l2 |-> probe.l2,
                   l3 |-> found, simd |-> Simd]>>
      /\ probe' = NoProbe
  BY DEF ReadL3
<1> HIDE DEF found
<1>4. [line |-> probe.line, l1 |-> probe.l1, l2 |-> probe.l2,
       l3 |-> found, simd |-> Simd] \in Features
  BY <1>1, <1>2, SimdIsConsistent DEF Features, ScanInv, WorldInv
<1>5. ProbeInv'
  BY <1>3 DEF ProbeInv, NoProbe, Reads
<1>6. QED
  BY <1>3, <1>4, <1>5

(* The builder reads on: the cell is empty until it fills it.              *)
LEMMA DetectionStep ==
  ASSUME ScanInv, NEW t \in Threads, StartProbe(t) \/ Probe(t)
  PROVE  ProbeInv' /\ CellInv' /\ cell = <<>>
<1>1. CASE StartProbe(t)
  <2>1. cell = <<>> /\ UNCHANGED <<cell, probe>> /\ builder' = t
    BY <1>1 DEF StartProbe, IsVacant
  <2>2. QED
    BY <2>1 DEF ScanInv, ProbeInv, CellInv
<1>2. CASE Probe(t)
  <2>1. cell = <<>>
    BY <1>2, CpuFeaturesAssumption DEF Probe, ScanInv, CellInv
  <2>2. CASE ReadL3
    <3>1. PICK f \in Features : cell' = <<f>>
      BY <2>2, L3FillsTheCell
    <3>2. builder' = NoThread
      BY <1>2, <2>1, <3>1 DEF Probe
    <3>3. QED
      BY <2>1, <2>2, <3>1, <3>2, L3FillsTheCell DEF CellInv
  <2>3. CASE ReadLineSize \/ ReadType \/ ReadL1Size \/ ReadAnySize \/ ReadL2
    <3>1. cell' = cell
      BY <2>3 DEF ReadLineSize, ReadType, ReadL1Size, ReadAnySize, ReadL2
    <3>2. builder' = builder
      BY <1>2, <3>1 DEF Probe
    <3>3. ProbeInv'
      BY <2>3, LineSizeKeepsProbe, TypeKeepsProbe, L1SizeKeepsProbe,
         AnySizeKeepsProbe, L2KeepsProbe
    <3>4. QED
      BY <2>1, <3>1, <3>2, <3>3 DEF ScanInv, CellInv
  <2>4. QED
    BY <1>2, <2>2, <2>3 DEF Probe
<1>3. QED
  BY <1>1, <1>2

LEMMA DetectingKeepsScanInv ==
  ASSUME ScanInv, NEW t \in Threads, Detecting(t), UNCHANGED pagevars
  PROVE  ScanInv'
<1>1. ProbeInv' /\ CellInv' /\ cell = <<>>
  BY DetectionStep DEF Detecting
<1>2. WorldInv'
  BY DEF ScanInv, WorldInv, PageTypeOK, Detecting, StartProbe, Probe,
         callvars, pagevars
<1>3. AnswerInv'
  <2>1. got' = got /\ pc' = pc
    BY DEF Detecting, callvars
  <2>2. got \in [Threads -> {<<>>}]
    BY <1>1 DEF ScanInv, AnswerInv
  <2>3. QED
    BY <2>1, <2>2 DEF ScanInv, AnswerInv
<1>4. LoopInv'
  BY DEF ScanInv, LoopInv, TouchesOnlyTheRange, Detecting, callvars
<1>5. QED
  BY <1>1, <1>2, <1>3, <1>4 DEF ScanInv

LEMMA CountIsBounded ==
  ASSUME calls \in 0..MaxCalls, Count
  PROVE  calls' \in 0..MaxCalls
BY PrefetchAssumption DEF Count

(* A call begins with nothing prefetched.                                  *)
LEMMA EnterKeepsScanInv ==
  ASSUME ScanInv, UNCHANGED pagevars, NEW t \in Threads,
         NEW step \in {"idle", "detect", "line size"},
         NEW a \in [ptr : Nat, len : Nat], Enter(t, step, a)
  PROVE  ScanInv'
<1>1. WorldInv'
  <2>1. calls' \in 0..MaxCalls
    BY CountIsBounded DEF ScanInv, WorldInv, Enter
  <2>2. PageTypeOK'
    BY DEF ScanInv, WorldInv, PageTypeOK, pagevars
  <2>3. QED
    BY <2>1, <2>2 DEF ScanInv, WorldInv, Enter, cpuvars
<1>2. ProbeInv' /\ CellInv'
  BY DEF ScanInv, ProbeInv, CellInv, Enter, cpuvars
<1>3. AnswerInv'
  BY DEF ScanInv, AnswerInv, Enter, cpuvars
<1>4. LoopInv'
  BY DEF ScanInv, LoopInv, TouchesOnlyTheRange, Enter
<1>5. QED
  BY <1>1, <1>2, <1>3, <1>4 DEF ScanInv

LEMMA CallKeepsScanInv ==
  ASSUME ScanInv, UNCHANGED pagevars, NEW t \in Threads, Call(t)
  PROVE  ScanInv'
<1>1. NoArg \in [ptr : Nat, len : Nat]
  BY DEF NoArg
<1>2. CASE CallDetect(t)
  BY <1>1, <1>2, EnterKeepsScanInv DEF CallDetect
<1>3. CASE \E ptr \in Ptrs, len \in Lens : PrefetchRange(t, ptr, len)
  <2>1. PICK ptr \in Ptrs, len \in Lens : PrefetchRange(t, ptr, len)
    BY <1>3
  <2>2. [ptr |-> ptr, len |-> len] \in [ptr : Nat, len : Nat]
    BY PrefetchAssumption
  <2>3. QED
    BY <1>1, <2>1, <2>2, EnterKeepsScanInv DEF PrefetchRange
<1>4. QED
  BY <1>2, <1>3 DEF Call

LEMMA DetectedKeepsScanInv ==
  ASSUME ScanInv, UNCHANGED pagevars, NEW t \in Threads, Detected(t)
  PROVE  ScanInv'
<1>1. WorldInv'
  BY DEF ScanInv, WorldInv, PageTypeOK, Detected, cpuvars, pagevars
<1>2. ProbeInv' /\ CellInv'
  BY DEF ScanInv, ProbeInv, CellInv, Detected, cpuvars
<1>3. AnswerInv'
  BY DEF ScanInv, AnswerInv, Detected, IsDetected, cpuvars
<1>4. LoopInv'
  BY DEF ScanInv, LoopInv, TouchesOnlyTheRange, Detected
<1>5. QED
  BY <1>1, <1>2, <1>3, <1>4 DEF ScanInv

(* The loop forms an address before it advances, so its last one is that   *)
(* of the last offset below the capped length.                             *)
LEMMA LineKeepsLoop ==
  ASSUME ScanInv, NEW t \in Threads, PrefetchLine(t)
  PROVE  LoopInv'
<1> DEFINE capped == CappedLen(t)
           next == NextOffset(t)
<1>1. /\ arg[t].len \in Nat /\ arg[t].ptr \in Nat /\ offset[t] \in Nat
      /\ arg \in [Threads -> [ptr : Nat, len : Nat]]
      /\ offset \in [Threads -> Nat]
      /\ touched \in [Threads -> SUBSET Nat]
      /\ MaxPrefetchBytes \in Nat /\ UsizeMax \in Nat
  BY PrefetchAssumption, CpuFeaturesAssumption DEF ScanInv, LoopInv
<1>2. capped <= arg[t].len /\ capped <= MaxPrefetchBytes /\ capped \in Nat
  <2>1. capped = Min({arg[t].len, MaxPrefetchBytes})
    BY DEF CappedLen
  <2> HIDE DEF capped
  <2>2. arg[t].len \in Int /\ MaxPrefetchBytes \in Int
    BY <1>1
  <2>3. QED
    BY <1>1, <2>1, <2>2, MinOfTwo
<1>3. next \in Nat
  <2>1. PICK f \in Features : got[t] = <<f>>
    BY DEF ScanInv, AnswerInv, CellInv, PrefetchLine
  <2>2. got[t][1].line \in Nat
    BY <2>1 DEF Features, Sizes
  <2>3. CacheLine(t) \in Nat
    <3>1. got[t][1].line \in Int /\ 1 \in Int
      BY <2>2
    <3>2. Max({got[t][1].line, 1}) \in {got[t][1].line, 1}
      BY <3>1, MaxOfTwo
    <3>3. QED
      BY <2>2, <3>2 DEF CacheLine
  <2> DEFINE sum == offset[t] + CacheLine(t)
  <2>4. sum \in Nat
    BY <1>1, <2>3
  <2>5. next = Min({sum, UsizeMax})
    BY DEF NextOffset, SaturatingAdd
  <2> HIDE DEF sum, next
  <2>6. sum \in Int /\ UsizeMax \in Int
    BY <1>1, <2>4
  <2>7. next \in {sum, UsizeMax}
    BY <2>5, <2>6, MinOfTwo
  <2>8. QED
    BY <1>1, <2>4, <2>7
<1>4. CASE offset[t] < capped
  <2>1. /\ touched' = [touched EXCEPT ![t] = @ \union {arg[t].ptr + offset[t]}]
        /\ offset' = [offset EXCEPT ![t] = next]
        /\ arg' = arg
    BY <1>4 DEF PrefetchLine
  <2> HIDE DEF capped, next
  <2>2. /\ arg[t].ptr + offset[t]
             \in arg[t].ptr..arg[t].ptr + arg[t].len - 1
        /\ arg[t].ptr + offset[t] < arg[t].ptr + MaxPrefetchBytes
    BY <1>1, <1>2, <1>4
  <2>3. TouchesOnlyTheRange'
    <3>1. SUFFICES ASSUME NEW u \in Threads, NEW a \in touched'[u]
                   PROVE  /\ a \in arg[u].ptr..arg[u].ptr + arg[u].len - 1
                          /\ a < arg[u].ptr + MaxPrefetchBytes
      BY <2>1 DEF TouchesOnlyTheRange
    <3>2. CASE a \in touched[u]
      BY <3>2 DEF ScanInv, LoopInv, TouchesOnlyTheRange
    <3>3. CASE a \notin touched[u]
      BY <1>1, <2>1, <2>2, <3>1, <3>3
    <3>4. QED
      BY <3>2, <3>3
  <2>4. /\ offset' \in [Threads -> Nat]
        /\ touched' \in [Threads -> SUBSET Nat]
    BY <1>1, <1>3, <2>1
  <2>5. QED
    BY <1>1, <2>1, <2>3, <2>4 DEF LoopInv
<1>5. CASE ~(offset[t] < capped)
  <2>1. UNCHANGED <<touched, offset, arg>>
    BY <1>5 DEF PrefetchLine
  <2>2. QED
    BY <2>1 DEF ScanInv, LoopInv, TouchesOnlyTheRange
<1>6. QED
  BY <1>4, <1>5

LEMMA LineKeepsScanInv ==
  ASSUME ScanInv, UNCHANGED pagevars, NEW t \in Threads, PrefetchLine(t)
  PROVE  ScanInv'
<1>1. WorldInv'
  BY DEF ScanInv, WorldInv, PageTypeOK, PrefetchLine, cpuvars, pagevars
<1>2. ProbeInv' /\ CellInv'
  BY DEF ScanInv, ProbeInv, CellInv, PrefetchLine, cpuvars
<1>3. AnswerInv'
  BY DEF ScanInv, AnswerInv, PrefetchLine, cpuvars
<1>4. QED
  BY <1>1, <1>2, <1>3, LineKeepsLoop DEF ScanInv

LEMMA ToggleKeepsScanInv ==
  ASSUME ScanInv, Toggle, UNCHANGED callvars, UNCHANGED pagevars
  PROVE  ScanInv'
<1>1. WorldInv'
  BY CpuFeaturesAssumption
     DEF ScanInv, WorldInv, PageTypeOK, Toggle, callvars, pagevars
<1>2. ProbeInv' /\ CellInv'
  BY DEF ScanInv, ProbeInv, CellInv, Toggle
<1>3. AnswerInv' /\ LoopInv'
  BY DEF ScanInv, AnswerInv, LoopInv, TouchesOnlyTheRange, Toggle, callvars
<1>4. QED
  BY <1>1, <1>2, <1>3 DEF ScanInv

(* The hints on pages, and what other programs do with them.               *)
LEMMA PagesKeepTypes ==
  ASSUME PageTypeOK, PageNext
  PROVE  PageTypeOK'
<1> USE DEF PageTypeOK
<1>1. CASE \E off, len \in Offsets : Readahead(off, len)
  BY <1>1 DEF Readahead
<1>2. CASE \E off, len \in Offsets : EvictPages(off, len)
  BY <1>2 DEF EvictPages
<1>3. CASE AdviseSequential
  BY <1>3 DEF AdviseSequential
<1>4. CASE HintFails
  BY <1>4 DEF HintFails, pagevars
<1>5. CASE \E p \in FilePages : ReadPage(p)
  BY <1>5 DEF ReadPage
<1>6. CASE \E p \in FilePages : Others(p)
  BY <1>6 DEF Others
<1>7. QED
  BY <1>1, <1>2, <1>3, <1>4, <1>5, <1>6 DEF PageNext

LEMMA PageStepKeepsScanInv ==
  ASSUME ScanInv, PageNext, Count,
         UNCHANGED <<cpuvars, pc, arg, offset, touched, got>>
  PROVE  ScanInv'
<1>1. WorldInv'
  BY PagesKeepTypes, PrefetchAssumption DEF ScanInv, WorldInv, Count, cpuvars
<1>2. ProbeInv' /\ CellInv'
  BY DEF ScanInv, ProbeInv, CellInv, cpuvars
<1>3. AnswerInv' /\ LoopInv'
  BY DEF ScanInv, AnswerInv, LoopInv, TouchesOnlyTheRange, cpuvars
<1>4. QED
  BY <1>1, <1>2, <1>3 DEF ScanInv

LEMMA StutterKeepsScanInv ==
  ASSUME ScanInv, UNCHANGED vars
  PROVE  ScanInv'
<1> USE DEF ScanInv, vars, cpuvars, callvars, pagevars
<1>1. WorldInv' /\ ProbeInv' /\ CellInv'
  BY DEF WorldInv, PageTypeOK, ProbeInv, CellInv
<1>2. AnswerInv' /\ LoopInv'
  BY DEF AnswerInv, LoopInv, TouchesOnlyTheRange
<1>3. QED
  BY <1>1, <1>2

LEMMA NextKeepsScanInv == ScanInv /\ [Next]_vars => ScanInv'
<1> SUFFICES ASSUME ScanInv, [Next]_vars
             PROVE  ScanInv'
  OBVIOUS
<1>1. CASE PrefetchNext /\ UNCHANGED pagevars
  <2>1. CASE \E t \in Threads : Call(t)
    BY <1>1, <2>1, CallKeepsScanInv
  <2>2. CASE \E t \in Threads : Inside(t)
    BY <1>1, <2>2, DetectedKeepsScanInv, DetectingKeepsScanInv,
       LineKeepsScanInv DEF Inside
  <2>3. CASE Toggle /\ UNCHANGED callvars
    BY <1>1, <2>3, ToggleKeepsScanInv
  <2>4. QED
    BY <1>1, <2>1, <2>2, <2>3 DEF PrefetchNext
<1>2. CASE /\ PageNext /\ Count
           /\ UNCHANGED <<cpuvars, pc, arg, offset, touched, got>>
  BY <1>2, PageStepKeepsScanInv
<1>3. CASE UNCHANGED vars
  BY <1>3, StutterKeepsScanInv
<1>4. QED
  BY <1>1, <1>2, <1>3 DEF Next, Finished
-----------------------------------------------------------------------------
(* ScanInv is an invariant.                                                *)
LEMMA ScanInvariant == Spec => []ScanInv
BY InitScanInv, NextKeepsScanInv, PTL DEF Spec

(* Type correctness, for any number of threads: whatever the CPU says and  *)
(* the files contain, detect() returns sizes a usize can hold, and no      *)
(* AVX-512 extension without its foundation.                               *)
THEOREM ScanTypeCorrect == Spec => []TypeOK
<1>1. ASSUME ScanInv
      PROVE  TypeOK
  <2>1. cell = <<>> \/ cell[1] \in Features
    <3>1. ASSUME NEW f \in Features, cell = <<f>>
          PROVE  cell[1] \in Features
      BY <3>1
    <3>2. QED
      BY <1>1, <3>1 DEF ScanInv, CellInv
  <2>2. \A size \in {probe.line, probe.l1, probe.l2} : size \in Sizes \union {Absent}
    BY <1>1 DEF ScanInv, ProbeInv
  <2>3. \A t \in Threads : touched[t] \subseteq Nat /\ offset[t] \in Nat
    BY <1>1 DEF ScanInv, LoopInv
  <2>4. /\ builder \in Threads \union {NoThread}
        /\ pc \in [Threads -> {"idle", "detect", "line size", "loop"}]
    BY <1>1 DEF ScanInv, CellInv, AnswerInv
  <2>5. /\ files \in Trees /\ present \in BOOLEAN /\ toggles \in 0..MaxToggles
        /\ calls \in 0..MaxCalls
        /\ PageTypeOK
    BY <1>1 DEF ScanInv, WorldInv
  <2>6. QED
    BY <2>1, <2>2, <2>3, <2>4, <2>5 DEF TypeOK, PrefetchTypeOK
<1>2. QED
  BY <1>1, ScanInvariant, PTL

(* Any number of threads that call detect() get one answer.                *)
THEOREM DetectionIsAgreedOn == Spec => []OneAnswerForAll
<1>1. ScanInv => OneAnswerForAll
  BY DEF ScanInv, AnswerInv, OneAnswerForAll
<1>2. QED
  BY <1>1, ScanInvariant, PTL

(* prefetch_range forms no address outside its range or beyond the cap,    *)
(* for any pointer and length and whatever line size was detected.         *)
THEOREM PrefetchStaysInRange == Spec => []TouchesOnlyTheRange
<1>1. ScanInv => TouchesOnlyTheRange
  BY DEF ScanInv, LoopInv
<1>2. QED
  BY <1>1, ScanInvariant, PTL

(* evict_pages evicts no page on which the file has a byte outside the     *)
(* range, for any page size, file length, offset and length.               *)
THEOREM EvictionIsExact == Spec => EvictsOnlyWholePages
<1>1. ASSUME NEW off \in Offsets, NEW len \in Offsets, EvictPages(off, len),
             NEW p \in cached \ cached', NEW b \in BytesOf(p)
      PROVE  b >= off /\ (len = 0 \/ b < off + len)
  <2>1. p \in DontNeed(off, len)
    BY <1>1 DEF EvictPages, ToOff
  <2>2. /\ p * PageBytes \in Nat /\ (p + 1) * PageBytes \in Nat
        /\ off \in Nat /\ len \in Nat /\ FileLen \in Nat
    BY <2>1, PageCacheAssumption DEF DontNeed, FilePages
  <2>3. QED
    BY <2>1, <2>2 DEF DontNeed, BytesOf
<1>2. [\A off, len \in Offsets :
         EvictPages(off, len) =>
           \A p \in cached \ cached' : \A b \in BytesOf(p) :
             b >= off /\ (len = 0 \/ b < off + len)]_pagevars
  BY <1>1
<1>3. QED
  BY <1>2, PTL DEF EvictsOnlyWholePages
-----------------------------------------------------------------------------
(* Where the sizes come from.                                              *)

(* A number that a usize can hold, or none.                                *)
Fitting(n) == IF n > UsizeMax THEN Absent ELSE n

LEMMA CheckedMulFits ==
  ASSUME NEW n \in Nat
  PROVE  CheckedMul(Fitting(n), K) = Fitting(n * K)
<1>1. K \in Nat /\ K > 0 /\ UsizeMax \in Nat /\ Absent \notin Nat
  BY CpuFeaturesAssumption
<1>2. n * K \in Nat /\ n <= n * K
  BY <1>1
<1> DEFINE product == n * K
<1>3. CASE n > UsizeMax
  <2>1. Fitting(n) = Absent
    BY <1>3 DEF Fitting
  <2>2. product > UsizeMax
    BY <1>1, <1>2, <1>3
  <2>3. QED
    BY <2>1, <2>2 DEF CheckedMul, Fitting
<1>4. CASE ~(n > UsizeMax)
  <2>1. Fitting(n) = n /\ n # Absent
    BY <1>1, <1>4 DEF Fitting
  <2>2. QED
    BY <2>1 DEF CheckedMul, Fitting
<1>5. QED
  BY <1>3, <1>4

(* The chain of checked products of parse_cache_value is one product: it   *)
(* overflows at one of its factors just when the whole does.               *)
LEMMA ParsedIsMeant ==
  ASSUME NEW text \in Texts
  PROVE  /\ ParseCacheValue(text) \in Meant(text) \union {Absent}
         /\ ParseCacheValue(text) = Absent <=> Meant(text) = {}
<1> DEFINE n == text.n
           kib == CheckedMul(n, K)
           mib == CheckedMul(kib, K)
           gib == CheckedMul(mib, K)
           size == n * Factor(text.unit)
<1>1. /\ K \in Nat /\ UsizeMax \in Nat /\ Absent \notin Nat
      /\ n \in 0..UsizeMax \union {Absent} /\ text.unit \in 0..3
  BY CpuFeaturesAssumption DEF Texts
<1>2. text.unit = 0 \/ text.unit = 1 \/ text.unit = 2 \/ text.unit = 3
  BY <1>1
<1>3. ParseCacheValue(text) = CASE text.unit = 0 -> n [] text.unit = 1 -> kib
                                [] text.unit = 2 -> mib [] text.unit = 3 -> gib
  BY DEF ParseCacheValue
<1>4. CASE n = Absent
  <2>1. kib = Absent
    BY <1>4 DEF CheckedMul
  <2>2. mib = Absent
    BY <2>1 DEF CheckedMul
  <2>3. gib = Absent
    BY <2>2 DEF CheckedMul
  <2>4. ParseCacheValue(text) = Absent
    <3> HIDE DEF n, kib, mib, gib
    <3> QED BY <1>2, <1>3, <1>4, <2>1, <2>2, <2>3
  <2>5. Meant(text) = {}
    BY <1>4 DEF Meant
  <2>6. QED
    BY <2>4, <2>5
<1>5. CASE n # Absent
  <2>1. n \in Nat /\ n <= UsizeMax /\ n = Fitting(n)
    BY <1>1, <1>5 DEF Fitting
  <2>2. n * K \in Nat /\ (n * K) * K \in Nat
    BY <1>1, <2>1
  <2>3. kib = Fitting(n * K)
    BY <2>1, CheckedMulFits
  <2>4. mib = Fitting((n * K) * K)
    BY <2>2, <2>3, CheckedMulFits
  <2>5. gib = Fitting(((n * K) * K) * K)
    BY <2>2, <2>4, CheckedMulFits
  <2>6. /\ n * 1 = n
        /\ (n * K) * K = n * (K * K)
        /\ ((n * K) * K) * K = n * (K * K * K)
    BY <1>1, <2>1
  <2>7. ParseCacheValue(text) = Fitting(size)
    <3>1. CASE text.unit = 0
      BY <1>3, <2>1, <2>6, <3>1 DEF Factor
    <3>2. CASE text.unit = 1
      BY <1>3, <2>3, <3>2 DEF Factor
    <3>3. CASE text.unit = 2
      BY <1>3, <2>4, <2>6, <3>3 DEF Factor
    <3>4. CASE text.unit = 3
      BY <1>3, <2>5, <2>6, <3>4 DEF Factor
    <3>5. QED
      BY <1>2, <3>1, <3>2, <3>3, <3>4
  <2>8. size \in Nat
    <3>1. Factor(text.unit) \in Nat
      BY <1>1, <1>2 DEF Factor
    <3>2. QED
      BY <2>1, <3>1
  <2>9. Meant(text) = IF size > UsizeMax THEN {} ELSE {size}
    BY <1>5 DEF Meant
  <2> HIDE DEF size
  <2>10. QED
    BY <1>1, <2>7, <2>8, <2>9 DEF Fitting
<1>6. QED
  BY <1>4, <1>5

(* The data caches of index 0 and 1 whose size can be read.                *)
DataCaches ==
  {i \in {0, 1} : /\ files[i].type \in {"Data", "Unified"}
                  /\ Meant(files[i].size) # {}}

(* The files never went away.                                              *)
Calm == present /\ toggles = 0

IsLineSource(size) ==
  size \in Meant(files[0].line) \union Meant(files[1].line)
             \union {DefaultLine}

IsL1Source(size) ==
  /\ size \in Meant(files[0].size) \union Meant(files[1].size)
                \union {DefaultL1}
  /\ Calm /\ DataCaches # {} => size \in Meant(files[Min(DataCaches)].size)

IsL2Source(size) == size \in Meant(files[2].size) \union {DefaultL2}

IsL3Source(size) == size \in Meant(files[3].size) \union {0}

(* What the detection has found came from a file, and it is past a data    *)
(* cache only if that has no size.                                         *)
Sourced(p) ==
  /\ p.at \notin {<<"line", 0>>, <<"line", 1>>} => IsLineSource(p.line)
  /\ p.at \in {<<"l2", 2>>, <<"l3", 3>>} => IsL1Source(p.l1)
  /\ p.at = <<"l3", 3>> => IsL2Source(p.l2)
  /\ \A i \in {0, 1} : p.at = <<"size", i>> => IsDataCache(files[i].type)
  /\ Calm /\ p.at \in {<<"type", 1>>, <<"size", 1>>} => 0 \notin DataCaches
  /\ Calm /\ p.at \in {<<"any", 0>>, <<"any", 1>>} => DataCaches = {}

SourceInv ==
  /\ Sourced(probe)
  /\ IsDetected => /\ IsLineSource(cell[1].line) /\ IsL1Source(cell[1].l1)
                   /\ IsL2Source(cell[1].l2) /\ IsL3Source(cell[1].l3)

LEMMA ReadHasSource ==
  ASSUME ScanInv, NEW i \in 0..3
  PROVE  /\ ReadCacheValue(files[i].line) \in Meant(files[i].line) \union {Absent}
         /\ ReadCacheValue(files[i].size) \in Meant(files[i].size) \union {Absent}
         /\ present /\ ReadCacheValue(files[i].size) = Absent
              => Meant(files[i].size) = {}
<1>1. files \in [0..3 -> CacheFiles]
  BY CpuFeaturesAssumption DEF ScanInv, WorldInv
<1>2. files[i].line \in Texts /\ files[i].size \in Texts
  BY <1>1 DEF CacheFiles
<1>3. \A text \in Texts :
        /\ ParseCacheValue(text) \in Meant(text) \union {Absent}
        /\ ParseCacheValue(text) = Absent => Meant(text) = {}
  BY ParsedIsMeant
<1>4. QED
  BY <1>2, <1>3 DEF ReadCacheValue

(* The first data cache.                                                   *)
LEMMA FirstDataCache ==
  /\ 0 \in DataCaches => Min(DataCaches) = 0
  /\ 0 \notin DataCaches /\ 1 \in DataCaches => Min(DataCaches) = 1
<1>1. DataCaches \subseteq {0, 1}
  BY DEF DataCaches
<1>2. ASSUME 0 \in DataCaches
      PROVE  Min(DataCaches) = 0
  <2>1. \E x \in DataCaches : \A y \in DataCaches : x <= y
    BY <1>1, <1>2
  <2>2. Min(DataCaches) \in DataCaches /\ \A y \in DataCaches : Min(DataCaches) <= y
    BY <2>1 DEF Min
  <2>3. Min(DataCaches) \in {0, 1} /\ Min(DataCaches) <= 0
    BY <1>1, <1>2, <2>2
  <2>4. QED
    BY <2>3
<1>3. ASSUME 0 \notin DataCaches, 1 \in DataCaches
      PROVE  Min(DataCaches) = 1
  <2>1. DataCaches = {1}
    BY <1>1, <1>3
  <2>2. \E x \in DataCaches : \A y \in DataCaches : x <= y
    BY <2>1
  <2>3. Min(DataCaches) \in DataCaches
    BY <2>2 DEF Min
  <2>4. QED
    BY <2>1, <2>3
<1>4. QED
  BY <1>2, <1>3

(* A step that leaves the files and what was found alone, or takes cpu0    *)
(* away, leaves the sources.                                               *)
LEMMA SourcesStay ==
  ASSUME SourceInv, UNCHANGED <<files, cell, probe>>,
         \/ UNCHANGED <<present, toggles>>
         \/ toggles' # 0
  PROVE  SourceInv'
<1>1. DataCaches' = DataCaches /\ (Calm' => Calm)
  BY DEF DataCaches, Calm, Meant, Factor
<1>2. QED
  BY <1>1 DEF SourceInv, Sourced, IsLineSource, IsL1Source, IsL2Source,
              IsL3Source, IsDetected

(* A read of the detection leaves the files, and the cell until it is over.*)
LEMMA ReadKeepsSources ==
  ASSUME SourceInv, Sourced(probe'), cell' = <<>>,
         UNCHANGED <<files, present, toggles>>
  PROVE  SourceInv'
<1>1. DataCaches' = DataCaches /\ (Calm' <=> Calm)
  BY DEF DataCaches, Calm, Meant, Factor
<1>2. QED
  BY <1>1 DEF SourceInv, Sourced, IsLineSource, IsL1Source, IsL2Source,
              IsDetected

LEMMA LineSizeHasSource ==
  ASSUME ScanInv, SourceInv, ReadLineSize
  PROVE  Sourced(probe')
<1>1. PICK i \in {0, 1} :
        \/ Goto(<<"line", 1>>)
        \/ probe' = [probe EXCEPT
                       !.at = <<"type", 0>>,
                       !.line = OrElse(ReadCacheValue(files[i].line), DefaultLine)]
  BY DEF ReadLineSize
<1> DEFINE found == OrElse(ReadCacheValue(files[i].line), DefaultLine)
<1>2. IsLineSource(found)
  <2>1. ReadCacheValue(files[i].line) \in Meant(files[i].line) \union {Absent}
    BY <1>1, ReadHasSource
  <2>2. QED
    BY <1>1, <2>1 DEF OrElse, IsLineSource
<1> HIDE DEF found
<1>3. CASE Goto(<<"line", 1>>)
  <2>1. probe'.at = <<"line", 1>>
    BY <1>3 DEF Goto, ScanInv, ProbeInv
  <2>2. QED
    BY <2>1 DEF Sourced
<1>4. CASE probe' = [probe EXCEPT !.at = <<"type", 0>>, !.line = found]
  <2>1. probe'.at = <<"type", 0>> /\ probe'.line = found
    BY <1>4 DEF ScanInv, ProbeInv
  <2>2. QED
    BY <1>2, <2>1 DEF Sourced
<1>5. QED
  BY <1>1, <1>3, <1>4 DEF found

(* Index i has no data cache with a size, or it was not seen.              *)
LEMMA NextIndexHasSource ==
  ASSUME ScanInv, SourceInv, NEW i \in {0, 1}, NextIndex(i),
         probe.at \in {<<"type", i>>, <<"size", i>>},
         Calm => i \notin DataCaches
  PROVE  Sourced(probe')
<1>1. IsLineSource(probe.line)
  BY DEF SourceInv, Sourced
<1>2. probe'.line = probe.line
  BY DEF NextIndex, Goto, ScanInv, ProbeInv
<1>3. CASE i = 0
  <2>1. probe'.at = <<"type", 1>>
    BY <1>3 DEF NextIndex, Goto, ScanInv, ProbeInv
  <2>2. QED
    BY <1>1, <1>2, <1>3, <2>1 DEF Sourced
<1>4. CASE i = 1
  <2>1. probe'.at = <<"any", 0>>
    BY <1>4 DEF NextIndex, Goto, ScanInv, ProbeInv
  <2>2. Calm => 0 \notin DataCaches /\ 1 \notin DataCaches
    BY <1>4 DEF SourceInv, Sourced
  <2>3. Calm => DataCaches = {}
    BY <2>2 DEF DataCaches
  <2>4. QED
    BY <1>1, <1>2, <2>1, <2>3 DEF Sourced
<1>5. QED
  BY <1>3, <1>4

LEMMA TypeHasSource ==
  ASSUME ScanInv, SourceInv, ReadType
  PROVE  Sourced(probe')
<1>1. PICK i \in {0, 1} :
        /\ probe.at = <<"type", i>>
        /\ \/ IsDataCache(files[i].type) /\ Goto(<<"size", i>>)
           \/ /\ ~(present /\ IsDataCache(files[i].type))
              /\ NextIndex(i)
  BY DEF ReadType
<1>2. CASE IsDataCache(files[i].type) /\ Goto(<<"size", i>>)
  <2>1. probe'.at = <<"size", i>> /\ probe'.line = probe.line
    BY <1>2 DEF Goto, ScanInv, ProbeInv
  <2>2. IsLineSource(probe.line)
    BY <1>1 DEF SourceInv, Sourced
  <2>3. Calm /\ i = 1 => 0 \notin DataCaches
    BY <1>1 DEF SourceInv, Sourced
  <2>4. QED
    BY <1>2, <2>1, <2>2, <2>3 DEF Sourced
<1>3. CASE ~(present /\ IsDataCache(files[i].type)) /\ NextIndex(i)
  <2>1. Calm => i \notin DataCaches
    BY <1>3 DEF Calm, IsDataCache, DataCaches
  <2>2. QED
    BY <1>1, <1>3, <2>1, NextIndexHasSource
<1>4. QED
  BY <1>1, <1>2, <1>3

LEMMA GotL1HasSource ==
  ASSUME ScanInv, SourceInv, NEW value, GotL1(value), IsL1Source(value),
         probe.at \notin {<<"line", 0>>, <<"line", 1>>}
  PROVE  Sourced(probe')
<1>1. /\ probe'.at = <<"l2", 2>> /\ probe'.l1 = value
      /\ probe'.line = probe.line
  BY DEF ScanInv, ProbeInv, GotL1
<1>2. IsLineSource(probe.line)
  BY DEF SourceInv, Sourced
<1>3. QED
  BY <1>1, <1>2 DEF Sourced

(* A data cache whose size is found is the first one, if it was there all  *)
(* along.                                                                  *)
LEMMA L1SizeHasSource ==
  ASSUME ScanInv, SourceInv, ReadL1Size
  PROVE  Sourced(probe')
<1>1. PICK i \in {0, 1} :
        /\ probe.at = <<"size", i>>
        /\ IF ReadCacheValue(files[i].size) = Absent
             THEN NextIndex(i) ELSE GotL1(ReadCacheValue(files[i].size))
  BY DEF ReadL1Size
<1> DEFINE value == ReadCacheValue(files[i].size)
<1>2. /\ value \in Meant(files[i].size) \union {Absent}
      /\ present /\ value = Absent => Meant(files[i].size) = {}
  BY ReadHasSource
<1>3. IsDataCache(files[i].type)
  BY <1>1 DEF SourceInv, Sourced
<1>4. Calm /\ i = 1 => 0 \notin DataCaches
  BY <1>1 DEF SourceInv, Sourced
<1> HIDE DEF value
<1>5. CASE value = Absent
  <2>1. Calm => i \notin DataCaches
    BY <1>2, <1>5 DEF Calm, DataCaches
  <2>2. NextIndex(i)
    BY <1>1, <1>5 DEF value
  <2>3. QED
    BY <1>1, <2>1, <2>2, NextIndexHasSource
<1>6. CASE value # Absent
  <2>1. value \in Meant(files[i].size)
    BY <1>2, <1>6
  <2>2. i \in DataCaches
    BY <1>3, <2>1 DEF DataCaches, IsDataCache
  <2>3. Calm => Min(DataCaches) = i
    BY <1>4, <2>2, FirstDataCache
  <2>4. IsL1Source(value)
    BY <2>1, <2>3 DEF IsL1Source
  <2>5. GotL1(value)
    BY <1>1, <1>6 DEF value
  <2>6. QED
    BY <1>1, <2>4, <2>5, GotL1HasSource
<1>7. QED
  BY <1>5, <1>6

LEMMA AnySizeHasSource ==
  ASSUME ScanInv, SourceInv, ReadAnySize
  PROVE  Sourced(probe')
<1>1. PICK i \in {0, 1} :
        /\ probe.at = <<"any", i>>
        /\ \/ Goto(<<"any", 1>>)
           \/ GotL1(OrElse(ReadCacheValue(files[i].size), DefaultL1))
  BY DEF ReadAnySize
<1>2. /\ IsLineSource(probe.line)
      /\ Calm => DataCaches = {}
  BY <1>1 DEF SourceInv, Sourced
<1>3. CASE Goto(<<"any", 1>>)
  <2>1. probe'.at = <<"any", 1>> /\ probe'.line = probe.line
    BY <1>3 DEF Goto, ScanInv, ProbeInv
  <2>2. QED
    BY <1>2, <2>1 DEF Sourced
<1> DEFINE found == OrElse(ReadCacheValue(files[i].size), DefaultL1)
<1>4. CASE GotL1(found)
  <2>1. ReadCacheValue(files[i].size) \in Meant(files[i].size) \union {Absent}
    BY ReadHasSource
  <2>2. IsL1Source(found)
    BY <1>2, <2>1 DEF OrElse, IsL1Source
  <2> HIDE DEF found
  <2>3. QED
    BY <1>1, <1>4, <2>2, GotL1HasSource
<1>5. QED
  BY <1>1, <1>3, <1>4

LEMMA L2HasSource ==
  ASSUME ScanInv, SourceInv, ReadL2
  PROVE  Sourced(probe')
<1> DEFINE found == OrElse(ReadCacheValue(files[2].size), DefaultL2)
<1>1. ReadCacheValue(files[2].size) \in Meant(files[2].size) \union {Absent}
  BY ReadHasSource
<1>2. IsL2Source(found)
  BY <1>1 DEF OrElse, IsL2Source
<1>3. /\ probe.at = <<"l2", 2>>
      /\ probe' = [probe EXCEPT !.at = <<"l3", 3>>, !.l2 = found]
  BY DEF ReadL2
<1> HIDE DEF found
<1>4. /\ probe'.at = <<"l3", 3>> /\ probe'.l2 = found
      /\ probe'.line = probe.line /\ probe'.l1 = probe.l1
  BY <1>3 DEF ScanInv, ProbeInv
<1>5. IsLineSource(probe.line) /\ IsL1Source(probe.l1)
  BY <1>3 DEF SourceInv, Sourced
<1>6. QED
  BY <1>2, <1>4, <1>5 DEF Sourced

LEMMA L3HasSource ==
  ASSUME ScanInv, SourceInv, ReadL3, UNCHANGED <<files, present, toggles>>
  PROVE  SourceInv'
<1> DEFINE found == OrElse(ReadCacheValue(files[3].size), 0)
<1>1. ReadCacheValue(files[3].size) \in Meant(files[3].size) \union {Absent}
  BY ReadHasSource
<1>2. IsL3Source(found)
  BY <1>1 DEF OrElse, IsL3Source
<1>3. /\ probe.at = <<"l3", 3>> /\ probe' = NoProbe
      /\ cell' = <<[line |-> probe.line, l1 |-> probe.l1, l2 |-> probe.l2,
                   l3 |-> found, simd |-> Simd]>>
  BY DEF ReadL3
<1> HIDE DEF found
<1>4. /\ cell'[1].line = probe.line /\ cell'[1].l1 = probe.l1
      /\ cell'[1].l2 = probe.l2 /\ cell'[1].l3 = found
  BY <1>3
<1>5. /\ IsLineSource(cell'[1].line) /\ IsL1Source(cell'[1].l1)
      /\ IsL2Source(cell'[1].l2) /\ IsL3Source(cell'[1].l3)
  BY <1>2, <1>3, <1>4 DEF SourceInv, Sourced
<1>6. probe'.at = <<"line", 0>>
  BY <1>3 DEF NoProbe
<1>7. DataCaches' = DataCaches /\ (Calm' <=> Calm)
  BY DEF DataCaches, Calm, Meant, Factor
<1>8. Sourced(probe)'
  BY <1>6 DEF Sourced
<1>9. (/\ IsLineSource(cell[1].line) /\ IsL1Source(cell[1].l1)
       /\ IsL2Source(cell[1].l2) /\ IsL3Source(cell[1].l3))'
  BY <1>5, <1>7 DEF IsLineSource, IsL1Source, IsL2Source, IsL3Source
<1>10. QED
  BY <1>8, <1>9 DEF SourceInv

LEMMA NextKeepsSources == ScanInv /\ SourceInv /\ [Next]_vars => SourceInv'
<1> SUFFICES ASSUME ScanInv, SourceInv, [Next]_vars
             PROVE  SourceInv'
  OBVIOUS
<1>1. CASE UNCHANGED cpuvars
  BY <1>1, SourcesStay DEF cpuvars
<1>2. CASE Toggle
  <2>1. toggles' # 0
    BY <1>2 DEF Toggle, ScanInv, WorldInv
  <2>2. QED
    BY <1>2, <2>1, SourcesStay DEF Toggle
<1>3. ASSUME NEW t \in Threads, StartProbe(t)
      PROVE  SourceInv'
  BY <1>3, SourcesStay DEF StartProbe
<1>4. ASSUME NEW t \in Threads, Probe(t)
      PROVE  SourceInv'
  <2>1. cell = <<>> /\ UNCHANGED <<files, present, toggles>>
    BY <1>4, DetectionStep DEF Probe
  <2>2. CASE ReadL3
    BY <2>1, <2>2, L3HasSource
  <2>3. CASE ReadLineSize \/ ReadType \/ ReadL1Size \/ ReadAnySize \/ ReadL2
    <3>1. cell' = <<>>
      BY <2>1, <2>3
         DEF ReadLineSize, ReadType, ReadL1Size, ReadAnySize, ReadL2
    <3>2. Sourced(probe')
      BY <2>3, LineSizeHasSource, TypeHasSource, L1SizeHasSource,
         AnySizeHasSource, L2HasSource
    <3>3. QED
      BY <2>1, <3>1, <3>2, ReadKeepsSources
  <2>4. QED
    BY <1>4, <2>2, <2>3 DEF Probe
<1>5. QED
  <2>1. CASE PrefetchNext
    BY <1>1, <1>2, <1>3, <1>4, <2>1
       DEF PrefetchNext, Call, CallDetect, PrefetchRange, Enter, Inside,
           Detected, Detecting, PrefetchLine
  <2>2. CASE UNCHANGED cpuvars
    BY <1>1, <2>2
  <2>3. QED
    BY <2>1, <2>2 DEF Next, Finished, vars

(* Every size in the cell is, to the last byte, that of a file it may come *)
(* from, or the default, for any files and whenever they vanish; where     *)
(* they stay, the L1 size is that of the first data cache that has one.    *)
THEOREM SizesHaveSources == Spec => []EachSizeHasASource
<1>1. Init => SourceInv
  BY DEF Init, PrefetchInit, CpuInit, NoProbe, SourceInv, Sourced, IsDetected
<1>2. Spec => [](ScanInv /\ SourceInv)
  BY <1>1, InitScanInv, NextKeepsScanInv, NextKeepsSources, PTL DEF Spec
<1>3. SourceInv => EachSizeHasASource
  BY DEF SourceInv, EachSizeHasASource, IsLineSource, IsL1Source, IsL2Source,
         IsL3Source, Calm, DataCaches
<1>4. QED
  BY <1>2, <1>3, PTL
-----------------------------------------------------------------------------
(* The lines that prefetch_range covers.                                   *)

LEMMA LineBounds ==
  ASSUME NEW a \in Nat
  PROVE  /\ LineOf(a) \in Nat
         /\ HwLine * LineOf(a) <= a
         /\ a < HwLine * (LineOf(a) + 1)
BY PrefetchAssumption DEF LineOf

LEMMA LineIsMonotonic ==
  ASSUME NEW a \in Nat, NEW b \in Nat, a <= b
  PROVE  LineOf(a) <= LineOf(b)
<1> DEFINE p == LineOf(a)
           q == LineOf(b)
<1>1. /\ HwLine \in Nat /\ HwLine > 0 /\ p \in Nat /\ q \in Nat
      /\ HwLine * p <= a /\ b < HwLine * (q + 1)
  BY LineBounds, PrefetchAssumption
<1> HIDE DEF p, q
<1>2. ASSUME q + 1 <= p
      PROVE  FALSE
  <2>1. HwLine * (q + 1) <= HwLine * p
    BY <1>1, <1>2
  <2>2. HwLine * (q + 1) \in Nat /\ HwLine * p \in Nat
    BY <1>1
  <2>3. QED
    BY <1>1, <2>1, <2>2
<1>3. p <= q
  BY <1>1, <1>2
<1>4. QED
  BY <1>3 DEF p, q

(* Of two numbers less than a line apart, the second is in the line of the *)
(* first or in the next one.                                               *)
LEMMA LineIsNear ==
  ASSUME NEW a \in Nat, NEW b \in Nat, b <= a + HwLine
  PROVE  LineOf(b) <= LineOf(a) + 1
<1> DEFINE p == LineOf(a)
           q == LineOf(b)
<1>1. /\ HwLine \in Nat /\ HwLine > 0 /\ p \in Nat /\ q \in Nat
      /\ HwLine * q <= b /\ a < HwLine * (p + 1)
  BY LineBounds, PrefetchAssumption
<1> HIDE DEF p, q
<1>2. ASSUME p + 2 <= q
      PROVE  FALSE
  <2>1. HwLine * (p + 2) <= HwLine * q
    BY <1>1, <1>2
  <2>2. HwLine * (p + 2) = HwLine * (p + 1) + HwLine
    BY <1>1
  <2>3. HwLine * (p + 1) \in Nat /\ HwLine * q \in Nat
    BY <1>1
  <2> DEFINE x == HwLine * (p + 1)
             y == HwLine * (p + 2)
             z == HwLine * q
  <2>4. x \in Nat /\ z \in Nat /\ y <= z /\ y = x + HwLine /\ z <= b /\ a < x
    BY <1>1, <2>1, <2>2, <2>3
  <2> HIDE DEF x, y, z
  <2>5. QED
    BY <1>1, <2>4
<1>3. q <= p + 1
  BY <1>1, <1>2
<1>4. QED
  BY <1>3 DEF p, q

(* A step no longer than a line, from one address to beyond a byte in      *)
(* another line, ends in that line; and the line begins inside the step.   *)
LEMMA StepIntoLine ==
  ASSUME NEW a \in Nat, NEW b \in Nat, NEW step \in Nat, step <= HwLine,
         a <= b, b < a + step, LineOf(a) # LineOf(b)
  PROVE  /\ LineOf(a + step) = LineOf(b)
         /\ a < HwLine * LineOf(b) /\ HwLine * LineOf(b) <= b
<1>1. HwLine \in Nat /\ a + step \in Nat /\ b <= a + step
  BY PrefetchAssumption
<1>2. LineOf(a) \in Nat /\ LineOf(b) \in Nat /\ LineOf(a + step) \in Nat
  BY <1>1, LineBounds
<1>3. /\ LineOf(a) <= LineOf(b) /\ LineOf(b) <= LineOf(a + step)
  BY <1>1, LineIsMonotonic
<1>4. LineOf(a + step) <= LineOf(a) + 1
  BY <1>1, LineIsNear
<1>5. LineOf(b) = LineOf(a) + 1 /\ LineOf(a + step) = LineOf(b)
  BY <1>2, <1>3, <1>4
<1>6. a < HwLine * (LineOf(a) + 1) /\ HwLine * LineOf(b) <= b
  BY LineBounds
<1>7. QED
  BY <1>5, <1>6

(* No multiple of a number lies strictly between two that follow on each   *)
(* other.                                                                  *)
LEMMA NoMultipleBetween ==
  ASSUME NEW step \in Nat, NEW i \in Nat, NEW j \in Nat,
         step * i < step * j
  PROVE  step * i + step <= step * j
<1>1. i + 1 <= j
  <2>1. ASSUME j <= i
        PROVE  step * j <= step * i
    BY <2>1
  <2>2. step * i \in Nat /\ step * j \in Nat
    OBVIOUS
  <2>3. QED
    BY <2>1, <2>2
<1>2. step * (i + 1) <= step * j
  BY <1>1
<1>3. step * (i + 1) = step * i + step
  OBVIOUS
<1>4. QED
  BY <1>2, <1>3

(* What the latest call of a thread has prefetched: a step apart from the  *)
(* pointer on, so that each byte before the offset lies at most a step     *)
(* behind one of the addresses.  The saturated offset is past the cap.     *)
Covered(t) ==
  LET p == arg[t].ptr
      step == CacheLine(t)
  IN  /\ p \in touched[t]
      /\ \A a \in touched[t] : \E k \in Nat : a = p + step * k
      /\ \/ \E k \in Nat : offset[t] = step * k
         \/ offset[t] >= CappedLen(t)
      /\ \A a \in touched[t] :
           \/ a + step \in touched[t]
           \/ a + step = p + offset[t]
           \/ a + step >= p + CappedLen(t)
      /\ \A b \in Bytes(t) : b < p + offset[t] =>
           \E a \in touched[t] : a <= b /\ b < a + step

Locals(t) == <<arg[t], offset[t], touched[t], got[t], pc[t]>>

CoverOf(t) ==
  /\ touched[t] = {} => offset[t] = 0
  /\ touched[t] # {} =>
       /\ pc[t] \in {"loop", "idle"}
       /\ got[t] # <<>>
       /\ pc[t] = "idle" => offset[t] >= CappedLen(t)
       /\ Covered(t)

CoverInv == \A t \in Threads : CoverOf(t)

(* The numbers of a call inside the loop.                                  *)
LEMMA CallNumbers ==
  ASSUME ScanInv, NEW t \in Threads
  PROVE  /\ arg[t].ptr \in Nat /\ arg[t].len \in Nat /\ offset[t] \in Nat
         /\ touched[t] \subseteq Nat
         /\ CappedLen(t) \in Nat /\ CappedLen(t) <= UsizeMax
         /\ got[t] # <<>> => CacheLine(t) \in Nat /\ CacheLine(t) > 0
<1>1. /\ arg[t].ptr \in Nat /\ arg[t].len \in Nat /\ offset[t] \in Nat
      /\ touched[t] \subseteq Nat
      /\ MaxPrefetchBytes \in Nat /\ MaxPrefetchBytes <= UsizeMax
      /\ UsizeMax \in Nat
  BY PrefetchAssumption, CpuFeaturesAssumption DEF ScanInv, LoopInv
<1>2. CappedLen(t) \in Nat /\ CappedLen(t) <= UsizeMax
  <2> DEFINE capped == CappedLen(t)
  <2>1. capped = Min({arg[t].len, MaxPrefetchBytes})
    BY DEF CappedLen
  <2> HIDE DEF capped
  <2>2. arg[t].len \in Int /\ MaxPrefetchBytes \in Int
    BY <1>1
  <2>3. capped \in {arg[t].len, MaxPrefetchBytes} /\ capped <= MaxPrefetchBytes
    BY <2>1, <2>2, MinOfTwo
  <2>4. capped \in Nat /\ capped <= UsizeMax
    BY <1>1, <2>3
  <2>5. QED
    BY <2>4 DEF capped
<1>3. ASSUME got[t] # <<>>
      PROVE  CacheLine(t) \in Nat /\ CacheLine(t) > 0
  <2>1. PICK f \in Features : got[t] = <<f>>
    BY <1>3 DEF ScanInv, AnswerInv, CellInv
  <2>2. got[t][1].line \in Nat
    BY <2>1 DEF Features, Sizes
  <2> DEFINE step == CacheLine(t)
  <2>3. step = Max({got[t][1].line, 1})
    BY DEF CacheLine
  <2> HIDE DEF step
  <2>4. got[t][1].line \in Int /\ 1 \in Int
    BY <2>2
  <2>5. step \in {got[t][1].line, 1} /\ step >= 1
    BY <2>3, <2>4, MaxOfTwo
  <2>6. step \in Nat /\ step > 0
    BY <2>2, <2>5
  <2>7. QED
    BY <2>6 DEF step
<1>4. QED
  BY <1>1, <1>2, <1>3

(* The next offset is a step on, or past the cap.                          *)
LEMMA NextOffsetSteps ==
  ASSUME ScanInv, NEW t \in Threads, got[t] # <<>>
  PROVE  /\ NextOffset(t) \in Nat
         /\ NextOffset(t) <= offset[t] + CacheLine(t)
         /\ \/ NextOffset(t) = offset[t] + CacheLine(t)
            \/ NextOffset(t) >= CappedLen(t)
<1> DEFINE next == NextOffset(t)
           sum == offset[t] + CacheLine(t)
<1>1. sum \in Nat /\ UsizeMax \in Nat /\ CappedLen(t) \in Nat
      /\ CappedLen(t) <= UsizeMax
  BY CallNumbers, CpuFeaturesAssumption
<1>2. next = Min({sum, UsizeMax})
  BY DEF NextOffset, SaturatingAdd
<1> HIDE DEF next, sum
<1>3. sum \in Int /\ UsizeMax \in Int
  BY <1>1
<1>4. next \in {sum, UsizeMax} /\ next <= sum
  BY <1>2, <1>3, MinOfTwo
<1>5. next \in Nat /\ next <= sum /\ (next = sum \/ next >= CappedLen(t))
  BY <1>1, <1>4
<1>6. QED
  BY <1>5 DEF next, sum

LEMMA CoverStays ==
  ASSUME NEW t \in Threads, CoverOf(t), UNCHANGED Locals(t)
  PROVE  CoverOf(t)'
<1>1. /\ arg'[t] = arg[t] /\ offset'[t] = offset[t] /\ got'[t] = got[t]
      /\ touched'[t] = touched[t] /\ pc'[t] = pc[t]
  BY DEF Locals
<1>2. CacheLine(t)' = CacheLine(t) /\ CappedLen(t)' = CappedLen(t)
  BY <1>1 DEF CacheLine, CappedLen
<1>3. Bytes(t)' = Bytes(t)
  BY <1>1, <1>2 DEF Bytes
<1>4. Covered(t) <=> Covered(t)'
  BY <1>1, <1>2, <1>3 DEF Covered
<1>5. QED
  BY <1>1, <1>2, <1>4 DEF CoverOf

LEMMA LineCovers ==
  ASSUME ScanInv, NEW t \in Threads, CoverOf(t), PrefetchLine(t)
  PROVE  CoverOf(t)'
<1> DEFINE p == arg[t].ptr
           step == CacheLine(t)
           cap == CappedLen(t)
           off == offset[t]
           next == NextOffset(t)
           T == touched[t]
<1>1. pc[t] = "loop" /\ got[t] # <<>>
  BY DEF PrefetchLine, ScanInv, AnswerInv
<1>2. /\ p \in Nat /\ off \in Nat /\ T \subseteq Nat /\ cap \in Nat
      /\ step \in Nat /\ step > 0
  BY <1>1, CallNumbers
<1>3. /\ next \in Nat /\ next <= off + step
      /\ next = off + step \/ next >= cap
  BY <1>1, NextOffsetSteps
<1>4. arg'[t] = arg[t] /\ got'[t] = got[t]
  BY DEF PrefetchLine
<1>5. CacheLine(t)' = step /\ CappedLen(t)' = cap /\ arg'[t].ptr = p
  BY <1>4 DEF CacheLine, CappedLen
<1>6. Bytes(t)' = Bytes(t) /\ Bytes(t) = p..p + cap - 1
  BY <1>4, <1>5 DEF Bytes
<1>7. CASE off < cap
  <2>1. /\ touched'[t] = T \union {p + off} /\ offset'[t] = next
        /\ pc'[t] = "loop"
    BY <1>1, <1>7 DEF PrefetchLine, ScanInv, LoopInv
  <2>2. T = {} => off = 0
    BY DEF CoverOf
  <2>3. T # {} => Covered(t)
    BY DEF CoverOf
  <2>4. PICK k \in Nat : off = step * k
    <3>1. CASE T = {}
      <4>1. off = step * 0
        BY <1>2, <2>2, <3>1
      <4>2. QED
        BY <4>1
    <3>2. CASE T # {}
      <4>1. (\E k \in Nat : off = step * k) \/ off >= cap
        BY <2>3, <3>2 DEF Covered
      <4>2. QED
        BY <1>2, <1>7, <4>1
    <3>3. QED
      BY <3>1, <3>2
  <2> HIDE DEF p, step, cap, off, next, T
  <2>5. p \in touched'[t]
    <3>1. CASE T = {}
      BY <1>2, <2>1, <2>2, <3>1
    <3>2. CASE T # {}
      BY <2>1, <2>3, <3>2 DEF Covered, p, T
    <3>3. QED
      BY <3>1, <3>2
  <2>6. \A a \in touched'[t] : \E i \in Nat : a = p + step * i
    <3>1. \A a \in T : \E i \in Nat : a = p + step * i
      BY <2>3 DEF Covered, p, T, step
    <3>2. QED
      BY <2>1, <2>4, <3>1
  <2>7. (\E i \in Nat : offset'[t] = step * i) \/ offset'[t] >= cap
    <3>1. CASE next = off + step
      <4>1. step * (k + 1) = step * k + step /\ k + 1 \in Nat
        BY <1>2, <2>4
      <4>2. QED
        BY <2>1, <2>4, <3>1, <4>1
    <3>2. QED
      BY <1>3, <2>1, <3>1
  <2>8. ASSUME NEW a \in touched'[t]
        PROVE  \/ a + step \in touched'[t]
               \/ a + step = p + offset'[t]
               \/ a + step >= p + cap
    <3>1. CASE a \in T
      <4>1. \/ a + step \in T
            \/ a + step = p + off
            \/ a + step >= p + cap
        BY <2>3, <3>1 DEF Covered, p, T, step, off, cap
      <4>2. QED
        BY <2>1, <4>1
    <3>2. CASE a = p + off
      <4>1. CASE next = off + step
        BY <1>2, <2>1, <3>2, <4>1
      <4>2. CASE next >= cap
        BY <1>2, <1>3, <3>2, <4>2
      <4>3. QED
        BY <1>3, <4>1, <4>2
    <3>3. QED
      BY <2>1, <3>1, <3>2
  <2>9. ASSUME NEW b \in p..p + cap - 1, b < p + next
        PROVE  \E a \in touched'[t] : a <= b /\ b < a + step
    <3>1. CASE b < p + off
      <4>1. T # {}
        BY <1>2, <2>2, <3>1
      <4>2. \E a \in T : a <= b /\ b < a + step
        BY <1>6, <2>3, <3>1, <4>1 DEF Covered, p, T, step, off
      <4>3. QED
        BY <2>1, <4>2
    <3>2. CASE b >= p + off
      <4>1. p + off <= b /\ b < (p + off) + step
        BY <1>2, <1>3, <2>9, <3>2
      <4>2. QED
        BY <2>1, <4>1
    <3>3. QED
      BY <1>2, <3>1, <3>2
  <2>10. Covered(t)'
    BY <1>5, <1>6, <2>1, <2>5, <2>6, <2>7, <2>8, <2>9 DEF Covered
  <2>11. QED
    BY <1>1, <1>4, <2>1, <2>5, <2>10 DEF CoverOf
<1>8. CASE ~(off < cap)
  <2>1. touched'[t] = T /\ offset'[t] = off /\ pc'[t] = "idle"
    BY <1>8 DEF PrefetchLine, ScanInv, AnswerInv
  <2>2. Covered(t)' <=> Covered(t)
    BY <1>4, <1>5, <1>6, <2>1 DEF Covered
  <2>3. CappedLen(t)' = cap /\ off >= cap
    BY <1>2, <1>5, <1>8
  <2>4. QED
    BY <1>1, <1>4, <2>1, <2>2, <2>3 DEF CoverOf
<1>9. QED
  BY <1>7, <1>8

LEMMA NextKeepsCover == ScanInv /\ CoverInv /\ [Next]_vars => CoverInv'
<1> SUFFICES ASSUME ScanInv, CoverInv, [Next]_vars, NEW u \in Threads
             PROVE  CoverOf(u)'
  BY DEF CoverInv
<1>1. CoverOf(u)
  BY DEF CoverInv
<1>2. CASE UNCHANGED <<pc, arg, offset, touched, got>>
  BY <1>1, <1>2, CoverStays DEF Locals
<1>3. ASSUME NEW t \in Threads, NEW step, NEW a, Enter(t, step, a)
      PROVE  CoverOf(u)'
  <2>1. CASE t = u
    <3>1. touched'[u] = {} /\ offset'[u] = 0
      BY <1>3, <2>1 DEF Enter, ScanInv, LoopInv
    <3>2. QED
      BY <3>1 DEF CoverOf
  <2>2. CASE t # u
    <3>1. UNCHANGED Locals(u)
      BY <1>3, <2>2 DEF Enter, Locals, ScanInv, LoopInv, AnswerInv
    <3>2. QED
      BY <1>1, <3>1, CoverStays
  <2>3. QED
    BY <2>1, <2>2
<1>4. ASSUME NEW t \in Threads, Detected(t)
      PROVE  CoverOf(u)'
  <2>1. CASE t = u
    <3>1. touched[u] = {} /\ offset[u] = 0
      BY <1>1, <1>4, <2>1 DEF Detected, CoverOf
    <3>2. touched'[u] = {} /\ offset'[u] = 0
      BY <1>4, <3>1 DEF Detected
    <3>3. QED
      BY <3>2 DEF CoverOf
  <2>2. CASE t # u
    <3>1. UNCHANGED Locals(u)
      BY <1>4, <2>2 DEF Detected, Locals, ScanInv, AnswerInv
    <3>2. QED
      BY <1>1, <3>1, CoverStays
  <2>3. QED
    BY <2>1, <2>2
<1>5. ASSUME NEW t \in Threads, PrefetchLine(t)
      PROVE  CoverOf(u)'
  <2>1. CASE t = u
    BY <1>1, <1>5, <2>1, LineCovers
  <2>2. CASE t # u
    <3>1. UNCHANGED Locals(u)
      BY <1>5, <2>2 DEF PrefetchLine, Locals, ScanInv, AnswerInv, LoopInv
    <3>2. QED
      BY <1>1, <3>1, CoverStays
  <2>3. QED
    BY <2>1, <2>2
<1>6. CASE PrefetchNext
  BY <1>2, <1>3, <1>4, <1>5, <1>6
     DEF PrefetchNext, Call, CallDetect, PrefetchRange, Inside, Detecting,
         callvars
<1>7. QED
  BY <1>2, <1>6 DEF Next, Finished, vars, callvars

(* Once the loop has ended, a line without an address is the last one: the *)
(* step from the address before it led into the same line, but past the    *)
(* end.  If the step divides a line and the range begins at one, no step   *)
(* leads past the beginning of a line.                                     *)
LEMMA MissedIsLast ==
  ASSUME ScanInv, CoverInv, NEW t \in Threads,
         pc[t] = "idle", touched[t] # {}, StepsOverNoLine(t),
         NEW b \in Bytes(t), \A a \in touched[t] : LineOf(a) # LineOf(b)
  PROVE  /\ LineOf(b) = LineOf(Max(Bytes(t)))
         /\ ~(arg[t].ptr % HwLine = 0 /\ HwLine % CacheLine(t) = 0)
<1> DEFINE p == arg[t].ptr
           step == CacheLine(t)
           cap == CappedLen(t)
           off == offset[t]
           last == p + cap - 1
<1>1. Covered(t) /\ off >= cap /\ got[t] # <<>>
  BY DEF CoverInv, CoverOf
<1>2. /\ p \in Nat /\ off \in Nat /\ touched[t] \subseteq Nat /\ cap \in Nat
      /\ step \in Nat /\ step > 0
  BY <1>1, CallNumbers
<1>3. Bytes(t) = p..last /\ b \in p..last
  BY DEF Bytes
<1>4. PICK a \in touched[t] : a <= b /\ b < a + step
  <2>1. b < p + off
    BY <1>1, <1>2, <1>3
  <2>2. QED
    BY <1>1, <2>1 DEF Covered
<1>5. step <= HwLine /\ a \in Nat /\ b \in Nat
  BY <1>2, <1>3, <1>4 DEF StepsOverNoLine
<1>6. LineOf(a) # LineOf(b)
  OBVIOUS
<1>7. /\ LineOf(a + step) = LineOf(b)
      /\ a < HwLine * LineOf(b) /\ HwLine * LineOf(b) <= b
  <2> HIDE DEF step
  <2> QED BY <1>2, <1>4, <1>5, <1>6, StepIntoLine
<1>8. last <= a + step
  <2>1. a + step \notin touched[t]
    BY <1>7
  <2>2. a + step = p + off \/ a + step >= p + cap
    BY <1>1, <2>1 DEF Covered
  <2>3. QED
    BY <1>1, <1>2, <1>4, <1>5, <2>2
<1>9. LineOf(b) = LineOf(last)
  <2>1. last \in Nat /\ b <= last /\ a + step \in Nat
    BY <1>2, <1>3, <1>4
  <2> HIDE DEF last, step
  <2>2. LineOf(b) <= LineOf(last) /\ LineOf(last) <= LineOf(a + step)
    BY <1>5, <1>8, <2>1, LineIsMonotonic
  <2>3. LineOf(b) \in Nat /\ LineOf(last) \in Nat
    BY <1>5, <2>1, LineBounds
  <2>4. QED
    BY <1>7, <2>2, <2>3
<1>10. Max(Bytes(t)) = last
  <2>1. last \in Bytes(t) /\ \A x \in Bytes(t) : x <= last
    BY <1>2, <1>3
  <2>2. Max(Bytes(t)) \in Bytes(t) /\ \A x \in Bytes(t) : x <= Max(Bytes(t))
    BY <2>1 DEF Max
  <2>3. Max(Bytes(t)) <= last /\ last <= Max(Bytes(t))
    BY <2>1, <2>2
  <2>4. Max(Bytes(t)) \in Int /\ last \in Int
    BY <1>2, <1>3, <2>2
  <2>5. QED
    BY <2>3, <2>4
<1>11. ASSUME p % HwLine = 0, HwLine % step = 0
       PROVE  FALSE
  <2> DEFINE m == HwLine \div step
             q == p \div HwLine
             l == LineOf(b)
  <2>1. /\ HwLine \in Nat /\ m \in Nat /\ HwLine = step * m
    BY <1>2, <1>11, PrefetchAssumption
  <2>2. q \in Nat /\ p = HwLine * q
    BY <1>2, <1>11, PrefetchAssumption
  <2>3. l \in Nat
    BY <1>5, LineBounds
  <2>4. PICK k \in Nat : a = p + step * k
    BY <1>1 DEF Covered
  <2> HIDE DEF m, q, l, step, p
  <2>5. a = step * (m * q + k) /\ m * q + k \in Nat
    <3>1. p = (step * m) * q
      BY <2>1, <2>2
    <3>2. (step * m) * q = step * (m * q) /\ m * q \in Nat
      BY <1>2, <2>1, <2>2
    <3>3. step * (m * q + k) = step * (m * q) + step * k
      BY <1>2, <2>4, <3>2
    <3>4. QED
      BY <2>4, <3>1, <3>2, <3>3
  <2>6. HwLine * l = step * (m * l) /\ m * l \in Nat
    <3>1. (step * m) * l = step * (m * l) /\ m * l \in Nat
      BY <1>2, <2>1, <2>3
    <3>2. QED
      BY <2>1, <3>1
  <2>7. step * (m * q + k) < step * (m * l)
    BY <1>7, <2>5, <2>6 DEF l
  <2>8. a + step <= HwLine * l
    BY <1>2, <2>5, <2>6, <2>7, NoMultipleBetween
  <2>9. HwLine * l <= b /\ HwLine * l \in Nat
    BY <1>7, <2>1, <2>3 DEF l
  <2>10. QED
    BY <1>2, <1>4, <1>5, <2>8, <2>9
<1>12. QED
  BY <1>9, <1>10, <1>11

(* prefetch_range prefetches all lines of its range up to the cap, except  *)
(* perhaps the last one, for any pointer and length, any line size of the  *)
(* machine and any size detected that is not beyond it; the last one too   *)
(* if the range begins at a line and the size detected divides it.         *)
THEOREM OnlyTheLastLineIsMissed == Spec => []MissesAtMostTheLastLine
<1>1. Init => CoverInv
  BY DEF Init, PrefetchInit, CallInit, CoverInv, CoverOf
<1>2. Spec => [](ScanInv /\ CoverInv)
  BY <1>1, InitScanInv, NextKeepsScanInv, NextKeepsCover, PTL DEF Spec
<1>3. ScanInv /\ CoverInv => MissesAtMostTheLastLine
  BY MissedIsLast DEF MissesAtMostTheLastLine
<1>4. QED
  BY <1>2, <1>3, PTL
=============================================================================
