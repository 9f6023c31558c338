---------------------------- MODULE MemInfoProofs ----------------------------
(***************************************************************************)
(* Proofs about MemInfo for any numbers, any width of a u64 and any file:  *)
(* any of the five lines present, in any order, with a number or without.  *)
(* ReadInv says what the loop knows at each line, and what a break leaves  *)
(* unknown because it does not matter.                                     *)
(***************************************************************************)
EXTENDS MemInfo, FiniteSetTheorems, TLAPS

(* /proc/meminfo has one line for a field at most.                         *)
FileInv ==
  /\ file \in Seq(Lines)
  /\ \A j, k \in 1..Len(file) : file[j].field = file[k].field => j = k

(* kib has the number of the field, if it is in one of the first lines.    *)
KnowsUpTo(f, n) ==
  /\ kib[f] # None => \E k \in 1..n : file[k] = [field |-> f, value |-> kib[f]]
  /\ \A k \in 1..n : file[k].field = f /\ file[k].value # Bad =>
       kib[f] = file[k].value

(* The loop knows the lines behind it; a break leaves it with the two      *)
(* fields it wants, and with others that it may not have come to.          *)
ReadInv ==
  /\ at \in 1..Len(file) + 1
  /\ kib \in [Fields -> Kibs \union {None}]
  /\ \/ \A f \in Fields : KnowsUpTo(f, at - 1)
     \/ /\ at = Len(file) + 1
        /\ \A f \in {"MemTotal", "MemAvailable"} :
             kib[f] # None /\ KnowsUpTo(f, Len(file))

MemInv ==
  /\ FileInv /\ ReadInv
  /\ pc \in {"open", "read", "done", "failed", "unreadable"}
  /\ ResultIsOfTheFile
-----------------------------------------------------------------------------
LEMMA FieldsAreFinite == IsFiniteSet(Fields)
<1>1. IsFiniteSet({"MemTotal"})
  BY FS_Singleton
<1>2. IsFiniteSet({"MemTotal"} \union {"MemAvailable"})
  BY <1>1, FS_AddElement
<1>3. IsFiniteSet(({"MemTotal"} \union {"MemAvailable"}) \union {"MemFree"})
  BY <1>2, FS_AddElement
<1>4. IsFiniteSet((({"MemTotal"} \union {"MemAvailable"}) \union {"MemFree"})
                   \union {"Buffers"})
  BY <1>3, FS_AddElement
<1>5. IsFiniteSet(((({"MemTotal"} \union {"MemAvailable"}) \union {"MemFree"})
                   \union {"Buffers"}) \union {"Cached"})
  BY <1>4, FS_AddElement
<1>6. Fields = (((({"MemTotal"} \union {"MemAvailable"}) \union {"MemFree"})
                \union {"Buffers"}) \union {"Cached"})
  BY DEF Fields
<1>7. QED
  BY <1>5, <1>6

LEMMA InitMemInv == Init => MemInv
<1> SUFFICES ASSUME Init
             PROVE  MemInv
  OBVIOUS
<1>1. PICK fields \in SUBSET Fields :
        \E order \in SetToSeqs(fields), value \in [fields -> Kibs \union {Bad}] :
          file = [k \in DOMAIN order |->
                    [field |-> order[k], value |-> value[order[k]]]]
  BY DEF Init
<1>2. PICK order \in SetToSeqs(fields), value \in [fields -> Kibs \union {Bad}] :
        file = [k \in DOMAIN order |->
                  [field |-> order[k], value |-> value[order[k]]]]
  BY <1>1
<1> DEFINE n == Cardinality(fields)
<1>3. n \in Nat
  BY FieldsAreFinite, FS_Subset, FS_CardinalityType
<1> HIDE DEF n
<1>4. /\ order \in [1..n -> fields]
      /\ \A j, k \in 1..n : j # k => order[j] # order[k]
  BY <1>2 DEF SetToSeqs, n
<1>5. file \in [1..n -> Lines]
  BY <1>2, <1>4 DEF Lines
<1>6. file \in Seq(Lines) /\ Len(file) = n
  BY <1>3, <1>5
<1>7. \A k \in 1..n : file[k].field = order[k]
  BY <1>2, <1>4
<1>8. FileInv
  BY <1>4, <1>6, <1>7 DEF FileInv
<1>9. ReadInv
  BY <1>3, <1>6 DEF Init, ReadInv, KnowsUpTo
<1>10. QED
  BY <1>8, <1>9 DEF Init, MemInv, ResultIsOfTheFile

(* A line tells of its field, and of no other.                             *)
LEMMA LineIsKnown ==
  ASSUME FileInv, ReadInv, ReadLine, NEW f \in Fields, KnowsUpTo(f, at - 1)
  PROVE  /\ kib'[f] # None =>
              \E k \in 1..at : file[k] = [field |-> f, value |-> kib'[f]]
         /\ \A k \in 1..at : file[k].field = f /\ file[k].value # Bad =>
              kib'[f] = file[k].value
<1> DEFINE line == file[at]
<1>1. /\ at \in 1..Len(file) /\ Len(file) \in Nat /\ line \in Lines
      /\ kib \in [Fields -> Kibs \union {None}]
      /\ kib' = [kib EXCEPT ![line.field] = ParseKibValue(line.value)]
  BY DEF FileInv, ReadInv, ReadLine
<1>2. CASE line.field = f
  <2>1. kib'[f] = ParseKibValue(line.value)
    BY <1>1, <1>2
  <2>2. \A k \in 1..at : file[k].field = f => k = at
    BY <1>1, <1>2 DEF FileInv
  <2>3. line = [field |-> f, value |-> line.value]
    BY <1>1, <1>2 DEF Lines
  <2>4. kib'[f] # None => line.value # Bad /\ kib'[f] = line.value
    BY <2>1 DEF ParseKibValue
  <2>5. line.value # Bad => kib'[f] = line.value
    BY <2>1 DEF ParseKibValue
  <2>6. QED
    BY <1>1, <2>2, <2>3, <2>4, <2>5
<1>3. CASE line.field # f
  <2>1. kib'[f] = kib[f]
    BY <1>1, <1>3
  <2>2. \A k \in 1..at : k = at \/ k \in 1..at - 1
    BY <1>1
  <2>3. 1..at - 1 \subseteq 1..at
    BY <1>1
  <2>4. QED
    BY <1>3, <2>1, <2>2, <2>3 DEF KnowsUpTo
<1>4. QED
  BY <1>2, <1>3

(* There is no other line of a field whose number is known.                *)
LEMMA NothingMoreToKnow ==
  ASSUME FileInv, NEW f \in Fields, NEW n \in 0..Len(file), NEW number,
         \E k \in 1..n : file[k] = [field |-> f, value |-> number]
  PROVE  /\ \E k \in 1..Len(file) : file[k] = [field |-> f, value |-> number]
         /\ \A k \in 1..Len(file) : file[k].field = f => file[k].value = number
BY DEF FileInv

LEMMA ReadLineKeepsMemInv ==
  ASSUME MemInv, ReadLine
  PROVE  MemInv'
<1>1. /\ FileInv /\ ReadInv /\ UNCHANGED <<file, pc, status>>
      /\ pc = "read" /\ at \in 1..Len(file) /\ Len(file) \in Nat
  BY DEF MemInv, FileInv, ReadInv, ReadLine
<1>2. FileInv'
  BY <1>1 DEF FileInv
<1>3. kib' \in [Fields -> Kibs \union {None}]
  <2>1. file[at] \in Lines
    BY <1>1 DEF FileInv
  <2>2. ParseKibValue(file[at].value) \in Kibs \union {None}
    BY <2>1 DEF ParseKibValue, Lines
  <2>3. QED
    BY <1>1, <2>1, <2>2 DEF ReadLine, ReadInv, Lines
<1>4. \A f \in Fields : KnowsUpTo(f, at - 1)
  BY <1>1 DEF ReadInv
<1>5. \A f \in Fields :
        /\ kib'[f] # None =>
             \E k \in 1..at : file[k] = [field |-> f, value |-> kib'[f]]
        /\ \A k \in 1..at : file[k].field = f /\ file[k].value # Bad =>
             kib'[f] = file[k].value
  BY <1>1, <1>4, LineIsKnown
<1>6. CASE Stops(file[at].field, kib')
  <2>1. at' = Len(file) + 1
    BY <1>1, <1>6 DEF ReadLine
  <2>2. ASSUME NEW f \in {"MemTotal", "MemAvailable"}
        PROVE  kib'[f] # None /\ KnowsUpTo(f, Len(file))'
    <3>1. kib'[f] # None /\ f \in Fields
      BY <1>6 DEF Stops, Fields
    <3>2. /\ \E k \in 1..Len(file) : file[k] = [field |-> f, value |-> kib'[f]]
          /\ \A k \in 1..Len(file) : file[k].field = f => file[k].value = kib'[f]
      BY <1>1, <1>5, <3>1, NothingMoreToKnow
    <3>3. QED
      BY <1>1, <3>1, <3>2 DEF KnowsUpTo
  <2>3. ReadInv'
    BY <1>1, <1>3, <2>1, <2>2 DEF ReadInv
  <2>4. QED
    BY <1>1, <1>2, <2>3 DEF MemInv, ResultIsOfTheFile
<1>7. CASE ~Stops(file[at].field, kib')
  <2>1. at' = at + 1 /\ at' - 1 = at
    BY <1>1, <1>7 DEF ReadLine
  <2>2. \A f \in Fields : KnowsUpTo(f, at - 1)'
    BY <1>1, <1>5, <2>1 DEF KnowsUpTo
  <2>3. ReadInv'
    BY <1>1, <1>3, <2>1, <2>2 DEF ReadInv
  <2>4. QED
    BY <1>1, <1>2, <2>3 DEF MemInv, ResultIsOfTheFile
<1>8. QED
  BY <1>6, <1>7

(* What the loop knows of a field at the end is what the file says of it.  *)
LEMMA KnownIsNumber ==
  ASSUME FileInv, ReadInv, NEW f \in Fields, KnowsUpTo(f, Len(file))
  PROVE  /\ Numbers(f) = {} <=> kib[f] = None
         /\ NumberOrZero(f) = OrZero(kib[f])
         /\ kib[f] \in Nat \union {None} /\ OrZero(kib[f]) \in 0..U64Max
<1>1. /\ kib[f] \in Kibs \union {None} /\ Kibs \subseteq 0..U64Max
      /\ None \notin Kibs /\ Bad \notin Kibs /\ U64Max \in Nat
  <2>1. kib[f] \in Kibs \union {None}
    BY DEF ReadInv
  <2>2. Kibs \subseteq Nat
    BY MemInfoAssumption
  <2>3. QED
    BY <2>1, <2>2, MemInfoAssumption
<1>2. \A n : n \in Numbers(f) <=>
        n \in Kibs /\ \E k \in 1..Len(file) :
                        file[k] = [field |-> f, value |-> n]
  BY DEF Numbers, ToSet, FileInv
<1>3. \A n \in Numbers(f) : n = kib[f]
  <2> SUFFICES ASSUME NEW n \in Numbers(f)
               PROVE  n = kib[f]
    OBVIOUS
  <2>1. PICK k \in 1..Len(file) : file[k] = [field |-> f, value |-> n]
    BY <1>2
  <2>2. n # Bad /\ file[k].field = f /\ file[k].value = n
    BY <1>1, <1>2, <2>1
  <2>3. QED
    BY <2>2 DEF KnowsUpTo
<1>4. kib[f] # None => kib[f] \in Numbers(f)
  BY <1>1, <1>2 DEF KnowsUpTo
<1>5. CASE kib[f] = None
  <2>1. Numbers(f) = {}
    BY <1>1, <1>2, <1>3, <1>5
  <2>2. QED
    BY <1>1, <1>5, <2>1 DEF NumberOrZero, OrZero
<1>6. CASE kib[f] # None
  <2>1. Numbers(f) = {kib[f]}
    BY <1>3, <1>4, <1>6
  <2>2. NumberOrZero(f) = kib[f]
    BY <2>1 DEF NumberOrZero
  <2>3. kib[f] \in 0..U64Max
    BY <1>1, <1>6
  <2>4. OrZero(kib[f]) = kib[f]
    BY <1>6 DEF OrZero
  <2>5. QED
    BY <1>1, <1>6, <2>1, <2>2, <2>3, <2>4
<1>7. QED
  BY <1>5, <1>6

(* The two additions overflow just when the sum of the three does.         *)
LEMMA EstimateIsSum ==
  ASSUME NEW free \in Nat, NEW buffers \in Nat, NEW cached \in Nat
  PROVE  (IF CheckedAdd(free, buffers) = None THEN None
            ELSE CheckedAdd(CheckedAdd(free, buffers), cached))
           = CheckedAdd(free + buffers, cached)
<1>1. None \notin Nat /\ U64Max \in Nat
  BY MemInfoAssumption
<1>2. CASE free + buffers > U64Max
  <2>1. CheckedAdd(free, buffers) = None
    BY <1>2 DEF CheckedAdd
  <2>2. CheckedAdd(free + buffers, cached) = None
    BY <1>1, <1>2 DEF CheckedAdd
  <2>3. QED
    BY <2>1, <2>2
<1>3. CASE ~(free + buffers > U64Max)
  <2>1. CheckedAdd(free, buffers) = free + buffers
    BY <1>3 DEF CheckedAdd
  <2>2. free + buffers # None
    BY <1>1
  <2>3. QED
    BY <2>1, <2>2
<1>4. QED
  BY <1>2, <1>3

LEMMA FinishKeepsMemInv ==
  ASSUME MemInv, Finish
  PROVE  MemInv'
<1> DEFINE T == "MemTotal"
           A == "MemAvailable"
           F == "MemFree"
           B == "Buffers"
           C == "Cached"
           estimate == NumberOrZero(F) + NumberOrZero(B) + NumberOrZero(C)
<1>1. /\ FileInv /\ ReadInv /\ UNCHANGED <<file, at, kib>>
      /\ at = Len(file) + 1 /\ Len(file) \in Nat
  BY DEF MemInv, FileInv, ReadInv, Finish
<1>2. {T, A, F, B, C} \subseteq Fields
  BY DEF Fields
<1>3. KnowsUpTo(T, Len(file)) /\ KnowsUpTo(A, Len(file))
  BY <1>1, <1>2 DEF ReadInv
<1>4. kib[A] = None => \A f \in Fields : KnowsUpTo(f, Len(file))
  BY <1>1 DEF ReadInv
<1>5. \A f \in Fields : /\ Numbers(f)' = Numbers(f)
                        /\ NumberOrZero(f)' = NumberOrZero(f)
  BY <1>1 DEF Numbers, NumberOrZero
<1>6. /\ Numbers(T) = {} <=> kib[T] = None
      /\ Numbers(A) = {} <=> kib[A] = None
      /\ NumberOrZero(T) = OrZero(kib[T]) /\ NumberOrZero(A) = OrZero(kib[A])
  BY <1>1, <1>2, <1>3, KnownIsNumber
<1>7. ASSUME kib[A] = None
      PROVE  /\ Estimate = None <=> Numbers(F) = {} \/ estimate > U64Max
             /\ Estimate # None => Estimate = estimate
  <2>1. /\ Numbers(F) = {} <=> kib[F] = None
        /\ kib[F] \in Nat \union {None}
        /\ \A f \in {F, B, C} : /\ NumberOrZero(f) = OrZero(kib[f])
                                /\ OrZero(kib[f]) \in 0..U64Max
    BY <1>1, <1>2, <1>4, <1>7, KnownIsNumber
  <2>2. kib[F] # None => OrZero(kib[F]) = kib[F] /\ kib[F] <= U64Max
    BY <2>1 DEF OrZero
  <2>3. kib[F] # None =>
          Estimate = CheckedAdd(kib[F] + OrZero(kib[B]), OrZero(kib[C]))
    <3> SUFFICES ASSUME kib[F] # None
                 PROVE  Estimate
                          = CheckedAdd(kib[F] + OrZero(kib[B]), OrZero(kib[C]))
      OBVIOUS
    <3>1. kib[F] \in Nat /\ OrZero(kib[B]) \in Nat /\ OrZero(kib[C]) \in Nat
      BY <2>1
    <3>2. Estimate
            = IF CheckedAdd(kib[F], OrZero(kib[B])) = None THEN None
              ELSE CheckedAdd(CheckedAdd(kib[F], OrZero(kib[B])),
                              OrZero(kib[C]))
      BY DEF Estimate
    <3>3. QED
      BY <3>1, <3>2, EstimateIsSum
  <2>4. kib[F] # None => estimate = kib[F] + OrZero(kib[B]) + OrZero(kib[C])
    BY <2>1, <2>2
  <2>5. estimate \in Nat /\ None \notin Nat
    BY <2>1, MemInfoAssumption
  <2>6. kib[F] = None => Estimate = None
    BY DEF Estimate
  <2> HIDE DEF estimate
  <2>7. QED
    BY <2>1, <2>3, <2>4, <2>5, <2>6 DEF CheckedAdd
<1>8. ResultIsOfTheFile'
  <2> DEFINE available == IF Numbers(A) = {} THEN estimate ELSE NumberOrZero(A)
  <2>1. CASE None \in {kib[T], Available}
    <3>1. pc' = "failed"
      BY <2>1 DEF Finish
    <3>2. \/ Numbers(T) = {}
          \/ Numbers(A) = {} /\ (Numbers(F) = {} \/ estimate > U64Max)
      <4>1. CASE kib[T] = None
        BY <1>6, <4>1
      <4>2. CASE Available = None
        <5>1. kib[A] = None /\ Estimate = None
          BY <4>2 DEF Available
        <5>2. QED
          BY <1>6, <1>7, <5>1
      <4>3. QED
        BY <2>1, <4>1, <4>2
    <3> HIDE DEF estimate
    <3>3. QED
      BY <1>2, <1>5, <3>1, <3>2 DEF ResultIsOfTheFile, estimate
  <2>2. CASE None \notin {kib[T], Available}
    <3>1. /\ pc' = "done"
          /\ status' = [total_bytes |-> KibToBytes(kib[T]),
                        available_bytes |-> KibToBytes(Available)]
      BY <2>2 DEF Finish
    <3>2. kib[T] = NumberOrZero(T)
      BY <1>6, <2>2 DEF OrZero
    <3>3. Available = available
      <4>1. CASE kib[A] = None
        BY <1>6, <1>7, <2>2, <4>1 DEF Available
      <4>2. CASE kib[A] # None
        BY <1>6, <4>2 DEF Available, OrZero
      <4>3. QED
        BY <4>1, <4>2
    <3>4. /\ status'.total_bytes = Bounded(NumberOrZero(T) * Kib)
          /\ status'.available_bytes = Bounded(available * Kib)
      BY <3>1, <3>2, <3>3 DEF KibToBytes, Bounded
    <3>5. QED
      BY <1>2, <1>5, <3>1, <3>4 DEF ResultIsOfTheFile
  <2>3. QED
    BY <2>1, <2>2
<1>9. FileInv' /\ ReadInv' /\ pc' \in {"done", "failed"}
  BY <1>1 DEF FileInv, ReadInv, KnowsUpTo, Finish
<1>10. QED
  BY <1>8, <1>9 DEF MemInv

LEMMA NextKeepsMemInv == MemInv /\ [Next]_vars => MemInv'
<1> SUFFICES ASSUME MemInv, [Next]_vars
             PROVE  MemInv'
  OBVIOUS
<1>1. CASE ReadLine
  BY <1>1, ReadLineKeepsMemInv
<1>2. CASE Finish
  BY <1>2, FinishKeepsMemInv
<1>3. CASE ReadFile
  BY <1>3 DEF ReadFile, MemInv, FileInv, ReadInv, KnowsUpTo, ResultIsOfTheFile,
              NumberOrZero, Numbers
<1>4. CASE UNCHANGED vars
  BY <1>4 DEF vars, MemInv, FileInv, ReadInv, KnowsUpTo, ResultIsOfTheFile,
              NumberOrZero, Numbers
<1>5. QED
  BY <1>1, <1>2, <1>3, <1>4 DEF Next, Stopped

(* memory_pressure returns what the lines of the file say, whatever their  *)
(* order and whether the loop comes to the last one; it fails only if they *)
(* cannot be read or do not say enough; and no product or sum wraps.  A    *)
(* MemAvailable without a number is estimated, which its comment denies.   *)
THEOREM StatusIsOfTheFile == Spec => []ResultIsOfTheFile
<1>1. Spec => []MemInv
  BY InitMemInv, NextKeepsMemInv, PTL DEF Spec
<1>2. MemInv => ResultIsOfTheFile
  BY DEF MemInv
<1>3. QED
  BY <1>1, <1>2, PTL
=============================================================================
