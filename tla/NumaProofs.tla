----------------------------- MODULE NumaProofs ------------------------------
(***************************************************************************)
(* Proofs about NumaLoader, for any number of threads, candidates, calls   *)
(* and changes on disk, and then about Numa, for any NUMA topology and any *)
(* node argument.  What load does is taken from the first part: every step *)
(* of Numa is a step of the loader or leaves it alone.                     *)
(***************************************************************************)
EXTENDS Numa, FiniteSetTheorems, WellFoundedInduction, TLAPS

(* The steps between taking INIT_LOCK and giving it back.                  *)
Critical == {"get again", "open", "resolve", "available", "set", "read back"}

MutualExclusion == \A t \in Threads : pc[t] \in Critical <=> holder = t

(* Whoever got past the second look at the cell finds it empty until it    *)
(* sets it.                                                                *)
CellIsEmptyWhileTrying ==
  \A t \in Threads :
    pc[t] \in {"open", "resolve", "available", "set"} => cell = Unset

OpenIsCandidate ==
  \A t \in Threads :
    pc[t] \in {"resolve", "available"} => next[t] <= Len(Candidates)

IndInv ==
  /\ TypeOK
  /\ MutualExclusion
  /\ CellIsEmptyWhileTrying
  /\ CellIsSetOnceByHolder
  /\ OpenIsCandidate
  /\ NoHandleLeaks

-----------------------------------------------------------------------------
LEMMA CandidateIsLibrary ==
  ASSUME NEW t \in Threads, TypeOK, next[t] <= Len(Candidates)
  PROVE  Candidates[next[t]] \in Libraries
BY NumaLoaderAssumption DEF TypeOK

LEMMA LenIsNat == Len(Candidates) \in Nat
BY NumaLoaderAssumption

LEMMA FirstIsInRange == 1 \in 1..Len(Candidates) + 1
BY LenIsNat

(* Two threads between Lock and its release are one.                       *)
LEMMA OneInCritical ==
  ASSUME IndInv, NEW t \in Threads, NEW u \in Threads,
         pc[t] \in Critical, pc[u] \in Critical
  PROVE  t = u
BY DEF IndInv, MutualExclusion

LEMMA InitIsInductive == Init => IndInv
<1> SUFFICES ASSUME Init PROVE IndInv
  OBVIOUS
<1> USE NumaLoaderAssumption DEF Init
<1>1. TypeOK
  BY DEF TypeOK, Values, Statuses, Steps
<1>2. MutualExclusion
  BY DEF MutualExclusion, Critical
<1>3. CellIsEmptyWhileTrying /\ CellIsSetOnceByHolder /\ OpenIsCandidate
  BY DEF CellIsEmptyWhileTrying, CellIsSetOnceByHolder, OpenIsCandidate
<1>4. NoHandleLeaks
  BY DEF NoHandleLeaks, Owns, Values
<1> QED
  BY <1>1, <1>2, <1>3, <1>4 DEF IndInv

(* A step of t outside the lock, or one that only takes it.                *)
LEMMA CallStep ==
  ASSUME NEW t \in Threads, IndInv, Call(t)
  PROVE  IndInv'
<1> USE NumaLoaderAssumption DEF Call, Goto, env, locals
<1>1. TypeOK'
  <2>1. calls' \in [Threads -> 0..MaxCalls]
    <3>1. calls[t] + 1 \in 0..MaxCalls
      BY DEF IndInv, TypeOK
    <3>2. QED
      BY <3>1 DEF IndInv, TypeOK
  <2>2. pc' \in [Threads -> Steps]
    BY DEF IndInv, TypeOK, Steps
  <2>3. QED
    BY <2>1, <2>2 DEF IndInv, TypeOK
<1>2. MutualExclusion'
  BY DEF IndInv, TypeOK, MutualExclusion, Critical
<1>3. CellIsEmptyWhileTrying' /\ CellIsSetOnceByHolder' /\ OpenIsCandidate'
  BY DEF IndInv, TypeOK, CellIsEmptyWhileTrying, CellIsSetOnceByHolder,
         OpenIsCandidate
<1>4. NoHandleLeaks'
  BY DEF IndInv, TypeOK, NoHandleLeaks, Owns
<1> QED
  BY <1>1, <1>2, <1>3, <1>4 DEF IndInv

LEMMA FastPathStep ==
  ASSUME NEW t \in Threads, IndInv, FastPath(t)
  PROVE  IndInv'
<1> USE NumaLoaderAssumption DEF FastPath, Return, Goto, env, locals
<1>1. TypeOK'
  <2>1. answer' \in [Threads -> Values \union {Unset, Failed}]
    BY DEF IndInv, TypeOK
  <2>2. pc' \in [Threads -> Steps]
    BY DEF IndInv, TypeOK, Steps
  <2>3. QED
    BY <2>1, <2>2 DEF IndInv, TypeOK
<1>2. MutualExclusion'
  BY DEF IndInv, TypeOK, MutualExclusion, Critical
<1>3. CellIsEmptyWhileTrying' /\ CellIsSetOnceByHolder' /\ OpenIsCandidate'
  BY DEF IndInv, TypeOK, CellIsEmptyWhileTrying, CellIsSetOnceByHolder,
         OpenIsCandidate
<1>4. NoHandleLeaks'
  BY DEF IndInv, TypeOK, NoHandleLeaks, Owns
<1> QED
  BY <1>1, <1>2, <1>3, <1>4 DEF IndInv

LEMMA LockStep ==
  ASSUME NEW t \in Threads, IndInv, Lock(t)
  PROVE  IndInv'
<1> USE NumaLoaderAssumption DEF Lock, Goto, env, locals
<1>1. TypeOK'
  BY DEF IndInv, TypeOK, Steps
<1>2. MutualExclusion'
  BY DEF IndInv, TypeOK, MutualExclusion, Critical
<1>3. CellIsEmptyWhileTrying' /\ CellIsSetOnceByHolder' /\ OpenIsCandidate'
  BY DEF IndInv, TypeOK, CellIsEmptyWhileTrying, CellIsSetOnceByHolder,
         OpenIsCandidate
<1>4. NoHandleLeaks'
  BY DEF IndInv, TypeOK, NoHandleLeaks, Owns
<1> QED
  BY <1>1, <1>2, <1>3, <1>4 DEF IndInv

LEMMA GetAgainStep ==
  ASSUME NEW t \in Threads, IndInv, GetAgain(t)
  PROVE  IndInv'
<1> USE NumaLoaderAssumption DEF GetAgain, UnlockAndReturn, Return, Goto, env
<1>1. TypeOK'
  <2>1. answer' \in [Threads -> Values \union {Unset, Failed}]
    BY DEF IndInv, TypeOK
  <2>2. pc' \in [Threads -> Steps]
    BY DEF IndInv, TypeOK, Steps
  <2>4. next' \in [Threads -> 1..Len(Candidates) + 1]
    BY FirstIsInRange DEF IndInv, TypeOK
  <2>5. holder' \in Threads \union {NoThread}
    BY DEF IndInv, TypeOK
  <2>6. QED
    <3>1. UNCHANGED <<status, installs, handles, cell, image, value, calls>>
      OBVIOUS
    <3>2. QED
      BY <2>1, <2>2, <2>4, <2>5, <3>1 DEF IndInv, TypeOK
<1>2. MutualExclusion'
  BY DEF IndInv, TypeOK, MutualExclusion, Critical
<1>3. CellIsEmptyWhileTrying' /\ CellIsSetOnceByHolder' /\ OpenIsCandidate'
  BY DEF IndInv, TypeOK, CellIsEmptyWhileTrying, CellIsSetOnceByHolder,
         OpenIsCandidate
<1>4. NoHandleLeaks'
  <2>1. \A u \in Threads, l \in Libraries : Owns(u, l)' <=> Owns(u, l)
    BY DEF IndInv, TypeOK, Owns
  <2>2. QED
    BY <2>1 DEF IndInv, NoHandleLeaks
<1> QED
  BY <1>1, <1>2, <1>3, <1>4 DEF IndInv

(* The end of the loop, or a candidate that is not there.                  *)
LEMMA OpenNothingStep ==
  ASSUME NEW t \in Threads, IndInv, OpenLibrary(t), UNCHANGED handles
  PROVE  IndInv'
<1> USE NumaLoaderAssumption, LenIsNat
    DEF OpenLibrary, NextCandidate, Goto, env
<1>1. CASE /\ next[t] > Len(Candidates)
           /\ value' = [value EXCEPT ![t] = NoLibrary]
           /\ Goto(t, "set")
           /\ UNCHANGED <<handles, next, image>>
  <2>1. TypeOK'
    BY <1>1 DEF IndInv, TypeOK, Steps, Values
  <2>2. MutualExclusion'
    BY <1>1 DEF IndInv, TypeOK, MutualExclusion, Critical
  <2>3. CellIsEmptyWhileTrying' /\ CellIsSetOnceByHolder' /\ OpenIsCandidate'
    BY <1>1 DEF IndInv, TypeOK, CellIsEmptyWhileTrying,
                CellIsSetOnceByHolder, OpenIsCandidate
  <2>4. \A u \in Threads, l \in Libraries : Owns(u, l)' <=> Owns(u, l)
    BY <1>1 DEF IndInv, TypeOK, Owns
  <2>5. NoHandleLeaks'
    BY <2>4, <1>1 DEF IndInv, NoHandleLeaks
  <2>6. QED
    BY <2>1, <2>2, <2>3, <2>5 DEF IndInv
<1>2. CASE /\ next[t] <= Len(Candidates)
           /\ NextCandidate(t)
           /\ UNCHANGED <<handles, pc, image, value>>
  <2>1. TypeOK'
    <3>1. next[t] + 1 \in 1..Len(Candidates) + 1
      BY <1>2 DEF IndInv, TypeOK
    <3>2. QED
      BY <1>2, <3>1 DEF IndInv, TypeOK
  <2>2. MutualExclusion'
    BY <1>2 DEF IndInv, MutualExclusion
  <2>3. CellIsEmptyWhileTrying' /\ CellIsSetOnceByHolder' /\ OpenIsCandidate'
    BY <1>2 DEF IndInv, TypeOK, CellIsEmptyWhileTrying,
                CellIsSetOnceByHolder, OpenIsCandidate
  <2>4. \A u \in Threads, l \in Libraries : Owns(u, l)' <=> Owns(u, l)
    BY <1>2 DEF IndInv, TypeOK, Owns
  <2>5. NoHandleLeaks'
    BY <2>4, <1>2 DEF IndInv, NoHandleLeaks
  <2>6. QED
    BY <2>1, <2>2, <2>3, <2>5 DEF IndInv
<1>3. CASE /\ next[t] <= Len(Candidates)
           /\ handles' = [handles EXCEPT ![Candidates[next[t]]] = @ + 1]
  <2>1. Candidates[next[t]] \in Libraries
    BY <1>3, CandidateIsLibrary DEF IndInv
  <2>2. handles[Candidates[next[t]]] + 1 # handles[Candidates[next[t]]]
    BY <2>1 DEF IndInv, TypeOK
  <2>3. QED
    BY <1>3, <2>1, <2>2 DEF IndInv, TypeOK
<1> QED
  BY <1>1, <1>2, <1>3

(* The library is opened: nobody had it open, and now one thread owns it.  *)
LEMMA OpenSomethingStep ==
  ASSUME NEW t \in Threads, IndInv, OpenLibrary(t), handles' # handles
  PROVE  IndInv'
<1> DEFINE lib == Candidates[next[t]]
<1> USE NumaLoaderAssumption, LenIsNat
<1>1. /\ pc[t] = "open" /\ pc' = [pc EXCEPT ![t] = "resolve"]
      /\ next[t] <= Len(Candidates)
      /\ handles' = [handles EXCEPT ![lib] = @ + 1]
      /\ image' = [image EXCEPT ![t] = status[lib]]
      /\ UNCHANGED <<status, installs, cell, holder, next, value, answer, calls>>
  BY DEF OpenLibrary, NextCandidate, Goto, env
<1>2. lib \in Libraries
  BY <1>1, CandidateIsLibrary DEF IndInv
<1> HIDE DEF lib
<1>3. TypeOK'
  <2>1. handles' \in [Libraries -> Nat]
    BY <1>1, <1>2 DEF IndInv, TypeOK
  <2>2. image' \in [Threads -> Statuses]
    BY <1>1, <1>2 DEF IndInv, TypeOK
  <2>3. pc' \in [Threads -> Steps]
    BY <1>1 DEF IndInv, TypeOK, Steps
  <2>4. QED
    BY <1>1, <2>1, <2>2, <2>3 DEF IndInv, TypeOK
<1>4. MutualExclusion'
  BY <1>1 DEF IndInv, TypeOK, MutualExclusion, Critical
<1>5. CellIsEmptyWhileTrying' /\ CellIsSetOnceByHolder' /\ OpenIsCandidate'
  BY <1>1 DEF IndInv, TypeOK, CellIsEmptyWhileTrying, CellIsSetOnceByHolder,
              OpenIsCandidate
<1>6. \A u \in Threads, l \in Libraries : ~Owns(u, l)
  BY <1>1, OneInCritical DEF Owns, Critical
<1>7. \A u \in Threads, l \in Libraries : Owns(u, l)' <=> u = t /\ l = lib
  BY <1>1, <1>6 DEF IndInv, TypeOK, Owns, lib
<1>8. cell = Unset
  BY <1>1 DEF IndInv, CellIsEmptyWhileTrying
<1>9. NoHandleLeaks'
  <2>1. \A l \in Libraries : handles[l] = 0 /\ cell # l
    BY <1>6, <1>8 DEF IndInv, NoHandleLeaks
  <2>2. QED
    BY <1>1, <1>2, <1>7, <2>1 DEF NoHandleLeaks, IndInv, TypeOK
<1> QED
  BY <1>3, <1>4, <1>5, <1>9 DEF IndInv

(* A broken library is closed by the one thread that owned it.             *)
LEMMA ResolveSymbolsStep ==
  ASSUME NEW t \in Threads, IndInv, ResolveSymbols(t)
  PROVE  IndInv'
<1> USE NumaLoaderAssumption, LenIsNat
<1>1. CASE image[t] # "broken"
  <2>1. /\ pc[t] = "resolve" /\ pc' = [pc EXCEPT ![t] = "available"]
        /\ UNCHANGED <<status, installs, handles, cell, holder, next, image,
                       value, answer, calls>>
    BY <1>1 DEF ResolveSymbols, Goto, env, locals
  <2>2. TypeOK'
    BY <2>1 DEF IndInv, TypeOK, Steps
  <2>3. MutualExclusion'
    BY <2>1 DEF IndInv, TypeOK, MutualExclusion, Critical
  <2>4. CellIsEmptyWhileTrying' /\ CellIsSetOnceByHolder' /\ OpenIsCandidate'
    BY <2>1 DEF IndInv, TypeOK, CellIsEmptyWhileTrying,
                CellIsSetOnceByHolder, OpenIsCandidate
  <2>5. \A u \in Threads, l \in Libraries : Owns(u, l)' <=> Owns(u, l)
    BY <2>1 DEF IndInv, TypeOK, Owns
  <2>6. NoHandleLeaks'
    BY <2>1, <2>5 DEF IndInv, NoHandleLeaks
  <2>7. QED
    BY <2>2, <2>3, <2>4, <2>6 DEF IndInv
<1>2. CASE image[t] = "broken"
  <2> DEFINE lib == Candidates[next[t]]
  <2>1. /\ pc[t] = "resolve" /\ pc' = [pc EXCEPT ![t] = "idle"]
        /\ holder' = NoThread
        /\ handles' = [handles EXCEPT ![lib] = @ - 1]
        /\ answer' = [answer EXCEPT ![t] = Failed]
        /\ UNCHANGED <<status, installs, cell, next, image, value, calls>>
    BY <1>2 DEF ResolveSymbols, UnlockAndReturn, Return, CloseLibrary, Goto,
                env, locals
  <2>2. lib \in Libraries
    BY <2>1, CandidateIsLibrary DEF IndInv, OpenIsCandidate
  <2>3. \A u \in Threads, l \in Libraries : Owns(u, l) <=> u = t /\ l = lib
    BY <2>1, OneInCritical DEF Owns, Critical
  <2> HIDE DEF lib
  <2>4. cell = Unset /\ \A l \in Libraries : handles[l] = IF l = lib THEN 1 ELSE 0
    BY <2>1, <2>2, <2>3 DEF IndInv, NoHandleLeaks, CellIsEmptyWhileTrying
  <2>5. TypeOK'
    <3>1. handles' \in [Libraries -> Nat]
      BY <2>1, <2>2, <2>4 DEF IndInv, TypeOK
    <3>2. answer' \in [Threads -> Values \union {Unset, Failed}]
      BY <2>1 DEF IndInv, TypeOK
    <3>3. pc' \in [Threads -> Steps]
      BY <2>1 DEF IndInv, TypeOK, Steps
    <3>4. QED
      BY <2>1, <3>1, <3>2, <3>3 DEF IndInv, TypeOK
  <2>6. MutualExclusion'
    BY <2>1 DEF IndInv, TypeOK, MutualExclusion, Critical
  <2>7. CellIsEmptyWhileTrying' /\ CellIsSetOnceByHolder' /\ OpenIsCandidate'
    BY <2>1 DEF IndInv, TypeOK, CellIsEmptyWhileTrying,
                CellIsSetOnceByHolder, OpenIsCandidate
  <2>8. \A u \in Threads, l \in Libraries : ~Owns(u, l)'
    BY <2>1, OneInCritical DEF IndInv, TypeOK, Owns, Critical
  <2>9. NoHandleLeaks'
    BY <2>1, <2>2, <2>4, <2>8 DEF NoHandleLeaks, IndInv, TypeOK
  <2>10. QED
    BY <2>5, <2>6, <2>7, <2>9 DEF IndInv
<1>3. QED
  BY <1>1, <1>2

(* An unavailable library is closed; a usable one is kept as the value     *)
(* that will be set, and stays the thread's own until then.                *)
LEMMA CheckAvailableStep ==
  ASSUME NEW t \in Threads, IndInv, CheckAvailable(t)
  PROVE  IndInv'
<1> DEFINE lib == Candidates[next[t]]
<1> USE NumaLoaderAssumption, LenIsNat
<1>1. pc[t] = "available" /\ next[t] <= Len(Candidates) /\ lib \in Libraries
  BY CandidateIsLibrary DEF CheckAvailable, IndInv, OpenIsCandidate
<1>2. \A u \in Threads, l \in Libraries : Owns(u, l) <=> u = t /\ l = lib
  BY <1>1, OneInCritical DEF Owns, Critical
<1>3. CASE image[t] = "unavailable"
  <2>1. /\ pc' = [pc EXCEPT ![t] = "open"]
        /\ handles' = [handles EXCEPT ![lib] = @ - 1]
        /\ next' = [next EXCEPT ![t] = @ + 1]
        /\ UNCHANGED <<status, installs, cell, holder, image, value, answer,
                       calls>>
    BY <1>3 DEF CheckAvailable, NextCandidate, CloseLibrary, Goto, env
  <2> HIDE DEF lib
  <2>2. cell = Unset /\ \A l \in Libraries : handles[l] = IF l = lib THEN 1 ELSE 0
    BY <1>1, <1>2 DEF IndInv, NoHandleLeaks, CellIsEmptyWhileTrying
  <2>3. TypeOK'
    <3>1. handles' \in [Libraries -> Nat]
      BY <1>1, <2>1, <2>2 DEF IndInv, TypeOK
    <3>2. next' \in [Threads -> 1..Len(Candidates) + 1]
      <4>1. next[t] + 1 \in 1..Len(Candidates) + 1
        BY <1>1 DEF IndInv, TypeOK
      <4>2. QED
        BY <2>1, <4>1 DEF IndInv, TypeOK
    <3>3. pc' \in [Threads -> Steps]
      BY <2>1 DEF IndInv, TypeOK, Steps
    <3>4. QED
      BY <2>1, <3>1, <3>2, <3>3 DEF IndInv, TypeOK
  <2>4. MutualExclusion'
    BY <1>1, <2>1 DEF IndInv, TypeOK, MutualExclusion, Critical
  <2>5. CellIsEmptyWhileTrying' /\ CellIsSetOnceByHolder'
    BY <1>1, <2>1, <2>2 DEF IndInv, TypeOK, CellIsEmptyWhileTrying,
                            CellIsSetOnceByHolder
  <2>6. OpenIsCandidate'
    BY <1>1, <2>1 DEF IndInv, TypeOK, OpenIsCandidate
  <2>7. \A u \in Threads, l \in Libraries : ~Owns(u, l)'
    BY <1>1, <2>1, OneInCritical DEF IndInv, TypeOK, Owns, Critical
  <2>8. NoHandleLeaks'
    BY <1>1, <2>1, <2>2, <2>7 DEF NoHandleLeaks, IndInv, TypeOK
  <2>9. QED
    BY <2>3, <2>4, <2>5, <2>6, <2>8 DEF IndInv
<1>4. CASE image[t] # "unavailable"
  <2>1. /\ pc' = [pc EXCEPT ![t] = "set"]
        /\ value' = [value EXCEPT ![t] = lib]
        /\ UNCHANGED <<status, installs, handles, cell, holder, next, image,
                       answer, calls>>
    BY <1>4 DEF CheckAvailable, Goto, env
  <2>2. TypeOK'
    <3>1. value' \in [Threads -> Values]
      BY <1>1, <2>1 DEF IndInv, TypeOK, Values
    <3>2. pc' \in [Threads -> Steps]
      BY <2>1 DEF IndInv, TypeOK, Steps
    <3>3. QED
      BY <2>1, <3>1, <3>2 DEF IndInv, TypeOK
  <2>3. MutualExclusion'
    BY <1>1, <2>1 DEF IndInv, TypeOK, MutualExclusion, Critical
  <2>4. CellIsEmptyWhileTrying' /\ CellIsSetOnceByHolder' /\ OpenIsCandidate'
    BY <1>1, <2>1 DEF IndInv, TypeOK, CellIsEmptyWhileTrying,
                      CellIsSetOnceByHolder, OpenIsCandidate
  <2>5. \A u \in Threads, l \in Libraries : Owns(u, l)' <=> Owns(u, l)
    <3>1. \A u \in Threads, l \in Libraries : Owns(u, l)' <=> u = t /\ l = lib
      BY <1>1, <2>1, OneInCritical DEF IndInv, TypeOK, Owns, Critical
    <3>2. QED
      BY <1>2, <3>1
  <2>6. NoHandleLeaks'
    BY <2>1, <2>5 DEF IndInv, NoHandleLeaks
  <2>7. QED
    BY <2>2, <2>3, <2>4, <2>6 DEF IndInv
<1>5. QED
  BY <1>3, <1>4

(* LIBRARY takes the library over from the thread.                         *)
LEMMA SetCellStep ==
  ASSUME NEW t \in Threads, IndInv, SetCell(t)
  PROVE  IndInv'
<1> USE NumaLoaderAssumption, LenIsNat
<1>1. pc[t] = "set" /\ cell = Unset
  BY DEF SetCell, IndInv, CellIsEmptyWhileTrying
<1>2. /\ cell' = value[t] /\ pc' = [pc EXCEPT ![t] = "read back"]
      /\ UNCHANGED <<status, installs, handles, holder, next, image, value,
                     answer, calls>>
  BY <1>1 DEF SetCell, Goto, env, locals
<1>3. TypeOK'
  <2>1. pc' \in [Threads -> Steps]
    BY <1>2 DEF IndInv, TypeOK, Steps
  <2>2. cell' \in Values \union {Unset}
    BY <1>2 DEF IndInv, TypeOK
  <2>3. QED
    BY <1>2, <2>1, <2>2 DEF IndInv, TypeOK
<1>4. MutualExclusion'
  BY <1>1, <1>2 DEF IndInv, TypeOK, MutualExclusion, Critical
<1>5. \A u \in Threads : u # t => pc'[u] \notin Critical
  BY <1>1, <1>2, OneInCritical DEF IndInv, TypeOK, Critical
<1>6. CellIsEmptyWhileTrying' /\ CellIsSetOnceByHolder' /\ OpenIsCandidate'
  BY <1>2, <1>5 DEF IndInv, TypeOK, CellIsEmptyWhileTrying,
                    CellIsSetOnceByHolder, OpenIsCandidate, Critical
<1>7. \A u \in Threads, l \in Libraries : Owns(u, l) <=> u = t /\ l = value[t]
  BY <1>1, OneInCritical DEF Owns, Critical
<1>8. \A u \in Threads, l \in Libraries : ~Owns(u, l)'
  BY <1>2, <1>5 DEF IndInv, TypeOK, Owns, Critical
<1>9. NoHandleLeaks'
  BY <1>1, <1>2, <1>7, <1>8 DEF IndInv, NoHandleLeaks
<1> QED
  BY <1>3, <1>4, <1>6, <1>9 DEF IndInv

LEMMA ReadBackStep ==
  ASSUME NEW t \in Threads, IndInv, ReadBack(t)
  PROVE  IndInv'
<1> USE NumaLoaderAssumption
    DEF ReadBack, UnlockAndReturn, Return, Goto, env, locals
<1>1. TypeOK'
  <2>1. answer' \in [Threads -> Values \union {Unset, Failed}]
    BY DEF IndInv, TypeOK
  <2>2. pc' \in [Threads -> Steps]
    BY DEF IndInv, TypeOK, Steps
  <2>3. QED
    BY <2>1, <2>2 DEF IndInv, TypeOK
<1>2. MutualExclusion'
  BY DEF IndInv, TypeOK, MutualExclusion, Critical
<1>3. CellIsEmptyWhileTrying' /\ CellIsSetOnceByHolder' /\ OpenIsCandidate'
  BY DEF IndInv, TypeOK, CellIsEmptyWhileTrying, CellIsSetOnceByHolder,
         OpenIsCandidate
<1>4. \A u \in Threads, l \in Libraries : Owns(u, l)' <=> Owns(u, l)
  BY DEF IndInv, TypeOK, Owns
<1>5. NoHandleLeaks'
  BY <1>4 DEF IndInv, NoHandleLeaks
<1> QED
  BY <1>1, <1>2, <1>3, <1>5 DEF IndInv

(* What happens on disk changes nothing for a library that is open.        *)
LEMMA InstallStep ==
  ASSUME NEW l \in Libraries, NEW s \in Statuses, IndInv, Install(l, s)
  PROVE  IndInv'
<1> USE DEF Install, locals
<1>1. TypeOK'
  BY NumaLoaderAssumption DEF IndInv, TypeOK
<1>2. MutualExclusion' /\ CellIsEmptyWhileTrying' /\ CellIsSetOnceByHolder'
      /\ OpenIsCandidate'
  BY DEF IndInv, MutualExclusion, CellIsEmptyWhileTrying,
         CellIsSetOnceByHolder, OpenIsCandidate
<1>3. NoHandleLeaks'
  BY DEF IndInv, NoHandleLeaks, Owns
<1> QED
  BY <1>1, <1>2, <1>3 DEF IndInv

LEMMA StutterStep ==
  ASSUME IndInv, UNCHANGED vars
  PROVE  IndInv'
BY DEF vars, IndInv, TypeOK, MutualExclusion, CellIsEmptyWhileTrying,
       CellIsSetOnceByHolder, OpenIsCandidate, NoHandleLeaks, Owns

LEMMA StepKeepsIndInv ==
  ASSUME NEW t \in Threads, IndInv, Step(t)
  PROVE  IndInv'
BY FastPathStep, LockStep, GetAgainStep, OpenNothingStep, OpenSomethingStep,
   ResolveSymbolsStep, CheckAvailableStep, SetCellStep, ReadBackStep DEF Step

LEMMA NextKeepsIndInv == IndInv /\ [Next]_vars => IndInv'
BY CallStep, StepKeepsIndInv, InstallStep, StutterStep DEF Next, Finished

(* IndInv is an invariant of the loader.                                   *)
THEOREM IndInvInvariant == Spec => []IndInv
BY InitIsInductive, NextKeepsIndInv, PTL DEF Spec
-----------------------------------------------------------------------------
(* The variables of the loader keep their types; in particular handles     *)
(* never falls below zero: no library is closed more often than opened.    *)
THEOREM LoaderTypeCorrect == Spec => []TypeOK
BY IndInvInvariant, PTL DEF IndInv

(* INIT_LOCK is held by the thread that is between its lock and its return *)
(* and by no other.                                                        *)
THEOREM LockIsExclusive == Spec => []MutualExclusion
BY IndInvInvariant, PTL DEF IndInv

(* The branches of LinuxNuma::load that its comments call harmless (a set  *)
(* that is refused) and unexpected (an empty cell after the set) are dead. *)
THEOREM CellIsSetOnce == Spec => []CellIsSetOnceByHolder
BY IndInvInvariant, PTL DEF IndInv

(* On no path of LinuxNuma::load is a library left open that nobody uses,  *)
(* or closed while the cell or a thread uses it.                           *)
THEOREM NoLeaks == Spec => []NoHandleLeaks
BY IndInvInvariant, PTL DEF IndInv

-----------------------------------------------------------------------------
(* The refinement of LoadOnce, one lemma for the steps of each of its      *)
(* actions.                                                                *)
Waiting == {t \in Threads : pc[t] # "idle"}

LEMMA InitRefines == Init => Promise!AbsInit
BY DEF Init, Promise!AbsInit

LEMMA CallRefines ==
  ASSUME NEW t \in Threads, IndInv, Call(t)
  PROVE  Promise!AbsCall(t)
BY DEF Call, Goto, IndInv, TypeOK, Promise!AbsCall

(* What a thread returns is the answer that is set, or an error while      *)
(* there is none.                                                          *)
LEMMA ReturnRefines ==
  ASSUME NEW t \in Threads, NEW returned, IndInv,
         Return(t, returned), pc[t] # "idle", UNCHANGED cell,
         \/ cell \in Values /\ returned = cell
         \/ cell = Unset /\ returned = Failed
  PROVE  Promise!AbsReturn(t)
<1>1. Waiting' = Waiting \ {t}
  BY DEF Waiting, Return, Goto, IndInv, TypeOK
<1>2. t \in Waiting
  BY DEF Waiting
<1>3. \/ cell \in Values /\ answer' = [answer EXCEPT ![t] = cell]
      \/ cell = Unset /\ answer' = [answer EXCEPT ![t] = Failed]
  BY DEF Return
<1> QED
  BY <1>1, <1>2, <1>3 DEF Waiting, Promise!AbsReturn

(* A step from one step of load to another.                                *)
LEMMA InsideRefines ==
  ASSUME NEW t \in Threads, NEW step, IndInv,
         Goto(t, step), pc[t] # "idle", step # "idle", UNCHANGED <<cell, answer>>
  PROVE  UNCHANGED Promise!absvars
<1>1. Waiting' = Waiting
  BY DEF Waiting, Goto, IndInv, TypeOK
<1> QED
  BY <1>1 DEF Waiting, Promise!absvars

LEMMA SetCellRefines ==
  ASSUME NEW t \in Threads, IndInv, SetCell(t)
  PROVE  Promise!Find
<1>1. pc[t] = "set" /\ cell = Unset /\ cell' = value[t] /\ UNCHANGED answer
  BY DEF SetCell, IndInv, CellIsEmptyWhileTrying
<1>2. value[t] \in Values
  BY DEF IndInv, TypeOK
<1>3. Waiting' = Waiting /\ t \in Waiting
  BY <1>1 DEF Waiting, SetCell, Goto, IndInv, TypeOK
<1> QED
  BY <1>1, <1>2, <1>3 DEF Waiting, Promise!Find

LEMMA StepRefines ==
  ASSUME NEW t \in Threads, IndInv, Step(t)
  PROVE  Promise!AbsNext \/ UNCHANGED Promise!absvars
<1>1. cell \in Values \union {Unset}
  BY DEF IndInv, TypeOK
<1>2. CASE FastPath(t)
  BY <1>1, <1>2, ReturnRefines, InsideRefines DEF FastPath, Promise!AbsNext
<1>3. CASE Lock(t)
  BY <1>3, InsideRefines DEF Lock
<1>4. CASE GetAgain(t)
  BY <1>1, <1>4, ReturnRefines, InsideRefines
     DEF GetAgain, UnlockAndReturn, Promise!AbsNext
<1>5. CASE OpenLibrary(t)
  <2>1. CASE UNCHANGED pc
    BY <1>5, <2>1 DEF OpenLibrary, Promise!absvars
  <2>2. CASE \E step \in {"set", "resolve"} : Goto(t, step)
    BY <1>5, <2>2, InsideRefines DEF OpenLibrary
  <2>3. QED
    BY <1>5, <2>1, <2>2 DEF OpenLibrary
<1>6. CASE ResolveSymbols(t)
  <2>1. CASE image[t] = "broken"
    <3>1. cell = Unset
      BY <1>6 DEF ResolveSymbols, IndInv, CellIsEmptyWhileTrying
    <3>2. Promise!AbsReturn(t)
      BY <1>6, <2>1, <3>1, ReturnRefines
         DEF ResolveSymbols, UnlockAndReturn
    <3>3. QED
      BY <3>2 DEF Promise!AbsNext
  <2>2. CASE image[t] # "broken"
    BY <1>6, <2>2, InsideRefines DEF ResolveSymbols
  <2>3. QED
    BY <2>1, <2>2
<1>7. CASE CheckAvailable(t)
  BY <1>7, InsideRefines DEF CheckAvailable
<1>8. CASE SetCell(t)
  BY <1>8, SetCellRefines DEF Promise!AbsNext
<1>9. CASE ReadBack(t)
  <2>1. pc[t] = "read back" /\ cell = value[t] /\ value[t] \in Values
    BY <1>9 DEF ReadBack, IndInv, TypeOK, CellIsSetOnceByHolder
  <2>2. cell # Unset
    BY <2>1, NumaLoaderAssumption DEF Values
  <2>3. Promise!AbsReturn(t)
    BY <1>9, <2>1, <2>2, ReturnRefines DEF ReadBack, UnlockAndReturn
  <2>4. QED
    BY <2>3 DEF Promise!AbsNext
<1>10. QED
  BY <1>2, <1>3, <1>4, <1>5, <1>6, <1>7, <1>8, <1>9 DEF Step

LEMMA NextRefines ==
  IndInv /\ [Next]_vars => [Promise!AbsNext]_(Promise!absvars)
<1> SUFFICES ASSUME IndInv, [Next]_vars
             PROVE  Promise!AbsNext \/ UNCHANGED Promise!absvars
  OBVIOUS
<1>1. ASSUME NEW t \in Threads, Call(t)
      PROVE  Promise!AbsNext
  BY <1>1, CallRefines DEF Promise!AbsNext
<1>2. ASSUME NEW l \in Libraries, NEW s \in Statuses, Install(l, s)
      PROVE  UNCHANGED Promise!absvars
  BY <1>2 DEF Install, Promise!absvars
<1>3. CASE UNCHANGED vars
  BY <1>3 DEF vars, Promise!absvars
<1> QED
  BY <1>1, <1>2, <1>3, StepRefines DEF Next, Finished

(* LinuxNuma::load keeps the promise of LoadOnce to any number of threads, *)
(* whatever happens to the libraries on disk: one answer for the life of   *)
(* the process, the same for all, and no error once it is there.           *)
THEOREM LoaderKeepsPromise == Spec => KeepsPromise
<1>1. Spec => Promise!AbsInit /\ [][Promise!AbsNext]_(Promise!absvars)
  BY InitRefines, NextRefines, IndInvInvariant, PTL DEF Spec
<1> QED
  BY <1>1 DEF KeepsPromise, Promise!AbsSpec
-----------------------------------------------------------------------------
(* The placement functions on top of the loader.                           *)

(* Whoever was given a library, or None, was given what LIBRARY holds.     *)
AnswersAgree == \A t \in Threads : answer[t] \in Values => cell = answer[t]

Outcomes == {"none", "count", "mbind", "no memory", "no bytes", "InvalidNode",
             "load failed", "no libnuma", "one node", "placed", "refused"}

Tasks == [fn : Functions \union {"none"}, node : Nat,
          at : {"none", "count", "use", "done"}]

NumaTypes ==
  /\ online \in Topologies
  /\ libMax \in {Max(online), -1}
  /\ sysfs \in {"online", "directories", "nothing"}
  /\ task \in [Threads -> Tasks]
  /\ result \in [Threads -> Outcomes]

AboutNode == {"InvalidNode", "one node", "placed", "refused"}

(* A thread that places something has a node the count covers; what a call *)
(* returned is about the node it was asked for, until the next call.       *)
TaskInv ==
  \A t \in Threads :
    /\ task[t].at = "use" => task[t].node <= Max(online)
    /\ result[t] \in AboutNode => task[t].at = "done"

NumaInv ==
  /\ IndInv /\ AnswersAgree
  /\ NumaTypes /\ TaskInv
  /\ OutOfRangeStopsAtValidation /\ ExistingNodeIsValid /\ NoOpHasCause
-----------------------------------------------------------------------------
(* A finite set of numbers has a greatest one: a smallest set without one  *)
(* would have a smaller one.                                               *)
LEMMA GreatestOfNaturals ==
  ASSUME NEW S \in SUBSET Nat, S # {}, IsFiniteSet(S)
  PROVE  Max(S) \in S /\ \A x \in S : x <= Max(S)
<1> DEFINE HasMax(T) == \E m \in T : \A x \in T : x <= m
           Bad == {T \in FiniteSubsetsOf(S) : T # {} /\ ~HasMax(T)}
<1>1. Bad = {}
  <2> SUFFICES ASSUME Bad # {} PROVE FALSE
    OBVIOUS
  <2>1. PICK T \in Bad : \A U \in Bad : <<U, T>> \notin StrictSubsetOrdering(S)
    <3>1. Bad \subseteq FiniteSubsetsOf(S)
      OBVIOUS
    <3> HIDE DEF Bad
    <3>2. QED
      BY <3>1, FS_StrictSubsetOrderingWellFounded, WFMin
  <2>2. T \subseteq S /\ IsFiniteSet(T) /\ T # {} /\ ~HasMax(T)
    BY DEF FiniteSubsetsOf
  <2>3. PICK x \in T : TRUE
    BY <2>2
  <2> DEFINE U == T \ {x}
  <2>4. U \subseteq S /\ U \subseteq T /\ U # T /\ IsFiniteSet(U)
    BY <2>2, <2>3, FS_RemoveElement
  <2>5. U \notin Bad
    <3>1. <<U, T>> \in StrictSubsetOrdering(S)
      BY <2>2, <2>4 DEF StrictSubsetOrdering
    <3>2. QED
      BY <2>1, <3>1
  <2>6. U = {} \/ HasMax(U)
    BY <2>4, <2>5 DEF FiniteSubsetsOf
  <2>7. CASE U = {}
    <3>1. T = {x} /\ x \in Nat
      BY <2>2, <2>3, <2>7
    <3>2. QED
      BY <2>2, <3>1
  <2>8. CASE HasMax(U)
    <3>1. PICK m \in U : \A y \in U : y <= m
      BY <2>8
    <3>2. m \in T /\ m \in Nat /\ x \in Nat /\ T = U \union {x}
      BY <2>2, <2>3, <2>4
    <3>3. CASE x <= m
      BY <2>2, <3>1, <3>2, <3>3
    <3>4. CASE m < x
      <4>1. \A y \in T : y \in Nat /\ y <= x
        BY <2>2, <3>1, <3>2, <3>4
      <4>2. QED
        BY <2>2, <2>3, <4>1
    <3>5. QED
      BY <3>2, <3>3, <3>4
  <2>9. QED
    BY <2>6, <2>7, <2>8
<1>2. S \in FiniteSubsetsOf(S)
  BY DEF FiniteSubsetsOf
<1>3. HasMax(S)
  BY <1>1, <1>2
<1>4. PICK m \in S : \A x \in S : x <= m
  BY <1>3
<1>5. \A x \in S : m >= x
  BY <1>4
<1>6. QED
  BY <1>5 DEF Max

(* The nodes of a machine: what both sources of the count say of them.     *)
LEMMA HighestNode ==
  ASSUME NumaTypes
  PROVE  /\ Max(online) \in Nat
         /\ Max(online) \in online
         /\ \A n \in online : n \in Nat /\ n <= Max(online)
BY NumaAssumption, GreatestOfNaturals DEF NumaTypes

LEMMA CountCoversNodes ==
  ASSUME NumaTypes, NEW t \in Threads
  PROVE  /\ NodeCount(t) \in Nat /\ NodeCount(t) <= Max(online) + 1
         /\ sysfs = "online" => NodeCount(t) = Max(online) + 1
<1>1. Max(online) \in Nat
  BY HighestNode
<1>2. Cardinality(online) \in Nat /\ Cardinality(online) <= Max(online) + 1
  <2>1. online \in SUBSET Nat /\ \A n \in online : n <= Max(online)
    BY HighestNode
  <2>2. IsFiniteSet(online) /\ Cardinality(online) <= Max(online) + 1
    BY <1>1, <2>1, FS_BoundedSetOfNaturals
  <2>3. QED
    BY <2>2, FS_CardinalityType
<1>3. /\ SysfsNodeCount \in Nat /\ SysfsNodeCount <= Max(online) + 1
      /\ sysfs = "online" => SysfsNodeCount = Max(online) + 1
  BY <1>1, <1>2 DEF SysfsNodeCount, NumaTypes
<1>4. libMax >= 0 => libMax = Max(online)
  BY <1>1 DEF NumaTypes
<1>5. QED
  BY <1>1, <1>3, <1>4 DEF NodeCount
-----------------------------------------------------------------------------
LEMMA ValuesAreNoErrors ==
  Unset \notin Values /\ Failed \notin Values /\ NoLibrary \in Values
BY NumaLoaderAssumption DEF Values

(* LIBRARY is not changed once it is set, so every answer stays true.      *)
LEMMA AnswersStayTrue ==
  ASSUME IndInv, AnswersAgree, [Next]_vars
  PROVE  AnswersAgree' /\ (cell # Unset => cell' = cell)
<1>1. ASSUME NEW t \in Threads, FastPath(t) \/ GetAgain(t) \/ ReadBack(t)
      PROVE  AnswersAgree' /\ cell' = cell
  <2>1. /\ cell' = cell
        /\ \/ answer' = answer
           \/ answer' = [answer EXCEPT ![t] = cell]
           \/ answer' = [answer EXCEPT ![t] = Failed]
    BY <1>1 DEF FastPath, GetAgain, ReadBack, UnlockAndReturn, Return
  <2>2. QED
    BY <2>1, ValuesAreNoErrors DEF AnswersAgree, IndInv, TypeOK
<1>2. ASSUME NEW t \in Threads, SetCell(t)
      PROVE  AnswersAgree' /\ (cell # Unset => cell' = cell)
  <2>1. cell = Unset /\ answer' = answer
    BY <1>2 DEF SetCell, IndInv, CellIsSetOnceByHolder
  <2>2. QED
    BY <2>1, ValuesAreNoErrors DEF AnswersAgree
<1>3. ASSUME NEW t \in Threads, ResolveSymbols(t)
      PROVE  AnswersAgree' /\ cell' = cell
  <2>1. /\ cell' = cell
        /\ answer' = answer \/ answer' = [answer EXCEPT ![t] = Failed]
    BY <1>3 DEF ResolveSymbols, UnlockAndReturn, Return
  <2>2. QED
    BY <2>1, ValuesAreNoErrors DEF AnswersAgree, IndInv, TypeOK
<1>4. CASE UNCHANGED <<cell, answer>>
  BY <1>4 DEF AnswersAgree
<1>5. ASSUME NEW t \in Threads,
             Call(t) \/ Lock(t) \/ OpenLibrary(t) \/ CheckAvailable(t)
      PROVE  UNCHANGED <<cell, answer>>
  BY <1>5 DEF Call, Lock, OpenLibrary, CheckAvailable
<1>6. ASSUME NEW l \in Libraries, NEW s \in Statuses, Install(l, s)
      PROVE  UNCHANGED <<cell, answer>>
  BY <1>6 DEF Install
<1>7. CASE UNCHANGED vars
  BY <1>7, <1>4 DEF vars
<1>8. CASE Finished
  BY <1>8, <1>7 DEF Finished
<1>9. QED
  BY <1>1, <1>2, <1>3, <1>4, <1>5, <1>6, <1>7, <1>8 DEF Next, Step

(* All that happens to libnuma in Numa is what the loader does.            *)
LEMMA StepsOfTheLoader ==
  ASSUME [NumaNext]_allvars
  PROVE  [Next]_vars
<1>1. ASSUME NEW t \in Threads, NEW fn, NEW node, Begin(t, fn, node)
      PROVE  Call(t)
  BY <1>1 DEF Begin
<1>2. ASSUME NEW t \in Threads, Validated(t)
      PROVE  Call(t) \/ UNCHANGED vars
  BY <1>2 DEF Validated
<1>3. ASSUME NEW t \in Threads, Use(t)
      PROVE  UNCHANGED vars
  BY <1>3 DEF Use, vars
<1>4. NumaFinished => UNCHANGED vars
  BY DEF NumaFinished, allvars
<1>5. UNCHANGED allvars => UNCHANGED vars
  BY DEF allvars
<1>6. QED
  BY <1>1, <1>2, <1>3, <1>4, <1>5 DEF NumaNext, Next, Thread
-----------------------------------------------------------------------------
LEMMA NumaInitInv == NumaInit => NumaInv
<1> SUFFICES ASSUME NumaInit PROVE NumaInv
  OBVIOUS
<1>1. IndInv /\ AnswersAgree
  BY InitIsInductive, ValuesAreNoErrors DEF NumaInit, Init, AnswersAgree
<1>2. NumaTypes
  BY DEF NumaInit, NumaTypes, Idle, Tasks, Outcomes
<1>3. \A t \in Threads : task[t].at = "none" /\ result[t] = "none"
  BY DEF NumaInit, Idle
<1>4. QED
  BY <1>1, <1>2, <1>3
     DEF NumaInv, TaskInv, AboutNode, OutOfRangeStopsAtValidation,
         ExistingNodeIsValid, NoOpHasCause

(* What the three properties say of the outcome of a function.             *)
Justified(outcome, fn, node) ==
  /\ outcome \in {"one node", "placed", "refused"} => node <= Max(online)
  /\ outcome = "refused" /\ fn = "pin" => node < Max(online)
  /\ sysfs = "online" /\ outcome = "InvalidNode" => node \notin online
  /\ outcome = "no libnuma" => cell = NoLibrary
  /\ outcome = "one node" =>
       cell \in Libraries /\ (Max(online) = 0 \/ libMax = -1)

(* What holds of each thread on its own, apart from its types.             *)
ThreadInv(t) ==
  /\ task[t].at = "use" => task[t].node <= Max(online)
  /\ result[t] \in AboutNode => task[t].at = "done"
  /\ Justified(result[t], task[t].fn, task[t].node)

LEMMA InvOfThreads ==
  NumaInv <=> /\ IndInv /\ AnswersAgree /\ NumaTypes
              /\ \A t \in Threads : ThreadInv(t)
BY DEF NumaInv, TaskInv, OutOfRangeStopsAtValidation, ExistingNodeIsValid,
       NoOpHasCause, ThreadInv, Justified

LEMMA TypesOfStep ==
  ASSUME NumaTypes, UNCHANGED <<online, libMax, sysfs>>,
         NEW t \in Threads, NEW r \in Tasks, NEW s \in Outcomes,
         task' = [task EXCEPT ![t] = r], result' = [result EXCEPT ![t] = s]
  PROVE  NumaTypes' /\ task'[t] = r /\ \A u \in Threads \ {t} :
           task'[u] = task[u] /\ result'[u] = result[u]
BY DEF NumaTypes

(* The steps of t: nothing is different for the other threads.             *)
LEMMA OthersKeepInv ==
  ASSUME NumaInv, UNCHANGED <<online, libMax, sysfs>>, cell # Unset => cell' = cell,
         NEW u \in Threads, task'[u] = task[u], result'[u] = result[u]
  PROVE  ThreadInv(u)'
<1>1. ThreadInv(u)
  BY InvOfThreads
<1>2. Justified(result[u], task[u].fn, task[u].node)'
  <2>1. Justified(result[u], task[u].fn, task[u].node)
    BY <1>1 DEF ThreadInv
  <2>2. QED
    BY <2>1, NumaLoaderAssumption DEF Justified
<1>3. QED
  BY <1>1, <1>2 DEF ThreadInv

LEMMA BeginInv ==
  ASSUME NumaInv, NEW t \in Threads, NEW fn \in Functions, NEW node \in NodeArgs,
         Begin(t, fn, node), cell # Unset => cell' = cell
  PROVE  NumaTypes' /\ \A u \in Threads : ThreadInv(u)'
<1> DEFINE r == [fn |-> fn, node |-> node, at |-> "count"]
<1>1. /\ r \in Tasks
      /\ r.at = "count"
  BY NumaAssumption DEF Tasks
<1>2. /\ task' = [task EXCEPT ![t] = r] /\ result' = [result EXCEPT ![t] = "none"]
      /\ UNCHANGED <<online, libMax, sysfs>>
  BY DEF Begin
<1> HIDE DEF r
<1>3. NumaTypes' /\ task'[t] = r /\ \A u \in Threads \ {t} :
        task'[u] = task[u] /\ result'[u] = result[u]
  <2>1. "none" \in Outcomes
    BY DEF Outcomes
  <2>2. QED
    BY <1>1, <1>2, <2>1, TypesOfStep DEF NumaInv
<1>4. result'[t] = "none"
  BY <1>2 DEF NumaInv, NumaTypes
<1>5. ThreadInv(t)'
  BY <1>1, <1>3, <1>4 DEF ThreadInv, AboutNode, Justified
<1>6. QED
  BY <1>2, <1>3, <1>5, OthersKeepInv

(* A step that ends the call of t.                                         *)
LEMMA DoneInv ==
  ASSUME NumaInv, NEW t \in Threads, NEW outcome \in Outcomes, Done(t, outcome),
         UNCHANGED <<online, libMax, sysfs>>, cell # Unset => cell' = cell,
         Justified(outcome, task[t].fn, task[t].node)
  PROVE  NumaTypes' /\ \A u \in Threads : ThreadInv(u)'
<1> DEFINE r == [task[t] EXCEPT !.at = "done"]
<1>1. /\ r \in Tasks
      /\ r.at = "done" /\ r.node = task[t].node /\ r.fn = task[t].fn
  BY DEF NumaInv, NumaTypes, Tasks
<1>2. /\ task' = [task EXCEPT ![t] = r] /\ result' = [result EXCEPT ![t] = outcome]
  BY DEF Done, NumaInv, NumaTypes
<1> HIDE DEF r
<1>3. NumaTypes' /\ task'[t] = r /\ \A u \in Threads \ {t} :
        task'[u] = task[u] /\ result'[u] = result[u]
  BY <1>1, <1>2, TypesOfStep DEF NumaInv
<1>4. result'[t] = outcome
  BY <1>2 DEF NumaInv, NumaTypes
<1>5. ThreadInv(t)'
  <2>1. Justified(result[t], task[t].fn, task[t].node)'
    BY <1>1, <1>3, <1>4, NumaLoaderAssumption DEF Justified
  <2>2. QED
    BY <1>1, <1>3, <2>1 DEF ThreadInv
<1>6. QED
  BY <1>3, <1>5, OthersKeepInv

(* A step that goes on with the call of t.                                 *)
LEMMA GoOnInv ==
  ASSUME NumaInv, NEW t \in Threads, NEW r \in Tasks, r.at \in {"count", "use"},
         r.at = "use" => r.node <= Max(online),
         task[t].at # "done", task' = [task EXCEPT ![t] = r], result' = result,
         UNCHANGED <<online, libMax, sysfs>>, cell # Unset => cell' = cell
  PROVE  NumaTypes' /\ \A u \in Threads : ThreadInv(u)'
<1>1. NumaTypes' /\ task'[t] = r /\ \A u \in Threads \ {t} :
        task'[u] = task[u] /\ result'[u] = result[u]
  <2>1. result[t] \in Outcomes /\ result' = [result EXCEPT ![t] = result[t]]
    BY DEF NumaInv, NumaTypes
  <2>2. QED
    BY <2>1, TypesOfStep DEF NumaInv
<1>2. /\ result'[t] = result[t] /\ result[t] \notin AboutNode
      /\ result[t] = "no libnuma" => cell' = NoLibrary
  BY NumaLoaderAssumption DEF NumaInv, TaskInv, NoOpHasCause
<1>3. ThreadInv(t)'
  BY <1>1, <1>2 DEF ThreadInv, AboutNode, Justified
<1>4. QED
  BY <1>1, <1>3, OthersKeepInv

LEMMA ValidatedInv ==
  ASSUME NumaInv, NEW t \in Threads, Validated(t), cell # Unset => cell' = cell
  PROVE  NumaTypes' /\ \A u \in Threads : ThreadInv(u)'
<1>1. UNCHANGED <<online, libMax, sysfs>> /\ task[t].at = "count"
  BY DEF Validated
<1>2. /\ task[t] \in Tasks /\ task[t].node \in Nat
      /\ Max(online) \in Nat /\ \A n \in online : n <= Max(online)
      /\ NodeCount(t) \in Nat /\ NodeCount(t) <= Max(online) + 1
      /\ sysfs = "online" => NodeCount(t) = Max(online) + 1
  BY HighestNode, CountCoversNodes DEF NumaInv, NumaTypes, Tasks
<1>3. ASSUME NEW outcome \in {"count", "mbind", "no memory", "no bytes"},
             Done(t, outcome)
      PROVE  NumaTypes' /\ \A u \in Threads : ThreadInv(u)'
  <2>1. outcome \in Outcomes
    BY DEF Outcomes
  <2>2. QED
    BY <1>1, <1>3, <2>1, DoneInv DEF Justified
<1>4. CASE ~InRange(t) /\ Done(t, "InvalidNode")
  <2>1. sysfs = "online" => task[t].node \notin online
    BY <1>2, <1>4 DEF InRange
  <2>2. "InvalidNode" \in Outcomes
    BY DEF Outcomes
  <2>3. QED
    BY <1>1, <1>4, <2>1, <2>2, DoneInv DEF Justified
<1>5. CASE /\ task' = [task EXCEPT ![t].fn = "migrate"]
           /\ result' = result
  <2> DEFINE r == [task[t] EXCEPT !.fn = "migrate"]
  <2>1. r \in Tasks /\ r.at = "count"
    BY <1>1, <1>2 DEF Functions, Tasks
  <2>2. task' = [task EXCEPT ![t] = r]
    BY <1>5 DEF NumaInv, NumaTypes
  <2> HIDE DEF r
  <2>3. QED
    BY <1>1, <1>5, <2>1, <2>2, GoOnInv
<1>6. CASE /\ InRange(t) /\ result' = result
           /\ task' = [task EXCEPT ![t].at = "use"]
  <2> DEFINE r == [task[t] EXCEPT !.at = "use"]
  <2>1. r \in Tasks /\ r.at = "use" /\ r.node = task[t].node
    BY <1>2 DEF Tasks
  <2>2. task' = [task EXCEPT ![t] = r]
    BY <1>6 DEF NumaInv, NumaTypes
  <2>3. task[t].node <= Max(online)
    BY <1>2, <1>6 DEF InRange
  <2> HIDE DEF r
  <2>4. QED
    BY <1>1, <1>6, <2>1, <2>2, <2>3, GoOnInv
<1>7. QED
  BY <1>3, <1>4, <1>5, <1>6 DEF Validated

LEMMA UseInv ==
  ASSUME NumaInv, NEW t \in Threads, Use(t), cell' = cell
  PROVE  NumaTypes' /\ \A u \in Threads : ThreadInv(u)'
<1>1. UNCHANGED <<online, libMax, sysfs>>
  BY DEF Use
<1>2. /\ task[t].node <= Max(online) /\ task[t].node \in Nat
      /\ Max(online) \in online /\ Max(online) \in Nat
      /\ libMax \in {Max(online), -1}
  BY HighestNode DEF Use, NumaInv, TaskInv, NumaTypes, Tasks
<1>3. ASSUME NEW outcome \in {"load failed", "placed"}, Done(t, outcome)
      PROVE  NumaTypes' /\ \A u \in Threads : ThreadInv(u)'
  <2>1. outcome \in Outcomes
    BY DEF Outcomes
  <2>2. QED
    BY <1>1, <1>2, <1>3, <2>1, DoneInv DEF Justified
<1>4. CASE NoLibraryToUse(t) /\ Done(t, "no libnuma")
  <2>1. cell = NoLibrary
    BY <1>4, ValuesAreNoErrors DEF NoLibraryToUse, NumaInv, AnswersAgree
  <2>2. "no libnuma" \in Outcomes
    BY DEF Outcomes
  <2>3. QED
    BY <1>1, <1>4, <2>1, <2>2, DoneInv DEF Justified
<1>5. CASE answer[t] \in Libraries /\ ~HasMultipleNodes /\ Done(t, "one node")
  <2>1. cell \in Libraries
    BY <1>5 DEF NumaInv, AnswersAgree, Values
  <2>2. Max(online) = 0 \/ libMax = -1
    <3>1. CASE libMax = Max(online)
      <4>1. ~(Max(online) > 0)
        BY <1>5, <3>1 DEF HasMultipleNodes
      <4>2. QED
        BY <1>2, <4>1
    <3>2. QED
      BY <1>2, <3>1
  <2>3. "one node" \in Outcomes
    BY DEF Outcomes
  <2>4. QED
    BY <1>1, <1>2, <1>5, <2>1, <2>2, <2>3, DoneInv DEF Justified
<1>6. ASSUME NEW success \in ReadAsSuccess(t), ~success, Done(t, "refused")
      PROVE  NumaTypes' /\ \A u \in Threads : ThreadInv(u)'
  <2>1. task[t].fn = "pin" => task[t].node < Max(online)
    <3>1. task[t].fn = "pin" => task[t].node \notin online
      BY <1>6 DEF ReadAsSuccess
    <3>2. task[t].node \notin online => task[t].node # Max(online)
      BY <1>2
    <3>3. QED
      BY <1>2, <3>1, <3>2
  <2>2. "refused" \in Outcomes
    BY DEF Outcomes
  <2>3. QED
    BY <1>1, <1>2, <1>6, <2>1, <2>2, DoneInv DEF Justified
<1>7. QED
  BY <1>3, <1>4, <1>5, <1>6 DEF Use

LEMMA NumaNextInv ==
  ASSUME NumaInv, [NumaNext]_allvars
  PROVE  NumaInv'
<1>1. [Next]_vars
  BY StepsOfTheLoader
<1>2. IndInv' /\ AnswersAgree' /\ (cell # Unset => cell' = cell)
  BY <1>1, NextKeepsIndInv, AnswersStayTrue DEF NumaInv
<1>3. ASSUME UNCHANGED numavars
      PROVE  NumaTypes' /\ \A u \in Threads : ThreadInv(u)'
  <2>1. NumaTypes'
    BY <1>3 DEF numavars, NumaInv, NumaTypes
  <2>2. QED
    BY <1>2, <1>3, <2>1, OthersKeepInv DEF numavars
<1>4. ASSUME NEW t \in Threads, Use(t)
      PROVE  NumaTypes' /\ \A u \in Threads : ThreadInv(u)'
  <2>1. cell' = cell
    BY <1>4 DEF Use, vars
  <2>2. QED
    BY <1>4, <2>1, UseInv
<1>5. NumaTypes' /\ \A u \in Threads : ThreadInv(u)'
  <2>1. CASE UNCHANGED allvars \/ NumaFinished
    BY <1>3, <2>1 DEF NumaFinished, allvars
  <2>2. QED
    BY <1>2, <1>3, <1>4, <2>1, BeginInv, ValidatedInv DEF NumaNext, Thread
<1>6. \A u \in Threads : ThreadInv(u)'
  BY <1>5
<1>7. TaskInv' /\ OutOfRangeStopsAtValidation' /\ ExistingNodeIsValid'
        /\ NoOpHasCause'
  BY <1>6 DEF ThreadInv, Justified, TaskInv, OutOfRangeStopsAtValidation,
              ExistingNodeIsValid, NoOpHasCause
<1>8. QED
  BY <1>2, <1>5, <1>7 DEF NumaInv

LEMMA NumaInvInvariant == NumaSpec => []NumaInv
<1>1. NumaInv /\ [NumaNext]_allvars => NumaInv'
  BY NumaNextInv
<1>2. QED
  BY <1>1, NumaInitInv, PTL DEF NumaSpec
-----------------------------------------------------------------------------
(* A node beyond the last never gets past validate_node, whichever source  *)
(* the count came from: what libnuma refuses is a hole in the numbering.   *)
THEOREM OutOfRangeIsStopped == NumaSpec => []OutOfRangeStopsAtValidation
<1>1. NumaInv => OutOfRangeStopsAtValidation
  BY DEF NumaInv
<1>2. QED
  BY <1>1, NumaInvInvariant, PTL

(* validate_node accepts every node that exists when sysfs lists the nodes, *)
(* with libnuma, without it, and with one that does not know its nodes.    *)
THEOREM ExistingNodesAreValid == NumaSpec => []ExistingNodeIsValid
<1>1. NumaInv => ExistingNodeIsValid
  BY DEF NumaInv
<1>2. QED
  BY <1>1, NumaInvInvariant, PTL

(* Where pin_to_node and migrate_to_node return Ok and do nothing for a    *)
(* thread or a region, the process has no libnuma, now and for good; or it *)
(* has one, and the machine has one node or libnuma does not know its      *)
(* nodes, in which case pages stay where they are on several nodes too.    *)
THEOREM NoOpsHaveCauses == NumaSpec => []NoOpHasCause
<1>1. NumaInv => NoOpHasCause
  BY DEF NumaInv
<1>2. QED
  BY <1>1, NumaInvInvariant, PTL

(* The placement functions use the loader as its callers do: whatever they *)
(* do, it keeps its lock exclusive, its cell set once and its libraries    *)
(* from leaking.                                                           *)
THEOREM LoaderIsKept ==
  NumaSpec => [](MutualExclusion /\ CellIsSetOnceByHolder /\ NoHandleLeaks)
<1>1. NumaInv => MutualExclusion /\ CellIsSetOnceByHolder /\ NoHandleLeaks
  BY DEF NumaInv, IndInv
<1>2. QED
  BY <1>1, NumaInvInvariant, PTL
=============================================================================
