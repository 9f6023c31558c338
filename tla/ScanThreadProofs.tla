-------------------------- MODULE ScanThreadProofs ---------------------------
(***************************************************************************)
(* Proofs about ScanThread, for any number of threads, cores, counters,    *)
(* descriptors and calls, and for any width of a word, of a group and of   *)
(* the mask.  AffInv, PerfInv and ListInv are the inductive invariants of  *)
(* its three parts: placement, counters and lists of cores.                *)
(***************************************************************************)
EXTENDS ScanThread, FiniteSetTheorems, WellFoundedInduction, TLAPS

(* A pinned thread has nowhere else to go, and has been told nothing else. *)
AffInv ==
  /\ allowed \in [Threads -> SUBSET Cores]
  /\ on \in [Threads -> Cores]
  /\ pinned \in [Threads -> Nat \union {NoCore}]
  /\ seen \in [Threads -> SUBSET Nat]
  /\ \A t \in Threads :
       /\ on[t] \in allowed[t]
       /\ pinned[t] # NoCore =>
            /\ allowed[t] = {pinned[t]}
            /\ seen[t] \subseteq {NodeOf[on[t]]}
-----------------------------------------------------------------------------
(* The mask of a core is its own and no other core's.                      *)
LEMMA DivisionIsUnique ==
  ASSUME NEW a \in Nat, NEW b \in Nat, NEW w \in Nat \ {0},
         a \div w = b \div w, a % w = b % w
  PROVE  a = b
<1>1. a = w * (a \div w) + (a % w) /\ b = w * (b \div w) + (b % w)
  OBVIOUS
<1>2. QED
  BY <1>1

LEMMA WordOfBit ==
  ASSUME NEW n \in Nat, NEW w \in Nat \ {0}, NEW c \in Nat, c < n * w
  PROVE  c \div w \in 0..n - 1
<1> DEFINE k == c \div w
<1>1. k \in Nat /\ w * k <= c
  OBVIOUS
<1> HIDE DEF k
<1>2. w * k < n * w
  <2>1. w * k \in Nat /\ n * w \in Nat
    BY <1>1
  <2>2. QED
    BY <1>1, <2>1
<1>3. k < n
  BY <1>1, <1>2
<1>4. QED
  BY <1>1, <1>3 DEF k

LEMMA MaskHasOneCore ==
  ASSUME NEW core \in Nat, core < MaxCore
  PROVE  CoresIn(MaskOf(core)) \subseteq {core}
<1>1. WordBits \in Nat \ {0} /\ CpuSetSize \in Nat /\ Cores \subseteq Nat
  BY AffinityAssumption
<1>2. CpuSetWords \in Nat
  BY <1>1 DEF CpuSetWords
<1>3. ASSUME NEW c \in Cores, c < MaxCore,
             c % WordBits \in MaskOf(core)[c \div WordBits]
      PROVE  c = core
  <2>1. c \in Nat /\ c \div WordBits \in 0..CpuSetWords - 1
    BY <1>1, <1>2, <1>3, WordOfBit DEF MaxCore
  <2>2. MaskOf(core)[c \div WordBits] =
          IF c \div WordBits = core \div WordBits THEN {core % WordBits} ELSE {}
    BY <2>1 DEF MaskOf
  <2>3. c \div WordBits = core \div WordBits /\ c % WordBits = core % WordBits
    BY <1>3, <2>2
  <2>4. QED
    BY <1>1, <2>1, <2>3, DivisionIsUnique
<1>4. QED
  BY <1>3 DEF CoresIn
-----------------------------------------------------------------------------
LEMMA AffInitInv == AffInit => AffInv
BY AffinityAssumption DEF AffInit, AffInv

LEMMA RunOnInv ==
  ASSUME AffInv, NEW t \in Threads, NEW set \in SUBSET Cores, RunOn(t, set),
         NEW core \in Nat \union {NoCore}, pinned' = [pinned EXCEPT ![t] = core],
         core # NoCore => set \subseteq {core}
  PROVE  AffInv'
<1>1. PICK c \in set : on' = [on EXCEPT ![t] = IF @ \in set THEN @ ELSE c]
  BY DEF RunOn
<1>2. /\ allowed' = [allowed EXCEPT ![t] = set]
      /\ seen' = [seen EXCEPT ![t] = {}]
  BY DEF RunOn
<1>3. /\ allowed' \in [Threads -> SUBSET Cores]
      /\ on' \in [Threads -> Cores]
      /\ pinned' \in [Threads -> Nat \union {NoCore}]
      /\ seen' \in [Threads -> SUBSET Nat]
  BY <1>1, <1>2 DEF AffInv
<1>4. ASSUME NEW u \in Threads
      PROVE  /\ on'[u] \in allowed'[u]
             /\ pinned'[u] # NoCore =>
                  /\ allowed'[u] = {pinned'[u]}
                  /\ seen'[u] \subseteq {NodeOf[on'[u]]}
  <2>1. CASE u = t
    <3>1. on'[t] \in set /\ allowed'[t] = set /\ pinned'[t] = core /\ seen'[t] = {}
      BY <1>1, <1>2 DEF AffInv
    <3>2. QED
      BY <2>1, <3>1
  <2>2. CASE u # t
    <3>1. /\ on'[u] = on[u] /\ allowed'[u] = allowed[u]
          /\ pinned'[u] = pinned[u] /\ seen'[u] = seen[u]
      BY <1>1, <1>2, <2>2 DEF AffInv
    <3>2. QED
      BY <3>1 DEF AffInv
  <2>3. QED
    BY <2>1, <2>2
<1>5. QED
  BY <1>3, <1>4 DEF AffInv

LEMMA AffinityCallInv ==
  ASSUME AffInv, NEW t \in Threads, AffinityCall(t)
  PROVE  AffInv'
<1>1. ASSUME NEW core \in CoreArgs, PinToCore(t, core) PROVE AffInv'
  <2>1. core \in Nat /\ CoresIn(MaskOf(core)) \subseteq {core}
    BY <1>1, AffinityAssumption, MaskHasOneCore DEF PinToCore
  <2>2. CoresIn(MaskOf(core)) \in SUBSET Cores
    BY DEF CoresIn
  <2>3. QED
    BY <1>1, <2>1, <2>2, RunOnInv DEF PinToCore
<1>2. ASSUME NEW node, PinToNumaNode(t, node) PROVE AffInv'
  <2>1. {c \in Cores : NodeOf[c] = node} \in SUBSET Cores
    OBVIOUS
  <2>2. QED
    BY <1>2, <2>1, RunOnInv DEF PinToNumaNode
<1>3. CASE CurrentNode(t)
  <2>1. NodeOf[on[t]] \in Nat
    BY AffinityAssumption DEF AffInv
  <2>2. QED
    BY <1>3, <2>1 DEF AffInv, CurrentNode
<1>4. CASE ReadIrqAffinity(t)
  BY <1>4 DEF AffInv, ReadIrqAffinity
<1>5. QED
  BY <1>1, <1>2, <1>3, <1>4 DEF AffinityCall

LEMMA AffNextInv ==
  ASSUME AffInv, [Next]_vars
  PROVE  AffInv'
<1>1. CASE UNCHANGED affvars
  BY <1>1 DEF affvars, AffInv
<1>2. ASSUME NEW t \in Threads, AffinityCall(t) PROVE AffInv'
  BY <1>2, AffinityCallInv
<1>3. ASSUME NEW t \in Threads, Migrate(t) PROVE AffInv'
  BY <1>3 DEF AffInv, Migrate
<1>4. CASE MoveIrq
  BY <1>4 DEF AffInv, MoveIrq
<1>5. QED
  BY <1>1, <1>2, <1>3, <1>4 DEF Next, Around, Call, vars, affvars

(* A thread that pin_to_core returned Ok to stays on that core, wherever   *)
(* the word boundaries of its mask are, until it is pinned again; and      *)
(* current_node names the core's node.                                     *)
THEOREM PinnedThreadsStay == Spec => []PinnedThreadStays
<1>1. Init => AffInv
  BY AffInitInv DEF Init
<1>2. AffInv /\ [Next]_vars => AffInv'
  BY AffNextInv
<1>3. AffInv => PinnedThreadStays
  BY DEF AffInv, PinnedThreadStays
<1>4. QED
  BY <1>1, <1>2, <1>3, PTL DEF Spec
-----------------------------------------------------------------------------
Events ==
  [kind : {"event"}, thread : Threads, core : {AnyCore}, config : {0, 1, 3, 5},
   count : Nat]

(* What a counter reports, compared with what it should.                   *)
CountsRight(h) ==
  /\ Value(h) <= truth[h].count
  /\ ~truth[h].shared => Value(h) = truth[h].count

(* A counter has an event of its own, of its type and of the thread that   *)
(* opened it, and every event has its counter.                             *)
PerfInv ==
  /\ table \in [Fds -> Events \union {Free, OtherFile}]
  /\ counter \in [Counters -> [fd : Fds, type : HwCounters] \union {NoCounter}]
  /\ truth \in [Counters -> [thread : Threads \union {"none"}, count : Nat,
                             shared : BOOLEAN]]
  /\ \A h \in Counters : IsOpen(h) =>
       LET event == table[counter[h].fd] IN
         /\ event.kind = "event"
         /\ event.config = ConfigOf(counter[h].type)
         /\ event.thread = truth[h].thread
         /\ CountsRight(h)
  /\ \A h, g \in Counters :
       IsOpen(h) /\ IsOpen(g) /\ counter[h].fd = counter[g].fd => h = g
  /\ \A fd \in EventFds : \E h \in Counters : IsOpen(h) /\ counter[h].fd = fd

LEMMA LeastOfNaturals ==
  ASSUME NEW S \in SUBSET Nat, S # {}
  PROVE  Min(S) \in S /\ \A x \in S : Min(S) <= x
<1> DEFINE R == {ss \in Nat \X Nat : ss[1] < ss[2]}
<1>1. IsWellFoundedOn(R, Nat)
  BY NatLessThanWellFounded DEF OpToRel
<1> HIDE DEF R
<1>2. PICK m \in S : \A y \in S : ~(<<y, m>> \in R)
  BY <1>1, WFMin
<1>3. \A y \in S : m <= y
  <2> SUFFICES ASSUME NEW y \in S, y < m PROVE FALSE
    OBVIOUS
  <2>1. <<y, m>> \in Nat \X Nat /\ <<y, m>>[1] < <<y, m>>[2]
    OBVIOUS
  <2>2. <<y, m>> \in R
    BY <2>1 DEF R
  <2>3. QED
    BY <1>2, <2>2
<1>4. QED
  BY <1>3 DEF Min

(* The four names are told apart by their numbers.                         *)
LEMMA NumbersNameCounters ==
  ASSUME NEW type \in HwCounters
  PROVE  ConfigOf(type) \in {0, 1, 3, 5} /\ Counts(ConfigOf(type)) = type
BY PerfAssumption DEF ConfigOf, Counts

LEMMA KindsDiffer ==
  /\ Free.kind = "free" /\ OtherFile.kind = "file" /\ Free # OtherFile
  /\ \A e \in Events : e.kind = "event" /\ e # Free /\ e # OtherFile
BY DEF Free, OtherFile, Events

LEMMA TableOf ==
  ASSUME PerfInv, NEW fd \in Fds
  PROVE  /\ fd \in EventFds <=> table[fd] \in Events
         /\ fd \in FreeFds <=> table[fd] = Free
BY KindsDiffer DEF PerfInv, EventFds, FreeFds

LEMMA OpenCounter ==
  ASSUME PerfInv, NEW h \in Counters, IsOpen(h)
  PROVE  /\ counter[h] \in [fd : Fds, type : HwCounters]
         /\ counter[h].fd \in EventFds
         /\ table[counter[h].fd] \in Events
         /\ truth[h] \in [thread : Threads, count : Nat, shared : BOOLEAN]
<1>1. counter[h] \in [fd : Fds, type : HwCounters]
  BY DEF PerfInv, IsOpen
<1>2. counter[h].fd \in Fds /\ table[counter[h].fd].kind = "event"
  BY <1>1 DEF PerfInv
<1>3. counter[h].fd \in EventFds
  BY <1>2 DEF EventFds
<1>4. table[counter[h].fd] \in Events
  BY <1>2, <1>3, TableOf
<1>5. table[counter[h].fd].thread \in Threads
  BY <1>4 DEF Events
<1>6. truth[h].thread \in Threads
  BY <1>5 DEF PerfInv
<1>7. QED
  BY <1>1, <1>3, <1>4, <1>6 DEF PerfInv

LEMMA ClosedCounter ==
  ASSUME PerfInv, NEW h \in Counters, ~IsOpen(h)
  PROVE  counter[h].fd \notin Fds
BY PerfAssumption DEF IsOpen, NoCounter

LEMMA PerfInitInv == PerfInit => PerfInv
BY KindsDiffer DEF PerfInit, PerfInv, IsOpen, EventFds, NoTruth

LEMMA FirstFreeFd ==
  ASSUME PerfInv, FreeFds # {}
  PROVE  Min(FreeFds) \in Fds /\ table[Min(FreeFds)] = Free
<1>1. FreeFds \in SUBSET Nat
  BY PerfAssumption DEF FreeFds
<1>2. Min(FreeFds) \in FreeFds
  BY <1>1, LeastOfNaturals
<1>3. QED
  BY <1>2 DEF FreeFds
LEMMA OpenInv ==
  ASSUME PerfInv, NEW t \in Threads, NEW h \in Counters,
         NEW type \in HwCounters, Open(t, h, type)
  PROVE  PerfInv'
<1> DEFINE fd == Min(FreeFds)
           event == Event(t, AnyCore, ConfigOf(type))
<1>1. fd \in Fds /\ table[fd] = Free
  BY FirstFreeFd DEF Open
<1>2. event \in Events /\ event.config = ConfigOf(type)
      /\ event.thread = t /\ event.count = 0
  BY NumbersNameCounters DEF Event, Events
<1>3. /\ table' = [table EXCEPT ![fd] = event]
      /\ counter' = [counter EXCEPT ![h] = [fd |-> fd, type |-> type]]
      /\ truth' = [truth EXCEPT ![h] =
                     [thread |-> t, count |-> 0, shared |-> FALSE]]
      /\ ~IsOpen(h)
  BY DEF Open, CoreOfEvent
<1> HIDE DEF fd, event
<1>4. /\ table' \in [Fds -> Events \union {Free, OtherFile}]
      /\ counter' \in [Counters -> [fd : Fds, type : HwCounters] \union {NoCounter}]
      /\ truth' \in [Counters -> [thread : Threads \union {"none"}, count : Nat,
                                  shared : BOOLEAN]]
  BY <1>1, <1>2, <1>3 DEF PerfInv
<1>5. /\ counter'[h].fd = fd /\ counter'[h].type = type /\ table'[fd] = event
      /\ truth'[h].thread = t /\ truth'[h].count = 0
      /\ IsOpen(h)'
  BY <1>1, <1>3, PerfAssumption DEF PerfInv, IsOpen, NoCounter
<1>6. ASSUME NEW g \in Counters, g # h
      PROVE  /\ counter'[g] = counter[g] /\ truth'[g] = truth[g]
             /\ IsOpen(g)' <=> IsOpen(g)
             /\ IsOpen(g) => /\ counter[g].fd # fd
                             /\ table'[counter[g].fd] = table[counter[g].fd]
  <2>1. /\ counter'[g] = counter[g] /\ truth'[g] = truth[g]
        /\ IsOpen(g)' <=> IsOpen(g)
    BY <1>3, <1>6 DEF PerfInv, IsOpen
  <2>2. IsOpen(g) => counter[g].fd \in Fds /\ counter[g].fd # fd
    BY <1>1, OpenCounter, KindsDiffer
  <2>3. QED
    BY <1>3, <2>1, <2>2 DEF PerfInv
<1>7. ASSUME NEW g \in Counters, IsOpen(g)'
      PROVE  /\ table'[counter'[g].fd].kind = "event"
             /\ table'[counter'[g].fd].config = ConfigOf(counter'[g].type)
             /\ table'[counter'[g].fd].thread = truth'[g].thread
             /\ CountsRight(g)'
  <2>1. CASE g = h
    BY <1>2, <1>5, <2>1, KindsDiffer DEF CountsRight, Value
  <2>2. CASE g # h
    BY <1>6, <1>7, <2>2 DEF PerfInv, CountsRight, Value
  <2>3. QED
    BY <2>1, <2>2
<1>8. \A g, k \in Counters :
        IsOpen(g)' /\ IsOpen(k)' /\ counter'[g].fd = counter'[k].fd => g = k
  BY <1>5, <1>6 DEF PerfInv
<1>9. ASSUME NEW f \in EventFds'
      PROVE  \E g \in Counters : IsOpen(g)' /\ counter'[g].fd = f
  <2>1. CASE f = fd
    BY <1>5, <2>1
  <2>2. CASE f # fd
    <3>1. f \in EventFds
      BY <1>3, <2>2 DEF EventFds, PerfInv
    <3>2. PICK g \in Counters : IsOpen(g) /\ counter[g].fd = f
      BY <3>1 DEF PerfInv
    <3>3. g # h
      BY <1>3, <3>2
    <3>4. QED
      BY <1>6, <3>2, <3>3
  <2>3. QED
    BY <2>1, <2>2
<1>10. QED
  BY <1>4, <1>7, <1>8, <1>9 DEF PerfInv

LEMMA DropInv ==
  ASSUME PerfInv, NEW h \in Counters, DropCounter(h)
  PROVE  PerfInv'
<1> DEFINE fd == counter[h].fd
<1>1. fd \in Fds /\ IsOpen(h)
  BY OpenCounter DEF DropCounter, EventFds
<1>2. /\ table' = [table EXCEPT ![fd] = Free]
      /\ counter' = [counter EXCEPT ![h] = NoCounter]
      /\ truth' = [truth EXCEPT ![h] = NoTruth]
  BY DEF DropCounter, CloseFd
<1> HIDE DEF fd
<1>3. /\ table' \in [Fds -> Events \union {Free, OtherFile}]
      /\ counter' \in [Counters -> [fd : Fds, type : HwCounters] \union {NoCounter}]
      /\ truth' \in [Counters -> [thread : Threads \union {"none"}, count : Nat,
                                  shared : BOOLEAN]]
  BY <1>1, <1>2 DEF PerfInv, NoTruth
<1>4. ~IsOpen(h)'
  BY <1>2 DEF PerfInv, IsOpen
<1>5. ASSUME NEW g \in Counters, g # h
      PROVE  /\ counter'[g] = counter[g] /\ truth'[g] = truth[g]
             /\ IsOpen(g)' <=> IsOpen(g)
             /\ IsOpen(g) => /\ counter[g].fd # fd
                             /\ table'[counter[g].fd] = table[counter[g].fd]
  <2>1. /\ counter'[g] = counter[g] /\ truth'[g] = truth[g]
        /\ IsOpen(g)' <=> IsOpen(g)
    BY <1>2, <1>5 DEF PerfInv, IsOpen
  <2>2. IsOpen(g) => counter[g].fd \in Fds /\ counter[g].fd # fd
    BY <1>1, <1>5, OpenCounter DEF PerfInv, EventFds, fd
  <2>3. QED
    BY <1>2, <2>1, <2>2 DEF PerfInv
<1>6. \A g \in Counters : IsOpen(g)' =>
        /\ table'[counter'[g].fd].kind = "event"
        /\ table'[counter'[g].fd].config = ConfigOf(counter'[g].type)
        /\ table'[counter'[g].fd].thread = truth'[g].thread
        /\ CountsRight(g)'
  BY <1>4, <1>5 DEF PerfInv, CountsRight, Value
<1>7. \A g, k \in Counters :
        IsOpen(g)' /\ IsOpen(k)' /\ counter'[g].fd = counter'[k].fd => g = k
  BY <1>4, <1>5 DEF PerfInv
<1>8. ASSUME NEW f \in EventFds'
      PROVE  \E g \in Counters : IsOpen(g)' /\ counter'[g].fd = f
  <2>1. f \in EventFds /\ f # fd
    BY <1>1, <1>2, KindsDiffer DEF EventFds, PerfInv
  <2>2. PICK g \in Counters : IsOpen(g) /\ counter[g].fd = f
    BY <2>1 DEF PerfInv
  <2>3. g # h
    BY <2>1, <2>2 DEF fd
  <2>4. QED
    BY <1>5, <2>2, <2>3
<1>9. QED
  BY <1>3, <1>6, <1>7, <1>8 DEF PerfInv

LEMMA ResetInv ==
  ASSUME PerfInv, NEW h \in Counters, Reset(h)
  PROVE  PerfInv'
<1> DEFINE fd == counter[h].fd
           event == [table[fd] EXCEPT !.count = 0]
           zero == [truth[h] EXCEPT !.count = 0, !.shared = FALSE]
<1>1. fd \in Fds /\ IsOpen(h) /\ table[fd] \in Events
  BY OpenCounter DEF Reset, EventFds
<1>2. /\ table' = [table EXCEPT ![fd] = event]
      /\ truth' = [truth EXCEPT ![h] = zero]
      /\ counter' = counter
  BY <1>1 DEF Reset, PerfInv
<1>3. /\ event \in Events /\ event.kind = "event" /\ event.count = 0
      /\ event.config = table[fd].config /\ event.thread = table[fd].thread
      /\ zero \in [thread : Threads, count : Nat, shared : BOOLEAN]
      /\ zero.thread = truth[h].thread /\ zero.count = 0
  BY <1>1, OpenCounter DEF Events
<1> HIDE DEF fd, event, zero
<1>4. /\ table' \in [Fds -> Events \union {Free, OtherFile}]
      /\ counter' \in [Counters -> [fd : Fds, type : HwCounters] \union {NoCounter}]
      /\ truth' \in [Counters -> [thread : Threads \union {"none"}, count : Nat,
                                  shared : BOOLEAN]]
  BY <1>1, <1>2, <1>3 DEF PerfInv
<1>5. \A g : IsOpen(g)' <=> IsOpen(g)
  BY <1>2 DEF IsOpen
<1>6. ASSUME NEW g \in Counters, IsOpen(g)
      PROVE  /\ table'[counter'[g].fd].kind = "event"
             /\ table'[counter'[g].fd].config = ConfigOf(counter'[g].type)
             /\ table'[counter'[g].fd].thread = truth'[g].thread
             /\ CountsRight(g)'
  <2>1. CASE g = h
    <3>1. table'[fd] = event /\ counter'[h].fd = fd
      BY <1>1, <1>2 DEF PerfInv, fd
    <3>2. truth'[h].thread = truth[h].thread /\ truth'[h].count = 0
      BY <1>2, <1>3 DEF PerfInv
    <3>3. /\ table[fd].config = ConfigOf(counter[h].type)
          /\ table[fd].thread = truth[h].thread
      BY <1>1 DEF PerfInv, fd
    <3>4. CountsRight(h)'
      BY <1>3, <3>1, <3>2 DEF CountsRight, Value
    <3>5. QED
      BY <1>2, <1>3, <2>1, <3>1, <3>2, <3>3, <3>4
  <2>2. CASE g # h
    <3>1. counter[g].fd # fd /\ counter[g].fd \in Fds
      BY <1>1, <1>6, <2>2, OpenCounter DEF PerfInv, EventFds, fd
    <3>2. table'[counter[g].fd] = table[counter[g].fd] /\ truth'[g] = truth[g]
      BY <1>2, <2>2, <3>1 DEF PerfInv
    <3>3. QED
      BY <1>2, <1>6, <3>2 DEF PerfInv, CountsRight, Value
  <2>3. QED
    BY <2>1, <2>2
<1>7. \A f \in EventFds' : f \in EventFds
  BY <1>1, <1>2, KindsDiffer DEF EventFds, PerfInv
<1>8. QED
  BY <1>2, <1>4, <1>5, <1>6, <1>7 DEF PerfInv

(* Files that are no events may come and go.                               *)
LEMMA OtherFilesInv ==
  ASSUME PerfInv, OtherFiles
  PROVE  PerfInv'
<1>1. PICK fd \in Fds, e \in {Free, OtherFile} :
        table[fd] \in {Free, OtherFile} /\ table' = [table EXCEPT ![fd] = e]
  BY FirstFreeFd DEF OtherFiles
<1>2. table' \in [Fds -> Events \union {Free, OtherFile}]
  BY <1>1 DEF PerfInv
<1>3. EventFds' = EventFds /\ \A f \in EventFds : table'[f] = table[f]
  BY <1>1, KindsDiffer DEF EventFds, PerfInv
<1>4. counter' = counter /\ truth' = truth
  BY DEF OtherFiles
<1>5. \A g \in Counters : IsOpen(g) => table'[counter[g].fd] = table[counter[g].fd]
  BY <1>3, OpenCounter
<1>6. QED
  BY <1>2, <1>3, <1>4, <1>5 DEF PerfInv, IsOpen, CountsRight, Value
(* Unless the processor is out of room, all events of the thread count.    *)
LEMMA AllOfThemRun ==
  ASSUME NEW events \in SUBSET Fds,
         NEW running \in kSubset(Min({Slots, Cardinality(events)}), events),
         ~(Cardinality(events) > Slots)
  PROVE  running = events
<1>1. IsFiniteSet(events) /\ Cardinality(events) \in Nat /\ Slots \in Nat
  BY PerfAssumption, FS_Subset, FS_CardinalityType
<1>2. Min({Slots, Cardinality(events)}) = Cardinality(events)
  <2>1. {Slots, Cardinality(events)} \in SUBSET Nat
    BY <1>1
  <2> DEFINE m == Min({Slots, Cardinality(events)})
  <2>2. /\ m \in {Slots, Cardinality(events)}
        /\ \A x \in {Slots, Cardinality(events)} : m <= x
    BY <2>1, LeastOfNaturals
  <2> HIDE DEF m
  <2>3. m = Cardinality(events)
    BY <1>1, <2>2
  <2>4. QED
    BY <2>3 DEF m
<1>3. running \in SUBSET events /\ Cardinality(running) = Cardinality(events)
  BY <1>2 DEF kSubset
<1>4. QED
  BY <1>1, <1>3, FS_Subset

LEMMA RetireInv ==
  ASSUME PerfInv, NEW t \in Threads, NEW what \in HwCounters, Retire(t, what)
  PROVE  PerfInv'
<1> DEFINE events == {fd \in EventFds : table[fd].thread = t
                                         /\ table[fd].core \in {AnyCore, on[t]}}
           busy == Cardinality(events) > Slots
<1>1. PICK running \in kSubset(Min({Slots, Cardinality(events)}), events) :
        /\ table' = [fd \in Fds |->
              IF fd \in running /\ Counts(table[fd].config) = what
                THEN [table[fd] EXCEPT !.count = @ + 1] ELSE table[fd]]
        /\ truth' = [h \in Counters |->
              IF IsOpen(h) /\ truth[h].thread = t
                THEN [truth[h] EXCEPT
                        !.count = IF counter[h].type = what THEN @ + 1 ELSE @,
                        !.shared = @ \/ busy]
                ELSE truth[h]]
  BY DEF Retire
<1>2. events \in SUBSET Fds /\ running \subseteq events
  BY DEF EventFds, kSubset
<1>3. ~busy => running = events
  BY <1>2, AllOfThemRun
<1>4. \A fd \in events : table[fd] \in Events /\ table[fd].thread = t
  BY TableOf DEF EventFds
<1> DEFINE hit(h) == counter[h].type = what
           counted(fd) == fd \in running /\ Counts(table[fd].config) = what
<1>5. ASSUME NEW fd \in Fds
      PROVE  /\ table[fd] \in Events =>
                  /\ table'[fd] \in Events
                  /\ table'[fd].kind = "event"
                  /\ table'[fd].config = table[fd].config
                  /\ table'[fd].thread = table[fd].thread
                  /\ table'[fd].count =
                       IF counted(fd) THEN table[fd].count + 1 ELSE table[fd].count
             /\ table[fd] \notin Events => table'[fd] = table[fd]
  <2> HIDE DEF events
  <2>1. CASE counted(fd)
    <3>1. table[fd] \in Events /\ table'[fd] = [table[fd] EXCEPT !.count = @ + 1]
      BY <1>1, <1>2, <1>4, <2>1
    <3>2. QED
      BY <2>1, <3>1 DEF Events
  <2>2. CASE ~counted(fd)
    <3>1. table'[fd] = table[fd]
      BY <1>1, <2>2
    <3>2. QED
      BY <2>2, <3>1 DEF Events
  <2>3. QED
    BY <2>1, <2>2
<1>6. ASSUME NEW h \in Counters, IsOpen(h)
      PROVE  /\ truth'[h] \in [thread : Threads, count : Nat, shared : BOOLEAN]
             /\ truth'[h].thread = truth[h].thread
             /\ truth'[h].count =
                  IF truth[h].thread = t /\ hit(h) THEN truth[h].count + 1
                                                   ELSE truth[h].count
             /\ ~truth'[h].shared =>
                  ~truth[h].shared /\ (truth[h].thread = t => ~busy)
  <2>1. truth[h] \in [thread : Threads, count : Nat, shared : BOOLEAN]
    BY <1>6, OpenCounter
  <2> HIDE DEF events
  <2>2. CASE truth[h].thread = t
    <3>1. truth'[h] = [truth[h] EXCEPT
                         !.count = IF counter[h].type = what THEN @ + 1 ELSE @,
                         !.shared = @ \/ busy]
      BY <1>1, <1>6, <2>2
    <3> DEFINE n == IF hit(h) THEN truth[h].count + 1 ELSE truth[h].count
               b == truth[h].shared \/ busy
    <3>2. n \in Nat
      BY <2>1
    <3>3. b \in BOOLEAN /\ (~b => ~truth[h].shared /\ ~busy)
      OBVIOUS
    <3>4. truth'[h] = [truth[h] EXCEPT !.count = n, !.shared = b]
      BY <3>1
    <3> HIDE DEF n, b, busy, hit
    <3>5. /\ truth'[h] \in [thread : Threads, count : Nat, shared : BOOLEAN]
          /\ truth'[h].thread = truth[h].thread
          /\ truth'[h].count = n /\ truth'[h].shared = b
      BY <2>1, <3>2, <3>3, <3>4
    <3>6. QED
      BY <2>2, <3>3, <3>5 DEF n
  <2>3. CASE truth[h].thread # t
    BY <1>1, <2>1, <2>3
  <2>4. QED
    BY <2>2, <2>3
<1>7. counter' = counter /\ \A h : IsOpen(h)' <=> IsOpen(h)
  BY DEF Retire, IsOpen
<1>8. table' \in [Fds -> Events \union {Free, OtherFile}]
  <2>1. table' = [fd \in Fds |-> table'[fd]]
    BY <1>1
  <2>2. \A fd \in Fds : table'[fd] \in Events \union {Free, OtherFile}
    BY <1>5 DEF PerfInv
  <2>3. QED
    BY <2>1, <2>2
<1>9. truth' \in [Counters -> [thread : Threads \union {"none"}, count : Nat,
                               shared : BOOLEAN]]
  <2>1. \A h \in Counters :
          truth'[h] \in [thread : Threads \union {"none"}, count : Nat,
                         shared : BOOLEAN]
    <3>1. \A h \in Counters : ~IsOpen(h) => truth'[h] = truth[h]
      BY <1>1
    <3>2. QED
      BY <1>6, <3>1 DEF PerfInv
  <2>2. QED
    BY <1>1, <2>1
<1>10. ASSUME NEW h \in Counters, IsOpen(h)
       PROVE  /\ table'[counter[h].fd].kind = "event"
              /\ table'[counter[h].fd].config = ConfigOf(counter[h].type)
              /\ table'[counter[h].fd].thread = truth'[h].thread
              /\ CountsRight(h)'
  <2> DEFINE fd == counter[h].fd
  <2>1. /\ fd \in EventFds /\ fd \in Fds /\ table[fd] \in Events
        /\ truth[h] \in [thread : Threads, count : Nat, shared : BOOLEAN]
        /\ counter[h].type \in HwCounters
    BY <1>10, OpenCounter DEF EventFds
  <2>2. /\ table[fd].config = ConfigOf(counter[h].type)
        /\ table[fd].thread = truth[h].thread
        /\ table[fd].count <= truth[h].count
        /\ ~truth[h].shared => table[fd].count = truth[h].count
    BY <1>10 DEF PerfInv, CountsRight, Value
  <2>3. Counts(table[fd].config) = what <=> hit(h)
    BY <2>1, <2>2, NumbersNameCounters
  <2>4. fd \in events <=> truth[h].thread = t
    BY <2>1, <2>2 DEF Events
  <2>5. /\ counted(fd) => truth[h].thread = t /\ hit(h)
        /\ ~busy /\ truth[h].thread = t /\ hit(h) => counted(fd)
    BY <1>2, <1>3, <2>3, <2>4
  <2> HIDE DEF busy, counted, hit, events
  <2>6. /\ table'[fd].count <= truth'[h].count
        /\ ~truth'[h].shared => table'[fd].count = truth'[h].count
    <3>1. /\ table[fd].count \in Nat /\ truth[h].count \in Nat
      BY <2>1 DEF Events
    <3>2. QED
      BY <1>5, <1>6, <1>10, <2>1, <2>2, <2>5, <3>1
  <2>7. QED
    BY <1>5, <1>6, <1>7, <1>10, <2>1, <2>2, <2>6 DEF CountsRight, Value
<1>11. \A fd \in EventFds' : fd \in EventFds
  BY <1>5, KindsDiffer DEF EventFds, PerfInv
<1> HIDE DEF events, busy, hit, counted
<1>12. QED
  BY <1>7, <1>8, <1>9, <1>10, <1>11 DEF PerfInv
LEMMA PerfNextInv ==
  ASSUME PerfInv, [Next]_vars
  PROVE  PerfInv'
<1>1. CASE UNCHANGED perfvars
  BY <1>1 DEF perfvars, PerfInv, IsOpen, EventFds, CountsRight, Value
<1>2. CASE OtherFiles
  BY <1>2, OtherFilesInv
<1>3. ASSUME NEW t \in Threads, NEW what \in HwCounters, Retire(t, what)
      PROVE  PerfInv'
  BY <1>3, RetireInv
<1>4. ASSUME NEW t \in Threads, PerfCall(t) PROVE PerfInv'
  BY <1>4, OpenInv, ResetInv, DropInv DEF PerfCall
<1>5. QED
  BY <1>1, <1>2, <1>3, <1>4 DEF Next, Around, Call, vars, perfvars

LEMMA PerfInvInvariant == Spec => []PerfInv
<1>1. Init => PerfInv
  BY PerfInitInv DEF Init
<1>2. PerfInv /\ [Next]_vars => PerfInv'
  BY PerfNextInv
<1>3. QED
  BY <1>1, <1>2, PTL DEF Spec

(* Counters and events belong together one to one, however descriptors are *)
(* recycled: the drop of a PerfCounter closes its own event and nobody     *)
(* else's file, and no event counts on without its counter.                *)
THEOREM DescriptorsBelong == Spec => []DescriptorsMatch
<1>1. PerfInv => DescriptorsMatch
  <2> SUFFICES ASSUME PerfInv PROVE DescriptorsMatch
    OBVIOUS
  <2>1. \A h \in Counters : IsOpen(h) => counter[h].fd \in EventFds
    BY OpenCounter
  <2>2. ASSUME NEW fd \in EventFds
        PROVE  Cardinality({h \in Counters : counter[h].fd = fd}) = 1
    <3>1. PICK h \in Counters : IsOpen(h) /\ counter[h].fd = fd
      BY DEF PerfInv
    <3>2. \A g \in Counters : counter[g].fd = fd => IsOpen(g)
      BY ClosedCounter DEF EventFds
    <3>3. {g \in Counters : counter[g].fd = fd} = {h}
      BY <3>1, <3>2 DEF PerfInv
    <3>4. QED
      BY <3>3, FS_Singleton
  <2>3. QED
    BY <2>1, <2>2 DEF DescriptorsMatch
<1>2. QED
  BY <1>1, PerfInvInvariant, PTL

(* A PerfCounter reports what its name says of the thread that opened it,  *)
(* wherever that thread is moved and whoever reads the counter; it never   *)
(* reports more, and less only when the processor ran out of room.         *)
THEOREM CountersCountTheirThread == Spec => []CountsItsThread
<1>1. PerfInv => CountsItsThread
  BY DEF PerfInv, CountsItsThread, CountsRight
<1>2. QED
  BY <1>1, PerfInvInvariant, PTL
-----------------------------------------------------------------------------
(* The list that parse_irq_affinity returns.                               *)

(* What the loops append for the bit before n, and their list after it.    *)
Next1(text, n, l) ==
  IF HasBit(text, (n - 1) \div GroupBits, (n - 1) % GroupBits)
    THEN Append(l, ((n - 1) \div GroupBits) * GroupBits + ((n - 1) % GroupBits))
    ELSE l

Loops(f, text, m) ==
  \A n \in 0..m : f[n] = IF n = 0 THEN <<>> ELSE Next1(text, n, f[n - 1])

LEMMA DivMod ==
  ASSUME NEW c \in Nat, NEW g \in Nat \ {0}
  PROVE  (c \div g) * g + (c % g) = c /\ c \div g \in Nat /\ c % g \in 0..g - 1
<1>1. c = g * (c \div g) + (c % g) /\ c \div g \in Nat
  OBVIOUS
<1>2. g * (c \div g) = (c \div g) * g
  BY <1>1
<1>3. QED
  BY <1>1, <1>2

LEMMA Next1IsAList ==
  ASSUME NEW text, NEW n \in Nat \ {0}, NEW l \in Seq(Nat)
  PROVE  Next1(text, n, l) \in Seq(Nat)
<1> DEFINE core == ((n - 1) \div GroupBits) * GroupBits + ((n - 1) % GroupBits)
<1>1. n - 1 \in Nat /\ GroupBits \in Nat \ {0}
  BY AffinityAssumption
<1>2. core \in Nat
  <2> DEFINE c == n - 1
  <2>1. (c \div GroupBits) * GroupBits + (c % GroupBits) = c /\ c \in Nat
    BY <1>1, DivMod
  <2>2. core = c
    BY <2>1
  <2>3. QED
    BY <2>1, <2>2
<1> HIDE DEF core
<1>3. Append(l, core) \in Seq(Nat)
  BY <1>2
<1>4. QED
  BY <1>3 DEF Next1, core

LEMMA LoopsExist ==
  ASSUME NEW text, NEW m \in Nat
  PROVE  \E f \in [0..m -> Seq(Nat)] : Loops(f, text, m)
<1> DEFINE Runs(k) == \E f \in [0..k -> Seq(Nat)] : Loops(f, text, k)
           Bad == {k \in Nat : ~Runs(k)}
<1> HIDE DEF Runs
<1>1. SUFFICES ASSUME Bad # {} PROVE FALSE
  BY DEF Runs
<1>2. PICK k \in Bad : \A j \in Bad : k <= j
  <2>1. Bad \subseteq Nat
    OBVIOUS
  <2> HIDE DEF Bad
  <2>2. QED
    BY <1>1, <2>1, LeastOfNaturals
<1>3. k # 0
  <2>1. Runs(0)
    <3> DEFINE f == [n \in 0..0 |-> <<>>]
    <3>1. f \in [0..0 -> Seq(Nat)] /\ Loops(f, text, 0)
      BY DEF Loops
    <3>2. QED
      BY <3>1 DEF Runs
  <2>2. QED
    BY <1>2, <2>1
<1>4. Runs(k - 1)
  <2>1. k - 1 \in Nat /\ ~(k <= k - 1)
    BY <1>2, <1>3
  <2>2. QED
    BY <1>2, <2>1
<1>5. PICK g \in [0..k - 1 -> Seq(Nat)] : Loops(g, text, k - 1)
  BY <1>4 DEF Runs
<1> DEFINE f == [n \in 0..k |-> IF n = k THEN Next1(text, k, g[k - 1]) ELSE g[n]]
<1>6. f \in [0..k -> Seq(Nat)]
  <2>1. g[k - 1] \in Seq(Nat)
    BY <1>2, <1>3, <1>5
  <2>2. Next1(text, k, g[k - 1]) \in Seq(Nat)
    BY <1>2, <1>3, <2>1, Next1IsAList
  <2>3. \A n \in 0..k : n # k => n \in 0..k - 1
    BY <1>2
  <2>4. QED
    BY <1>5, <2>2, <2>3
<1>7. Loops(f, text, k)
  <2> SUFFICES ASSUME NEW n \in 0..k
               PROVE  f[n] = IF n = 0 THEN <<>> ELSE Next1(text, n, f[n - 1])
    BY DEF Loops
  <2>1. CASE n = k
    <3>1. f[n] = Next1(text, k, g[k - 1]) /\ f[k - 1] = g[k - 1]
      BY <1>2, <1>3, <2>1
    <3> HIDE DEF f
    <3>2. QED
      BY <1>3, <2>1, <3>1
  <2>2. CASE n # k
    <3>1. n \in 0..k - 1
      BY <1>2, <2>2
    <3>2. f[n] = g[n] /\ (n # 0 => f[n - 1] = g[n - 1])
      BY <1>2, <2>2, <3>1
    <3> HIDE DEF f
    <3>3. QED
      BY <1>5, <3>1, <3>2 DEF Loops
  <2>3. QED
    BY <2>1, <2>2
<1>8. Runs(k)
  BY <1>6, <1>7 DEF Runs
<1>9. QED
  BY <1>2, <1>8

(* The list after n bits is that of the cores below n that are set.        *)
Lists(l, text, n) ==
  /\ l \in Seq(Nat)
  /\ \A i \in 1..Len(l) : l[i] < n
  /\ \A i, j \in 1..Len(l) : i < j => l[i] < l[j]
  /\ \A c \in 0..n - 1 :
       HasBit(text, c \div GroupBits, c % GroupBits)
         <=> \E i \in 1..Len(l) : l[i] = c

LEMMA Next1Lists ==
  ASSUME NEW text, NEW n \in Nat \ {0}, NEW l, Lists(l, text, n - 1)
  PROVE  Lists(Next1(text, n, l), text, n)
<1> DEFINE c == n - 1
           core == (c \div GroupBits) * GroupBits + (c % GroupBits)
           has == HasBit(text, c \div GroupBits, c % GroupBits)
<1>1. core = c /\ c \in Nat
  <2>1. GroupBits \in Nat \ {0} /\ c \in Nat
    BY AffinityAssumption
  <2>2. (c \div GroupBits) * GroupBits + (c % GroupBits) = c
    BY <2>1, DivMod
  <2>3. QED
    BY <2>1, <2>2
<1>2. Next1(text, n, l) = IF has THEN Append(l, c) ELSE l
  BY <1>1 DEF Next1
<1>3. /\ l \in Seq(Nat) /\ Len(l) \in Nat
      /\ \A i \in 1..Len(l) : l[i] \in Nat /\ l[i] < c
      /\ \A i, j \in 1..Len(l) : i < j => l[i] < l[j]
      /\ \A d \in 0..c - 1 :
           HasBit(text, d \div GroupBits, d % GroupBits)
             <=> \E i \in 1..Len(l) : l[i] = d
  BY DEF Lists
<1>4. \A d \in 0..n - 1 : d = c \/ d \in 0..c - 1
  OBVIOUS
<1>5. CASE has
  <2> DEFINE m == Append(l, c)
  <2>1. /\ m \in Seq(Nat) /\ Len(m) = Len(l) + 1 /\ m[Len(l) + 1] = c
        /\ \A i \in 1..Len(l) : m[i] = l[i]
    BY <1>1, <1>3
  <2> HIDE DEF m
  <2>2. \A i \in 1..Len(m) : i = Len(l) + 1 \/ i \in 1..Len(l)
    BY <1>3, <2>1
  <2>3. 1..Len(l) \subseteq 1..Len(m) /\ Len(l) + 1 \in 1..Len(m)
    BY <1>3, <2>1
  <2>4. \A i \in 1..Len(m) : m[i] < n
    BY <1>1, <1>3, <2>1, <2>2
  <2>5. ASSUME NEW i \in 1..Len(m), NEW j \in 1..Len(m), i < j
        PROVE  m[i] < m[j]
    <3>1. i \in 1..Len(l)
      BY <1>3, <2>1, <2>5
    <3>2. CASE j = Len(l) + 1
      BY <1>3, <2>1, <3>1, <3>2
    <3>3. CASE j \in 1..Len(l)
      <4>1. l[i] < l[j]
        BY <1>3, <2>5, <3>1, <3>3
      <4>2. QED
        BY <2>1, <3>1, <3>3, <4>1
    <3>4. QED
      BY <2>2, <3>2, <3>3
  <2>6. ASSUME NEW d \in 0..n - 1
        PROVE  HasBit(text, d \div GroupBits, d % GroupBits)
                 <=> \E i \in 1..Len(m) : m[i] = d
    <3>1. CASE d = c
      BY <1>5, <2>1, <2>3, <3>1
    <3>2. CASE d # c
      <4>1. d \in 0..c - 1
        BY <1>4, <3>2
      <4>2. (\E i \in 1..Len(l) : l[i] = d) <=> \E i \in 1..Len(m) : m[i] = d
        BY <2>1, <2>2, <2>3, <3>2
      <4>3. QED
        BY <1>3, <4>1, <4>2
    <3>3. QED
      BY <3>1, <3>2
  <2>7. Lists(m, text, n)
    BY <2>1, <2>4, <2>5, <2>6 DEF Lists
  <2>8. QED
    BY <1>2, <1>5, <2>7 DEF m
<1>6. CASE ~has
  <2>1. \A i \in 1..Len(l) : l[i] < n /\ l[i] # c
    BY <1>1, <1>3
  <2>2. ASSUME NEW d \in 0..n - 1
        PROVE  HasBit(text, d \div GroupBits, d % GroupBits)
                 <=> \E i \in 1..Len(l) : l[i] = d
    <3>1. CASE d = c
      BY <1>6, <2>1, <3>1
    <3>2. CASE d # c
      BY <1>3, <1>4, <3>2
    <3>3. QED
      BY <3>1, <3>2
  <2>3. Lists(l, text, n)
    BY <1>3, <2>1, <2>2 DEF Lists
  <2>4. QED
    BY <1>2, <1>6, <2>3
<1>7. QED
  BY <1>5, <1>6

LEMMA LoopsList ==
  ASSUME NEW text, NEW m \in Nat, NEW f, Loops(f, text, m)
  PROVE  Lists(f[m], text, m)
<1> DEFINE Bad == {k \in 0..m : ~Lists(f[k], text, k)}
<1>1. SUFFICES ASSUME Bad # {} PROVE FALSE
  OBVIOUS
<1>2. PICK k \in Bad : \A j \in Bad : k <= j
  <2>1. Bad \subseteq Nat
    OBVIOUS
  <2> HIDE DEF Bad
  <2>2. QED
    BY <1>1, <2>1, LeastOfNaturals
<1>3. CASE k = 0
  <2>1. f[0] = <<>>
    BY DEF Loops
  <2>2. Lists(<<>>, text, 0)
    BY DEF Lists
  <2>3. QED
    BY <1>2, <1>3, <2>1, <2>2
<1>4. CASE k # 0
  <2>1. k - 1 \in 0..m /\ ~(k <= k - 1) /\ k \in Nat \ {0} /\ k \in 0..m
    BY <1>2, <1>4
  <2>2. Lists(f[k - 1], text, k - 1)
    BY <1>2, <2>1
  <2>3. f[k] = Next1(text, k, f[k - 1])
    BY <1>4, <2>1 DEF Loops
  <2>4. Lists(f[k], text, k)
    BY <2>1, <2>2, <2>3, Next1Lists
  <2>5. QED
    BY <1>2, <2>4
<1>5. QED
  BY <1>3, <1>4

(* What parse_irq_affinity lists, by the bits of the text.                 *)
LEMMA ParsedList ==
  ASSUME NEW text, Len(text) \in Nat
  PROVE  Lists(ParseIrqAffinity(text), text, Len(text) * GroupBits)
<1> DEFINE m == Len(text) * GroupBits
           Made(f) == f = [n \in 0..m |-> IF n = 0 THEN <<>>
                                          ELSE Next1(text, n, f[n - 1])]
           list == CHOOSE f : Made(f)
<1>1. m \in Nat
  BY AffinityAssumption
<1>2. Made(list)
  <2>1. PICK g \in [0..m -> Seq(Nat)] : Loops(g, text, m)
    BY <1>1, LoopsExist
  <2>2. Made(g)
    BY <2>1 DEF Loops
  <2> HIDE DEF Made
  <2>3. QED
    BY <2>2
<1>3. ParseIrqAffinity(text) = list[m]
  BY DEF ParseIrqAffinity, Next1
<1> HIDE DEF list
<1>4. Loops(list, text, m)
  BY <1>2 DEF Loops
<1> HIDE DEF Made, m
<1>5. QED
  BY <1>1, <1>3, <1>4, LoopsList DEF m

(* The bits that the kernel printed are the cores of the mask.             *)
LEMMA PrintedBit ==
  ASSUME NEW mask, NEW c \in 0..Groups * GroupBits - 1
  PROVE  HasBit(SmpAffinity(mask), c \div GroupBits, c % GroupBits) <=> c \in mask
<1> DEFINE text == SmpAffinity(mask)
           idx == c \div GroupBits
           bit == c % GroupBits
<1>1. GroupBits \in Nat \ {0} /\ Groups \in Nat \ {0} /\ c \in Nat
      /\ c < Groups * GroupBits
  <2>1. GroupBits \in Nat \ {0} /\ Groups \in Nat \ {0}
    BY AffinityAssumption
  <2>2. Groups * GroupBits \in Nat
    BY <2>1
  <2>3. QED
    BY <2>1, <2>2
<1>2. idx \in 0..Groups - 1
  BY <1>1, WordOfBit
<1>3. idx * GroupBits + bit = c /\ bit \in 0..GroupBits - 1
  BY <1>1, DivMod
<1>4. text = [g \in 1..Groups |->
               {b \in 0..GroupBits - 1 : (Groups - g) * GroupBits + b \in mask}]
  BY DEF SmpAffinity
<1>5. Len(text) = Groups
  BY <1>1, <1>4
<1> HIDE DEF text, idx, bit
<1>6. LeastFirst(text)[idx + 1] = text[Groups - idx]
  <2>1. LeastFirst(text) = [i \in 1..Groups |-> text[(Groups - i) + 1]]
    BY <1>5 DEF LeastFirst, Reverse
  <2>2. idx + 1 \in 1..Groups /\ (Groups - (idx + 1)) + 1 = Groups - idx
    BY <1>1, <1>2
  <2>3. QED
    BY <2>1, <2>2
<1>7. text[Groups - idx] =
        {b \in 0..GroupBits - 1 : (Groups - (Groups - idx)) * GroupBits + b \in mask}
  <2>1. Groups - idx \in 1..Groups
    BY <1>1, <1>2
  <2>2. QED
    BY <1>4, <2>1
<1>8. Groups - (Groups - idx) = idx
  BY <1>1, <1>2
<1>9. HasBit(text, idx, bit) <=> bit \in text[Groups - idx]
  BY <1>6 DEF HasBit
<1>10. HasBit(text, idx, bit) <=> idx * GroupBits + bit \in mask
  BY <1>3, <1>7, <1>8, <1>9
<1>11. QED
  BY <1>3, <1>10 DEF text, idx, bit

LEMMA PrintedMask ==
  ASSUME NEW mask \in SUBSET Cores
  PROVE  LET list == ParseIrqAffinity(SmpAffinity(mask))
         IN  /\ ToSet(list) = mask
             /\ \A i \in 1..Len(list) - 1 : list[i] < list[i + 1]
<1> DEFINE text == SmpAffinity(mask)
           list == ParseIrqAffinity(text)
           all == Groups * GroupBits
<1>1. Len(text) = Groups /\ Groups \in Nat
  BY AffinityAssumption DEF SmpAffinity
<1>2. Lists(list, text, all)
  BY <1>1, ParsedList
<1>3. mask \subseteq 0..all - 1
  BY AffinityAssumption
<1>4. \A c \in 0..all - 1 :
        HasBit(text, c \div GroupBits, c % GroupBits) <=> c \in mask
  BY PrintedBit
<1> HIDE DEF text, list
<1>5. all \in Nat
  BY AffinityAssumption
<1> HIDE DEF all
<1>6. /\ list \in Seq(Nat)
      /\ \A i \in 1..Len(list) : list[i] < all
      /\ \A i, j \in 1..Len(list) : i < j => list[i] < list[j]
      /\ \A c \in 0..all - 1 : c \in mask <=> \E i \in 1..Len(list) : list[i] = c
  BY <1>2, <1>4 DEF Lists
<1>7. ToSet(list) = mask
  <2>1. ToSet(list) = {list[i] : i \in 1..Len(list)}
    BY <1>6 DEF ToSet
  <2>2. \A i \in 1..Len(list) : list[i] \in 0..all - 1
    BY <1>5, <1>6
  <2>3. QED
    BY <1>3, <1>6, <2>1, <2>2
<1>8. \A i \in 1..Len(list) - 1 : list[i] < list[i + 1]
  <2>1. Len(list) \in Nat
    BY <1>6
  <2>2. \A i \in 1..Len(list) - 1 :
          i \in 1..Len(list) /\ i + 1 \in 1..Len(list) /\ i < i + 1
    BY <2>1
  <2>3. QED
    BY <1>6, <2>2
<1>9. QED
  BY <1>7, <1>8 DEF list, text

(* A list that is fresh is of the mask as it is.                           *)
ListInv ==
  /\ irq \in IrqMasks
  /\ cores = [t \in Threads |-> cores[t]]
  /\ fresh = [t \in Threads |-> fresh[t]]
  /\ \A t \in Threads :
       fresh[t] => cores[t] = <<ParseIrqAffinity(SmpAffinity(irq))>>

LEMMA ListNextInv ==
  ASSUME ListInv, [Next]_vars
  PROVE  ListInv'
<1>1. CASE UNCHANGED <<irq, cores, fresh>>
  BY <1>1 DEF ListInv
<1>2. ASSUME NEW t \in Threads, ReadIrqAffinity(t) PROVE ListInv'
  <2> DEFINE list == <<ParseIrqAffinity(SmpAffinity(irq))>>
  <2>1. /\ cores' = [cores EXCEPT ![t] = list]
        /\ fresh' = [fresh EXCEPT ![t] = TRUE]
        /\ irq' = irq
    BY <1>2 DEF ReadIrqAffinity
  <2>2. list' = list
    BY <2>1
  <2> HIDE DEF list
  <2>3. /\ cores' = [u \in Threads |-> cores'[u]]
        /\ fresh' = [u \in Threads |-> fresh'[u]]
        /\ \A u \in Threads : fresh'[u] => cores'[u] = list
    BY <2>1 DEF ListInv, list
  <2>4. QED
    BY <2>1, <2>2, <2>3 DEF ListInv, list
<1>3. CASE MoveIrq
  BY <1>3 DEF MoveIrq, ListInv
<1>4. ASSUME NEW t \in Threads, Migrate(t) PROVE UNCHANGED <<irq, cores, fresh>>
  BY <1>4 DEF Migrate
<1>5. ASSUME NEW t \in Threads, AffinityCall(t), ~ReadIrqAffinity(t)
      PROVE  UNCHANGED <<irq, cores, fresh>>
  BY <1>5 DEF AffinityCall, PinToCore, PinToNumaNode, CurrentNode
<1>6. CASE UNCHANGED affvars
  BY <1>1, <1>6 DEF affvars
<1>7. QED
  BY <1>1, <1>2, <1>3, <1>4, <1>5, <1>6
     DEF Next, Around, Call, vars, affvars

(* The list that read_irq_affinity returned, as long as nobody moves the   *)
(* interrupt, is that of its cores: none is missing, none is there twice   *)
(* and none is a core of another group.                                    *)
THEOREM ListsAreMasks == Spec => []ListIsTheMask
<1>1. Init => ListInv
  BY DEF Init, AffInit, ListInv
<1>2. ListInv /\ [Next]_vars => ListInv'
  BY ListNextInv
<1>3. ListInv => ListIsTheMask
  <2> SUFFICES ASSUME ListInv, NEW t \in Threads, fresh[t]
               PROVE  LET list == cores[t][1] IN
                        /\ ToSet(list) = irq
                        /\ \A i \in 1..Len(list) - 1 : list[i] < list[i + 1]
    BY DEF ListIsTheMask
  <2>1. cores[t][1] = ParseIrqAffinity(SmpAffinity(irq))
    BY DEF ListInv
  <2>2. irq \in SUBSET Cores
    BY AffinityAssumption DEF ListInv
  <2>3. QED
    BY <2>1, <2>2, PrintedMask
<1>4. QED
  BY <1>1, <1>2, <1>3, PTL DEF Spec
=============================================================================
