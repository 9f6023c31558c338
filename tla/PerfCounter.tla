----------------------------- MODULE PerfCounter -----------------------------
(***************************************************************************)
(* src/perf.rs: PerfCounter::open, read, reset and drop.  A counter is a   *)
(* descriptor of an event the kernel counts for the thread that opened it; *)
(* the program may hand the counter to another thread and read it there.   *)
(* Descriptors that are closed are given out again, to counters and to     *)
(* everything else the program opens.                                      *)
(*                                                                         *)
(* External: the descriptor table, and the processor, which has room for   *)
(* some events of a thread at a time.  The kernel takes turns with others, *)
(* and read() asks for no times to make up for it.                         *)
(***************************************************************************)
EXTENDS Affinity, FiniteSetsExt

CONSTANTS
  Counters,    \* the variables of the program that can hold a PerfCounter
  Fds,         \* the descriptors there are
  HwCounters,  \* the values of HwCounter used
  Slots,       \* how many events of a thread the processor counts at a time
  MaxRetired   \* bound: the things counted in a behaviour

ASSUME PerfAssumption ==
  /\ Fds \subseteq Nat /\ IsFiniteSet(Fds)
  /\ HwCounters \subseteq {"Cycles", "Instructions", "CacheMisses", "BranchMisses"}
  /\ Slots \in Nat \ {0} /\ MaxRetired \in Nat

VARIABLES
  table,     \* what each descriptor refers to
  counter,   \* each PerfCounter
  truth,     \* history: what it should have counted since open or reset,
             \* and whether the kernel took turns meanwhile
  retired    \* how many things have happened

perfvars == <<table, counter, truth, retired>>

Free == [kind |-> "free"]
OtherFile == [kind |-> "file"]
AnyCore == -1

Event(t, core, config) ==
  [kind |-> "event", thread |-> t, core |-> core, config |-> config, count |-> 0]

NoCounter == [fd |-> -1, type |-> "none"]
NoTruth == [thread |-> "none", count |-> 0, shared |-> FALSE]

PerfInit ==
  /\ table = [fd \in Fds |-> Free]
  /\ counter = [h \in Counters |-> NoCounter]
  /\ truth = [h \in Counters |-> NoTruth]
  /\ retired = 0

IsOpen(h) == counter[h] # NoCounter
EventFds == {fd \in Fds : table[fd].kind = "event"}
FreeFds == {fd \in Fds : table[fd] = Free}

-----------------------------------------------------------------------------
(* The match in open.                                                      *)
ConfigOf(type) ==
  CASE type = "Cycles" -> 0 [] type = "Instructions" -> 1
    [] type = "CacheMisses" -> 3 [] type = "BranchMisses" -> 5

(* PERF_COUNT_HW_*: what the kernel counts by that number.                 *)
Counts(config) ==
  CASE config = 0 -> "Cycles" [] config = 1 -> "Instructions"
    [] config = 2 -> "CacheReferences" [] config = 3 -> "CacheMisses"
    [] config = 5 -> "BranchMisses"

(* Mutant: the event is bound to the core of the moment.                   *)
CoreOfMoment(t) == on[t]

(* cpu = -1                                                                *)
CoreOfEvent(t) == AnyCore

(* open.  Where the kernel refuses, nothing changes.                       *)
Open(t, h, type) ==
  /\ ~IsOpen(h) /\ FreeFds # {}
  /\ LET fd == Min(FreeFds) IN
       /\ table' = [table EXCEPT ![fd] =
                      Event(t, CoreOfEvent(t), ConfigOf(type))]
       /\ counter' = [counter EXCEPT ![h] = [fd |-> fd, type |-> type]]
  /\ truth' = [truth EXCEPT ![h] = [thread |-> t, count |-> 0, shared |-> FALSE]]
  /\ UNCHANGED retired

(* read, in any thread; where it fails there is no value.                  *)
Value(h) == table[counter[h].fd].count

(* reset, in any thread.                                                   *)
Reset(h) ==
  /\ IsOpen(h)
  /\ table' = [table EXCEPT ![counter[h].fd].count = 0]
  /\ truth' = [truth EXCEPT ![h].count = 0, ![h].shared = FALSE]
  /\ UNCHANGED <<counter, retired>>

(* Mutant: no Drop.                                                        *)
ForgetFd(fd) == UNCHANGED table

CloseFd(fd) == table' = [table EXCEPT ![fd] = Free]

(* Drop, in any thread.                                                    *)
DropCounter(h) ==
  /\ IsOpen(h)
  /\ CloseFd(counter[h].fd)
  /\ counter' = [counter EXCEPT ![h] = NoCounter]
  /\ truth' = [truth EXCEPT ![h] = NoTruth]
  /\ UNCHANGED retired

(* The rest of the program opens and closes descriptors too.               *)
OtherFiles ==
  /\ \/ FreeFds # {} /\ table' = [table EXCEPT ![Min(FreeFds)] = OtherFile]
     \/ \E fd \in Fds :
          table[fd] = OtherFile /\ table' = [table EXCEPT ![fd] = Free]
  /\ UNCHANGED <<counter, truth, retired>>

(* Something to count happens in thread t.  The kernel counts it in as     *)
(* many of the thread's events as the processor has room for.              *)
Retire(t, what) ==
  /\ retired < MaxRetired /\ retired' = retired + 1
  /\ LET events == {fd \in EventFds : table[fd].thread = t
                                        /\ table[fd].core \in {AnyCore, on[t]}}
     IN  \E running \in kSubset(Min({Slots, Cardinality(events)}), events) :
           /\ table' = [fd \in Fds |->
                IF fd \in running /\ Counts(table[fd].config) = what
                  THEN [table[fd] EXCEPT !.count = @ + 1] ELSE table[fd]]
           /\ truth' = [h \in Counters |->
                IF IsOpen(h) /\ truth[h].thread = t
                  THEN [truth[h] EXCEPT
                          !.count = IF counter[h].type = what THEN @ + 1 ELSE @,
                          !.shared = @ \/ Cardinality(events) > Slots]
                  ELSE truth[h]]
  /\ UNCHANGED counter

PerfCall(t) ==
  \E h \in Counters :
    \/ \E type \in HwCounters : Open(t, h, type)
    \/ Reset(h)
    \/ DropCounter(h)
-----------------------------------------------------------------------------
(* Counters and events belong together one to one: a drop closes its own   *)
(* event and nobody else's file, however descriptors are recycled, and no  *)
(* event goes on counting after its counter is gone.                       *)
DescriptorsMatch ==
  /\ \A h \in Counters : IsOpen(h) => counter[h].fd \in EventFds
  /\ \A fd \in EventFds :
       Cardinality({h \in Counters : counter[h].fd = fd}) = 1

(* A counter has counted what its name says, for the thread that opened it *)
(* and for no other, on every core that thread was moved or pinned to, and *)
(* in whatever thread it is reset and read.  It never reports more, and it *)
(* reports less only if the thread had more counters open than the         *)
(* processor has room for.                                                 *)
CountsItsThread ==
  \A h \in Counters : IsOpen(h) =>
    /\ Value(h) <= truth[h].count
    /\ ~truth[h].shared => Value(h) = truth[h].count
=============================================================================
