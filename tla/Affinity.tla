------------------------------ MODULE Affinity -------------------------------
(***************************************************************************)
(* src/affinity.rs and current_node of src/numa.rs: threads ask on which   *)
(* cores an interrupt is handled, pin themselves to a core or to the cores *)
(* of a NUMA node, and ask on which node they are.                         *)
(*                                                                         *)
(* External: the scheduler, which moves a thread among the cores it may    *)
(* run on, and the administrator, who moves the interrupt.  Masks of cores *)
(* are passed in words and printed in groups; a word or a group is the set *)
(* of its one bits.                                                        *)
(***************************************************************************)
EXTENDS Integers, SequencesExt

CONSTANTS
  Threads,
  Cores,       \* the cores of the machine
  NodeOf,      \* the NUMA node of each core
  CoreArgs,    \* the arguments of pin_to_core tried
  IrqMasks,    \* the sets of cores that may handle the interrupt
  NoCore,      \* no pin_to_core is in force
  CpuSetSize,  \* CPU_SETSIZE
  WordBits,    \* usize::BITS
  GroupBits,   \* 32, the bits in a group of smp_affinity
  Groups,      \* the groups this kernel prints
  MaxMoves     \* bound: how often the interrupt is moved

ASSUME AffinityAssumption ==
  /\ {WordBits, GroupBits, Groups} \subseteq Nat \ {0}
  /\ CpuSetSize \in Nat /\ MaxMoves \in Nat
  /\ Cores # {} /\ Cores \subseteq 0..Groups * GroupBits - 1
  /\ NodeOf \in [Cores -> Nat]
  /\ CoreArgs \subseteq Nat /\ NoCore \notin Nat
  /\ IrqMasks \subseteq SUBSET Cores

VARIABLES
  allowed,   \* the cores each thread may run on
  on,        \* the core it runs on
  pinned,    \* the core of its latest pin_to_core, unless pinned to a node since
  seen,      \* what current_node has told it since it was pinned, a set
  irq,       \* the cores that handle the interrupt
  moves,     \* how often they have changed
  cores,     \* what read_irq_affinity returned to it: <<>> or a tuple of a list
  fresh      \* whether the interrupt has not been moved since

affvars == <<allowed, on, pinned, seen, irq, moves, cores, fresh>>

AffInit ==
  /\ allowed = [t \in Threads |-> Cores]
  /\ on \in [Threads -> Cores]
  /\ pinned = [t \in Threads |-> NoCore]
  /\ seen = [t \in Threads |-> {}]
  /\ irq \in IrqMasks
  /\ moves = 0
  /\ cores = [t \in Threads |-> <<>>]
  /\ fresh = [t \in Threads |-> FALSE]

-----------------------------------------------------------------------------
CpuSetWords == (CpuSetSize + WordBits - 1) \div WordBits

MaxCore == CpuSetWords * WordBits

(* Mutant: word and bit the wrong way round.                               *)
MaskOfSwapped(core) ==
  [w \in 0..CpuSetWords - 1 |->
     IF w = core % CpuSetWords THEN {core \div CpuSetWords} ELSE {}]

(* The mask of pin_to_core: one bit in one word.                           *)
MaskOf(core) ==
  [w \in 0..CpuSetWords - 1 |->
     IF w = core \div WordBits THEN {core % WordBits} ELSE {}]

(* The cores sched_setaffinity takes from a mask.                          *)
CoresIn(mask) ==
  {c \in Cores : c < MaxCore /\ c % WordBits \in mask[c \div WordBits]}

(* sched_setaffinity: a thread on a core it may not use any more is moved. *)
RunOn(t, set) ==
  /\ set # {}
  /\ allowed' = [allowed EXCEPT ![t] = set]
  /\ \E c \in set : on' = [on EXCEPT ![t] = IF @ \in set THEN @ ELSE c]
  /\ seen' = [seen EXCEPT ![t] = {}]

(* pin_to_core.  It fails, and changes nothing, beyond the mask and for a  *)
(* core this machine does not have.                                        *)
PinToCore(t, core) ==
  /\ core < MaxCore
  /\ RunOn(t, CoresIn(MaskOf(core)))
  /\ pinned' = [pinned EXCEPT ![t] = core]
  /\ UNCHANGED <<irq, moves, cores, fresh>>

(* pin_to_numa_node where pin_to_node places the thread.  Where it fails,  *)
(* or is a no-op because there is no libnuma, nothing changes.             *)
PinToNumaNode(t, node) ==
  /\ RunOn(t, {c \in Cores : NodeOf[c] = node})
  /\ pinned' = [pinned EXCEPT ![t] = NoCore]
  /\ UNCHANGED <<irq, moves, cores, fresh>>

(* current_node: getcpu.                                                   *)
CurrentNode(t) ==
  /\ seen' = [seen EXCEPT ![t] = @ \union {NodeOf[on[t]]}]
  /\ UNCHANGED <<allowed, on, pinned, irq, moves, cores, fresh>>

(* What the kernel prints: the group of the highest cores first.           *)
SmpAffinity(mask) ==
  [g \in 1..Groups |->
     {b \in 0..GroupBits - 1 : (Groups - g) * GroupBits + b \in mask}]

(* Mutant: the groups are taken in the order of the text.                  *)
GroupsInOrder(text) == text

(* split(',').rev()                                                        *)
LeastFirst(text) == Reverse(text)

HasBit(text, idx, bit) == bit \in LeastFirst(text)[idx + 1]

(* parse_irq_affinity of a text that parses: the loop over the groups and  *)
(* the one over the bits 0..31 of each (a group may be longer) in one,     *)
(* with the list as it is after n bits.                                    *)
ParseIrqAffinity(text) ==
  LET idx(n) == (n - 1) \div GroupBits
      bit(n) == (n - 1) % GroupBits
      list[n \in 0..Len(text) * GroupBits] ==
        IF n = 0 THEN <<>>
        ELSE IF HasBit(text, idx(n), bit(n))
               THEN Append(list[n - 1], idx(n) * GroupBits + bit(n))
               ELSE list[n - 1]
  IN  list[Len(text) * GroupBits]

(* read_irq_affinity; where the file cannot be read, nothing changes.      *)
ReadIrqAffinity(t) ==
  /\ cores' = [cores EXCEPT ![t] = <<ParseIrqAffinity(SmpAffinity(irq))>>]
  /\ fresh' = [fresh EXCEPT ![t] = TRUE]
  /\ UNCHANGED <<allowed, on, pinned, seen, irq, moves>>

AffinityCall(t) ==
  \/ \E core \in CoreArgs : PinToCore(t, core)
  \/ \E node \in {NodeOf[c] : c \in Cores} : PinToNumaNode(t, node)
  \/ CurrentNode(t)
  \/ ReadIrqAffinity(t)

(* The scheduler.                                                          *)
Migrate(t) ==
  /\ \E c \in allowed[t] : on' = [on EXCEPT ![t] = c]
  /\ UNCHANGED <<allowed, pinned, seen, irq, moves, cores, fresh>>

(* The administrator, or irqbalance.                                       *)
MoveIrq ==
  /\ moves < MaxMoves
  /\ moves' = moves + 1
  /\ irq' \in IrqMasks
  /\ fresh' = [t \in Threads |-> FALSE]
  /\ UNCHANGED <<allowed, on, pinned, seen, cores>>
-----------------------------------------------------------------------------
(* A thread that pin_to_core returned Ok to stays on that core, and        *)
(* current_node names the core's node and no other, wherever the word      *)
(* boundaries of the mask are and whatever the scheduler does.             *)
PinnedThreadStays ==
  \A t \in Threads : pinned[t] # NoCore =>
    /\ on[t] = pinned[t]
    /\ seen[t] \subseteq {NodeOf[on[t]]}

(* read_irq_affinity lists the cores of the interrupt, all of them, in     *)
(* order and once each, on both sides of a group boundary.                 *)
ListIsTheMask ==
  \A t \in Threads : fresh[t] =>
    LET list == cores[t][1] IN
      /\ ToSet(list) = irq
      /\ \A i \in 1..Len(list) - 1 : list[i] < list[i + 1]
=============================================================================
