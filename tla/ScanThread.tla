----------------------------- MODULE ScanThread ------------------------------
(***************************************************************************)
(* The threads of a scan: they place themselves (Affinity) and count what  *)
(* they do (PerfCounter) while the scheduler moves them about.             *)
(***************************************************************************)
EXTENDS PerfCounter

CONSTANT MaxCalls    \* bound: the calls of all threads together

VARIABLE calls

vars == <<affvars, perfvars, calls>>

Init == AffInit /\ PerfInit /\ calls = 0

Count == calls < MaxCalls /\ calls' = calls + 1

(* One call; one that fails is a step of its own that changes nothing.     *)
Call(t) ==
  /\ Count
  /\ \/ AffinityCall(t) /\ UNCHANGED perfvars
     \/ PerfCall(t) /\ UNCHANGED affvars
     \/ UNCHANGED <<affvars, perfvars>>

(* What happens around the calls.                                          *)
Around ==
  /\ \/ \E t \in Threads : Migrate(t) /\ UNCHANGED perfvars
     \/ MoveIrq /\ UNCHANGED perfvars
     \/ OtherFiles /\ UNCHANGED affvars
     \/ \E t \in Threads, what \in HwCounters :
          Retire(t, what) /\ UNCHANGED affvars
  /\ UNCHANGED calls

Next == Around \/ \E t \in Threads : Call(t)

Spec == Init /\ [][Next]_vars
=============================================================================
