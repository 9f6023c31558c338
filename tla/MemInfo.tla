------------------------------ MODULE MemInfo -------------------------------
(***************************************************************************)
(* src/memory.rs: memory_pressure reads /proc/meminfo line by line, stops  *)
(* as soon as it has the two values it wants, and makes up for a missing   *)
(* MemAvailable from three other lines.                                    *)
(*                                                                         *)
(* The file is external.  Its lines come in any order, any of them may be  *)
(* absent, and a value is a number of KiB or has no digits a u64 can hold. *)
(***************************************************************************)
EXTENDS Integers, SequencesExt

CONSTANTS
  Kibs,      \* the numbers tried
  Bad,       \* a value that does not parse
  None,      \* a field that has no value yet
  Kib,       \* KIB_TO_BYTES
  U64Max     \* the largest u64

ASSUME MemInfoAssumption ==
  /\ U64Max \in Nat /\ Kib \in Nat \ {0}
  /\ Kibs \subseteq 0..U64Max
  /\ Bad \notin Nat /\ None \notin Nat /\ Bad # None

Fields == {"MemTotal", "MemAvailable", "MemFree", "Buffers", "Cached"}

Lines == [field : Fields, value : Kibs \union {Bad}]

VARIABLES
  file,     \* the lines of /proc/meminfo, those of other fields left out
  at,       \* the line the loop is at
  kib,      \* mem_total_kib, mem_available_kib, ..., by field
  pc,       \* "open", "read" in the loop, then "done", or "failed" with an
            \* Error::SysfsParse, or "unreadable" with an Error::SysfsRead
  status    \* the MemoryStatus that is returned

vars == <<file, at, kib, pc, status>>

Zero == [total_bytes |-> 0, available_bytes |-> 0]

Init ==
  /\ \E fields \in SUBSET Fields :
       \E order \in SetToSeqs(fields), value \in [fields -> Kibs \union {Bad}] :
         file = [k \in DOMAIN order |->
                   [field |-> order[k], value |-> value[order[k]]]]
  /\ at = 1
  /\ kib = [f \in Fields |-> None]
  /\ pc = "open"
  /\ status = Zero

(* read_to_string reads the whole file, or fails.                          *)
ReadFile ==
  /\ pc = "open"
  /\ pc' \in {"read", "unreadable"}
  /\ UNCHANGED <<file, at, kib, status>>

ParseKibValue(value) == IF value = Bad THEN None ELSE value

(* Mutant: one of the two values is enough.                                *)
StopsAtFirst(f, seen) == f \in {"MemTotal", "MemAvailable"}

(* The break after a line of MemTotal or MemAvailable.                     *)
Stops(f, seen) ==
  /\ f \in {"MemTotal", "MemAvailable"}
  /\ seen["MemTotal"] # None /\ seen["MemAvailable"] # None

(* One round of the loop; a break leaves it behind the last line.          *)
ReadLine ==
  /\ pc = "read" /\ at <= Len(file)
  /\ LET line == file[at] IN
       /\ kib' = [kib EXCEPT ![line.field] = ParseKibValue(line.value)]
       /\ at' = IF Stops(line.field, kib') THEN Len(file) + 1 ELSE at + 1
  /\ UNCHANGED <<file, pc, status>>

KibToBytes(n) == IF n * Kib > U64Max THEN U64Max ELSE n * Kib

(* checked_add: None beyond U64Max.                                        *)
CheckedAdd(a, b) == IF a + b > U64Max THEN None ELSE a + b

OrZero(n) == IF n = None THEN 0 ELSE n

(* The estimate of kernels without MemAvailable.                           *)
Estimate ==
  IF kib["MemFree"] = None THEN None
  ELSE LET sum == CheckedAdd(kib["MemFree"], OrZero(kib["Buffers"])) IN
         IF sum = None THEN None ELSE CheckedAdd(sum, OrZero(kib["Cached"]))

Available ==
  IF kib["MemAvailable"] # None THEN kib["MemAvailable"] ELSE Estimate

(* The two ok_or(SysfsParse), and the result.                              *)
Finish ==
  /\ pc = "read" /\ at > Len(file)
  /\ IF None \in {kib["MemTotal"], Available}
       THEN pc' = "failed" /\ UNCHANGED status
       ELSE /\ pc' = "done"
            /\ status' = [total_bytes |-> KibToBytes(kib["MemTotal"]),
                          available_bytes |-> KibToBytes(Available)]
  /\ UNCHANGED <<file, at, kib>>

Stopped == pc \in {"done", "failed", "unreadable"} /\ UNCHANGED vars

Next == ReadFile \/ ReadLine \/ Finish \/ Stopped

Spec == Init /\ [][Next]_vars
-----------------------------------------------------------------------------
(* What the file says of a field, wherever it says it.                     *)
Numbers(f) == {n \in Kibs : [field |-> f, value |-> n] \in ToSet(file)}

NumberOrZero(f) ==
  IF Numbers(f) = {} THEN 0 ELSE CHOOSE n \in Numbers(f) : TRUE

Bounded(n) == IF n > U64Max THEN U64Max ELSE n

(* The result is that of the file as a set of lines: neither their order   *)
(* nor the early end of the loop makes a difference, MemAvailable wins     *)
(* over the estimate wherever it stands, bytes beyond u64 saturate, and an *)
(* error means that the file could not be read or really does not tell.    *)
(* This is what the code does, and not what the comment of                 *)
(* read_from_meminfo says: that a MemAvailable that is missing or does not *)
(* parse is an error.  The code estimates it.                              *)
ResultIsOfTheFile ==
  LET estimate ==
        NumberOrZero("MemFree") + NumberOrZero("Buffers") + NumberOrZero("Cached")
      lacks_estimate == Numbers("MemFree") = {} \/ estimate > U64Max
      available == IF Numbers("MemAvailable") = {}
                     THEN estimate ELSE NumberOrZero("MemAvailable")
  IN  /\ pc = "done" =>
           /\ status.total_bytes = Bounded(NumberOrZero("MemTotal") * Kib)
           /\ status.available_bytes = Bounded(available * Kib)
      /\ pc = "failed" =>
           \/ Numbers("MemTotal") = {}
           \/ Numbers("MemAvailable") = {} /\ lacks_estimate
=============================================================================
