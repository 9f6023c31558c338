----------------------------- MODULE ScanHints ------------------------------
(***************************************************************************)
(* The hints of a scan pipeline together: its threads prefetch the lines   *)
(* of the memory they scan (Prefetch, with CpuFeatures below it), and give *)
(* the kernel advice on the pages of the file it comes from (PageCache).   *)
(* Any order of the calls is legal; a page step counts as a call.          *)
(***************************************************************************)
EXTENDS Prefetch, PageCache

vars == <<cpuvars, callvars, pagevars>>

Init == PrefetchInit /\ PageInit

Finished ==
  /\ calls = MaxCalls /\ \A t \in Threads : pc[t] = "idle"
  /\ UNCHANGED vars

Next ==
  \/ PrefetchNext /\ UNCHANGED pagevars
  \/ /\ PageNext /\ Count
     /\ UNCHANGED <<cpuvars, pc, arg, offset, touched, got>>
  \/ Finished

(* A thread inside a call runs on; the file reads of the detection cannot  *)
(* block, and the thread that waits for it is woken by OnceLock.           *)
Fairness ==
  \A t \in Threads : WF_vars(Inside(t) /\ UNCHANGED pagevars)

Spec == Init /\ [][Next]_vars /\ Fairness
-----------------------------------------------------------------------------
(* Both halves have their types.                                           *)
TypeOK == PrefetchTypeOK /\ PageTypeOK
=============================================================================
