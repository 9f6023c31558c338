------------------------------ MODULE LoadOnce ------------------------------
(***************************************************************************)
(* What LinuxNuma::load promises to the threads that call it: there is one *)
(* answer for the life of the process.  Until it is found a call may fail, *)
(* and another call tries again; once it is found every call returns it    *)
(* and no call fails any more.                                             *)
(***************************************************************************)
CONSTANTS
  Threads,
  Values,    \* the answers there can be
  Unset,     \* no answer yet
  Failed     \* a call that returned an error

VARIABLES
  cell,      \* the answer, once it is found
  waiting,   \* the threads in a call
  answer     \* what the latest call of each thread returned

absvars == <<cell, waiting, answer>>

AbsInit ==
  /\ cell = Unset
  /\ waiting = {}
  /\ answer = [t \in Threads |-> Unset]

AbsCall(t) ==
  /\ t \notin waiting
  /\ waiting' = waiting \union {t}
  /\ UNCHANGED <<cell, answer>>

(* A waiting thread finds the answer.                                      *)
Find ==
  /\ waiting # {}
  /\ cell = Unset
  /\ cell' \in Values
  /\ UNCHANGED <<waiting, answer>>

AbsReturn(t) ==
  /\ t \in waiting
  /\ \/ cell \in Values /\ answer' = [answer EXCEPT ![t] = cell]
     \/ cell = Unset /\ answer' = [answer EXCEPT ![t] = Failed]
  /\ waiting' = waiting \ {t}
  /\ UNCHANGED cell

AbsNext == (\E t \in Threads : AbsCall(t) \/ AbsReturn(t)) \/ Find

AbsSpec == AbsInit /\ [][AbsNext]_absvars
=============================================================================
