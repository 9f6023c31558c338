----------------------------- MODULE NumaLoader -----------------------------
(***************************************************************************)
(* src/numa.rs: LinuxNuma::load.  Threads that need libnuma share one      *)
(* OnceLock, LIBRARY, and serialise the attempts to fill it with a mutex,  *)
(* INIT_LOCK.  An attempt opens the candidate libraries in turn; what it   *)
(* finds is cached, an error is not.                                       *)
(*                                                                         *)
(* The libraries on disk are external and may be installed, upgraded or    *)
(* removed while the process runs.  A library is "missing", "broken" (one  *)
(* of the four symbols is not there), "unavailable" (numa_available says   *)
(* that this system has no NUMA support) or "usable".                      *)
(***************************************************************************)
EXTENDS Integers, Sequences

CONSTANTS
  Threads,
  Libraries,    \* the names of the candidates
  Candidates,   \* candidates, in the order of the code
  NoLibrary,    \* the answer None: libnuma is of no use here
  Unset,        \* LIBRARY before it is set
  Failed,       \* a call that returned an error
  NoThread,     \* INIT_LOCK when it is free
  MaxCalls,     \* bound: the calls of each thread
  MaxInstalls   \* bound: the changes to the libraries on disk

ASSUME NumaLoaderAssumption ==
  /\ Candidates \in Seq(Libraries)
  /\ NoLibrary \notin Libraries
  /\ {Unset, Failed} \intersect (Libraries \union {NoLibrary}) = {}
  /\ NoThread \notin Threads
  /\ MaxCalls \in Nat /\ MaxInstalls \in Nat

Values == Libraries \union {NoLibrary}

Statuses == {"missing", "broken", "unavailable", "usable"}

VARIABLES
  status,     \* each library as it is on disk
  installs,   \* how often that changed
  handles,    \* how many libloading::Library objects hold each library open
  cell,       \* LIBRARY
  holder,     \* the thread that holds INIT_LOCK
  pc,         \* the next step of each thread
  next,       \* the candidate it looks at, an index
  image,      \* the status of the library it has open
  value,      \* the result of its try_load
  answer,     \* what its latest call of load returned
  calls       \* how many calls it has made

env == <<status, installs>>
locals == <<next, image, value>>
vars == <<status, installs, handles, cell, holder, pc, next, image, value,
          answer, calls>>

Init ==
  /\ status \in [Libraries -> Statuses]
  /\ installs = 0
  /\ handles = [l \in Libraries |-> 0]
  /\ cell = Unset
  /\ holder = NoThread
  /\ pc = [t \in Threads |-> "idle"]
  /\ next = [t \in Threads |-> 1]
  /\ image = [t \in Threads |-> "missing"]
  /\ value = [t \in Threads |-> NoLibrary]
  /\ answer = [t \in Threads |-> Unset]
  /\ calls = [t \in Threads |-> 0]

Goto(t, step) == pc' = [pc EXCEPT ![t] = step]

Return(t, result) ==
  /\ Goto(t, "idle")
  /\ answer' = [answer EXCEPT ![t] = result]

(* The guard of INIT_LOCK is dropped on every return that holds it.        *)
UnlockAndReturn(t, result) == Return(t, result) /\ holder' = NoThread

(* Mutant: one close too many.                                             *)
CloseTwice(l) == handles' = [handles EXCEPT ![l] = @ - 2]

(* Mutant: the library is forgotten instead of dropped.                    *)
ForgetLibrary(l) == UNCHANGED handles

(* The drop of a libloading::Library.                                      *)
CloseLibrary(l) == handles' = [handles EXCEPT ![l] = @ - 1]

Call(t) ==
  /\ pc[t] = "idle"
  /\ calls[t] < MaxCalls
  /\ calls' = [calls EXCEPT ![t] = @ + 1]
  /\ Goto(t, "get")
  /\ UNCHANGED <<env, handles, cell, holder, locals, answer>>

FastPath(t) ==
  /\ pc[t] = "get"
  /\ IF cell # Unset
       THEN Return(t, cell)
       ELSE Goto(t, "lock") /\ UNCHANGED answer
  /\ UNCHANGED <<env, handles, cell, holder, locals, calls>>

Lock(t) ==
  /\ pc[t] = "lock"
  /\ holder = NoThread
  /\ holder' = t
  /\ Goto(t, "get again")
  /\ UNCHANGED <<env, handles, cell, locals, answer, calls>>

(* Mutant: the lock is trusted to mean that nobody has set the cell.       *)
DoNotGetAgain(t) ==
  /\ pc[t] = "get again"
  /\ Goto(t, "open")
  /\ next' = [next EXCEPT ![t] = 1]
  /\ UNCHANGED <<env, handles, cell, holder, image, value, answer, calls>>

GetAgain(t) ==
  /\ pc[t] = "get again"
  /\ IF cell # Unset
       THEN UnlockAndReturn(t, cell) /\ UNCHANGED next
       ELSE /\ Goto(t, "open")
            /\ next' = [next EXCEPT ![t] = 1]
            /\ UNCHANGED <<holder, answer>>
  /\ UNCHANGED <<env, handles, cell, image, value, calls>>

(* Mutant: the loop stays on its candidate.                                *)
SameCandidate(t) == UNCHANGED next

NextCandidate(t) == next' = [next EXCEPT ![t] = @ + 1]

(* The head of the loop of try_load, and Library::new in load_from_name.   *)
(* LibraryLoad goes on with the next candidate, which at the end is none.  *)
OpenLibrary(t) ==
  /\ pc[t] = "open"
  /\ \/ /\ next[t] > Len(Candidates)
        /\ value' = [value EXCEPT ![t] = NoLibrary]
        /\ Goto(t, "set")
        /\ UNCHANGED <<handles, next, image>>
     \/ /\ next[t] <= Len(Candidates)
        /\ LET l == Candidates[next[t]] IN
             IF status[l] = "missing"
               THEN /\ NextCandidate(t)
                    /\ UNCHANGED <<handles, pc, image>>
               ELSE /\ handles' = [handles EXCEPT ![l] = @ + 1]
                    /\ image' = [image EXCEPT ![t] = status[l]]
                    /\ Goto(t, "resolve")
                    /\ UNCHANGED next
        /\ UNCHANGED value
  /\ UNCHANGED <<env, cell, holder, answer, calls>>

(* The four symbols: SymbolLoad leaves load_from_name, try_load and load   *)
(* with an error, and the library is closed on the way.                    *)
ResolveSymbols(t) ==
  /\ pc[t] = "resolve"
  /\ IF image[t] = "broken"
       THEN UnlockAndReturn(t, Failed) /\ CloseLibrary(Candidates[next[t]])
       ELSE Goto(t, "available") /\ UNCHANGED <<handles, holder, answer>>
  /\ UNCHANGED <<env, cell, locals, calls>>

(* numa_available() < 0 closes the library and goes on with the next one.  *)
CheckAvailable(t) ==
  /\ pc[t] = "available"
  /\ LET l == Candidates[next[t]] IN
       IF image[t] = "unavailable"
         THEN /\ CloseLibrary(l)
              /\ NextCandidate(t)
              /\ Goto(t, "open")
              /\ UNCHANGED value
         ELSE /\ value' = [value EXCEPT ![t] = l]
              /\ Goto(t, "set")
              /\ UNCHANGED <<handles, next>>
  /\ UNCHANGED <<env, cell, holder, image, answer, calls>>

(* LIBRARY.set(value): a cell that is set already refuses the value, which *)
(* is dropped and closes its library.                                      *)
SetCell(t) ==
  /\ pc[t] = "set"
  /\ IF cell = Unset
       THEN cell' = value[t] /\ UNCHANGED handles
       ELSE /\ UNCHANGED cell
            /\ IF value[t] \in Libraries THEN CloseLibrary(value[t])
                                         ELSE UNCHANGED handles
  /\ Goto(t, "read back")
  /\ UNCHANGED <<env, holder, locals, answer, calls>>

ReadBack(t) ==
  /\ pc[t] = "read back"
  /\ UnlockAndReturn(t, IF cell # Unset THEN cell ELSE Failed)
  /\ UNCHANGED <<env, handles, cell, locals, calls>>

(* Somebody installs, breaks or removes a library.                         *)
Install(l, s) ==
  /\ installs < MaxInstalls
  /\ status[l] # s
  /\ status' = [status EXCEPT ![l] = s]
  /\ installs' = installs + 1
  /\ UNCHANGED <<handles, cell, holder, pc, locals, answer, calls>>

Step(t) ==
  \/ FastPath(t)
  \/ Lock(t)
  \/ GetAgain(t)
  \/ OpenLibrary(t)
  \/ ResolveSymbols(t)
  \/ CheckAvailable(t)
  \/ SetCell(t)
  \/ ReadBack(t)

Finished ==
  /\ \A t \in Threads : pc[t] = "idle" /\ calls[t] = MaxCalls
  /\ UNCHANGED vars

Next ==
  \/ \E t \in Threads : Call(t) \/ Step(t)
  \/ \E l \in Libraries, s \in Statuses : Install(l, s)
  \/ Finished

(* A thread inside load keeps running; nobody has to call it.              *)
Spec == Init /\ [][Next]_vars /\ \A t \in Threads : WF_vars(Step(t))
-----------------------------------------------------------------------------
Steps == {"idle", "get", "lock", "get again", "open", "resolve", "available",
          "set", "read back"}

(* The shared state and each thread's locals are of the right kind.        *)
TypeOK ==
  /\ status \in [Libraries -> Statuses]
  /\ installs \in 0..MaxInstalls
  /\ handles \in [Libraries -> Nat]
  /\ cell \in Values \union {Unset}
  /\ holder \in Threads \union {NoThread}
  /\ pc \in [Threads -> Steps]
  /\ next \in [Threads -> 1..Len(Candidates) + 1]
  /\ image \in [Threads -> Statuses]
  /\ value \in [Threads -> Values]
  /\ answer \in [Threads -> Values \union {Unset, Failed}]
  /\ calls \in [Threads -> 0..MaxCalls]

(* The two branches of load that its comments call harmless and unexpected *)
(* cannot be taken: the cell is empty when the holder of the lock sets it, *)
(* and is set when it reads it back.                                       *)
CellIsSetOnceByHolder ==
  \A t \in Threads :
    /\ pc[t] = "set" => cell = Unset
    /\ pc[t] = "read back" => cell = value[t]

(* The handle a thread owns while it tries a library.                      *)
Owns(t, l) ==
  \/ pc[t] \in {"resolve", "available"} /\ Candidates[next[t]] = l
  \/ pc[t] = "set" /\ value[t] = l

(* No attempt leaks a library and none closes one in use: each is open     *)
(* once if LIBRARY holds it or a thread is trying it, and closed otherwise. *)
NoHandleLeaks ==
  \A l \in Libraries :
    handles[l] = IF cell = l \/ \E t \in Threads : Owns(t, l) THEN 1 ELSE 0

(* load keeps the promise of LoadOnce: one answer, the same for all, and   *)
(* no error once it is there.                                              *)
Promise == INSTANCE LoadOnce WITH waiting <- {t \in Threads : pc[t] # "idle"}

KeepsPromise == Promise!AbsSpec

(* No thread stays in load forever, waiting for a lock that is not given   *)
(* back or retrying a library.                                             *)
EveryCallReturns == \A t \in Threads : pc[t] # "idle" ~> pc[t] = "idle"
=============================================================================
