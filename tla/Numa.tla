-------------------------------- MODULE Numa --------------------------------
(***************************************************************************)
(* src/numa.rs: node_count, pin_to_node, migrate_to_node, alloc_on_node    *)
(* and bind_memory_to_node on top of LinuxNuma::load.  All but node_count  *)
(* begin with validate_node, which loads libnuma once to count the nodes,  *)
(* and the functions that use libnuma load it again to place the thread or *)
(* the pages: what load answers, and what is installed, may differ between *)
(* the two.                                                                *)
(***************************************************************************)
EXTENDS NumaLoader, FiniteSetsExt

CONSTANTS
  Topologies,   \* the sets of NUMA nodes tried
  NodeArgs      \* the node arguments tried

ASSUME NumaAssumption ==
  /\ \A s \in Topologies : s # {} /\ s \subseteq Nat /\ IsFiniteSet(s)
  /\ NodeArgs \subseteq Nat

VARIABLES
  online,   \* the NUMA nodes of this machine
  libMax,   \* what numa_max_node answers: the highest node, or an error
  sysfs,    \* what /sys/devices/system/node offers
  task,     \* the function each thread is in, and its argument
  result    \* what its latest function returned

numavars == <<online, libMax, sysfs, task, result>>
allvars == <<vars, numavars>>

Functions == {"node_count", "pin", "migrate", "alloc", "bind"}

Idle == [fn |-> "none", node |-> 0, at |-> "none"]

NumaInit ==
  /\ Init
  /\ online \in Topologies
  /\ libMax \in {Max(online), -1}
  /\ sysfs \in {"online", "directories", "nothing"}
  /\ task = [t \in Threads |-> Idle]
  /\ result = [t \in Threads |-> "none"]

(* Mutant: the highest node is taken for the count.                        *)
SysfsHighestNode ==
  CASE sysfs = "online" -> Max(online)
    [] sysfs = "directories" -> Cardinality(online)
    [] OTHER -> 1

(* The file "online" lists ranges of node numbers, the directory has one   *)
(* entry for each node.                                                    *)
SysfsNodeCount ==
  CASE sysfs = "online" -> Max(online) + 1
    [] sysfs = "directories" -> Cardinality(online)
    [] OTHER -> 1

(* node_count once load has answered.  An error counts as no library, and  *)
(* so does a library that does not know its nodes.                         *)
NodeCount(t) ==
  IF answer[t] \in Libraries /\ libMax >= 0
    THEN libMax + 1 ELSE SysfsNodeCount

(* has_multiple_nodes                                                      *)
HasMultipleNodes == libMax > 0

Done(t, outcome) ==
  /\ task' = [task EXCEPT ![t].at = "done"]
  /\ result' = [result EXCEPT ![t] = outcome]

(* bound: MaxCalls leaves room for the loads of the longest function.      *)
Begin(t, fn, node) ==
  /\ task[t].at \in {"none", "done"}
  /\ calls[t] + 3 <= MaxCalls
  /\ Call(t)
  /\ task' = [task EXCEPT ![t] = [fn |-> fn, node |-> node, at |-> "count"]]
  /\ result' = [result EXCEPT ![t] = "none"]
  /\ UNCHANGED <<online, libMax, sysfs>>

(* Mutant: the count itself is let through.                                *)
InRangeOrNext(t) == task[t].node <= NodeCount(t)

InRange(t) == task[t].node < NodeCount(t)

(* validate_node, and what each function does next.                        *)
Validated(t) ==
  /\ task[t].at = "count" /\ pc[t] = "idle"
  /\ \/ /\ task[t].fn = "node_count"
        /\ Done(t, "count")
        /\ UNCHANGED vars
     \/ /\ task[t].fn # "node_count" /\ ~InRange(t)
        /\ Done(t, "InvalidNode")
        /\ UNCHANGED vars
     \/ /\ task[t].fn = "bind" /\ InRange(t)
        /\ Done(t, "mbind")
        /\ UNCHANGED vars
     \/ /\ task[t].fn = "alloc" /\ InRange(t)
        /\ Done(t, "no memory")
        /\ UNCHANGED vars
     \/ /\ task[t].fn \in {"alloc", "migrate"} /\ InRange(t)
        /\ Done(t, "no bytes")
        /\ UNCHANGED vars
     \/ /\ task[t].fn = "alloc" /\ InRange(t)
        /\ task' = [task EXCEPT ![t].fn = "migrate"]
        /\ Call(t)
        /\ UNCHANGED result
     \/ /\ task[t].fn \in {"pin", "migrate"} /\ InRange(t)
        /\ task' = [task EXCEPT ![t].at = "use"]
        /\ Call(t)
        /\ UNCHANGED result
  /\ UNCHANGED <<online, libMax, sysfs>>

(* Whether the code takes run_on_node or tonode_memory to have succeeded.  *)
(* numa_run_on_node takes the nodes that exist.  numa_tonode_memory returns *)
(* nothing: what the code reads as its result is left over in a register.  *)
ReadAsSuccess(t) ==
  IF task[t].fn = "migrate" THEN BOOLEAN ELSE {task[t].node \in online}

(* Mutant: an error is taken for None.                                     *)
NothingLoaded(t) == answer[t] \notin Libraries

(* if let Some(library) = load()? does not match.                          *)
NoLibraryToUse(t) == answer[t] = NoLibrary

(* The rest of pin_to_node and migrate_to_node, after the second load.     *)
Use(t) ==
  /\ task[t].at = "use" /\ pc[t] = "idle"
  /\ LET onlyNode == task[t].fn = "migrate" /\ ~HasMultipleNodes IN
       \/ answer[t] = Failed /\ Done(t, "load failed")
       \/ NoLibraryToUse(t) /\ Done(t, "no libnuma")
       \/ answer[t] \in Libraries /\ onlyNode /\ Done(t, "one node")
       \/ /\ answer[t] \in Libraries /\ ~onlyNode
          /\ \E success \in ReadAsSuccess(t) :
               Done(t, IF success THEN "placed" ELSE "refused")
  /\ UNCHANGED <<vars, online, libMax, sysfs>>

Thread(t) ==
  \/ Validated(t)
  \/ Use(t)
  \/ Step(t) /\ UNCHANGED numavars

NumaFinished ==
  /\ \A t \in Threads :
       task[t].at \in {"none", "done"} /\ calls[t] + 3 > MaxCalls
  /\ UNCHANGED allvars

NumaNext ==
  \/ \E t \in Threads, fn \in Functions, node \in NodeArgs : Begin(t, fn, node)
  \/ \E t \in Threads : Thread(t)
  \/ (\E l \in Libraries, s \in Statuses : Install(l, s)) /\ UNCHANGED numavars
  \/ NumaFinished

NumaSpec == NumaInit /\ [][NumaNext]_allvars
-----------------------------------------------------------------------------
(* A node beyond the last is stopped by validate_node, whichever source    *)
(* the count came from and however load answers the second time: it never  *)
(* reaches libnuma, and what numa_run_on_node refuses is at most a hole in *)
(* the numbering.                                                          *)
OutOfRangeStopsAtValidation ==
  \A t \in Threads :
    /\ result[t] \in {"one node", "placed", "refused"} =>
         task[t].node <= Max(online)
    /\ result[t] = "refused" /\ task[t].fn = "pin" => task[t].node < Max(online)

(* When sysfs lists the nodes, a node that exists is never called invalid, *)
(* be libnuma there, broken, missing, or ignorant of its nodes.            *)
ExistingNodeIsValid ==
  sysfs = "online" =>
    \A t \in Threads : result[t] = "InvalidNode" => task[t].node \notin online

(* Ok with nothing done for a region or a thread means that this process   *)
(* has no libnuma to use, now and for good, or has one and the machine has *)
(* one node, or has one that does not know its nodes: then migrate_to_node *)
(* does nothing on a machine of several nodes too, though its comment has  *)
(* only the first two.  A libnuma that is broken is an error, never a      *)
(* no-op.                                                                  *)
NoOpHasCause ==
  \A t \in Threads :
    /\ result[t] = "no libnuma" => cell = NoLibrary
    /\ result[t] = "one node" =>
         cell \in Libraries /\ (Max(online) = 0 \/ libMax = -1)
=============================================================================
