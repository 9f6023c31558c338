------------------------------ MODULE FileMap -------------------------------
(***************************************************************************)
(* src/mmap.rs, the file half: open_read, open_read_with_size,             *)
(* open_with_advice and release.  Each opens a path, stats it, maps it,    *)
(* stats it again to find out whether it changed in between, advises the   *)
(* kernel and returns the mapping.  Other programs may change the file     *)
(* between any two of these system calls, so each is an action.            *)
(***************************************************************************)
EXTENDS FileIdentity

CONSTANT Callers   \* threads that map files

VARIABLES
  pc,     \* the next system call of each caller
  call,   \* its function and arguments
  fd,     \* the inode its File is open on
  ident,  \* expected_identity, from the first stat
  map,    \* the memmap2::Mmap, as the inode and length it covers
  why     \* the operation named by the Error it returned

vars == <<dir, len, writes, shrunk, renamed, pc, call, fd, ident, map, why>>

Ops == {"open_read", "open_read_with_size", "open_with_advice"}

(* size is expected_size; the unsized functions ignore it.                 *)
Calls == [op : Ops, path : Paths, size : 0..MaxLen]

Phases == {"open", "stat", "map", "revalidate", "advise"}

Failures ==
  {"none", "open", "metadata", "size", "mmap", "changed", "madvise"}

Init ==
  /\ FSInit
  /\ pc = [c \in Callers |-> "idle"]
  /\ call \in [Callers -> Calls]
  /\ fd = [c \in Callers |-> NoInode]
  /\ ident = [c \in Callers |-> NoIdentity]
  /\ map = [c \in Callers |-> NoIdentity]
  /\ why = [c \in Callers |-> "none"]

Sized(c) == call[c].op = "open_read_with_size"

Goto(c, phase) == pc' = [pc EXCEPT ![c] = phase]

(* An early return: the File, the Mmap and the locals are dropped.         *)
ReturnErr(c, operation) ==
  /\ Goto(c, "err")
  /\ why' = [why EXCEPT ![c] = operation]
  /\ fd' = [fd EXCEPT ![c] = NoInode]
  /\ ident' = [ident EXCEPT ![c] = NoIdentity]
  /\ map' = [map EXCEPT ![c] = NoIdentity]
  /\ UNCHANGED call

Begin(c) ==
  /\ pc[c] \in {"idle", "err"}
  /\ Goto(c, "open")
  /\ \E args \in Calls : call' = [call EXCEPT ![c] = args]
  /\ why' = [why EXCEPT ![c] = "none"]
  /\ UNCHANGED <<fsvars, fd, ident, map>>

(* Error::System of a system call that fails for a reason of the kernel's; *)
(* a failing MADV_HUGEPAGE is ignored and is no action.                    *)
SyscallFails(c) ==
  /\ \/ pc[c] = "open" /\ ReturnErr(c, "open")
     \/ pc[c] \in {"stat", "revalidate"} /\ ReturnErr(c, "metadata")
     \/ pc[c] = "map" /\ ReturnErr(c, "mmap")
     \/ pc[c] = "advise" /\ map[c].len # 0 /\ ReturnErr(c, "madvise")
  /\ UNCHANGED fsvars

OpenFile(c) ==
  /\ pc[c] = "open"
  /\ LET i == dir[call[c].path] IN
       IF i = NoInode
         THEN ReturnErr(c, "open")
         ELSE /\ Goto(c, "stat")
              /\ fd' = [fd EXCEPT ![c] = i]
              /\ UNCHANGED <<call, ident, map, why>>
  /\ UNCHANGED fsvars

StatFile(c) ==
  /\ pc[c] = "stat"
  /\ IF Sized(c) /\ len[fd[c]] # call[c].size
       THEN ReturnErr(c, "size")
       ELSE /\ Goto(c, "map")
            /\ ident' = [ident EXCEPT ![c] = FromMetadata(fd[c])]
            /\ UNCHANGED <<call, fd, map, why>>
  /\ UNCHANGED fsvars

(* MmapOptions::map takes the length of the mapping from a stat of its own. *)
MapFile(c) ==
  /\ pc[c] = "map"
  /\ Goto(c, "revalidate")
  /\ map' = [map EXCEPT ![c] = FromMetadata(fd[c])]
  /\ UNCHANGED <<fsvars, call, fd, ident, why>>

(* Mutants: the stat is compared with itself, or every call is taken for a *)
(* sized one.                                                              *)
ExpectedLenOfStat(c) == IF Sized(c) THEN call[c].size ELSE ident[c].len
ExpectedLenOfCall(c) == call[c].size

(* The third argument of validate_file_identity: the size the caller asked *)
(* for, or the length that was mapped.                                     *)
ExpectedLen(c) == IF Sized(c) THEN call[c].size ELSE map[c].len

Revalidate(c) ==
  /\ pc[c] = "revalidate"
  /\ IF IdentityHolds(fd[c], ident[c], ExpectedLen(c))
       THEN Goto(c, "advise") /\ UNCHANGED <<call, fd, ident, map, why>>
       ELSE ReturnErr(c, "changed")
  /\ UNCHANGED fsvars

Advise(c) ==
  /\ pc[c] = "advise"
  /\ Goto(c, "ok")
  /\ fd' = [fd EXCEPT ![c] = NoInode]
  /\ UNCHANGED <<fsvars, call, ident, map, why>>

Release(c) ==
  /\ pc[c] = "ok"
  /\ Goto(c, "idle")
  /\ ident' = [ident EXCEPT ![c] = NoIdentity]
  /\ map' = [map EXCEPT ![c] = NoIdentity]
  /\ UNCHANGED <<fsvars, call, fd, why>>

Step(c) ==
  \/ Begin(c)
  \/ OpenFile(c)
  \/ StatFile(c)
  \/ MapFile(c)
  \/ Revalidate(c)
  \/ Advise(c)
  \/ SyscallFails(c)
  \/ Release(c)

Writer == FSNext /\ UNCHANGED <<pc, call, fd, ident, map, why>>

Next == (\E c \in Callers : Step(c)) \/ Writer

Spec == Init /\ [][Next]_vars
-----------------------------------------------------------------------------
(* What the callers hold is of the right kind in every state.              *)
TypeOK ==
  /\ FSTypeOK
  /\ pc \in [Callers -> Phases \union {"idle", "ok", "err"}]
  /\ call \in [Callers -> Calls]
  /\ fd \in [Callers -> Inodes \union {NoInode}]
  /\ ident \in [Callers -> FileIdentities]
  /\ map \in [Callers -> FileIdentities]
  /\ why \in [Callers -> Failures]

Validated(c) == pc[c] \in {"advise", "ok"}

(* The mapping open_read and open_with_advice return covers exactly the    *)
(* file they stat-ed: same inode, and the length of the first stat, though *)
(* the length mapped comes from a later one.                               *)
StatMapAgreement ==
  \A c \in Callers : Validated(c) /\ ~Sized(c) => map[c] = ident[c]

(* Touching the last page of such a mapping raises SIGBUS.                 *)
Unbacked(c) == Validated(c) /\ map[c].len > len[map[c].ino]

OnlyByTruncation(c) ==
  ~Sized(c) /\ ~Unbacked(c) /\ Unbacked(c)'
    => Validated(c) /\ len'[map[c].ino] < len[map[c].ino]

(* The warning on open_with_advice is the only one needed: a mapping it    *)
(* returns starts out backed by the file to its last page, and stops being *)
(* so only when a writer truncates that very file, never by a step of the  *)
(* open itself nor by a rename, an unlink or a growth.                     *)
UnbackedOnlyByTruncation ==
  [][\A c \in Callers : OnlyByTruncation(c)]_vars

(* So does open_read_with_size with the size that was asked for, when the  *)
(* file it maps has never been truncated: growth, renames and unlinks in   *)
(* the middle of the call do no harm.                                      *)
SizedMappingOfGrowingFile ==
  \A c \in Callers :
    Validated(c) /\ Sized(c) /\ map[c].ino \notin shrunk
      => map[c].len = call[c].size

(* open_read_with_size: "an error if the file size differs from            *)
(* expected_size" - the caller may index the map up to expected_size and   *)
(* no further.                                                             *)
SizedMappingHasExpectedSize ==
  \A c \in Callers : Validated(c) /\ Sized(c) => map[c].len = call[c].size

(* A change is reported only when there was one: with no writer, the open  *)
(* never answers that the file changed.                                    *)
NoFalseAlarm ==
  writes = 0 => \A c \in Callers : why[c] # "changed"
=============================================================================
