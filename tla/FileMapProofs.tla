--------------------------- MODULE FileMapProofs ----------------------------
(***************************************************************************)
(* Proofs about FileMap for any number of callers, paths, inodes, lengths  *)
(* and writes.  IndInv says what each local variable of an open in         *)
(* progress has to do with the file at each of its system calls; it is an  *)
(* invariant, and the properties of FileMap follow from it.                *)
(***************************************************************************)
EXTENDS FileMap, TLAPS

(* From the open to the return, the descriptor is open on a file.          *)
Opened(c) == pc[c] \in {"stat", "map", "revalidate", "advise"}

(* After the first stat, its fingerprint is that of the open file, and has *)
(* the size asked for; after mmap, the mapping covers that file.           *)
LocalsMatch(c) ==
  /\ Opened(c) => fd[c] \in Inodes
  /\ pc[c] \in {"map", "revalidate", "advise"} =>
       /\ ident[c].ino = fd[c]
       /\ Sized(c) => ident[c].len = call[c].size
  /\ pc[c] = "revalidate" => map[c].ino = fd[c]
  /\ Validated(c) =>
       /\ map[c].ino \in Inodes
       /\ map[c].ino = ident[c].ino
       /\ ~Sized(c) => map[c].len = ident[c].len

(* While a file only grows, the three lengths an open looks at are ordered. *)
LengthsOrdered(c) ==
  /\ pc[c] = "map" /\ fd[c] \notin shrunk => ident[c].len <= len[fd[c]]
  /\ pc[c] = "revalidate" /\ fd[c] \notin shrunk =>
       ident[c].len <= map[c].len /\ map[c].len <= len[fd[c]]
  /\ Validated(c) /\ Sized(c) /\ map[c].ino \notin shrunk
       => map[c].len = call[c].size

(* The inductive invariant.                                                *)
IndInv ==
  /\ TypeOK
  /\ \A c \in Callers : LocalsMatch(c)
  /\ \A c \in Callers : LengthsOrdered(c)
-----------------------------------------------------------------------------
(* Writers leave the file system well-typed, and a file that gets shorter  *)
(* is among those that shrunk, for good.                                   *)
LEMMA WritersOnlyGrow ==
  ASSUME FSTypeOK, FSNext
  PROVE  /\ FSTypeOK'
         /\ shrunk \subseteq shrunk'
         /\ \A i \in Inodes \ shrunk' : len[i] <= len'[i]
<1> USE FileSystemAssumption DEF FSTypeOK, MayWrite
<1>1. CASE \E i \in Inodes, n \in 0..MaxLen : Truncate(i, n) \/ Extend(i, n)
  BY <1>1 DEF Truncate, Extend
<1>2. CASE \E p \in Paths, i \in Inodes : Replace(p, i)
  BY <1>2 DEF Replace
<1>3. CASE \E p \in Paths : Unlink(p)
  BY <1>3 DEF Unlink
<1>4. QED
  BY <1>1, <1>2, <1>3 DEF FSNext

(* IndInv holds before any caller has begun.                               *)
LEMMA InitIndInv == Init => IndInv
BY FileSystemAssumption
   DEF Init, FSInit, IndInv, TypeOK, FSTypeOK, Phases, Failures, Calls,
       FileIdentities, NoIdentity, LocalsMatch, LengthsOrdered, Opened,
       Validated

(* A change by another program leaves every caller's variables alone, so   *)
(* only the order of the lengths could suffer, and growth keeps that.      *)
LEMMA WriterKeepsIndInv == IndInv /\ Writer => IndInv'
<1> SUFFICES ASSUME IndInv, Writer
             PROVE  IndInv'
  OBVIOUS
<1>1. /\ FSTypeOK'
      /\ shrunk \subseteq shrunk'
      /\ \A i \in Inodes \ shrunk' : len[i] <= len'[i]
  BY WritersOnlyGrow DEF IndInv, TypeOK, Writer
<1>2. TypeOK'
  BY <1>1 DEF IndInv, TypeOK, Writer
<1>3. \A c \in Callers : LocalsMatch(c)'
  BY DEF IndInv, Writer, LocalsMatch, Opened, Validated, Sized
<1>4. ASSUME NEW c \in Callers
      PROVE  LengthsOrdered(c)'
  <2>1. LengthsOrdered(c) /\ LocalsMatch(c)
    BY <1>4 DEF IndInv
  <2>2. pc[c] \in {"map", "revalidate"} /\ fd[c] \notin shrunk'
          => len[fd[c]] <= len'[fd[c]]
    BY <1>1, <1>4, <2>1 DEF LocalsMatch, Opened
  <2>3. len \in [Inodes -> 0..MaxLen] /\ len' \in [Inodes -> 0..MaxLen]
    BY <1>1 DEF IndInv, TypeOK, FSTypeOK
  <2>4. ident[c].len \in 0..MaxLen /\ map[c].len \in 0..MaxLen
    BY DEF IndInv, TypeOK, FileIdentities
  <2>5. QED
    BY <1>1, <2>1, <2>2, <2>3, <2>4, FileSystemAssumption
       DEF LengthsOrdered, LocalsMatch, Opened, Writer, Validated, Sized
<1>5. QED
  BY <1>2, <1>3, <1>4 DEF IndInv

(* An early return leaves well-typed variables.                            *)
LEMMA ReturnErrKeepsTypeOK ==
  ASSUME TypeOK, NEW c \in Callers, NEW operation \in Failures,
         ReturnErr(c, operation), UNCHANGED fsvars
  PROVE  TypeOK'
<1>1. NoIdentity \in FileIdentities
  BY FileSystemAssumption DEF NoIdentity, FileIdentities
<1>2. FSTypeOK'
  BY DEF TypeOK, FSTypeOK, fsvars
<1>3. /\ pc' \in [Callers -> Phases \union {"idle", "ok", "err"}]
      /\ call' \in [Callers -> Calls]
      /\ fd' \in [Callers -> Inodes \union {NoInode}]
      /\ why' \in [Callers -> Failures]
  BY DEF TypeOK, ReturnErr, Goto
<1>4. /\ ident' \in [Callers -> FileIdentities]
      /\ map' \in [Callers -> FileIdentities]
  BY <1>1, FileSystemAssumption DEF TypeOK, ReturnErr, FileIdentities
<1>5. QED
  BY <1>2, <1>3, <1>4, FileSystemAssumption DEF TypeOK, FileIdentities, FSTypeOK

(* Every step of a caller keeps its variables in their types.              *)
LEMMA StepKeepsTypeOK ==
  ASSUME TypeOK, NEW c \in Callers, LocalsMatch(c), Step(c)
  PROVE  TypeOK'
<1> USE FileSystemAssumption DEF TypeOK, FSTypeOK, fsvars, Goto, Phases
<1>1. CASE Begin(c)
  BY <1>1 DEF Begin, Failures
<1>2. CASE OpenFile(c)
  BY <1>2, ReturnErrKeepsTypeOK DEF OpenFile, Calls, Failures
<1>3. CASE StatFile(c)
  <2>1. ASSUME Opened(c)
        PROVE  FromMetadata(fd[c]) \in FileIdentities
    BY <2>1 DEF FromMetadata, LocalsMatch, FileIdentities
  <2>2. QED
    BY <1>3, <2>1, ReturnErrKeepsTypeOK DEF StatFile, Opened, Failures
<1>4. CASE MapFile(c)
  BY <1>4 DEF MapFile, FromMetadata, LocalsMatch, Opened, FileIdentities
<1>5. CASE Revalidate(c)
  BY <1>5, ReturnErrKeepsTypeOK DEF Revalidate, Failures
<1>6. CASE Advise(c)
  BY <1>6 DEF Advise
<1>7. CASE SyscallFails(c)
  BY <1>7, ReturnErrKeepsTypeOK DEF SyscallFails, Failures
<1>8. CASE Release(c)
  BY <1>8 DEF Release, FileIdentities, NoIdentity
<1>9. QED
  BY <1>1, <1>2, <1>3, <1>4, <1>5, <1>6, <1>7, <1>8 DEF Step

(* A step of one caller is invisible to the others.                        *)
LEMMA StepIsPrivate ==
  ASSUME TypeOK, NEW c \in Callers, Step(c), NEW d \in Callers, d # c
  PROVE  /\ pc'[d] = pc[d] /\ call'[d] = call[d] /\ fd'[d] = fd[d]
         /\ ident'[d] = ident[d] /\ map'[d] = map[d] /\ UNCHANGED fsvars
BY DEF TypeOK, Step, Begin, OpenFile, StatFile, MapFile, Revalidate, Advise,
       SyscallFails, Release, Goto, ReturnErr, fsvars

(* Each step of an open establishes what its next system call relies on.   *)
LEMMA StepKeepsLocals ==
  ASSUME TypeOK, NEW c \in Callers, LocalsMatch(c), Step(c)
  PROVE  LocalsMatch(c)'
<1> USE DEF TypeOK, LocalsMatch, Opened, Validated, Sized, Goto, ReturnErr,
            fsvars, Phases
<1>1. CASE Begin(c)
  BY <1>1 DEF Begin
<1>2. CASE OpenFile(c)
  BY <1>2 DEF OpenFile, FSTypeOK, Calls
<1>3. CASE StatFile(c)
  BY <1>3 DEF StatFile, FromMetadata
<1>4. CASE MapFile(c)
  BY <1>4 DEF MapFile, FromMetadata
<1>5. CASE Revalidate(c)
  BY <1>5 DEF Revalidate, IdentityHolds, FromMetadata, SameInode, ExpectedLen
<1>6. CASE Advise(c)
  BY <1>6 DEF Advise
<1>7. CASE SyscallFails(c)
  BY <1>7 DEF SyscallFails
<1>8. CASE Release(c)
  BY <1>8 DEF Release
<1>9. QED
  BY <1>1, <1>2, <1>3, <1>4, <1>5, <1>6, <1>7, <1>8 DEF Step

(* A sized open that passes the second stat has mapped the expected size,  *)
(* because that size is squeezed between two stats that agree.             *)
LEMMA StepKeepsLengths ==
  ASSUME TypeOK, NEW c \in Callers, LocalsMatch(c), LengthsOrdered(c), Step(c)
  PROVE  LengthsOrdered(c)'
<1> USE DEF TypeOK, LengthsOrdered, Validated, Sized, Goto, ReturnErr, fsvars
<1>1. CASE Begin(c)
  BY <1>1 DEF Begin
<1>2. CASE OpenFile(c)
  BY <1>2 DEF OpenFile
<1>3. CASE StatFile(c)
  BY <1>3, FileSystemAssumption
     DEF StatFile, FromMetadata, FSTypeOK, LocalsMatch, Opened
<1>4. CASE MapFile(c)
  BY <1>4, FileSystemAssumption
     DEF MapFile, FromMetadata, FSTypeOK, LocalsMatch, Opened
<1>5. CASE Revalidate(c)
  <2>1. CASE IdentityHolds(fd[c], ident[c], ExpectedLen(c))
    <3>1. len[fd[c]] = ident[c].len
      BY <2>1 DEF IdentityHolds, FromMetadata
    <3>2. fd[c] \in Inodes /\ len[fd[c]] \in Nat /\ map[c].len \in Nat
      BY <1>5, FileSystemAssumption
         DEF Revalidate, LocalsMatch, Opened, FSTypeOK, FileIdentities
    <3>3. fd[c] \notin shrunk => map[c].len = ident[c].len
      BY <1>5, <3>1, <3>2 DEF Revalidate
    <3>4. pc'[c] = "advise" /\ map[c].ino = fd[c]
      BY <1>5, <2>1 DEF Revalidate, LocalsMatch
    <3>5. QED
      BY <1>5, <2>1, <3>3, <3>4 DEF Revalidate, LocalsMatch
  <2>2. CASE ~IdentityHolds(fd[c], ident[c], ExpectedLen(c))
    BY <1>5, <2>2 DEF Revalidate
  <2>3. QED
    BY <2>1, <2>2
<1>6. CASE Advise(c)
  BY <1>6 DEF Advise
<1>7. CASE SyscallFails(c)
  BY <1>7 DEF SyscallFails
<1>8. CASE Release(c)
  BY <1>8 DEF Release
<1>9. QED
  BY <1>1, <1>2, <1>3, <1>4, <1>5, <1>6, <1>7, <1>8 DEF Step

(* So a step of a caller keeps IndInv.                                     *)
LEMMA StepKeepsIndInv ==
  ASSUME IndInv, NEW c \in Callers, Step(c)
  PROVE  IndInv'
<1>1. TypeOK'
  BY StepKeepsTypeOK DEF IndInv
<1>2. ASSUME NEW d \in Callers
      PROVE  LocalsMatch(d)'
  <2>1. CASE d = c
    BY <2>1, StepKeepsLocals DEF IndInv
  <2>2. CASE d # c
    BY <2>2, StepIsPrivate
       DEF IndInv, LocalsMatch, Opened, Validated, Sized
  <2>3. QED
    BY <2>1, <2>2
<1>3. ASSUME NEW d \in Callers
      PROVE  LengthsOrdered(d)'
  <2>1. CASE d = c
    BY <1>3, <2>1, StepKeepsLengths DEF IndInv
  <2>2. CASE d # c
    BY <1>3, <2>2, StepIsPrivate
       DEF IndInv, LengthsOrdered, Validated, Sized, fsvars
  <2>3. QED
    BY <2>1, <2>2
<1>4. QED
  BY <1>1, <1>2, <1>3 DEF IndInv

(* The inductive step.                                                     *)
LEMMA NextKeepsIndInv == IndInv /\ [Next]_vars => IndInv'
<1> SUFFICES ASSUME IndInv, [Next]_vars
             PROVE  IndInv'
  OBVIOUS
<1>1. CASE \E c \in Callers : Step(c)
  BY <1>1, StepKeepsIndInv
<1>2. CASE Writer
  BY <1>2, WriterKeepsIndInv
<1>3. CASE UNCHANGED vars
  BY <1>3 DEF vars, IndInv, TypeOK, FSTypeOK, LocalsMatch, LengthsOrdered,
              Opened, Validated, Sized, fsvars
<1>4. QED
  BY <1>1, <1>2, <1>3 DEF Next
-----------------------------------------------------------------------------
(* IndInv is an invariant of the file half of mmap.rs.                     *)
THEOREM IndInvInvariant == Spec => []IndInv
BY InitIndInv, NextKeepsIndInv, PTL DEF Spec

(* Type correctness of the file half of mmap.rs.                           *)
THEOREM TypeCorrect == Spec => []TypeOK
<1>1. IndInv => TypeOK
  BY DEF IndInv
<1>2. QED
  BY <1>1, IndInvInvariant, PTL

(* Whatever other programs do to the file, open_read and open_with_advice  *)
(* return a mapping of exactly the file of their first stat.               *)
THEOREM StatMapAgree == Spec => []StatMapAgreement
<1>1. IndInv => StatMapAgreement
  BY DEF IndInv, TypeOK, StatMapAgreement, LocalsMatch, FileIdentities
<1>2. QED
  BY <1>1, IndInvInvariant, PTL

(* open_read_with_size returns a mapping of expected_size bytes, provided  *)
(* nobody has truncated the file: the proviso is needed, see the run       *)
(* file_map_truncated_back.                                                *)
THEOREM SizedHasExpectedSize == Spec => []SizedMappingOfGrowingFile
<1>1. IndInv => SizedMappingOfGrowingFile
  BY DEF IndInv, SizedMappingOfGrowingFile, LengthsOrdered
<1>2. QED
  BY <1>1, IndInvInvariant, PTL

(* The only step that can leave the caller of open_read or                 *)
(* open_with_advice with an unbacked mapping is a truncation of the file   *)
(* it maps.                                                                *)
THEOREM UnbackedOnlyIfTruncated == Spec => UnbackedOnlyByTruncation
<1>1. ASSUME IndInv, NEW c \in Callers, Writer
      PROVE  OnlyByTruncation(c)
  <2>1. LocalsMatch(c) /\ map[c].len \in Nat
    BY <1>1, FileSystemAssumption DEF IndInv, TypeOK, FileIdentities
  <2>2. len \in [Inodes -> Nat] /\ len' \in [Inodes -> Nat]
    BY <1>1, WritersOnlyGrow, FileSystemAssumption
       DEF IndInv, TypeOK, FSTypeOK, Writer
  <2>3. QED
    BY <1>1, <2>1, <2>2 DEF Writer, OnlyByTruncation, Unbacked, Validated,
                              LocalsMatch
<1>2. ASSUME IndInv, NEW c \in Callers, NEW d \in Callers, Step(d)
      PROVE  OnlyByTruncation(c)
  <2>1. CASE d # c
    BY <1>2, <2>1, StepIsPrivate
       DEF IndInv, OnlyByTruncation, Unbacked, Validated, fsvars
  <2>2. CASE d = c
    <3>1. LocalsMatch(c) /\ LocalsMatch(c)' /\ len' = len
      BY <1>2, <2>2, StepKeepsIndInv
         DEF IndInv, Step, Begin, OpenFile, StatFile, MapFile, Revalidate,
             Advise, SyscallFails, Release, fsvars
    <3>2. /\ Validated(c)' /\ ~Validated(c)
              => Revalidate(c) /\ map' = map
                   /\ IdentityHolds(fd[c], ident[c], ExpectedLen(c))
          /\ Validated(c)' /\ Validated(c) => map' = map
      BY <1>2, <2>2
         DEF IndInv, TypeOK, Validated, Step, Begin, OpenFile, StatFile,
             MapFile, Revalidate, Advise, SyscallFails, Release, Goto,
             ReturnErr
    <3>3. CASE Validated(c)
      BY <3>1, <3>2, <3>3 DEF OnlyByTruncation, Unbacked
    <3>4. CASE ~Validated(c) /\ Validated(c)' /\ ~Sized(c)
      <4>1. map[c].len = len[fd[c]] /\ map[c].ino = fd[c]
        BY <3>1, <3>2, <3>4
           DEF IdentityHolds, FromMetadata, ExpectedLen, LocalsMatch,
               Revalidate
      <4>2. fd[c] \in Inodes /\ len[fd[c]] \in Nat
        BY <1>2, <3>1, <3>2, <3>4, FileSystemAssumption
           DEF IndInv, TypeOK, FSTypeOK, LocalsMatch, Opened, Revalidate
      <4>3. QED
        BY <3>1, <3>2, <3>4, <4>1, <4>2 DEF OnlyByTruncation, Unbacked
    <3>5. QED
      BY <3>3, <3>4 DEF OnlyByTruncation, Unbacked
  <2>3. QED
    BY <2>1, <2>2
<1>3. IndInv /\ [Next]_vars => [\A c \in Callers : OnlyByTruncation(c)]_vars
  BY <1>1, <1>2 DEF Next
<1>4. QED
  BY <1>3, IndInvInvariant, PTL DEF Spec, UnbackedOnlyByTruncation
-----------------------------------------------------------------------------
(* Without writers every stat of an open sees the same file.               *)
Undisturbed(c) ==
  /\ why[c] # "changed"
  /\ pc[c] \in {"map", "revalidate"} => ident[c] = FromMetadata(fd[c])
  /\ pc[c] = "revalidate" => map[c] = FromMetadata(fd[c])

CalmInv == writes = 0 => \A c \in Callers : Undisturbed(c)

LEMMA WritersAreCounted ==
  ASSUME TypeOK, FSNext
  PROVE  writes' # 0
<1>1. writes \in Nat
  BY FileSystemAssumption DEF TypeOK, FSTypeOK
<1>2. writes' = writes + 1
  BY DEF FSNext, Truncate, Extend, Replace, Unlink, MayWrite
<1>3. QED
  BY <1>1, <1>2

LEMMA StepKeepsCalm ==
  ASSUME IndInv, NEW c \in Callers, Step(c), Undisturbed(c)
  PROVE  Undisturbed(c)'
<1> USE DEF Undisturbed, FromMetadata, Goto, ReturnErr, fsvars, IndInv, TypeOK
<1>1. CASE Begin(c)
  BY <1>1 DEF Begin
<1>2. CASE OpenFile(c)
  BY <1>2 DEF OpenFile
<1>3. CASE StatFile(c)
  BY <1>3 DEF StatFile
<1>4. CASE MapFile(c)
  BY <1>4 DEF MapFile
<1>5. CASE Revalidate(c)
  <2>1. /\ ident[c] = FromMetadata(fd[c]) /\ map[c] = FromMetadata(fd[c])
        /\ Sized(c) => ident[c].len = call[c].size
    BY <1>5 DEF Revalidate, LocalsMatch
  <2>2. IdentityHolds(fd[c], ident[c], ExpectedLen(c))
    BY <2>1 DEF IdentityHolds, SameInode, ExpectedLen
  <2>3. QED
    BY <1>5, <2>2 DEF Revalidate
<1>6. CASE Advise(c)
  BY <1>6 DEF Advise
<1>7. CASE SyscallFails(c)
  BY <1>7 DEF SyscallFails
<1>8. CASE Release(c)
  BY <1>8 DEF Release
<1>9. QED
  BY <1>1, <1>2, <1>3, <1>4, <1>5, <1>6, <1>7, <1>8 DEF Step

LEMMA NextKeepsCalm == IndInv /\ CalmInv /\ [Next]_vars => CalmInv'
<1> SUFFICES ASSUME IndInv, CalmInv, [Next]_vars, writes' = 0,
                    NEW c \in Callers
             PROVE  Undisturbed(c)'
  BY DEF CalmInv
<1>1. CASE Writer
  BY <1>1, WritersAreCounted DEF Writer, IndInv
<1>2. ASSUME NEW d \in Callers, Step(d) PROVE Undisturbed(c)'
  <2>1. UNCHANGED fsvars
    BY <1>2 DEF Step, Begin, OpenFile, StatFile, MapFile, Revalidate, Advise,
                SyscallFails, Release
  <2>2. Undisturbed(c)
    BY <2>1 DEF CalmInv, fsvars
  <2>3. CASE d = c
    BY <1>2, <2>2, <2>3, StepKeepsCalm
  <2>4. CASE d # c
    <3>1. /\ pc'[c] = pc[c] /\ fd'[c] = fd[c] /\ ident'[c] = ident[c]
          /\ map'[c] = map[c]
      BY <1>2, <2>4, StepIsPrivate DEF IndInv
    <3>2. why'[c] = why[c]
      BY <1>2, <2>4
         DEF IndInv, TypeOK, Step, Begin, OpenFile, StatFile, MapFile,
             Revalidate, Advise, SyscallFails, Release, ReturnErr
    <3>3. QED
      BY <2>1, <2>2, <3>1, <3>2 DEF Undisturbed, FromMetadata, fsvars
  <2>5. QED
    BY <2>3, <2>4
<1>3. CASE UNCHANGED vars
  BY <1>3 DEF vars, CalmInv, Undisturbed, FromMetadata
<1>4. QED
  BY <1>1, <1>2, <1>3 DEF Next

(* When nobody writes, validate_file_identity never rejects a mapping: the *)
(* error "changed" of the three functions is always about a change.        *)
THEOREM NoAlarmIsFalse == Spec => []NoFalseAlarm
<1>1. Init => CalmInv
  BY DEF Init, CalmInv, Undisturbed
<1>2. CalmInv => NoFalseAlarm
  BY DEF CalmInv, Undisturbed, NoFalseAlarm
<1>3. QED
  BY <1>1, <1>2, NextKeepsCalm, IndInvInvariant, PTL DEF Spec
=============================================================================
