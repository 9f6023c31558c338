------------------------------- MODULE Corpus -------------------------------
(***************************************************************************)
(* src/corpus.rs: MmapCorpus::open_with_limits walks a directory tree,     *)
(* sorts the files it found and maps them one after the other, rejecting   *)
(* links, unsupported file types, files and totals above the limits, and   *)
(* files that change while they are mapped.                                *)
(*                                                                         *)
(* The nodes of the tree are paths, numbered in the order of PathBuf's     *)
(* Ord, so each has one parent.  Its directories and special files stay    *)
(* put.  Its other names are those of FileSystem, and other programs       *)
(* change them all along: what they name, how long it is, and whether they *)
(* are regular files or symbolic links to one.                             *)
(***************************************************************************)
EXTENDS FileIdentity, SequencesExt

CONSTANTS
  Dirs, Specials,         \* directories, and what is no file, nor a link
  LinkSets,               \* tried: the names that are links at first
  Trees,                  \* the trees tried: the names each directory lists
  Base,                   \* the directory being opened
  U64Max,                 \* the largest u64, where the running total stops
  FileLimits, TotalLimits \* the values tried for the two limits

Nodes == Paths \union Dirs \union Specials

ASSUME CorpusAssumption ==
  /\ Nodes \subseteq Nat
  /\ Trees \subseteq [Dirs -> SUBSET Nodes]
  /\ Base \in Dirs
  /\ \A tree \in Trees, d \in Dirs :
       /\ Base \notin tree[d]
       /\ \A e \in Dirs \ {d} : tree[d] \intersect tree[e] = {}
  /\ (Dirs \union Paths) \intersect Specials = {}
  /\ Dirs \intersect Paths = {}
  /\ LinkSets \subseteq SUBSET Paths
  /\ U64Max \in Nat /\ MaxLen <= U64Max
  /\ FileLimits \subseteq 0..U64Max /\ TotalLimits \subseteq 0..U64Max

VARIABLES
  children,  \* the names each directory lists
  linked,    \* the names that are symbolic links now
  listed,    \* the names that were links when their directory was read
  limits,    \* the arguments max_file_bytes and max_total_bytes
  pc,        \* what open_with_limits does next
  frames,    \* collect_files: the entries left to read, innermost call first
  out,       \* collect_files: the files found
  todo,      \* the files left to map, the current one first
  total,     \* total_bytes
  fd,        \* the inode the current File is open on
  ident,     \* expected_identity of the current file
  map,       \* the mapping of the current file
  mappings,  \* the regions pushed so far
  why        \* the operation or limit named by the Error returned

walk == <<frames, out, todo>>
current == <<total, fd, ident, map>>
args == <<children, limits>>
links == <<linked, listed>>
vars == <<dir, len, writes, shrunk, renamed, children, limits, linked, listed,
          pc, frames, out, todo, total, fd, ident, map, mappings, why>>

Regions == [path : Paths, size : 0..MaxLen, map : FileIdentities]

(* read_dir: the names in d now; the kernel hands them out in one batch.   *)
ReadDir(d) ==
  {e \in children[d] : e \in Paths => dir[e] # NoInode \/ e \in linked}

(* The batch has the type of each name, which File::open does not look at. *)
ListLinks(d) == listed' = listed \union (children[d] \intersect linked)

Init ==
  /\ FSInit
  /\ children \in Trees
  /\ limits \in [file : FileLimits, total : TotalLimits]
  /\ linked \in LinkSets
  /\ listed = children[Base] \intersect linked
  /\ pc = "collect"
  /\ frames = <<ReadDir(Base)>>
  /\ out = <<>> /\ todo = <<>> /\ mappings = <<>>
  /\ total = 0
  /\ fd = NoInode
  /\ ident = NoIdentity /\ map = NoIdentity
  /\ why = "none"

(* An early return of open_with_limits drops the file and all mappings.    *)
ReturnErr(reason) ==
  /\ pc' = "err"
  /\ why' = reason
  /\ mappings' = <<>>
  /\ fd' = NoInode
  /\ UNCHANGED <<args, links, frames, out, todo, total, ident, map>>

(* Mutant: file_type says what a link leads to, as metadata() does.        *)
FollowLink(e) == {FALSE}

(* entry.file_type().is_symlink(), by the listing or, where the file       *)
(* system keeps no types there, by an lstat now.                           *)
IsSymlink(e) == {(e \in listed), (e \in linked)}

(* One iteration of the loop of collect_files.  The kernel picks the order *)
(* of the entries.                                                         *)
ReadEntry(e) ==
  /\ pc = "collect"
  /\ frames # <<>> /\ e \in Head(frames)
  /\ LET rest == <<Head(frames) \ {e}>> \o Tail(frames) IN
       \/ e \in Specials /\ ReturnErr("special")
       \/ e \in Paths /\ TRUE \in IsSymlink(e) /\ ReturnErr("link")
       \/ /\ e \in Dirs
          /\ frames' = <<ReadDir(e)>> \o rest
          /\ ListLinks(e)
          /\ UNCHANGED <<args, linked, pc, out, todo, current, mappings, why>>
       \/ /\ e \in Paths /\ FALSE \in IsSymlink(e)
          /\ frames' = rest
          /\ out' = Append(out, e)
          /\ UNCHANGED <<args, links, pc, todo, current, mappings, why>>
  /\ UNCHANGED fsvars

(* Mutant: the order of the directory listing is kept.                     *)
UnsortedFiles(paths) == paths

(* file_paths.sort()                                                       *)
SortedFiles(paths) ==
  LET places == DOMAIN paths
      order == CHOOSE p \in Bijection(places, places) :
                 \A j, k \in places : j < k => paths[p[j]] <= paths[p[k]]
  IN  [k \in places |-> paths[order[k]]]

(* The end of one call of collect_files; after the outermost, the sort.    *)
LeaveDir ==
  /\ pc = "collect"
  /\ frames # <<>> /\ Head(frames) = {}
  /\ frames' = Tail(frames)
  /\ IF Len(frames) > 1
       THEN UNCHANGED <<pc, todo>>
       ELSE pc' = "open" /\ todo' = SortedFiles(out)
  /\ UNCHANGED <<fsvars, args, links, out, current, mappings, why>>

(* File::open follows a link that has taken the place of the file.         *)
OpenFile ==
  /\ pc = "open" /\ todo # <<>>
  /\ IF dir[Head(todo)] = NoInode
       THEN ReturnErr("open")
       ELSE /\ pc' = "stat"
            /\ fd' = dir[Head(todo)]
            /\ UNCHANGED <<args, links, walk, total, ident, map, mappings, why>>
  /\ UNCHANGED fsvars

(* Mutant: the sum wraps around.                                           *)
WrappingAdd(a, b) == (a + b) % (U64Max + 1)

SaturatingAdd(a, b) == IF a + b > U64Max THEN U64Max ELSE a + b

(* Mutant: the limit itself is refused.                                    *)
Reaches(n, limit) == n >= limit

Exceeds(n, limit) == n > limit

StatFile ==
  /\ pc = "stat"
  /\ LET size == len[fd]
         sum == SaturatingAdd(total, size) IN
       IF Exceeds(size, limits.file) THEN ReturnErr("file limit")
       ELSE IF Exceeds(sum, limits.total) THEN ReturnErr("total limit")
       ELSE /\ pc' = "map"
            /\ ident' = FromMetadata(fd)
            /\ total' = sum
            /\ UNCHANGED <<args, links, walk, fd, map, mappings, why>>
  /\ UNCHANGED fsvars

(* MmapOptions::map takes the length of the mapping from a stat of its own. *)
MapFile ==
  /\ pc = "map"
  /\ pc' = "revalidate"
  /\ map' = FromMetadata(fd)
  /\ UNCHANGED <<fsvars, args, links, walk, total, fd, ident, mappings, why>>

(* validate_mapping_stability, against the size of the first stat.         *)
Revalidate ==
  /\ pc = "revalidate"
  /\ IF IdentityHolds(fd, ident, ident.len)
       THEN /\ pc' = "advise"
            /\ UNCHANGED <<args, links, walk, current, mappings, why>>
       ELSE ReturnErr("changed")
  /\ UNCHANGED fsvars

(* Mutant: an empty file, with nothing to advise, stays in the list.       *)
AdviseAndPushUnlessEmpty ==
  /\ pc = "advise"
  /\ pc' = "open"
  /\ mappings' = IF map.len = 0 THEN mappings ELSE Append(mappings,
                   [path |-> Head(todo), size |-> ident.len, map |-> map])
  /\ todo' = IF map.len = 0 THEN todo ELSE Tail(todo)
  /\ fd' = NoInode /\ ident' = NoIdentity /\ map' = NoIdentity
  /\ UNCHANGED <<fsvars, args, links, frames, out, total, why>>

(* advise_sequential, then the push; the File is dropped.                  *)
AdviseAndPush ==
  /\ pc = "advise"
  /\ pc' = "open"
  /\ mappings' = Append(mappings,
                   [path |-> Head(todo), size |-> ident.len, map |-> map])
  /\ todo' = Tail(todo)
  /\ fd' = NoInode /\ ident' = NoIdentity /\ map' = NoIdentity
  /\ UNCHANGED <<fsvars, args, links, frames, out, total, why>>

ReturnOk ==
  /\ pc = "open" /\ todo = <<>>
  /\ pc' = "ok"
  /\ UNCHANGED <<fsvars, args, links, walk, current, mappings, why>>

(* read_dir, open, metadata, mmap or madvise fails in the kernel.          *)
SyscallFails ==
  /\ \/ pc \in {"collect", "stat", "map", "revalidate"}
     \/ pc = "open" /\ todo # <<>>
     \/ pc = "advise" /\ map.len # 0
  /\ ReturnErr("io")
  /\ UNCHANGED fsvars

Advance ==
  \/ \E e \in Nodes : ReadEntry(e)
  \/ LeaveDir
  \/ OpenFile
  \/ StatFile
  \/ MapFile
  \/ Revalidate
  \/ AdviseAndPush
  \/ ReturnOk

(* symlink(2) and rename(2): p becomes a link to the file i, or to none.   *)
SwapLink(p, i) ==
  /\ MayWrite("link")
  /\ dir' = [dir EXCEPT ![p] = i]
  /\ linked' = linked \union {p}
  /\ renamed' = renamed \union {p}
  /\ UNCHANGED <<len, shrunk>>

(* A name that is given another file, or none, is a link no longer.        *)
Writer ==
  /\ \/ FSNext /\ linked' = {p \in linked : dir'[p] = dir[p]}
     \/ \E p \in Paths, i \in Inodes \union {NoInode} : SwapLink(p, i)
  /\ UNCHANGED <<args, listed, pc, frames, out, todo, total, fd, ident, map,
                 mappings, why>>

Returned == pc \in {"ok", "err"}

Next == Advance \/ SyscallFails \/ Writer \/ (Returned /\ UNCHANGED vars)

(* open_with_limits is sequential code that keeps running until it         *)
(* returns; no system call has to fail.                                    *)
Spec == Init /\ [][Next]_vars /\ WF_vars(Advance)
-----------------------------------------------------------------------------
(* The variables of the call are of the right kind in every state.         *)
TypeOK ==
  /\ FSTypeOK
  /\ children \in Trees
  /\ limits \in [file : FileLimits, total : TotalLimits]
  /\ pc \in {"collect", "open", "stat", "map", "revalidate", "advise", "ok",
             "err"}
  /\ linked \subseteq Paths /\ listed \subseteq Paths
  /\ frames \in Seq(SUBSET Nodes)
  /\ out \in Seq(Paths) /\ todo \in Seq(Paths)
  /\ total \in 0..U64Max
  /\ fd \in Inodes \union {NoInode}
  /\ ident \in FileIdentities /\ map \in FileIdentities
  /\ mappings \in Seq(Regions)
  /\ why \in {"none", "open", "link", "special", "file limit", "total limit",
              "changed", "io"}

SumOf(s) ==
  LET sum[n \in 0..Len(s)] == IF n = 0 THEN 0 ELSE sum[n - 1] + s[n]
  IN  sum[Len(s)]

Sizes == [k \in DOMAIN mappings |-> mappings[k].size]

(* The limits bound the sizes of the regions handed out, each and          *)
(* together.  At u64::MAX the total is unlimited: it saturates below it.   *)
SizesWithinLimits ==
  /\ \A k \in DOMAIN mappings : mappings[k].size <= limits.file
  /\ limits.total < U64Max => SumOf(Sizes) <= limits.total

(* max_total_bytes is "the maximum combined size of all mapped files":     *)
(* it bounds the bytes that iter() hands out, which are those of the maps. *)
MappedBytesWithinLimit ==
  limits.total < U64Max =>
    SumOf([k \in DOMAIN mappings |-> mappings[k].map.len]) <= limits.total

(* size() of a region is the length of its as_slice(), as long as nobody   *)
(* truncates its file, however it grows or moves while it is mapped.       *)
RegionSizeIsMappedLength ==
  \A k \in DOMAIN mappings :
    mappings[k].map.ino \notin shrunk => mappings[k].size = mappings[k].map.len

(* The directories under the base, and the nodes they list.                *)
ReachableDirs ==
  LET closed(V) == \A p \in V : children[p] \intersect Dirs \subseteq V
  IN  {d \in Dirs : \A V \in SUBSET Dirs : Base \in V /\ closed(V) => d \in V}

Reachable == UNION {children[d] : d \in ReachableDirs}

(* A corpus that opened has no special file anywhere under its base, and   *)
(* no link but under a name that another program changed meanwhile: what   *)
(* is renamed over a file after its type was read, and before File::open,  *)
(* may be a link, and is followed.                                         *)
OpenedCorpusHasNoLinks ==
  pc = "ok" => Reachable \intersect (Specials \union (linked \ renamed)) = {}

(* Of the files whose names nobody changed, a corpus that opened has a     *)
(* region for every one that is under its base, and for no other; the      *)
(* regions are in the order of their paths, each of them there once.       *)
RegionsAreTheFilesInOrder ==
  /\ pc = "ok" =>
       {mappings[k].path : k \in DOMAIN mappings} \ renamed
         = {p \in (Paths \intersect Reachable) \ renamed : dir[p] # NoInode}
  /\ \A j, k \in DOMAIN mappings :
       j < k => mappings[j].path < mappings[k].path

(* Each error has its cause: what it names is in the tree, or the files    *)
(* really exceed the limit, or another program really changed a file.      *)
NoFalseAlarm ==
  LET files == {p \in Paths \intersect Reachable : dir[p] # NoInode}
      size(p) == len[dir[p]]
  IN /\ why = "link" => Reachable \intersect (linked \union renamed) # {}
     /\ why = "special" => Reachable \intersect Specials # {}
     /\ why \in {"open", "changed"} => writes > 0
     /\ why = "file limit" /\ writes = 0
          => \E p \in files : size(p) > limits.file
     /\ why = "total limit" /\ writes = 0
          => \E s \in SetToSeqs(files) :
               SumOf([k \in DOMAIN s |-> size(s[k])]) > limits.total

(* The walk and the loop end, whatever other programs do to the files.     *)
Terminates == <>Returned
=============================================================================
