# kernelkit in TLA+

A verification project for kernelkit: TLA+ modules of its components, TLC runs
on small instances, and theorems checked by TLAPS for instances of any size.
Line numbers in `PROJECT.json` and paths such as `mmap.rs` refer to `src/src/`.

## 1. The system

kernelkit is a library of thin, mostly stateless wrappers around operating
system facilities. What makes it worth modelling is that it is called by several
threads of a process that it does not control, and that it works on things other
programs change while it runs: files, the libraries on disk, the address space.

### Components

| Component | State it keeps | Operations | Hard behaviour | What makes it correct |
|---|---|---|---|---|
| File mapping (`mmap.rs`) | locals of one call: descriptor, fingerprint, mapping | `open_read`, `open_read_with_size`, `open_with_advice`, `release` | other programs truncate, extend, rename over or unlink the file between open, stat, mmap (which stats again) and the second stat | the mapping that is returned is the file that was checked, to its last page |
| File identity (`file_identity.rs`) | none | `from_metadata`, `validate_file_identity` | compares two stats around a third, the one of mmap | accepts only what did not change |
| Mapped corpus (`corpus.rs`) | list of files, running total, regions | `MmapCorpus::open`, `open_with_limits` (`collect_files`) | recursion, listing order, links, limits at `u64::MAX`, files that change during the walk | sorted, complete, within the limits, no link but one put there meanwhile; errors have a cause |
| libnuma loader (`numa.rs`) | `LIBRARY` (a `OnceLock`), `INIT_LOCK`, open library handles | `LinuxNuma::load` | double-checked initialisation by several threads, errors that are not cached, libraries that change on disk | one answer for ever, no leak, no deadlock |
| NUMA placement (`numa.rs`) | none of its own | `node_count`, `validate_node`, `pin_to_node`, `migrate_to_node`, `alloc_on_node`, `bind_memory_to_node`, `current_node` | loads libnuma twice per call, with different answers; node numbers with holes | bad nodes are refused, good ones are not |
| Anonymous blocks (`mmap.rs`) | address, length, node | `MmapBlock::new`, `new_on_node`, drop | a failing bind after the mmap; the result of munmap is ignored; addresses are recycled | an owner has its pages and only those |
| Huge-page vectors (`hugepages.rs`) | mapping or `Vec`, number of written elements | `new`, `new_fallible`, `try_new`, drop | panics in constructors and destructors of the elements, overflow of lengths, over-aligned types | each element made and dropped once |
| Memory locks (`mlock.rs`) | none (the kernel's) | `lock_region`, `unlock_region` | locks do not nest and cover whole pages, which regions share; a region may be empty | a lock holds until a region on its pages is unlocked |
| Binary formats (`binformat.rs`) | none; the reader's remaining slice | `FileHeader::write_to`, `read_from`, `read_section` | truncated files, lengths at the edge | reads back what was written or says why not |
| Memory status (`memory.rs`) | five optional numbers | `memory_pressure` | lines in any order, early exit, fallback, overflow | the result is that of the file, whatever the order |
| CPU features (`cpu_features.rs`) | a `OnceLock` | `detect` | several first callers; files of cpu0 that come and go; sizes with units | one answer for all, each size from a file or a default |
| Prefetch (`prefetch.rs`) | locals of one call | `prefetch_read`, `prefetch_write`, `prefetch_range` | steps by a line size it read from a file, from any address | stays in the range, ends, misses no line but the last |
| Readahead, page cache (`readahead.rs`) | none (the kernel's) | `readahead`, `evict_pages`, `advise_sequential` | pages shared with neighbouring ranges and other programs; conversions to `off_t` | evicts nothing outside the range |
| Affinity (`affinity.rs`, `current_node`) | none (the kernel's) | `pin_to_core`, `pin_to_numa_node`, `read_irq_affinity`, `current_node` | masks in words and groups; the scheduler and the interrupt move | a pinned thread stays, a list is the mask |
| Performance counters (`perf.rs`) | one descriptor and its type | `PerfCounter::open`, `read`, `reset`, drop | the thread is moved, the counter handed on, the descriptor recycled | counts its thread and its event, closes its own descriptor |
| Errors, `page_size` (`lib.rs`) | none | `Error`, `checked_len`, `non_zero_len`, `page_size` | | `checked_len` is in HugePageVec, `non_zero_len` in Memory |

How they interact: `open_*` and the corpus share `file_identity.rs`;
`MmapBlock::new_on_node` calls `bind_memory_to_node`, and every placement
function calls `validate_node`, `node_count` and so `LinuxNuma::load`;
`pin_to_numa_node` forwards to `pin_to_node`; `alloc_on_node` ends in
`migrate_to_node`. Blocks, vectors and locks interact only through the address
space they share. `prefetch_range` asks `detect` for the line size. The affinity
calls decide where a thread runs, and a `PerfCounter` must count it there.
There are no messages, no callbacks except `T::default()` and
destructors in `HugePageVec<T>`, and nothing that survives a crash of the
process, so no module models restarts.

`SPEC.md` at the top of the repository also describes items that are not in the
source; they are not modelled.

## 2. The modules

| Module | Models | Built on |
|---|---|---|
| `FileSystem` | external: names, inodes, lengths, and the other programs | |
| `FileIdentity` | `file_identity.rs` | `FileSystem` |
| `FileMap` | the file half of `mmap.rs` | `FileIdentity` |
| `Corpus` | `corpus.rs` | `FileIdentity` |
| `LoadOnce` | what callers of `LinuxNuma::load` are promised (abstract) | |
| `NumaLoader` | `LinuxNuma::load` and what it calls | implements `LoadOnce` |
| `Numa` | the placement functions | `NumaLoader` |
| `AddressSpace` | external: mmap, munmap, mlock | |
| `MmapBlock` | the allocation half of `mmap.rs`, `nodemask_for_node` and mbind | `AddressSpace` |
| `HugePageVec` | `hugepages.rs`, `checked_len` | `AddressSpace` |
| `Ownership` | what owners of memory are promised (abstract) | |
| `Memory` | blocks, vectors and `mlock.rs` in one address space | `MmapBlock`, `HugePageVec`; implements `Ownership` |
| `BinFormat` | `binformat.rs` with a writer and a reader | |
| `MemInfo` | `memory.rs` | |
| `CpuFeatures` | `cpu_features.rs` | |
| `Prefetch` | `prefetch.rs` and the callers of `detect` | `CpuFeatures` |
| `PageCache` | `readahead.rs`, and external: the page cache of a file | |
| `ScanHints` | the hints of a scan together | `Prefetch`, `PageCache` |
| `Affinity` | `affinity.rs`, `current_node`, and external: the scheduler | |
| `PerfCounter` | `perf.rs`, and external: descriptors and the processor | `Affinity` |
| `ScanThread` | threads that place themselves and count | `PerfCounter` |
| `FileMapProofs`, `CorpusProofs`, `MemoryProofs`, `BinFormatProofs`, `MemInfoProofs`, `ScanHintsProofs`, `ScanThreadProofs` | theorems | each its module |
| `NumaProofs` | theorems | `NumaLoader`, and `Numa` on top of it |
| `MC*` | values of the constants for TLC, symmetry | each its module |

### How state and actions correspond to the code

**FileMap.** `pc[c]` is the next system call of caller `c`; `fd`, `ident`, `map`
are the `File`, `expected_identity` and the `Mmap`. One action per system call:
`OpenFile`, `StatFile` (with the size check of `open_read_with_size`), `MapFile`
(memmap2 stats the file itself), `Revalidate` (`validate_file_identity`),
`Advise`; `SyscallFails` is a failure in the kernel at any of them, `Release` the
drop of the mapping. `open_read` is
`open_with_advice` with the sequential advice and takes the same steps.
`Writer` steps of `FileSystem` come between any two. `shrunk` and `renamed` are
history variables: which files were truncated and which names changed their
file. Lengths are counted in pages; contents are left out.

**Corpus.** The nodes of the tree are numbers in the order of `PathBuf`.
`frames` is the recursion of `collect_files`, a stack of the entries not read yet;
`ReadEntry` is a round of its loop, `LeaveDir` its return and, at the end, the
sort (`SortedFiles` is the list in the one order that ascends). `OpenFile`, `StatFile` (both limits), `MapFile`, `Revalidate`,
`AdviseAndPush` are the loop of `open_with_limits`. The kernel lists a directory
in one batch and in any order, with the types of its names: `linked` are the names that are
links now and `listed` those that were when they were listed. `IsSymlink` is
`file_type()`, which answers by the listing or, on file systems that keep no types there, by an lstat.
Among the changes of other programs is `SwapLink`, which puts a link in the place of a
name; `OpenFile` follows it, as `File::open` does.

**NumaLoader.** `cell` is `LIBRARY`, `holder` the owner of `INIT_LOCK`, `handles`
counts the open `libloading::Library` of each candidate. One action per step of
`load`, `try_load` and `load_from_name`. `Install` changes a library on disk: it
may be missing, lack a symbol, be unavailable or be usable. A library that is
open stays what it was when it was opened (`image`).

**Numa** runs each placement function as one or two calls of `load` (the
actions of `NumaLoader`, unchanged) with the code's decisions between them.
`Validated` is the end of `validate_node` and the branch each function takes next.
`libMax` is what `numa_max_node` answers, which may be an error below zero;
`node_count` then falls back to sysfs, and `HasMultipleNodes` is false. `ReadAsSuccess` is what the
code makes of the calls of libnuma: `numa_run_on_node` refuses nodes that do not exist, and
`numa_tonode_memory` returns nothing, so that what the code reads may be anything.

**AddressSpace, MmapBlock, HugePageVec, Memory.** Pages have an owner; `mmap`
picks any free place, so addresses are recycled at once. Units are smaller than
pages, so a length that is no multiple of a page exists. `Bind` is a step of its
own because other threads map and unmap between mmap and mbind. The loop that
writes the elements of a `HugePageVec` takes one step per element
(`InitElement`), so that `DefaultPanics` may come after any of them. A mapping that is not
aligned for the type is there until `UnmapMisaligned` gives it back, and other threads map and
unmap in between.
`unread` is how many bits below `maxnode` the kernel leaves out of a mask: 0 is what
the code expects, 1 is what Linux does. `LockRegion` and `UnlockRegion` take any
bytes of a block or of a mapped vector, or none of them. `locks` is a history
variable: the pages of each `lock_region` that no `unlock_region` and no drop has
ended. `Munlock` of the address space rounds as the kernel does, also the region
without bytes, which `region_call` never passes on. `KeepsOwnership` says that blocks
and vectors together implement `Ownership`, with `held[o]` as the pages whose owner
is `o`.

**BinFormat** keeps bytes as numbers below `Base`; a `u64` is what `Width` of them
spell, the least significant first (`FromLe`, and `ToLe` by division).
The reader's `rest` is the slice the parsers return. `Close(n)` cuts the file at any
byte, which is what a sink failing in `write_to` or a crash of the writer leaves.
The repository has no writer of sections; `AppendSection` follows the wire
format that `read_section` parses and is external.

**MemInfo** keeps the lines of the five fields in any order, each present or not,
each with a number or something unparsable. `ReadFile` reads it, or fails (`SysfsRead`); `ReadLine` is
a round of the loop with its `break`; `Finish` is the rest of the function.

**CpuFeatures, Prefetch.** `cell` is `FEATURES`; `builder` is the thread inside
`detect_impl`, and `probe` its locals with the file it reads next: each read is a
step (`ReadLineSize` to `ReadL3`), and `Toggle` takes cpu0 and its files away or
brings them back between any two. Threads that find a builder wait until the cell is
set (`Detected`). A text is a number and a unit, or has no number; every spelling of
a unit that `parse_cache_value` strips is one of the units 0 to 3. `PrefetchLine` is a round
of the loop. The line size it steps by is the one detected, while `HwLine` is the one
the cache has; `touched` collects the addresses it formed.

**PageCache.** One file, its pages in memory (`cached`) and those that somebody
holds on to (`held`). The three functions are one action each, with their
conversions (`ToOff`) and the kernel's part: `readahead` loads any part of what it was
asked for, `DontNeed` is the rounding of `POSIX_FADV_DONTNEED`. `Others` and `ReadPage` are the
readers of the file. `HintFails` is a call that returns an error. `ScanHints` joins
the two; they share the bound on calls and nothing else.

**Affinity, PerfCounter, ScanThread.** `allowed` and `on` are the kernel's view of a
thread, `pinned` and `seen` remember the latest `pin_to_core` and what
`current_node` said since. A mask is passed as words (`MaskOf`, read back by the kernel
as `CoresIn`) and printed in groups, the highest first (`SmpAffinity`, read by
`ParseIrqAffinity`, whose round n is for bit n - 1, tested by `HasBit`); `CpuSetSize`, `WordBits` and `GroupBits` are constants so that a small
machine has both boundaries. `table` is the descriptor table, with the lowest free
descriptor handed out next, and `counter` the `PerfCounter` values, which any thread may
reset, read or drop. `Retire` is one thing to count in one thread; the kernel counts
it in `Slots` of that thread's events. `truth` is a history variable: what a counter should say.

## 3. The runs

| Run | Question | Bounds |
|---|---|---|
| `file_map` | what do callers get when other programs change the files they map? | 2 callers, 1 path, 2 inodes, lengths 0..2, 3 changes of all four kinds |
| `file_map_truncated_back` | violation: does `open_read_with_size` return the size it checked? | 1 caller, 1 file of the greatest length, 2, and 2 changes |
| `corpus` | is an opened corpus complete, sorted, within its limits, free of links; do errors have causes; does the call return? | two trees of up to 6 nodes below the base: 3 files, one of which may be a link from the start, 2 directories, and a special file in one of the trees; 2 inodes, 1 change of any of five kinds, limits below, at and above the sizes, `u64::MAX` = 5 |
| `corpus_truncated_back` | violation: does `max_total_bytes` bound the mapped bytes? | 1 file, 2 changes |
| `numa_loader` | does `load` implement `LoadOnce`, return, and close what it opened? | 3 threads, 2 candidates, 2 calls each, 2 changes on disk |
| `numa_placement` | are bad nodes refused and good ones accepted while the answer of `load` changes? | 2 threads, machines {0}, {0,1}, {0,2}, nodes 0..2, `numa_max_node` right or in error, 1 change on disk, one function call per thread |
| `memory` | do blocks and vectors implement `Ownership`; does anybody lose a page, lock or element? | 6 pages of 2 units, huge pages of 2 pages, 2 blocks, 1 vector, counts 0, 1, 3, 7, 8 of a one-page type and of one aligned to two huge pages, `usize::MAX` = 15, locks on regions of 0, 1 and 3 units anywhere, 2 at a time |
| `memory_node_on_linux` | violation: does `new_on_node` succeed on Linux? | 1 block, 2 nodes |
| `bin_format` | what does a reader get from a file that is cut anywhere? | bytes of 2 values, `u64` of 2 bytes, 3 magics, 3 versions, up to 3 sections of up to 3 bytes, `usize::MAX` = 2 |
| `mem_info` | does the result depend on order, early exit or overflow? | all subsets and orders of the 5 lines, numbers 0, 1, 5 or unparsable, a KiB of 2, `u64::MAX` = 9 |
| `scan_hints` | do all callers of `detect` agree, where do sizes come from, what do the hints touch, does every call return? | 2 threads, 3 calls in all, 5 sets of cache files, cpu0 toggled once, lines of 4 bytes, ranges of 0, 3, 11 bytes from null, 4 and 6, a cap of 9, a K of 2, `usize::MAX` = 15; a file of 2 pages, the last one half, offsets and lengths 0, 1, 2 and 6 with `off_t::MAX` = 5 |
| `scan_thread` | do pins hold, are lists the mask, do counters count their thread? | 2 threads, 4 calls in all, 3 cores on 2 nodes in words and groups of 2 bits, core arguments 0..4, 2 counters of 2 kinds on 2 descriptors, room for 1 event, 2 things counted, the interrupt moved once |

Why the bounds are enough. The races of `FileMap` need one caller and at most two changes
between three stats; the run allows three changes and a second caller. In
`Corpus` a change affects one file or name, and the three files sit at depths one to three, so a
link is put in the place of a name before it is listed, after, and after its type was read; two
changes to one file are the subject of `corpus_truncated_back`. In
`NumaLoader` three threads give a holder, one that waits and one that comes late;
two calls show a retry after an error; the number of threads is of no
consequence, as the theorems of section 5 show. `Memory` has room for two or three
mappings, so that every address is recycled, and each length is tried as zero, as no
multiple of a page, as overflowing when it is multiplied (8 elements of 2
units), as overflowing when it is rounded up, and as beyond what a `Vec` can
hold. In `BinFormat` lengths 0..3 lie below, at and above `UsizeMax`, and payloads
contain bytes that look like a section. In `MemInfo` the numbers saturate when
they are multiplied and overflow when they are added.

In `scan_hints` two threads are a builder and one that waits or comes late, and three
calls let both prefetch and one of them call again. The sets of cache files have
the data cache first, second, unified or nowhere, sizes whose product is the largest that
fits, overflows at the first or at the last factor, line sizes of 0, three quarters of a line, a line and nonsense, and no files at all;
ranges begin at a line and inside one, and are shorter and longer than the cap. In
`scan_thread` the three cores lie in both words and both groups, with a hole at 2; 3 is
the first core number beyond `CPU_SETSIZE`, but within its last word, and 4 is beyond the
mask. Two counters on two descriptors are recycled by each other and by other
files, and one slot is one too few for both in one thread.

Deadlock is checked in every run. Where the code may stop, the module has an
explicit stuttering disjunct (`Finished`, `Stopped`, `Returned`).
Symmetry is used in `file_map`, `numa_placement`, `memory` and `scan_thread`, none of
which checks liveness.

### Fairness and liveness

`Corpus` assumes weak fairness of `Advance`: the function is sequential code
and runs until it returns, and system calls need not fail. `Terminates` then says the
walk and the loop end whatever others do. `NumaLoader` assumes weak fairness of
each thread's `Step` inside `load`: a thread that can run is scheduled. Nobody
is forced to call, and nothing on disk has to change. Weak fairness of `Lock` is
enough only because calls are bounded by `MaxCalls`; with an endless stream of
callers the mutex would have to be fair. `ScanHints` assumes weak fairness of what a thread
does inside a call: the reads of the detection do not block, the builder is always
one of the threads, and `OnceLock` wakes those that wait. Its `EveryCallReturns` says
that no file and no line size, 0 included, keeps a call from its end. The other modules state no fairness and
check safety only.

## 4. What the runs found

Three runs exhibit a disagreement between the code and what it says of itself.

* `open_read_with_size` checks the two stats against `expected_size` and never
  looks at the length memmap2 mapped. Truncate before the mmap and restore after it,
  and the mapping is shorter than the size the caller was promised: in the run a file of
  length 2 is mapped with length 0 and is 2 again for the second stat.
  `open_with_advice` compares the mapped length and is not affected.
* `MmapCorpus` has the same gap with a file that grows and shrinks back, so
  it can map more than `max_total_bytes`.
* `nodemask_for_node` passes `maxnode = node + 1`. Linux reads `maxnode - 1` bits,
  so the bit of the node is never read and `mbind(MPOL_BIND)` with an empty mask is
  refused with `EINVAL`. (A call of mbind with mask 1 and maxnode 1 on
  Linux confirms it; the model takes the kernel's rule as the parameter
  `UnreadBits`.)

Divergences that no run is spent on; where a property is named, it states what the
code does.

* `validate_file_identity` says it notices a file that was replaced
  (`file_identity.rs:60-62`); its second stat goes through the descriptor and cannot.
* `node_count` says it is the number of nodes (`numa.rs:200`). It is the highest node number
  plus one, which `validate_node` needs (`ExistingNodeIsValid`). Where only the directory
  of sysfs is left to count, it is the number of nodes, and an existing node may be refused.
* Corpus scanning "explicitly rejects symlinks" (`SPEC.md:46`, also `SPEC.md:36` and
  `README.md:19`). It rejects those it finds when it reads the type of a name
  (`corpus.rs:162-167`). All files are opened after the walk, by `File::open`
  (`corpus.rs:74`), which follows links: a link that takes the place of a file in between is
  mapped. `OpenedCorpusHasNoLinks` excepts the names that another program changed.
* `read_from_meminfo` says a missing or unparsable `MemAvailable` is an error
  (`memory.rs:49-50`); the code estimates it. `ResultIsOfTheFile` requires the estimate, and
  its comment says so.
* `migrate_to_node` says it is a no-op on a single node and without libnuma
  (`numa.rs:160-163`). It is one too when `numa_max_node` answers with an error, on a
  machine of any number of nodes (`NoOpHasCause`). And it says it fails when the migration does
  (`numa.rs:175`): `numa_tonode_memory` returns nothing, and what `numa.rs:424` reads as its result
  is not one, so either outcome is possible whatever the kernel did (`ReadAsSuccess`).
* `prefetch_range` says it prefetches all lines that overlap the range (`prefetch.rs:69`).
  From a pointer inside a line, or with a size that was detected and does not divide that
  of a line, it can miss the last one and no other (`MissesAtMostTheLastLine`).
* `evict_pages` speaks of the specified range (`readahead.rs:44`); a length of 0 is
  everything from the offset on (`EvictsOnlyWholePages`).
* A test asserts that the line size detected is above 0 (`cpu_features.rs:224`). A file that says 0
  is believed; `prefetch_range` guards against it.
* `l1_size` is documented as the L1 data cache (`cpu_features.rs:30`). Without the size of a
  data cache the code takes that of another (`EachSizeHasASource`).
* `HwCounter::CacheMisses` is documented as L1 data cache misses (`perf.rs:28`);
  `PERF_COUNT_HW_CACHE_MISSES` usually counts those of the last level. And `PerfEventAttr`
  has 136 bytes and not the 128 its comment says (`perf.rs:15`), which kernels accept because
  all of the rest is zero.

## 5. What is proved

Every invariant and every property of steps that a passing run checks is the
statement of a theorem in one of the proof modules, and so are both refinements
(`KeepsPromise` and `KeepsOwnership`). TLAPS checks all of them, for every value
of the constants that satisfies the named assumptions:

| Assumption | It says, besides that numbers are numbers and marks such as `NoInode` are not what they stand in for |
|---|---|
| `FileSystemAssumption` | which kinds of changes there are |
| `CorpusAssumption` | the base is in no directory, no name is in two, a name is of one kind; no file is longer than a `u64` can say |
| `NumaLoaderAssumption` | the candidates are a sequence of libraries |
| `NumaAssumption` | a machine has one node or more, finitely many |
| `AddressSpaceAssumption`, `MmapBlockAssumption`, `MemoryAssumption` | blocks and vectors have different names |
| `HugePageVecAssumption` | the size of a type is a multiple of its alignment |
| `BinFormatAssumption` | there are two values of a byte or more; versions and lengths fit into a `u64` |
| `MemInfoAssumption` | numbers fit into a `u64` |
| `CpuFeaturesAssumption`, `PrefetchAssumption` | the defaults are sizes, and above 0 |
| `PageCacheAssumption` | the length of the file is one an `off_t` can say |
| `AffinityAssumption` | the groups of a printed mask have a bit for every core |
| `PerfAssumption` | there are finitely many descriptors |

TLC evaluates each of them in the runs of its module. The number of threads, callers, files,
calls and changes is not assumed to be finite, except where it is listed.

Each property follows from an inductive invariant with one lemma for each action. What
these invariants add to the properties, and why it is needed:

**FileMapProofs**: `TypeCorrect`, `StatMapAgree`, `SizedHasExpectedSize`,
`UnbackedOnlyIfTruncated`, `NoAlarmIsFalse`.

`StatMapAgreement` alone is not inductive: it says nothing of the calls before
the second stat. `IndInv` adds to the types, for each caller, what its locals have to do
with the file it has open at each of its system calls (`LocalsMatch`), and
that for a file that was never truncated the three lengths it looks at are in order
(`LengthsOrdered`): the stat is at most the mapping and the mapping at most the
present length. When the second stat equals the first, the one in between is
squeezed to the same value. A step of another program preserves the order
because truncated files leave its scope for ever (`WritersOnlyGrow`); a step of a
caller is invisible to the others (`StepIsPrivate`). For `NoAlarmIsFalse` it is enough
that before the first write every stat sees the file as it is (`CalmInv`).

**CorpusProofs**: `CorpusTypeCorrect`, `SizeIsMappedLength`, `NoLinksInCorpus`,
`RegionsAreFiles`, `LimitsHold`, `CorpusErrorsHaveCauses`.

`LengthsInv` is the argument of `FileMap` again, for the file of the round. `WalkInv` is the
recursion: the names still to be read and the files found are all under the base and each
is held once (`NamesHeld`), and there is a set of directories, those entered so far, whose
names have all been dealt with or are still to be read (`Entered`). When nothing is left to
read that set is closed, so it holds every directory one can reach (`Reaching`) and every
file, special file or link of an unchanged name in them was seen (`WalkedEverything`). `LinksListed`
says that a name nobody changed still has the type it was listed with, so that it makes no difference
which of the two `IsSymlink` answers by. `ProgressInv` ties the regions to a front of
the sorted files, `TotalInv` the running total to the sum of their sizes: the total
saturates, but it is the sum as long as it is within a limit below `u64::MAX`. For
`CorpusErrorsHaveCauses` `CalmInv` says that without writes the sizes seen are those of
the files, so that the sum at the moment of a refusal is at most that of all files.
On the way: an order that sorts exists for every finite list (`SortingOrderExists`), and
`SumOf`, a recursive function, gives back what was appended last (`SumOfAppend`).

**NumaProofs**: of the loader `LoaderTypeCorrect`, `LockIsExclusive`, `CellIsSetOnce`,
`NoLeaks`, and `LoaderKeepsPromise`, which says that `NumaLoader` implements `LoadOnce`; of
placement `OutOfRangeIsStopped`, `ExistingNodesAreValid`, `NoOpsHaveCauses` and
`LoaderIsKept`.

The inductive invariant of the loader joins the types with `MutualExclusion` (a thread is in the
critical section iff it holds the lock), `CellIsEmptyWhileTrying` (whoever got past
the second look finds the cell empty until it sets it: this is what the
double check is for), `CellIsSetOnceByHolder`, `OpenIsCandidate` (an open library
is one of the candidates) and `NoHandleLeaks`. The
handle count is the delicate part: that `handles[l]` is exactly 1 or 0 depends on there
being one thread in the critical section (`OneInCritical`). The refinement maps
`waiting` to the threads inside `load`; `Call` implements `AbsCall`, `SetCell` implements
`Find`, every return implements `AbsReturn`, and all other steps stutter. The
returns need the invariant: `ReadBack` must find a value, and a
broken library must not be an error once the cell is set.

The placement functions take the steps of the loader between their own, so its
invariant holds on (`LoaderIsKept`). `NumaInv` adds `AnswersAgree` (whoever was
given a library, or none at all, was given what the cell holds, for good), which carries
`NoOpsHaveCauses`, and `TaskInv` (a thread past the validation has a node that is no more than
the highest). `CountCoversNodes` says that the count, whichever source it came from, is never above the
highest node plus one, and is exactly that where sysfs lists the nodes, which is what the other
two theorems need; that nodes with holes have a
highest one takes a proof of its own (`GreatestOfNaturals`).

**MemoryProofs**: `MemoryTypeCorrect`, `OwnersHaveTheirPages`, `ElementsBalanced`,
`LocksAreKept`, and `OwnershipKept`, which says that `Memory` implements `Ownership`.

`MemInv` says of each handle that the pages it owns are those its address and length
cover, all and only those (`BlockInv`, `VecInv`), that huge pages are those of vectors
(`KernelInv`), that the mapping of a vector is made of whole huge pages at an address for its
type and has room for its elements (`ShapeOf`), and that every locked region is in memory (`LockInv`).
A step of one owner is then one of three moves: it takes free pages, gives back all of its
own, or touches none (`Moves`). Everything about the others follows from the move
(`OthersKeepTheirPages`, `MovesKeepLocks`), and so does the step of `Ownership` (`MoveRefines`).
The arithmetic is in `HugeRangesAreWhole` (a length rounded up to huge pages, at an address that
is a multiple of one, covers whole huge pages), without which munmap would be refused, and in
`AlignUpIsMultiple`.

**BinFormatProofs**: `WhatIsReadWasWritten`, `EveryByteIsAccountedFor`,
`ReaderErrorsHaveCauses`.

`BytesComeBack` and `NumberComesBack` are the round trip between numbers and their bytes,
for any base and width. `FileOfAppend` and `FileGoesOn` take a file apart section by section;
with them `BinInv` says that the file is what was written up to the cut (`FileInv`), that
what was read and what is left make up the file (`ReadInv`), and that a reader who expects the
magic that was written has a front of the payloads (`MatchInv`). The step that
matters is `NextSection`: the length the reader finds is that of the next payload, because
what was written goes on with it.

**MemInfoProofs**: `StatusIsOfTheFile`. `ReadInv` says the loop knows exactly the lines
behind it, or has left with the two fields it wants, when the others may be unknown.
`NothingMoreToKnow` is why the early exit does no harm.

**ScanHintsProofs**: `ScanTypeCorrect`, `DetectionIsAgreedOn`, `PrefetchStaysInRange`,
`SizesHaveSources`, `OnlyTheLastLineIsMissed` and, for steps, `EvictionIsExact`.

`OneAnswerForAll` alone is not inductive. `ScanInv` adds `CellInv` (while a thread
detects, the cell is empty, so no thread has an answer that the cell could still
contradict) and `AnswerInv` (what a thread was given is the cell or nothing). `ProbeInv`
says which sizes the detection has found at each of its reads, with one lemma per
read; with it the last read fills the cell with sizes throughout. It rests on
`CheckedMulIsASize`: a checked product is a size a `usize` can hold, or none.
`LoopInv` holds the range property itself: each
address is formed from an offset below the capped length, and what the saturating addition
makes of the next offset does not matter. `SourceInv` follows the detection once more and
says where each of its sizes was read, and that while the files stay it passes over a
data cache only if that has no size. `CoverInv` says that the addresses of a call are one step
apart and leave no byte more than a step behind; with steps of at most a line only the
line of the last byte can be left out (`MissedIsLast`), and it is not if the steps
meet the beginnings of lines. `EvictionIsExact` needs no invariant: it is arithmetic
about pages and bytes.

**ScanThreadProofs**: `PinnedThreadsStay`, `ListsAreMasks`, `DescriptorsBelong`,
`CountersCountTheirThread`.

`AffInv` rests on `MaskHasOneCore`: word and bit of a core determine it, so the kernel finds that
core in its mask and no other. `PerfInv` makes the open counters and the events one
to one, across everything that recycles a descriptor, and says that an event has the type
and the thread of its counter. That a counter which never took turns misses nothing needs `AllOfThemRun`.
`ListsAreMasks` is about the loop over groups and bits: after n
bits the list has the cores below n that are set, in ascending order (`Lists`), and the text has
the bit of a core exactly where the mask has it (`PrintedBit`).

**Loops over data.** The theorems on induction in the prover's library cannot be
instantiated with an operator. Where a proof is about what a loop computes, the loop is a recursive function
in a LET, and the proof goes by the least counterexample: `LeastNatural`, from `WFMin` of
`WellFoundedInduction`, gives the first round at which a claim fails, and the round before it
refutes that. The same way a recursive function is shown to exist (`RunExists`, `LoopsExist`,
`PartialSumsExist`) before anything is said of it.

**What the proofs changed in the models.** `MissesAtMostTheLastLine` said that nothing is
missed from the beginning of a line; its proof failed for a size that does not divide that of
a line, the run now has one, and the property says so. `MemInfoAssumption` allowed the mark of an unparsable
number to be the mark of a missing one. `SortedFiles`, `SumOf`, `ParseIrqAffinity`, `FromLe`,
`ToLe` and `FileOf` were folds and are now recursive functions or, for the sort, the order that ascends.

**Only model-checked**: liveness, `Terminates` of `Corpus`, `EveryCallReturns` of the
loader and of `ScanHints`; liveness under fairness is beyond the prover. The three runs
that expect a violation show counterexamples and have nothing to prove.

## 6. What is not modelled

* `page_size`: one sysconf call; the page size is a constant of the models. The
  error enumeration of `lib.rs`: names and texts.
* `prefetch_read`, `prefetch_write` and `prefetch_nontemporal` on their own: one instruction
  each without an effect on any state, the same as a step of `prefetch_range`, behind a look for null.
* Null pointers given to `lock_region` and `unlock_region`: they are refused (`mlock.rs:48-50`)
  before anything happens, so only the regions of blocks and vectors are tried.
* In `Corpus`, changes of directories and special files: they stay put, and only the names of
  regular files and links change what they stand for. A directory that is moved, or a link that takes
  the place of a directory between its `file_type` and its `read_dir`, is out of the model.
* Locks do not nest: an unlock of one region undoes the lock of another on the same page.
  That is what mlock does, and the code promises no more. The history `locks` follows the
  kernel in this, so `LocksHold` is about drops, recycled addresses and regions without bytes, and not
  about neighbours that unlock.
* In what is modelled: the contents of files and pages, the characters
  of paths and of `/proc` and `/sys` files, the texts of errors, builds
  for systems other than Linux (constants and no-ops),
  and failures of `MADV_HUGEPAGE`, which the code ignores. The conversions of a node to
  `c_int` cannot fail behind `validate_node`, whose bound is at most `c_int::MAX + 1` when
  libnuma answers and the number of nodes sysfs lists when it does not.
* Groups of `smp_affinity` of more than eight digits, or with a prefix `0x`: the kernel prints none.

## 7. Plan

Order of work, most important first. All but the last are done.

1. `FileSystem`, `FileIdentity`, `FileMap` with proofs.
2. `Corpus`.
3. `LoadOnce`, `NumaLoader` with proofs and refinement, `Numa`.
4. `AddressSpace`, `MmapBlock`, `HugePageVec`, `Memory`.
5. `BinFormat`, `MemInfo`.
6. `CpuFeatures`, `Prefetch`, `PageCache`, `ScanHints`.
7. `Affinity`, `PerfCounter`, `ScanThread`.
8. `Memory`: locks on parts of a region that share a page with another lock, and
   `Ownership`, which blocks and vectors implement.
9. Proofs of every invariant and action property the runs check, and of both refinements
   (section 5).
10. Left: shorter proofs where a lemma repeats the steps of another, and liveness,
   which stays with TLC.
