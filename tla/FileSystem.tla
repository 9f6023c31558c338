----------------------------- MODULE FileSystem -----------------------------
(***************************************************************************)
(* The files kernelkit maps, as the operating system keeps them, and the   *)
(* other programs that write to them.  Nothing here is code of kernelkit:  *)
(* the module is external, and is what src/mmap.rs, src/file_identity.rs   *)
(* and src/corpus.rs rely on when they call open, fstat and mmap.          *)
(*                                                                         *)
(* A directory entry names an inode and an inode has a length; a file that *)
(* is open or mapped stays attached to its inode whatever happens to the   *)
(* name.  Contents are abstracted away: only names, identities and lengths *)
(* matter to the checks kernelkit makes.                                   *)
(***************************************************************************)
EXTENDS Naturals

CONSTANTS
  Paths,      \* the names that may denote a regular file
  Inodes,     \* identities of regular files, a (dev, ino) pair of the code
  NoInode,    \* what a name without a file denotes
  MaxLen,     \* bound: the longest file, in pages
  MaxWrites,  \* bound: how many changes the other programs make
  Writers     \* which kinds of change the other programs make

ASSUME FileSystemAssumption ==
  /\ NoInode \notin Inodes
  /\ MaxLen \in Nat
  /\ MaxWrites \in Nat
  /\ Writers \subseteq {"truncate", "extend", "replace", "unlink", "link"}

VARIABLES
  dir,     \* the inode each path names
  len,     \* the length of each inode
  writes,  \* how many changes the other programs have made
  shrunk,  \* history: the inodes they have truncated
  renamed  \* history: the paths they have given another file, or none

fsvars == <<dir, len, writes, shrunk, renamed>>

FSTypeOK ==
  /\ dir \in [Paths -> Inodes \union {NoInode}]
  /\ len \in [Inodes -> 0..MaxLen]
  /\ writes \in 0..MaxWrites
  /\ shrunk \subseteq Inodes
  /\ renamed \subseteq Paths

FSInit ==
  /\ dir \in [Paths -> Inodes \union {NoInode}]
  /\ len \in [Inodes -> 0..MaxLen]
  /\ writes = 0
  /\ shrunk = {}
  /\ renamed = {}

MayWrite(kind) ==
  /\ kind \in Writers
  /\ writes < MaxWrites
  /\ writes' = writes + 1

Truncate(i, n) ==
  /\ MayWrite("truncate")
  /\ n < len[i]
  /\ len' = [len EXCEPT ![i] = n]
  /\ shrunk' = shrunk \union {i}
  /\ UNCHANGED <<dir, renamed>>

Extend(i, n) ==
  /\ MayWrite("extend")
  /\ n > len[i]
  /\ len' = [len EXCEPT ![i] = n]
  /\ UNCHANGED <<dir, shrunk, renamed>>

(* rename(2) of a complete file onto p, or the creation of p.  The name    *)
(* changes its inode; the old inode lives on for whoever has it open.      *)
Replace(p, i) ==
  /\ MayWrite("replace")
  /\ dir[p] # i
  /\ dir' = [dir EXCEPT ![p] = i]
  /\ renamed' = renamed \union {p}
  /\ UNCHANGED <<len, shrunk>>

Unlink(p) ==
  /\ MayWrite("unlink")
  /\ dir[p] # NoInode
  /\ dir' = [dir EXCEPT ![p] = NoInode]
  /\ renamed' = renamed \union {p}
  /\ UNCHANGED <<len, shrunk>>

FSNext ==
  \/ \E i \in Inodes, n \in 0..MaxLen : Truncate(i, n) \/ Extend(i, n)
  \/ \E p \in Paths, i \in Inodes : Replace(p, i)
  \/ \E p \in Paths : Unlink(p)
=============================================================================
