---------------------------- MODULE FileIdentity ----------------------------
(***************************************************************************)
(* src/file_identity.rs: the fingerprint of a file taken when it is        *)
(* stat-ed, and the comparison with a second stat after the file has been  *)
(* mapped.  mmap.rs and corpus.rs share it.  Both stats go through the open *)
(* descriptor, so they concern an inode and never a path.                  *)
(***************************************************************************)
EXTENDS FileSystem

FileIdentities == [ino : Inodes \union {NoInode}, len : 0..MaxLen]

NoIdentity == [ino |-> NoInode, len |-> 0]

(* Mutant: the length is one too long.                                     *)
FromMetadataLonger(i) == [ino |-> i, len |-> len[i] + 1]

(* FileIdentity::from_metadata of a descriptor that is open on inode i.    *)
FromMetadata(i) == [ino |-> i, len |-> len[i]]

SameInode(expected, current) == expected.ino = current.ino

(* Mutant: only the inode is compared.                                     *)
IdentityOfInodeHolds(i, expected, expected_len) ==
  SameInode(expected, FromMetadata(i))

(* validate_file_identity accepts the file that is open on inode i.        *)
IdentityHolds(i, expected, expected_len) ==
  LET current == FromMetadata(i) IN
    /\ current.len = expected_len
    /\ current.len = expected.len
    /\ SameInode(expected, current)
=============================================================================
