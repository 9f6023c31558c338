----------------------------- MODULE MmapBlock ------------------------------
(***************************************************************************)
(* src/mmap.rs, the allocation half: MmapBlock::new, new_on_node and drop. *)
(* bind_memory_to_node of src/numa.rs is the second step of new_on_node.   *)
(* Several threads make and drop blocks, so another thread may map between *)
(* the mmap and the mbind of a block, and reuse the addresses of a block   *)
(* that is gone.                                                           *)
(***************************************************************************)
EXTENDS AddressSpace

CONSTANTS
  Blocks,        \* the variables of the program that can hold a block
  BlockLens,     \* the lengths tried
  Nodes,         \* the NUMA nodes that exist, counted from 0
  NoNode,        \* numa_node() = None
  UnreadBits     \* the bits below maxnode that mbind does not read

ASSUME MmapBlockAssumption ==
  /\ BlockLens \subseteq Nat
  /\ Nodes \subseteq Nat
  /\ NoNode \notin Nodes
  /\ UnreadBits \subseteq 0..1

VARIABLES
  block,     \* each MmapBlock, or where its constructor is
  unread     \* how many bits below maxnode this kernel leaves out

NoBlock == [st |-> "none", addr |-> 0, len |-> 0, node |-> NoNode]

BlockRecords ==
  [st : {"none", "binding", "live", "unbound"}, addr : Nat, len : Nat,
   node : Nodes \union {NoNode}]

blockvars == <<block, unread>>

BlockInit ==
  /\ block = [b \in Blocks |-> NoBlock]
  /\ unread \in UnreadBits

BlockTypeOK ==
  /\ block \in [Blocks -> BlockRecords]
  /\ unread \in UnreadBits

Vacant(b) == block[b].st \in {"none", "unbound"}

SetBlock(b, st, addr, n, node) ==
  block' = [block EXCEPT ![b] =
              [st |-> st, addr |-> addr, len |-> n, node |-> node]]

(* map_region: a zero length never gets here, and an mmap that finds no    *)
(* room is an error that changes nothing.                                  *)
MapRegion(b, n, st, node) ==
  /\ Vacant(b)
  /\ n # 0
  /\ \E addr \in Places(n, PageSize) :
       Mmap(b, addr, n) /\ SetBlock(b, st, addr, n, node)
  /\ UNCHANGED unread

(* MmapBlock::new.  A failing MADV_HUGEPAGE is ignored.                    *)
New(b, n) == MapRegion(b, n, "live", NoNode)

(* MmapBlock::new_on_node up to the mapping.                               *)
NewOnNode(b, n, node) == MapRegion(b, n, "binding", node)

(* nodemask_for_node: the mask as the set of its one bits, and maxnode.    *)
NodemaskForNode(node) == [mask |-> {node}, maxnode |-> node + 1]

(* The nodes the kernel takes from a mask of maxnode bits.                 *)
NodesRead(m) == {n \in m.mask : n + unread < m.maxnode}

(* Mutant: the byte behind the block is unmapped as well.                  *)
UnmapPast(b) == Munmap(block[b].addr, block[b].len + PageSize)

UnmapRegion(b) == Munmap(block[b].addr, block[b].len)

(* mbind(MPOL_BIND) wants a node; if it is not given one, new_on_node      *)
(* unmaps the region again and fails.                                      *)
Bind(b) ==
  /\ block[b].st = "binding"
  /\ IF NodesRead(NodemaskForNode(block[b].node)) # {}
       THEN /\ block' = [block EXCEPT ![b].st = "live"]
            /\ UNCHANGED asvars
       ELSE /\ UnmapRegion(b)
            /\ SetBlock(b, "unbound", 0, 0, block[b].node)
  /\ UNCHANGED unread

(* validate_node refuses the node, or mbind fails for another reason.      *)
BindFails(b) ==
  /\ block[b].st = "binding"
  /\ UnmapRegion(b)
  /\ block' = [block EXCEPT ![b] = NoBlock]
  /\ UNCHANGED unread

DropBlock(b) ==
  /\ block[b].st = "live"
  /\ UnmapRegion(b)
  /\ block' = [block EXCEPT ![b] = NoBlock]
  /\ UNCHANGED unread

BlockStep(b) ==
  \/ \E n \in BlockLens : New(b, n)
  \/ \E n \in BlockLens, node \in Nodes : NewOnNode(b, n, node)
  \/ Bind(b)
  \/ BindFails(b)
  \/ DropBlock(b)

BlockNext == \E b \in Blocks : BlockStep(b)

(* The pages a block may be read and written on.                           *)
BlockPages(b) == PagesOf(block[b].addr, block[b].len)
=============================================================================
