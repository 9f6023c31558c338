---------------------------- MODULE MCScanHints -----------------------------
(***************************************************************************)
(* ScanHints for TLC: cache files of several machines, with lines of 4     *)
(* bytes, a K of 2 and 15 for usize::MAX.                                  *)
(***************************************************************************)
EXTENDS ScanHints

NoNumber == -1

Text(n, unit) == [n |-> n, unit |-> unit]
Nothing == Text(NoNumber, 0)

File(type, size, line) == [type |-> type, size |-> size, line |-> line]
NoFile == File("none", Nothing, Nothing)

Tree(f0, f1, f2, f3) ==
  [i \in 0..3 |-> CASE i = 0 -> f0 [] i = 1 -> f1 [] i = 2 -> f2 [] i = 3 -> f3]

L2 == File("Unified", Text(1, 3), Text(4, 0))
L3 == File("Unified", Text(1, 2), Text(4, 0))

(* The data cache first, or second, or none; a number without a unit, one  *)
(* whose product is too large, one that wraps to 0; lines of 0, 3 and a    *)
(* nonsense size; no files.                                                *)
Machines ==
  {Tree(File("Data", Text(3, 1), Text(4, 0)),
        File("Instruction", Text(2, 1), Text(4, 0)), L2, L3),
   Tree(File("Instruction", Text(2, 1), Nothing),
        File("Data", Text(5, 0), Text(3, 0)), L2, NoFile),
   Tree(File("Data", Text(8, 1), Text(0, 0)),
        File("Unified", Text(3, 1), Text(4, 0)), L2, L3),
   Tree(File("Instruction", Text(9, 1), Text(15, 0)),
        File("Instruction", Text(2, 1), Text(4, 0)),
        File("Unified", Text(3, 3), Text(4, 0)), NoFile),
   [i \in 0..3 |-> NoFile]}

Processors == {{"avx2", "avx512bw"}}
=============================================================================
