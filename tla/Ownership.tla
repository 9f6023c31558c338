------------------------------ MODULE Ownership ------------------------------
(***************************************************************************)
(* What kernelkit promises about the memory its values own: an owner takes *)
(* pages that are nobody's, all at once, keeps exactly those, and gives    *)
(* all of them back at once.                                               *)
(***************************************************************************)
CONSTANTS Owners, Pages

VARIABLE held    \* the pages each owner has

Init == held = [o \in Owners |-> {}]

Take(o) ==
  /\ held[o] = {}
  /\ held'[o] \subseteq Pages \ UNION {held[other] : other \in Owners}
  /\ held' = [held EXCEPT ![o] = held'[o]]

GiveBack(o) == held' = [held EXCEPT ![o] = {}]

Next == \E o \in Owners : Take(o) \/ GiveBack(o)

Spec == Init /\ [][Next]_held
=============================================================================
