---------------------------- MODULE CorpusProofs ----------------------------
(***************************************************************************)
(* Proofs about Corpus for any tree, files, limits and writes.             *)
(***************************************************************************)
EXTENDS Corpus, FiniteSetTheorems, WellFoundedInduction, TLAPS

(* What each step of the loop over the files has done before the next:     *)
(* the file is open, its fingerprint and its mapping are of that inode.    *)
LocalsMatch ==
  /\ pc \in {"stat", "map", "revalidate", "advise"} =>
       todo # <<>> /\ fd \in Inodes
  /\ pc \in {"map", "revalidate", "advise"} =>
       ident.ino = fd /\ ident.len <= limits.file
  /\ pc \in {"revalidate", "advise"} => map.ino = fd

(* While a file only grows, the lengths of its stats and of its mapping    *)
(* are ordered; once it is validated, the first and the last are equal.    *)
LengthsOrdered ==
  /\ pc = "map" /\ fd \notin shrunk => ident.len <= len[fd]
  /\ pc = "revalidate" /\ fd \notin shrunk =>
       ident.len <= map.len /\ map.len <= len[fd]
  /\ pc = "advise" /\ fd \notin shrunk => ident.len = map.len

All(sets) == UNION {sets[k] : k \in DOMAIN sets}

Apart(sets) ==
  \A j, k \in DOMAIN sets : j # k => sets[j] \intersect sets[k] = {}

Pending == All(frames)

(* The files found and the names still to be read are all under the base,  *)
(* each is held once, and a file among them is there unless renamed.       *)
NamesHeld ==
  /\ Pending \union Range(out) \subseteq Reachable
  /\ Apart(frames)
  /\ \A k \in DOMAIN out : out[k] \notin Pending
  /\ \A j, k \in DOMAIN out : j # k => out[j] # out[k]
  /\ \A p \in Range(out) \ renamed : dir[p] # NoInode
  /\ \A p \in (Paths \intersect Pending) \ renamed :
       dir[p] # NoInode \/ p \in linked

(* A name that nobody changed has the type its directory listed.           *)
LinksListed ==
  /\ listed \subseteq linked \union renamed
  /\ (Pending \intersect linked) \ renamed \subseteq listed

(* V: the directories entered so far.  Each name they list has been dealt  *)
(* with or is still to be read, and no directory was or will be entered    *)
(* twice.                                                                  *)
Entered(V) ==
  /\ Base \in V
  /\ V \subseteq ReachableDirs
  /\ \A d \in V : \A e \in children[d] :
       /\ e \in Specials \union (linked \ renamed) => e \in Pending
       /\ e \in Dirs => e \in V \union Pending
       /\ e \in Paths /\ e \notin renamed /\ dir[e] # NoInode =>
            e \in Pending \union Range(out)
  /\ Pending \union Range(out) \subseteq UNION {children[d] : d \in V}
  /\ V \subseteq {Base} \union UNION {children[d] : d \in V}
  /\ V \intersect Pending = {}

WalkInv ==
  /\ pc \notin {"collect", "err"} => frames = <<>>
  /\ NamesHeld /\ LinksListed
  /\ \E V \in SUBSET Dirs : Entered(V)

Files == SortedFiles(out)

(* The regions pushed are those of the first files in order, and the rest  *)
(* are left to map.                                                        *)
ProgressInv ==
  /\ pc \in {"collect", "err"} => mappings = <<>>
  /\ pc \notin {"collect", "err"} =>
       /\ Len(mappings) + Len(todo) = Len(out)
       /\ \A k \in DOMAIN mappings : mappings[k].path = Files[k]
       /\ \A k \in DOMAIN todo : todo[k] = Files[Len(mappings) + k]
  /\ pc = "ok" => todo = <<>>

(* The running total is the sum of the sizes so far, and is below its      *)
(* limit, unless it is unlimited.                                          *)
Current == IF pc \in {"map", "revalidate", "advise"} THEN ident.len ELSE 0

TotalInv ==
  /\ \A k \in DOMAIN mappings : mappings[k].size <= limits.file
  /\ limits.total < U64Max /\ pc # "err" =>
       /\ total = SumOf(Sizes) + Current
       /\ total <= limits.total

(* With no writes, whatever was stat-ed is what is there.                  *)
CalmInv ==
  writes = 0 =>
    /\ renamed = {}
    /\ pc \in {"stat", "map", "revalidate", "advise"} => fd = dir[Head(todo)]
    /\ pc \in {"map", "revalidate", "advise"} => ident = FromMetadata(fd)
    /\ pc = "revalidate" => map = FromMetadata(fd)
    /\ \A k \in DOMAIN mappings : mappings[k].size = len[dir[mappings[k].path]]

-----------------------------------------------------------------------------
(* Every nonempty set of naturals has a least element: what the inductions *)
(* below start from, each about a least counterexample.                    *)
LEMMA LeastNatural ==
  ASSUME NEW S \in SUBSET Nat, S # {}
  PROVE  \E m \in S : \A x \in S : m <= x
<1> DEFINE R == {ss \in Nat \X Nat : ss[1] < ss[2]}
<1>1. IsWellFoundedOn(R, Nat)
  BY NatLessThanWellFounded DEF OpToRel
<1> HIDE DEF R
<1>2. PICK m \in S : \A y \in S : ~(<<y, m>> \in R)
  BY <1>1, WFMin
<1>3. \A y \in S : m <= y
  <2> SUFFICES ASSUME NEW y \in S, y < m PROVE FALSE
    OBVIOUS
  <2>1. <<y, m>> \in Nat \X Nat /\ <<y, m>>[1] < <<y, m>>[2]
    OBVIOUS
  <2>2. <<y, m>> \in R
    BY <2>1 DEF R
  <2>3. QED
    BY <1>2, <2>2
<1>4. QED
  BY <1>3

(* A finite sequence of naturals has a greatest element.                   *)
LEMMA GreatestPlace ==
  ASSUME NEW n \in Nat \ {0}, NEW s \in [1..n -> Nat]
  PROVE  \E k \in 1..n : \A j \in 1..n : s[j] <= s[k]
<1> DEFINE Bad == {m \in 1..n : ~ \E k \in 1..m : \A j \in 1..m : s[j] <= s[k]}
<1>1. SUFFICES ASSUME Bad # {} PROVE FALSE
  <2>1. n \in 1..n
    OBVIOUS
  <2>2. n \notin Bad
    BY <1>1
  <2>3. QED
    BY <2>1, <2>2
<1>2. Bad \in SUBSET Nat
  OBVIOUS
<1>3. PICK m \in Bad : \A x \in Bad : m <= x
  BY <1>1, <1>2, LeastNatural
<1>4. m # 1
  <2>1. \A j \in 1..1 : s[j] <= s[1]
    OBVIOUS
  <2>2. QED
    BY <2>1, <1>3
<1>5. m - 1 \in 1..n /\ m - 1 \notin Bad
  <2>1. m \in 1..n
    BY <1>3
  <2>2. m - 1 \in 1..n /\ ~(m <= m - 1)
    BY <1>4, <2>1
  <2>3. QED
    BY <1>3, <2>2
<1>6. PICK k \in 1..(m - 1) : \A j \in 1..(m - 1) : s[j] <= s[k]
  BY <1>5
<1>7. /\ s[k] \in Nat /\ s[m] \in Nat /\ k \in 1..m /\ m \in 1..m
      /\ \A j \in 1..m : s[j] \in Nat /\ (j \in 1..(m - 1) \/ j = m)
  BY <1>3, <1>5, <1>6
<1>8. CASE s[k] <= s[m]
  <2>1. \A j \in 1..m : s[j] <= s[m]
    BY <1>6, <1>7, <1>8
  <2>2. QED
    BY <1>3, <1>7, <2>1
<1>9. CASE ~(s[k] <= s[m])
  <2>1. \A j \in 1..m : s[j] <= s[k]
    BY <1>6, <1>7, <1>9
  <2>2. QED
    BY <1>3, <1>7, <2>1
<1>10. QED
  BY <1>8, <1>9

Ascends(s, p, n) == \A j, k \in 1..n : j < k => s[p[j]] <= s[p[k]]

(* Exchanging the greatest element for the last, and ordering the rest,    *)
(* orders the whole.                                                       *)
LEMMA SortingStep ==
  ASSUME NEW n \in Nat \ {0}, NEW s \in [1..n -> Nat],
         NEW g \in 1..n, \A j \in 1..n : s[j] <= s[g],
         NEW p \in Bijection(1..(n - 1), 1..(n - 1)), NEW t,
         \A k \in 1..(n - 1) : t[k] = IF k = g THEN s[n] ELSE s[k],
         Ascends(t, p, n - 1)
  PROVE  \E q \in Bijection(1..n, 1..n) : Ascends(s, q, n)
<1> DEFINE q == [k \in 1..n |->
                   IF k = n THEN g ELSE IF p[k] = g THEN n ELSE p[k]]
<1>1. /\ p \in [1..(n - 1) -> 1..(n - 1)]
      /\ \A j, k \in 1..(n - 1) : p[j] = p[k] => j = k
      /\ \A i \in 1..(n - 1) : \E k \in 1..(n - 1) : p[k] = i
  BY DEF Bijection, Injection, Surjection, IsInjective
<1>2. q \in [1..n -> 1..n]
  BY <1>1
<1>3. ASSUME NEW k \in 1..(n - 1)
      PROVE  s[q[k]] = t[p[k]]
  <2>1. k \in 1..n /\ k # n /\ p[k] \in 1..(n - 1)
    <3>1. k \in 1..n /\ k # n
      OBVIOUS
    <3>2. p[k] \in 1..(n - 1)
      BY <1>1
    <3>3. QED
      BY <3>1, <3>2
  <2>2. q[k] = IF p[k] = g THEN n ELSE p[k]
    BY <2>1
  <2>3. t[p[k]] = IF p[k] = g THEN s[n] ELSE s[p[k]]
    BY <2>1
  <2>4. QED
    BY <2>2, <2>3
<1>4. ASSUME NEW j \in 1..n, NEW k \in 1..n, q[j] = q[k]
      PROVE  j = k
  <2>1. ASSUME NEW i \in 1..n, i # n
        PROVE  /\ i \in 1..(n - 1) /\ p[i] \in 1..(n - 1) /\ p[i] # n
               /\ q[i] = IF p[i] = g THEN n ELSE p[i]
    <3>1. i \in 1..(n - 1)
      BY <2>1
    <3>2. p[i] \in 1..(n - 1)
      BY <1>1, <3>1
    <3>3. p[i] # n
      BY <3>2
    <3>4. q[i] = IF p[i] = g THEN n ELSE p[i]
      BY <2>1
    <3>5. QED
      BY <3>1, <3>2, <3>3, <3>4
  <2>2. q[n] = g
    OBVIOUS
  <2> HIDE DEF q
  <2>3. \A i \in 1..n : i # n => q[i] # g
    BY <2>1
  <2>4. CASE j = n \/ k = n
    BY <1>4, <2>2, <2>3, <2>4
  <2>5. CASE j # n /\ k # n
    <3>1. p[j] = p[k]
      BY <1>4, <2>1, <2>5
    <3>2. QED
      BY <1>1, <2>1, <2>5, <3>1
  <2>6. QED
    BY <2>4, <2>5
<1>5. ASSUME NEW i \in 1..n
      PROVE  \E k \in 1..n : q[k] = i
  <2>1. CASE i = g
    <3>1. q[n] = g /\ n \in 1..n
      OBVIOUS
    <3>2. QED
      BY <2>1, <3>1
  <2>2. CASE i # g /\ i # n
    <3>1. PICK k \in 1..(n - 1) : p[k] = i
      BY <1>1, <2>2
    <3>2. k \in 1..n /\ q[k] = i
      BY <2>2, <3>1
    <3>3. QED
      BY <3>2
  <2>3. CASE i # g /\ i = n
    <3>1. g \in 1..(n - 1)
      BY <2>3
    <3>2. PICK k \in 1..(n - 1) : p[k] = g
      BY <1>1, <3>1
    <3>3. k \in 1..n /\ q[k] = i
      BY <2>3, <3>2
    <3>4. QED
      BY <3>3
  <2>4. QED
    BY <2>1, <2>2, <2>3
<1>6. q \in Bijection(1..n, 1..n)
  <2>1. DOMAIN q = 1..n
    OBVIOUS
  <2> HIDE DEF q
  <2>2. QED
    BY <1>2, <1>4, <1>5, <2>1
       DEF Bijection, Injection, Surjection, IsInjective
<1>7. ASSUME NEW j \in 1..n, NEW k \in 1..n, j < k
      PROVE  s[q[j]] <= s[q[k]]
  <2>1. CASE k = n
    BY <1>2, <2>1
  <2>2. CASE k # n
    <3>1. j \in 1..(n - 1) /\ k \in 1..(n - 1)
      BY <1>7, <2>2
    <3>2. t[p[j]] <= t[p[k]]
      BY <1>7, <3>1 DEF Ascends
    <3>3. QED
      BY <1>3, <3>1, <3>2
  <2>3. QED
    BY <2>1, <2>2
<1>8. QED
  BY <1>6, <1>7 DEF Ascends

(* So every finite sequence of naturals can be put in order.               *)
LEMMA SortingOrderExists ==
  ASSUME NEW n \in Nat, NEW s \in [1..n -> Nat]
  PROVE  \E p \in Bijection(1..n, 1..n) : Ascends(s, p, n)
<1> DEFINE Sortable(m, f) == \E p \in Bijection(1..m, 1..m) : Ascends(f, p, m)
           Bad == {m \in Nat : \E f \in [1..m -> Nat] : ~Sortable(m, f)}
<1> HIDE DEF Sortable
<1>1. SUFFICES ASSUME Bad # {} PROVE FALSE
  BY <1>1 DEF Sortable
<1>2. Bad \in SUBSET Nat
  OBVIOUS
<1>3. PICK m \in Bad : \A x \in Bad : m <= x
  BY <1>1, <1>2, LeastNatural
<1>4. PICK f \in [1..m -> Nat] : ~Sortable(m, f)
  BY <1>3
<1>5. m # 0
  <2> DEFINE p == [k \in 1..0 |-> k]
  <2>1. p \in Bijection(1..0, 1..0)
    BY DEF Bijection, Injection, Surjection, IsInjective
  <2>2. Ascends(f, p, 0)
    BY DEF Ascends
  <2> HIDE DEF p
  <2>3. QED
    BY <1>4, <2>1, <2>2 DEF Sortable
<1>6. PICK g \in 1..m : \A j \in 1..m : f[j] <= f[g]
  BY <1>5, GreatestPlace
<1> DEFINE t == [k \in 1..(m - 1) |-> IF k = g THEN f[m] ELSE f[k]]
<1>7. m - 1 \in Nat /\ m - 1 \notin Bad /\ t \in [1..(m - 1) -> Nat]
  <2>1. m \in Nat \ {0}
    BY <1>3, <1>5
  <2>2. m - 1 \in Nat /\ ~(m <= m - 1) /\ m \in 1..m
    BY <2>1
  <2>3. t \in [1..(m - 1) -> Nat]
    BY <2>1
  <2>4. QED
    BY <1>3, <2>2, <2>3
<1>8. Sortable(m - 1, t)
  BY <1>7
<1>9. PICK p \in Bijection(1..(m - 1), 1..(m - 1)) : Ascends(t, p, m - 1)
  BY <1>8 DEF Sortable
<1>10. \E q \in Bijection(1..m, 1..m) : Ascends(f, q, m)
  <2>1. m \in Nat \ {0}
    BY <1>3, <1>5
  <2>2. \A k \in 1..(m - 1) : t[k] = IF k = g THEN f[m] ELSE f[k]
    OBVIOUS
  <2> HIDE DEF t, Bad
  <2>3. QED
    BY <1>6, <1>9, <2>1, <2>2, SortingStep
<1>11. QED
  BY <1>4, <1>10 DEF Sortable

(* file_paths.sort() returns the same paths in ascending order.            *)
LEMMA SortedFilesSorts ==
  ASSUME NEW s \in Seq(Nat)
  PROVE  /\ SortedFiles(s) \in [DOMAIN s -> Nat]
         /\ \A j, k \in DOMAIN s : j < k => SortedFiles(s)[j] <= SortedFiles(s)[k]
         /\ \E p \in Bijection(DOMAIN s, DOMAIN s) :
              SortedFiles(s) = [k \in DOMAIN s |-> s[p[k]]]
<1>1. DOMAIN s = 1..Len(s) /\ Len(s) \in Nat /\ s \in [1..Len(s) -> Nat]
  OBVIOUS
<1> DEFINE D == DOMAIN s
           P(p) == \A j, k \in D : j < k => s[p[j]] <= s[p[k]]
           order == CHOOSE p \in Bijection(D, D) : P(p)
<1>2. \E p \in Bijection(D, D) : P(p)
  BY <1>1, SortingOrderExists DEF Ascends
<1>3. order \in Bijection(D, D) /\ P(order)
  BY <1>2
<1>4. SortedFiles(s) = [k \in D |-> s[order[k]]]
  BY DEF SortedFiles
<1> HIDE DEF order
<1>5. order \in [D -> D]
  BY <1>3 DEF Bijection, Injection
<1>6. QED
  BY <1>1, <1>3, <1>4, <1>5
-----------------------------------------------------------------------------
(* g lists the sums of the first 0, 1, 2... elements of s.                 *)
PartialSums(g, s) ==
  \A n \in 0..Len(s) : g[n] = IF n = 0 THEN 0 ELSE g[n - 1] + s[n]

LEMMA PartialSumsExist ==
  ASSUME NEW s \in Seq(Nat)
  PROVE  \E g \in [0..Len(s) -> Nat] : PartialSums(g, s)
<1> DEFINE Summable(m) == \E g \in [0..m -> Nat] :
             \A n \in 0..m : g[n] = IF n = 0 THEN 0 ELSE g[n - 1] + s[n]
           Bad == {m \in 0..Len(s) : ~Summable(m)}
<1>1. SUFFICES ASSUME Bad # {} PROVE FALSE
  <2> HIDE DEF Summable
  <2>1. Len(s) \in 0..Len(s)
    OBVIOUS
  <2>2. Summable(Len(s))
    BY <1>1, <2>1
  <2>3. QED
    BY <2>2 DEF Summable, PartialSums
<1> HIDE DEF Summable
<1>2. Bad \in SUBSET Nat
  OBVIOUS
<1>3. PICK m \in Bad : \A x \in Bad : m <= x
  BY <1>1, <1>2, LeastNatural
<1>4. m # 0
  <2> DEFINE g == [n \in 0..0 |-> 0]
  <2>1. g \in [0..0 -> Nat] /\ \A n \in 0..0 : n = 0 /\ g[n] = 0
    OBVIOUS
  <2> HIDE DEF g
  <2>2. Summable(0)
    BY <2>1 DEF Summable
  <2>3. QED
    BY <1>3, <2>2
<1>5. m \in 1..Len(s) /\ m - 1 \in 0..Len(s) /\ ~(m <= m - 1)
  <2>1. m \in 0..Len(s)
    BY <1>3
  <2>2. QED
    BY <1>4, <2>1
<1>6. Summable(m - 1)
  BY <1>3, <1>5
<1>7. PICK g \in [0..(m - 1) -> Nat] :
        \A n \in 0..(m - 1) : g[n] = IF n = 0 THEN 0 ELSE g[n - 1] + s[n]
  BY <1>6 DEF Summable
<1> DEFINE h == [n \in 0..m |-> IF n = m THEN g[m - 1] + s[m] ELSE g[n]]
<1>8. h \in [0..m -> Nat]
  <2>1. s[m] \in Nat /\ g[m - 1] \in Nat
    BY <1>5
  <2>2. \A n \in 0..m : n # m => n \in 0..(m - 1)
    BY <1>5
  <2>3. QED
    BY <1>7, <2>1, <2>2
<1>9. ASSUME NEW n \in 0..m
      PROVE  h[n] = IF n = 0 THEN 0 ELSE h[n - 1] + s[n]
  <2>1. CASE n = m
    <3>1. n - 1 \in 0..m /\ n - 1 # m /\ n # 0
      BY <1>5, <2>1
    <3>2. h[n - 1] = g[m - 1] /\ h[n] = g[m - 1] + s[m]
      BY <2>1, <3>1
    <3>3. QED
      BY <2>1, <3>1, <3>2
  <2>2. CASE n # m /\ n = 0
    BY <1>5, <1>7, <2>2
  <2>3. CASE n # m /\ n # 0
    <3>1. n \in 0..(m - 1) /\ n - 1 \in 0..m /\ n - 1 # m
      BY <1>5, <2>3
    <3>2. h[n] = g[n] /\ h[n - 1] = g[n - 1]
      BY <2>3, <3>1
    <3>3. QED
      BY <1>7, <2>3, <3>1, <3>2
  <2>4. QED
    BY <2>1, <2>2, <2>3
<1>10. Summable(m)
  <2> HIDE DEF h
  <2>1. QED
    BY <1>8, <1>9 DEF Summable
<1>11. QED
  BY <1>3, <1>10

(* The sums of a sequence depend on its elements so far only.              *)
LEMMA PartialSumsAgree ==
  ASSUME NEW s \in Seq(Nat), NEW t \in Seq(Nat), NEW m \in Nat,
         m <= Len(s), m <= Len(t), \A k \in 1..m : s[k] = t[k],
         NEW g, PartialSums(g, s), NEW h, PartialSums(h, t)
  PROVE  g[m] = h[m]
<1> DEFINE Bad == {n \in 0..m : g[n] # h[n]}
<1>1. SUFFICES ASSUME Bad # {} PROVE FALSE
  <2>1. m \in 0..m /\ m \notin Bad
    BY <1>1
  <2>2. QED
    BY <2>1
<1>2. Bad \in SUBSET Nat
  OBVIOUS
<1>3. PICK n \in Bad : \A x \in Bad : n <= x
  BY <1>1, <1>2, LeastNatural
<1>4. n \in 0..m /\ g[n] # h[n]
  BY <1>3
<1>5. n \in 0..Len(s) /\ n \in 0..Len(t)
  BY <1>4
<1>6. n # 0
  BY <1>4, <1>5 DEF PartialSums
<1>7. n - 1 \in 0..m /\ ~(n <= n - 1) /\ n \in 1..m
  BY <1>4, <1>6
<1>8. g[n - 1] = h[n - 1]
  BY <1>3, <1>7
<1>9. g[n] = g[n - 1] + s[n] /\ h[n] = h[n - 1] + t[n]
  BY <1>5, <1>6 DEF PartialSums
<1>10. QED
  BY <1>4, <1>7, <1>8, <1>9

(* SumOf(s) is the last of the sums of s.                                  *)
LEMMA SumOfIsLastSum ==
  ASSUME NEW s \in Seq(Nat), NEW g, PartialSums(g, s)
  PROVE  SumOf(s) = g[Len(s)]
<1> DEFINE Sums(f) ==
             f = [n \in 0..Len(s) |-> IF n = 0 THEN 0 ELSE f[n - 1] + s[n]]
           sum == CHOOSE f : Sums(f)
<1>1. PICK f \in [0..Len(s) -> Nat] : PartialSums(f, s)
  BY PartialSumsExist
<1>2. Sums(f)
  BY <1>1 DEF PartialSums
<1>3. Sums(sum)
  <2> HIDE DEF Sums
  <2>1. QED
    BY <1>2
<1>4. SumOf(s) = sum[Len(s)]
  BY DEF SumOf
<1> HIDE DEF sum
<1>5. PartialSums(sum, s)
  BY <1>3 DEF PartialSums
<1>6. QED
  BY <1>4, <1>5, PartialSumsAgree

LEMMA SumOfEmpty == SumOf(<<>>) = 0
<1> DEFINE s == <<>>
<1>1. s \in Seq(Nat) /\ Len(s) = 0 /\ 0 \in 0..0
  OBVIOUS
<1> HIDE DEF s
<1>2. PICK g \in [0..Len(s) -> Nat] : PartialSums(g, s)
  BY <1>1, PartialSumsExist
<1>3. g[0] = 0
  BY <1>1, <1>2 DEF PartialSums
<1>4. SumOf(s) = g[Len(s)]
  BY <1>1, <1>2, SumOfIsLastSum
<1>5. QED
  BY <1>1, <1>3, <1>4 DEF s

LEMMA SumOfNat ==
  ASSUME NEW s \in Seq(Nat)
  PROVE  SumOf(s) \in Nat
<1>1. PICK g \in [0..Len(s) -> Nat] : PartialSums(g, s)
  BY PartialSumsExist
<1>2. QED
  BY <1>1, SumOfIsLastSum

LEMMA SumOfAppend ==
  ASSUME NEW s \in Seq(Nat), NEW v \in Nat
  PROVE  SumOf(Append(s, v)) = SumOf(s) + v
<1> SUFFICES ASSUME NEW t \in Seq(Nat), t = Append(s, v)
             PROVE  SumOf(t) = SumOf(s) + v
  <2>1. Append(s, v) \in Seq(Nat)
    OBVIOUS
  <2>2. QED
    BY <2>1
<1>1. /\ Len(t) = Len(s) + 1 /\ t[Len(t)] = v
      /\ \A k \in 1..Len(s) : s[k] = t[k]
      /\ Len(s) \in Nat /\ Len(s) <= Len(t)
      /\ Len(t) \in 0..Len(t) /\ Len(t) # 0 /\ Len(t) - 1 = Len(s)
  OBVIOUS
<1>2. PICK g \in [0..Len(s) -> Nat] : PartialSums(g, s)
  BY PartialSumsExist
<1>3. PICK h \in [0..Len(t) -> Nat] : PartialSums(h, t)
  BY <1>1, PartialSumsExist
<1>4. g[Len(s)] = h[Len(s)]
  <2>1. Len(s) <= Len(s)
    BY <1>1
  <2>2. \A k \in 1..Len(s) : s[k] = t[k]
    BY <1>1
  <2>3. QED
    BY <1>1, <1>2, <1>3, <2>1, <2>2, PartialSumsAgree
<1>5. h[Len(t)] = h[Len(t) - 1] + t[Len(t)]
  BY <1>1, <1>3 DEF PartialSums
<1>6. SumOf(s) = g[Len(s)] /\ SumOf(t) = h[Len(t)]
  BY <1>1, <1>2, <1>3, SumOfIsLastSum
<1>7. QED
  BY <1>1, <1>4, <1>5, <1>6

(* A sequence sums up to no more than one that continues it.               *)
LEMMA SumOfPrefix ==
  ASSUME NEW s \in Seq(Nat), NEW t \in Seq(Nat), Len(s) <= Len(t),
         \A k \in 1..Len(s) : s[k] = t[k]
  PROVE  SumOf(s) <= SumOf(t)
<1>1. PICK g \in [0..Len(s) -> Nat] : PartialSums(g, s)
  BY PartialSumsExist
<1>2. PICK h \in [0..Len(t) -> Nat] : PartialSums(h, t)
  BY PartialSumsExist
<1>3. g[Len(s)] = h[Len(s)]
  <2>1. Len(s) \in Nat
    OBVIOUS
  <2>2. QED
    BY <1>1, <1>2, <2>1, PartialSumsAgree
<1> DEFINE Bad == {n \in Len(s)..Len(t) : ~(h[Len(s)] <= h[n])}
<1>4. Bad = {}
  <2>1. SUFFICES ASSUME Bad # {} PROVE FALSE
    OBVIOUS
  <2>2. Bad \in SUBSET Nat
    OBVIOUS
  <2>3. PICK n \in Bad : \A x \in Bad : n <= x
    BY <2>1, <2>2, LeastNatural
  <2>4. n \in Len(s)..Len(t) /\ ~(h[Len(s)] <= h[n])
    BY <2>3
  <2>5. h[Len(s)] \in Nat /\ h[n] \in Nat
    <3>1. Len(s) \in 0..Len(t) /\ n \in 0..Len(t)
      BY <2>4
    <3> HIDE DEF Bad
    <3>2. QED
      BY <1>2, <3>1
  <2>6. n # Len(s)
    BY <2>4, <2>5
  <2>7. n - 1 \in Len(s)..Len(t) /\ ~(n <= n - 1) /\ n \in 1..Len(t)
    BY <2>4, <2>6
  <2>8. h[Len(s)] <= h[n - 1]
    BY <2>3, <2>7
  <2>9. h[n] = h[n - 1] + t[n] /\ t[n] \in Nat /\ h[n - 1] \in Nat
    <3>1. n \in 0..Len(t) /\ n # 0 /\ n - 1 \in 0..Len(t)
      BY <2>7
    <3> HIDE DEF Bad
    <3>2. h[n - 1] \in Nat
      BY <1>2, <3>1
    <3>3. t[n] \in Nat
      BY <2>7
    <3>4. QED
      BY <1>2, <3>1, <3>2, <3>3 DEF PartialSums
  <2>10. QED
    BY <2>4, <2>5, <2>8, <2>9
<1>5. h[Len(s)] <= h[Len(t)]
  <2>1. Len(t) \in Len(s)..Len(t)
    OBVIOUS
  <2>2. QED
    BY <1>4, <2>1
<1>6. QED
  BY <1>1, <1>2, <1>3, <1>5, SumOfIsLastSum
-----------------------------------------------------------------------------
(* Writers leave the file system well-typed, and a file that gets shorter  *)
(* is among those that shrunk, for good; so are the names they change.     *)
LEMMA WritersOnlyGrow ==
  ASSUME FSTypeOK, FSNext
  PROVE  /\ FSTypeOK'
         /\ writes' # 0
         /\ shrunk \subseteq shrunk' /\ renamed \subseteq renamed'
         /\ \A i \in Inodes \ shrunk' : len[i] <= len'[i]
         /\ \A p \in Paths \ renamed' : dir'[p] = dir[p]
         /\ \A p \in Paths : dir'[p] # dir[p] => p \in renamed'
<1> USE FileSystemAssumption DEF FSTypeOK, MayWrite
<1>1. CASE \E i \in Inodes, n \in 0..MaxLen : Truncate(i, n) \/ Extend(i, n)
  BY <1>1 DEF Truncate, Extend
<1>2. CASE \E p \in Paths, i \in Inodes : Replace(p, i)
  BY <1>2 DEF Replace
<1>3. CASE \E p \in Paths : Unlink(p)
  BY <1>3 DEF Unlink
<1>4. QED
  BY <1>1, <1>2, <1>3 DEF FSNext

(* So does whoever puts a link in the place of a file: a name they did not *)
(* change stays a link, or none.                                           *)
LEMMA WriterOnlyGrows ==
  ASSUME TypeOK, Writer
  PROVE  /\ FSTypeOK' /\ linked' \subseteq Paths
         /\ writes' # 0
         /\ shrunk \subseteq shrunk' /\ renamed \subseteq renamed'
         /\ \A i \in Inodes \ shrunk' : len[i] <= len'[i]
         /\ \A p \in Paths \ renamed' : dir'[p] = dir[p]
         /\ linked \ renamed' = linked' \ renamed'
<1>1. CASE FSNext /\ linked' = {p \in linked : dir'[p] = dir[p]}
  <2>1. linked \subseteq Paths
    BY DEF TypeOK
  <2>2. QED
    BY <1>1, <2>1, WritersOnlyGrow DEF TypeOK
<1>2. ASSUME NEW p \in Paths, NEW i \in Inodes \union {NoInode}, SwapLink(p, i)
      PROVE  /\ FSTypeOK' /\ linked' \subseteq Paths
             /\ writes' # 0
             /\ shrunk \subseteq shrunk' /\ renamed \subseteq renamed'
             /\ \A j \in Inodes \ shrunk' : len[j] <= len'[j]
             /\ \A q \in Paths \ renamed' : dir'[q] = dir[q]
             /\ linked \ renamed' = linked' \ renamed'
  <2>1. /\ writes' = writes + 1 /\ writes < MaxWrites
        /\ dir' = [dir EXCEPT ![p] = i]
        /\ linked' = linked \union {p} /\ renamed' = renamed \union {p}
        /\ len' = len /\ shrunk' = shrunk
    BY <1>2 DEF SwapLink, MayWrite
  <2>2. /\ dir \in [Paths -> Inodes \union {NoInode}]
        /\ len \in [Inodes -> 0..MaxLen]
        /\ writes \in 0..MaxWrites
        /\ shrunk \subseteq Inodes /\ renamed \subseteq Paths
        /\ linked \subseteq Paths
    BY DEF TypeOK, FSTypeOK
  <2>3. dir' \in [Paths -> Inodes \union {NoInode}]
    BY <2>1, <2>2
  <2>4. writes' \in 0..MaxWrites /\ writes' # 0
    BY <2>1, <2>2, FileSystemAssumption
  <2>5. FSTypeOK'
    BY <2>1, <2>2, <2>3, <2>4 DEF FSTypeOK
  <2>6. \A j \in Inodes \ shrunk' : len[j] <= len'[j]
    BY <2>1, <2>2, FileSystemAssumption
  <2>7. QED
    BY <2>1, <2>2, <2>4, <2>5, <2>6
<1>3. QED
  BY <1>1, <1>2 DEF Writer

Reasons == {"open", "link", "special", "file limit", "total limit", "changed",
            "io"}

(* An early return drops the file and the mappings, and nothing else.      *)
LEMMA ReturnErrKeepsTypes ==
  ASSUME TypeOK, LocalsMatch, NEW reason \in Reasons, ReturnErr(reason),
         UNCHANGED fsvars
  PROVE  TypeOK' /\ LocalsMatch'
<1>1. TypeOK'
  <2>1. <<>> \in Seq(Regions)
    OBVIOUS
  <2>2. QED
    BY <2>1, Zenon DEF TypeOK, FSTypeOK, fsvars, ReturnErr, args, links,
                          Reasons
<1>2. LocalsMatch'
  BY DEF LocalsMatch, ReturnErr
<1>3. QED
  BY <1>1, <1>2

LEMMA ConsSeq ==
  ASSUME NEW S, NEW s \in Seq(S), NEW a \in S
  PROVE  /\ <<a>> \o s \in Seq(S)
         /\ Len(<<a>> \o s) = Len(s) + 1
         /\ (<<a>> \o s)[1] = a
         /\ \A k \in 1..Len(s) : (<<a>> \o s)[k + 1] = s[k]
OBVIOUS

LEMMA HeadTailSeq ==
  ASSUME NEW S, NEW s \in Seq(S), s # <<>>
  PROVE  /\ Head(s) \in S /\ Head(s) = s[1]
         /\ Tail(s) \in Seq(S) /\ Len(Tail(s)) = Len(s) - 1
         /\ \A k \in 1..(Len(s) - 1) : Tail(s)[k] = s[k + 1]
         /\ Len(s) \in Nat \ {0} /\ DOMAIN s = 1..Len(s)
OBVIOUS

LEMMA AppendSeq ==
  ASSUME NEW S, NEW s \in Seq(S), NEW a \in S
  PROVE  /\ Append(s, a) \in Seq(S)
         /\ Len(Append(s, a)) = Len(s) + 1
         /\ DOMAIN Append(s, a) = (DOMAIN s) \union {Len(s) + 1}
         /\ Append(s, a)[Len(s) + 1] = a
         /\ \A k \in DOMAIN s : Append(s, a)[k] = s[k]
         /\ Len(s) + 1 \notin DOMAIN s
OBVIOUS

LEMMA ReadDirTyped ==
  ASSUME TypeOK, NEW d \in Dirs
  PROVE  /\ children[d] \subseteq Nodes /\ Base \notin children[d]
         /\ ReadDir(d) \in SUBSET Nodes /\ ReadDir(d) \subseteq children[d]
<1>1. children \in [Dirs -> SUBSET Nodes]
  <2>1. children \in Trees
    BY DEF TypeOK
  <2>2. Trees \subseteq [Dirs -> SUBSET Nodes]
    BY CorpusAssumption
  <2>3. QED
    BY <2>1, <2>2
<1>2. Base \notin children[d]
  BY CorpusAssumption DEF TypeOK
<1>3. QED
  BY <1>1, <1>2 DEF ReadDir

LEMMA ReadEntryTyped ==
  ASSUME TypeOK, LocalsMatch, NEW e \in Nodes, ReadEntry(e)
  PROVE  TypeOK' /\ LocalsMatch'
<1> DEFINE left == Head(frames) \ {e}
           rest == <<left>> \o Tail(frames)
<1>1. Tail(frames) \in Seq(SUBSET Nodes) /\ left \in SUBSET Nodes
  <2>1. frames \in Seq(SUBSET Nodes) /\ frames # <<>>
    BY DEF TypeOK, ReadEntry
  <2>2. QED
    BY <2>1, HeadTailSeq
<1>2. rest \in Seq(SUBSET Nodes)
  BY <1>1, ConsSeq
<1> HIDE DEF rest
<1>3. CASE ReturnErr("special") \/ ReturnErr("link")
  BY <1>3, ReturnErrKeepsTypes DEF ReadEntry, Reasons
<1>4. CASE e \in Dirs /\ frames' = <<ReadDir(e)>> \o rest /\ ListLinks(e)
           /\ UNCHANGED <<args, linked, pc, out, todo, current, mappings, why>>
  <2>1. frames' \in Seq(SUBSET Nodes)
    BY <1>2, <1>4, ReadDirTyped, ConsSeq
  <2>2. linked' \subseteq Paths /\ listed' \subseteq Paths
    BY <1>4 DEF ListLinks, TypeOK
  <2>3. QED
    BY <1>4, <2>1, <2>2
       DEF ReadEntry, TypeOK, FSTypeOK, LocalsMatch, args, current, fsvars
<1>5. CASE e \in Paths /\ frames' = rest /\ out' = Append(out, e)
           /\ UNCHANGED <<args, links, pc, todo, current, mappings, why>>
  <2>1. out' \in Seq(Paths)
    BY <1>5, AppendSeq DEF TypeOK
  <2>2. QED
    BY <1>2, <1>5, <2>1
       DEF ReadEntry, TypeOK, FSTypeOK, LocalsMatch, args, links, current,
           fsvars
<1>6. QED
  BY <1>3, <1>4, <1>5 DEF ReadEntry, rest

(* The sorted files are the files found, each once if it was found once.   *)
LEMMA SortedFilesOfPaths ==
  ASSUME NEW s \in Seq(Paths)
  PROVE  /\ SortedFiles(s) \in Seq(Paths) /\ Len(SortedFiles(s)) = Len(s)
         /\ Range(SortedFiles(s)) = Range(s)
         /\ (\A j, k \in DOMAIN s : j # k => s[j] # s[k]) =>
              \A j, k \in DOMAIN s :
                j < k => SortedFiles(s)[j] < SortedFiles(s)[k]
<1> DEFINE f == SortedFiles(s)
           D == DOMAIN s
<1>1. s \in Seq(Nat) /\ D = 1..Len(s) /\ Len(s) \in Nat
  BY CorpusAssumption DEF Nodes
<1>2. /\ f \in [D -> Nat]
      /\ \A j, k \in D : j < k => f[j] <= f[k]
      /\ \E p \in Bijection(D, D) : f = [k \in D |-> s[p[k]]]
  BY <1>1, SortedFilesSorts
<1>3. PICK p \in Bijection(D, D) : f = [k \in D |-> s[p[k]]]
  BY <1>2
<1> HIDE DEF f
<1>4. /\ p \in [D -> D]
      /\ \A j, k \in D : p[j] = p[k] => j = k
      /\ \A j \in D : \E k \in D : p[k] = j
  BY DEF Bijection, Injection, Surjection, IsInjective
<1>5. f \in [1..Len(s) -> Paths]
  BY <1>1, <1>3, <1>4
<1>6. f \in Seq(Paths) /\ Len(f) = Len(s) /\ DOMAIN f = D
  BY <1>1, <1>5
<1>7. Range(f) = Range(s)
  <2>1. \A k \in D : f[k] = s[p[k]]
    BY <1>3
  <2>2. QED
    BY <1>4, <1>6, <2>1 DEF Range
<1>8. ASSUME \A j, k \in D : j # k => s[j] # s[k],
             NEW j \in D, NEW k \in D, j < k
      PROVE  f[j] < f[k]
  <2>1. f[j] <= f[k] /\ f[j] \in Nat /\ f[k] \in Nat
    BY <1>2, <1>8
  <2>2. j # k /\ p[j] # p[k]
    <3>1. j # k
      BY <1>1, <1>8
    <3>2. QED
      BY <1>4, <1>8, <3>1
  <2>3. f[j] # f[k]
    BY <1>3, <1>4, <1>8, <2>2
  <2>4. QED
    BY <2>1, <2>3
<1>9. QED
  BY <1>6, <1>7, <1>8 DEF f

LEMMA LeaveDirTyped ==
  ASSUME TypeOK, LocalsMatch, LeaveDir
  PROVE  TypeOK' /\ LocalsMatch'
<1>1. frames' \in Seq(SUBSET Nodes)
  BY HeadTailSeq DEF TypeOK, LeaveDir
<1>2. todo' \in Seq(Paths) /\ pc' \in {"collect", "open"}
  BY SortedFilesOfPaths DEF TypeOK, LeaveDir
<1>3. QED
  BY <1>1, <1>2
     DEF TypeOK, FSTypeOK, LocalsMatch, LeaveDir, args, links, current, fsvars

LEMMA OpenFileTyped ==
  ASSUME TypeOK, LocalsMatch, OpenFile
  PROVE  TypeOK' /\ LocalsMatch'
<1>1. CASE dir[Head(todo)] = NoInode
  BY <1>1, ReturnErrKeepsTypes DEF OpenFile, Reasons
<1>2. CASE dir[Head(todo)] # NoInode
  <2>1. Head(todo) \in Paths
    BY HeadTailSeq DEF TypeOK, OpenFile
  <2>2. fd' \in Inodes
    BY <1>2, <2>1 DEF TypeOK, FSTypeOK, OpenFile
  <2>3. TypeOK'
    BY <1>2, <2>2 DEF OpenFile, TypeOK, FSTypeOK, args, links, walk, fsvars
  <2>4. LocalsMatch'
    BY <1>2, <2>2 DEF OpenFile, LocalsMatch, args, links, walk, fsvars
  <2>5. QED
    BY <2>3, <2>4
<1>3. QED
  BY <1>1, <1>2

LEMMA Saturates ==
  ASSUME NEW a \in 0..U64Max, NEW b \in 0..MaxLen
  PROVE  /\ SaturatingAdd(a, b) \in 0..U64Max
         /\ SaturatingAdd(a, b) < U64Max => SaturatingAdd(a, b) = a + b
         /\ SaturatingAdd(a, b) <= a + b
BY CorpusAssumption, FileSystemAssumption DEF SaturatingAdd

LEMMA StatFileTyped ==
  ASSUME TypeOK, LocalsMatch, StatFile
  PROVE  TypeOK' /\ LocalsMatch'
<1> DEFINE size == len[fd]
           sum == SaturatingAdd(total, size)
<1>1. CASE Exceeds(size, limits.file) \/ Exceeds(sum, limits.total)
  BY <1>1, ReturnErrKeepsTypes DEF StatFile, Reasons
<1>2. CASE ~(Exceeds(size, limits.file) \/ Exceeds(sum, limits.total))
  <2>1. /\ fd \in Inodes /\ size \in 0..MaxLen /\ sum \in 0..U64Max
        /\ limits.file \in Nat
    <3>1. fd \in Inodes /\ size \in 0..MaxLen
      BY DEF TypeOK, FSTypeOK, LocalsMatch, StatFile
    <3>2. sum \in 0..U64Max
      BY <3>1, Saturates DEF TypeOK
    <3>3. limits.file \in 0..U64Max
      BY CorpusAssumption DEF TypeOK
    <3>4. QED
      BY <3>1, <3>2, <3>3
  <2>2. size <= limits.file
    BY <1>2, <2>1, FileSystemAssumption DEF Exceeds
  <2>3. FromMetadata(fd) \in FileIdentities
    BY <2>1 DEF FromMetadata, FileIdentities
  <2>4. /\ pc' = "map" /\ ident' = FromMetadata(fd) /\ total' = sum
        /\ UNCHANGED <<args, links, walk, fd, map, mappings, why>>
        /\ UNCHANGED fsvars
    BY <1>2 DEF StatFile
  <2>5. TypeOK'
    BY <2>1, <2>3, <2>4 DEF TypeOK, FSTypeOK, args, links, walk, fsvars
  <2>6. LocalsMatch'
    BY <2>2, <2>4
       DEF StatFile, LocalsMatch, FromMetadata, args, links, walk, fsvars
  <2>7. QED
    BY <2>5, <2>6
<1>3. QED
  BY <1>1, <1>2

LEMMA MapFileTyped ==
  ASSUME TypeOK, LocalsMatch, MapFile
  PROVE  TypeOK' /\ LocalsMatch'
<1>1. FromMetadata(fd) \in FileIdentities
  BY DEF TypeOK, FSTypeOK, LocalsMatch, MapFile, FromMetadata, FileIdentities
<1>2. QED
  BY <1>1 DEF MapFile, TypeOK, FSTypeOK, LocalsMatch, FromMetadata, args, links, walk,
              fsvars

LEMMA RevalidateTyped ==
  ASSUME TypeOK, LocalsMatch, Revalidate
  PROVE  TypeOK' /\ LocalsMatch'
<1>1. CASE IdentityHolds(fd, ident, ident.len)
  BY <1>1 DEF Revalidate, TypeOK, FSTypeOK, LocalsMatch, args, links, walk, current,
              fsvars
<1>2. CASE ~IdentityHolds(fd, ident, ident.len)
  BY <1>2, ReturnErrKeepsTypes DEF Revalidate, Reasons
<1>3. QED
  BY <1>1, <1>2

LEMMA AdviseAndPushTyped ==
  ASSUME TypeOK, LocalsMatch, AdviseAndPush
  PROVE  TypeOK' /\ LocalsMatch'
<1>1. NoIdentity \in FileIdentities
  BY FileSystemAssumption DEF NoIdentity, FileIdentities
<1>2. Head(todo) \in Paths /\ Tail(todo) \in Seq(Paths)
  BY HeadTailSeq DEF TypeOK, LocalsMatch, AdviseAndPush
<1>3. [path |-> Head(todo), size |-> ident.len, map |-> map] \in Regions
  BY <1>2 DEF TypeOK, Regions, FileIdentities
<1>4. mappings' \in Seq(Regions)
  BY <1>3, AppendSeq DEF TypeOK, AdviseAndPush
<1>5. QED
  BY <1>1, <1>2, <1>4
     DEF AdviseAndPush, TypeOK, FSTypeOK, LocalsMatch, args, links, fsvars

LEMMA InitTyped == Init => TypeOK /\ LocalsMatch
<1> SUFFICES ASSUME Init PROVE TypeOK /\ LocalsMatch
  OBVIOUS
<1>1. NoIdentity \in FileIdentities
  BY FileSystemAssumption DEF NoIdentity, FileIdentities
<1>2. ReadDir(Base) \in SUBSET Nodes /\ linked \subseteq Paths
  BY CorpusAssumption DEF Init, ReadDir
<1>3. total \in 0..U64Max /\ writes \in 0..MaxWrites
  BY CorpusAssumption, FileSystemAssumption DEF Init, FSInit
<1>4. QED
  BY <1>1, <1>2, <1>3 DEF Init, FSInit, TypeOK, FSTypeOK, LocalsMatch

(* Every step keeps the variables in their types, and the current file     *)
(* open on an inode where the next step needs it.                          *)
LEMMA NextTyped ==
  ASSUME TypeOK, LocalsMatch, [Next]_vars
  PROVE  TypeOK' /\ LocalsMatch'
<1>1. CASE Advance
  BY <1>1, ReadEntryTyped, LeaveDirTyped, OpenFileTyped, StatFileTyped,
     MapFileTyped, RevalidateTyped, AdviseAndPushTyped
     DEF Advance, ReturnOk, TypeOK, FSTypeOK, LocalsMatch, args, links, walk,
         current, fsvars
<1>2. CASE SyscallFails
  BY <1>2, ReturnErrKeepsTypes DEF SyscallFails, Reasons
<1>3. CASE Writer
  BY <1>3, WriterOnlyGrows DEF Writer, TypeOK, LocalsMatch, args
<1>4. CASE UNCHANGED vars
  BY <1>4 DEF vars, TypeOK, FSTypeOK, LocalsMatch
<1>5. QED
  BY <1>1, <1>2, <1>3, <1>4 DEF Next
-----------------------------------------------------------------------------
(* The first stat, the mapping and the last stat of a file that only grows *)
(* have ascending lengths, so a validated mapping has the length of both.  *)
LengthsInv ==
  TypeOK /\ LocalsMatch /\ LengthsOrdered /\ RegionSizeIsMappedLength

LEMMA ReturnErrKeepsLengths ==
  ASSUME NEW reason, ReturnErr(reason)
  PROVE  LengthsOrdered' /\ RegionSizeIsMappedLength'
BY DEF ReturnErr, LengthsOrdered, RegionSizeIsMappedLength

LEMMA LengthsTyped ==
  ASSUME TypeOK
  PROVE  /\ \A i \in Inodes : len[i] \in Nat
         /\ ident.len \in Nat /\ map.len \in Nat
<1>1. \A i \in Inodes : len[i] \in Nat
  <2>1. len \in [Inodes -> 0..MaxLen]
    BY DEF TypeOK, FSTypeOK
  <2>2. QED
    BY <2>1, FileSystemAssumption
<1>2. ident.len \in 0..MaxLen /\ map.len \in 0..MaxLen
  BY DEF TypeOK, FileIdentities
<1>3. QED
  BY <1>1, <1>2, FileSystemAssumption

LEMMA WriterKeepsLengths ==
  ASSUME LengthsInv, Writer
  PROVE  LengthsOrdered' /\ RegionSizeIsMappedLength'
<1> USE DEF LengthsInv
<1>1. /\ shrunk \subseteq shrunk' /\ FSTypeOK'
      /\ \A i \in Inodes \ shrunk' : len[i] <= len'[i]
  BY WriterOnlyGrows
<1>2. RegionSizeIsMappedLength'
  BY <1>1 DEF RegionSizeIsMappedLength, Writer
<1>3. LengthsOrdered'
  <2>1. /\ UNCHANGED <<pc, fd, ident, map>>
        /\ \A i \in Inodes : len[i] \in Nat /\ len'[i] \in Nat
        /\ ident.len \in Nat /\ map.len \in Nat
    BY <1>1, LengthsTyped, FileSystemAssumption DEF Writer, FSTypeOK
  <2>2. pc \in {"map", "revalidate"} /\ fd \notin shrunk'
          => fd \notin shrunk /\ fd \in Inodes /\ len[fd] <= len'[fd]
    BY <1>1 DEF LocalsMatch
  <2>3. QED
    BY <1>1, <2>1, <2>2 DEF LengthsOrdered
<1>4. QED
  BY <1>2, <1>3

LEMMA RevalidateKeepsLengths ==
  ASSUME LengthsInv, Revalidate
  PROVE  LengthsOrdered' /\ RegionSizeIsMappedLength'
<1> USE DEF LengthsInv
<1>1. CASE IdentityHolds(fd, ident, ident.len)
  <2>1. len[fd] = ident.len
    BY <1>1 DEF IdentityHolds, FromMetadata
  <2>2. fd \notin shrunk => ident.len <= map.len /\ map.len <= len[fd]
    BY DEF Revalidate, LengthsOrdered
  <2>3. fd \notin shrunk => ident.len = map.len
    BY <2>1, <2>2, LengthsTyped
  <2>4. /\ pc' = "advise" /\ mappings' = mappings /\ shrunk' = shrunk
        /\ UNCHANGED <<fd, ident, map>>
    BY <1>1 DEF Revalidate, current, fsvars
  <2>5. LengthsOrdered'
    BY <2>3, <2>4 DEF LengthsOrdered
  <2>6. QED
    BY <2>4, <2>5 DEF RegionSizeIsMappedLength
<1>2. CASE ~IdentityHolds(fd, ident, ident.len)
  BY <1>2, ReturnErrKeepsLengths DEF Revalidate
<1>3. QED
  BY <1>1, <1>2

LEMMA AdviseAndPushKeepsLengths ==
  ASSUME LengthsInv, AdviseAndPush
  PROVE  LengthsOrdered' /\ RegionSizeIsMappedLength'
<1> USE DEF LengthsInv
<1> DEFINE region == [path |-> Head(todo), size |-> ident.len, map |-> map]
<1>1. /\ pc' = "open" /\ mappings' = Append(mappings, region)
      /\ shrunk' = shrunk
  BY DEF AdviseAndPush, fsvars
<1>2. /\ DOMAIN mappings' = (DOMAIN mappings) \union {Len(mappings) + 1}
      /\ mappings'[Len(mappings) + 1] = region
      /\ \A k \in DOMAIN mappings : mappings'[k] = mappings[k]
  <2>1. mappings \in Seq(Regions) /\ region \in Regions
    BY HeadTailSeq
       DEF TypeOK, LocalsMatch, AdviseAndPush, Regions, FileIdentities
  <2> HIDE DEF region
  <2>2. QED
    BY <1>1, <2>1, AppendSeq
<1>3. region.map.ino = fd /\ (fd \notin shrunk => region.size = region.map.len)
  BY DEF AdviseAndPush, LengthsOrdered, LocalsMatch
<1> HIDE DEF region
<1>4. RegionSizeIsMappedLength'
  BY <1>1, <1>2, <1>3 DEF RegionSizeIsMappedLength
<1>5. QED
  BY <1>1, <1>4 DEF LengthsOrdered

LEMMA NextKeepsLengths == LengthsInv /\ [Next]_vars => LengthsInv'
<1> SUFFICES ASSUME LengthsInv, [Next]_vars
             PROVE  LengthsOrdered' /\ RegionSizeIsMappedLength'
  BY NextTyped DEF LengthsInv
<1> USE DEF LengthsInv
<1>1. ASSUME pc' \in {"collect", "open", "stat", "ok"}, mappings' = mappings,
             UNCHANGED fsvars
      PROVE  LengthsOrdered' /\ RegionSizeIsMappedLength'
  BY <1>1 DEF LengthsOrdered, RegionSizeIsMappedLength, fsvars
<1>2. ASSUME NEW e \in Nodes, ReadEntry(e)
      PROVE  LengthsOrdered' /\ RegionSizeIsMappedLength'
  BY <1>2, <1>1, ReturnErrKeepsLengths DEF ReadEntry, args, current
<1>3. CASE LeaveDir \/ OpenFile \/ ReturnOk
  BY <1>3, <1>1, ReturnErrKeepsLengths
     DEF LeaveDir, OpenFile, ReturnOk, args, walk, current
<1>4. CASE StatFile
  <2>1. CASE pc' = "map" /\ ident' = FromMetadata(fd)
             /\ UNCHANGED <<args, links, walk, fd, map, mappings, why>>
    <3>1. ident'.len = len[fd] /\ len[fd] \in Nat /\ fd' = fd
      BY <1>4, <2>1, LengthsTyped DEF StatFile, LocalsMatch, FromMetadata
    <3>2. /\ len' = len /\ pc' = "map"
          /\ mappings' = mappings /\ shrunk' = shrunk
      BY <1>4, <2>1 DEF StatFile, fsvars
    <3>3. ident'.len <= len'[fd']
      BY <3>1, <3>2
    <3>4. QED
      BY <3>2, <3>3 DEF LengthsOrdered, RegionSizeIsMappedLength
  <2>2. QED
    BY <1>4, <2>1, ReturnErrKeepsLengths DEF StatFile
<1>5. CASE MapFile
  <2>1. map'.len = len[fd] /\ len[fd] \in Nat /\ fd' = fd /\ ident' = ident
    BY <1>5, LengthsTyped DEF MapFile, LocalsMatch, FromMetadata
  <2>2. QED
    BY <1>5, <2>1, LengthsTyped
       DEF MapFile, LengthsOrdered, RegionSizeIsMappedLength, fsvars
<1>6. CASE Revalidate \/ AdviseAndPush
  BY <1>6, RevalidateKeepsLengths, AdviseAndPushKeepsLengths
<1>7. CASE SyscallFails
  BY <1>7, ReturnErrKeepsLengths DEF SyscallFails
<1>8. CASE Writer
  BY <1>8, WriterKeepsLengths
<1>9. CASE UNCHANGED vars
  BY <1>9 DEF vars, LengthsOrdered, RegionSizeIsMappedLength
<1>10. QED
  BY <1>2, <1>3, <1>4, <1>5, <1>6, <1>7, <1>8, <1>9 DEF Next, Advance

LEMMA InitLengths == Init => LengthsInv
BY InitTyped DEF Init, LengthsInv, LengthsOrdered, RegionSizeIsMappedLength

LEMMA LengthsInvariant == Init /\ [][Next]_vars => []LengthsInv
BY InitLengths, NextKeepsLengths, PTL

(* The variables of open_with_limits always have values of their types.    *)
THEOREM CorpusTypeCorrect == Spec => []TypeOK
<1>1. LengthsInv => TypeOK
  BY DEF LengthsInv
<1>2. QED
  BY <1>1, LengthsInvariant, PTL DEF Spec

(* size() of a region is the number of bytes that are mapped for it unless *)
(* its file has been truncated, for any number of files and writes.        *)
THEOREM SizeIsMappedLength == Spec => []RegionSizeIsMappedLength
<1>1. LengthsInv => RegionSizeIsMappedLength
  BY DEF LengthsInv
<1>2. QED
  BY <1>1, LengthsInvariant, PTL DEF Spec
-----------------------------------------------------------------------------
(* The frames as one set: an entry taken out, a directory put in front, an *)
(* empty frame dropped.                                                    *)
LEMMA TakeOut ==
  ASSUME NEW S, NEW sets \in Seq(SUBSET S), sets # <<>>, Apart(sets),
         NEW e \in Head(sets)
  PROVE  LET rest == <<Head(sets) \ {e}>> \o Tail(sets) IN
           /\ rest \in Seq(SUBSET S)
           /\ All(rest) = All(sets) \ {e}
           /\ Apart(rest)
<1> DEFINE rest == <<Head(sets) \ {e}>> \o Tail(sets)
<1>1. /\ Head(sets) \in SUBSET S /\ Head(sets) = sets[1]
      /\ Tail(sets) \in Seq(SUBSET S) /\ Len(Tail(sets)) = Len(sets) - 1
      /\ \A k \in 1..(Len(sets) - 1) : Tail(sets)[k] = sets[k + 1]
      /\ Len(sets) \in Nat \ {0} /\ DOMAIN sets = 1..Len(sets)
  BY HeadTailSeq
<1>2. /\ rest \in Seq(SUBSET S) /\ Len(rest) = Len(Tail(sets)) + 1
      /\ rest[1] = Head(sets) \ {e}
      /\ \A k \in 1..Len(Tail(sets)) : rest[k + 1] = Tail(sets)[k]
  BY <1>1, ConsSeq
<1> HIDE DEF rest
<1>3. Len(rest) = Len(sets) /\ DOMAIN rest = DOMAIN sets
  BY <1>1, <1>2
<1>4. ASSUME NEW k \in DOMAIN sets, k # 1
      PROVE  rest[k] = sets[k]
  <2>1. k - 1 \in 1..(Len(sets) - 1) /\ (k - 1) + 1 = k
    BY <1>1, <1>4
  <2>2. QED
    BY <1>1, <1>2, <2>1
<1>5. 1 \in DOMAIN sets /\ rest[1] = sets[1] \ {e} /\ e \in sets[1]
  BY <1>1, <1>2
<1>6. All(rest) = All(sets) \ {e}
  BY <1>3, <1>4, <1>5 DEF All, Apart
<1>7. Apart(rest)
  BY <1>3, <1>4, <1>5 DEF Apart
<1>8. QED
  BY <1>2, <1>6, <1>7 DEF rest

LEMMA PutIn ==
  ASSUME NEW S, NEW rest \in Seq(SUBSET S), Apart(rest),
         NEW d \in SUBSET S, d \intersect All(rest) = {}
  PROVE  /\ All(<<d>> \o rest) = d \union All(rest)
         /\ Apart(<<d>> \o rest)
<1> DEFINE sets == <<d>> \o rest
<1>1. /\ sets \in Seq(SUBSET S) /\ Len(sets) = Len(rest) + 1 /\ sets[1] = d
      /\ \A k \in 1..Len(rest) : sets[k + 1] = rest[k]
  BY ConsSeq
<1> HIDE DEF sets
<1>2. Len(rest) \in Nat /\ DOMAIN rest = 1..Len(rest)
      /\ DOMAIN sets = 1..(Len(rest) + 1)
  BY <1>1
<1>3. ASSUME NEW k \in DOMAIN sets, k # 1
      PROVE  k - 1 \in DOMAIN rest /\ sets[k] = rest[k - 1]
  <2>1. k - 1 \in 1..Len(rest) /\ (k - 1) + 1 = k
    BY <1>2, <1>3
  <2>2. QED
    BY <1>1, <1>2, <2>1
<1>4. \A k \in DOMAIN rest : k + 1 \in DOMAIN sets /\ sets[k + 1] = rest[k]
  BY <1>1, <1>2
<1>5. 1 \in DOMAIN sets
  BY <1>2
<1>6. All(sets) = d \union All(rest)
  <2>1. ASSUME NEW x \in All(sets) PROVE x \in d \union All(rest)
    <3>1. PICK k \in DOMAIN sets : x \in sets[k]
      BY DEF All
    <3>2. QED
      BY <1>1, <1>3, <3>1 DEF All
  <2>2. d \subseteq All(sets)
    BY <1>1, <1>5 DEF All
  <2>3. All(rest) \subseteq All(sets)
    BY <1>4 DEF All
  <2>4. QED
    BY <2>1, <2>2, <2>3
<1>7. ASSUME NEW j \in DOMAIN sets, NEW k \in DOMAIN sets, j # k
      PROVE  sets[j] \intersect sets[k] = {}
  <2>1. CASE j # 1 /\ k # 1
    <3>1. j - 1 # k - 1
      BY <1>2, <1>7
    <3>2. QED
      BY <1>3, <2>1, <3>1 DEF Apart
  <2>2. CASE j = 1 \/ k = 1
    BY <1>1, <1>3, <1>7, <2>2 DEF All
  <2>3. QED
    BY <2>1, <2>2
<1>8. QED
  BY <1>6, <1>7 DEF sets, Apart

LEMMA DropEmpty ==
  ASSUME NEW S, NEW sets \in Seq(SUBSET S), sets # <<>>, Apart(sets),
         Head(sets) = {}
  PROVE  All(Tail(sets)) = All(sets) /\ Apart(Tail(sets))
<1> DEFINE t == Tail(sets)
<1>1. /\ sets[1] = {} /\ t \in Seq(SUBSET S) /\ Len(t) = Len(sets) - 1
      /\ \A k \in 1..(Len(sets) - 1) : t[k] = sets[k + 1]
      /\ Len(sets) \in Nat \ {0} /\ DOMAIN sets = 1..Len(sets)
  BY HeadTailSeq
<1> HIDE DEF t
<1>2. DOMAIN t = 1..(Len(sets) - 1)
  BY <1>1
<1>3. \A k \in DOMAIN t : k + 1 \in DOMAIN sets /\ t[k] = sets[k + 1]
  BY <1>1, <1>2
<1>4. ASSUME NEW k \in DOMAIN sets, k # 1
      PROVE  k - 1 \in DOMAIN t /\ t[k - 1] = sets[k]
  <2>1. k - 1 \in 1..(Len(sets) - 1) /\ (k - 1) + 1 = k
    BY <1>1, <1>4
  <2>2. QED
    BY <1>1, <1>2, <2>1
<1>5. All(t) = All(sets)
  <2>1. All(t) \subseteq All(sets)
    BY <1>3 DEF All
  <2>2. ASSUME NEW x \in All(sets) PROVE x \in All(t)
    <3>1. PICK k \in DOMAIN sets : x \in sets[k]
      BY DEF All
    <3>2. k # 1
      BY <1>1, <3>1
    <3>3. QED
      BY <1>4, <3>1, <3>2 DEF All
  <2>3. QED
    BY <2>1, <2>2
<1>6. ASSUME NEW j \in DOMAIN t, NEW k \in DOMAIN t, j # k
      PROVE  t[j] \intersect t[k] = {}
  <2>1. j + 1 # k + 1
    BY <1>2, <1>6
  <2>2. QED
    BY <1>3, <2>1 DEF Apart
<1>7. QED
  BY <1>5, <1>6 DEF t, Apart

(* The base is reachable, and so are the entries of reachable directories. *)
LEMMA Reaching ==
  ASSUME TypeOK
  PROVE  /\ Base \in ReachableDirs
         /\ \A d \in ReachableDirs : children[d] \subseteq Reachable
         /\ Reachable \intersect Dirs \subseteq ReachableDirs
<1>1. Base \in ReachableDirs
  BY CorpusAssumption DEF ReachableDirs
<1>2. Reachable \intersect Dirs \subseteq ReachableDirs
  <2> SUFFICES ASSUME NEW e \in Dirs, NEW p \in ReachableDirs,
                      e \in children[p],
                      NEW V \in SUBSET Dirs, Base \in V,
                      \A q \in V : children[q] \intersect Dirs \subseteq V
               PROVE  e \in V
    BY DEF Reachable, ReachableDirs
  <2>1. p \in V
    BY DEF ReachableDirs
  <2>2. QED
    BY <2>1
<1>3. QED
  BY <1>1, <1>2 DEF Reachable

LEMMA AppendRange ==
  ASSUME NEW S, NEW s \in Seq(S), NEW a \in S
  PROVE  Range(Append(s, a)) = Range(s) \union {a}
BY AppendSeq DEF Range
-----------------------------------------------------------------------------
(* The walk: what was entered, what is pending and what was found.         *)
LEMMA UnchangedWalk ==
  ASSUME WalkInv, UNCHANGED <<children, links, frames, out, dir, renamed>>,
         pc' \notin {"collect", "err"} => pc \notin {"collect", "err"}
  PROVE  WalkInv'
<1> USE DEF Pending, All, Apart, Range, Reachable, ReachableDirs, links
<1>1. NamesHeld' /\ LinksListed'
  BY DEF WalkInv, NamesHeld, LinksListed
<1>2. \A V : Entered(V) => Entered(V)'
  BY DEF Entered
<1>3. QED
  BY <1>1, <1>2 DEF WalkInv

LEMMA ReturnErrKeepsWalk ==
  ASSUME WalkInv, NEW reason, ReturnErr(reason), UNCHANGED fsvars
  PROVE  WalkInv'
BY UnchangedWalk DEF ReturnErr, args, links, fsvars

LEMMA MappingsTyped ==
  ASSUME TypeOK
  PROVE  /\ mappings \in Seq(Regions) /\ todo \in Seq(Paths)
         /\ DOMAIN mappings = 1..Len(mappings) /\ Len(mappings) \in Nat
         /\ DOMAIN todo = 1..Len(todo) /\ Len(todo) \in Nat
<1>1. mappings \in Seq(Regions) /\ todo \in Seq(Paths)
  BY DEF TypeOK
<1>2. QED
  BY <1>1

LEMMA FramesTyped ==
  ASSUME TypeOK
  PROVE  frames \in Seq(SUBSET Nodes) /\ out \in Seq(Paths)
BY DEF TypeOK

(* An entry that is a file is moved from the pending to the found.         *)
LEMMA FoundKeepsWalk ==
  ASSUME TypeOK, WalkInv, NEW e \in Paths, frames # <<>>, e \in Head(frames),
         frames' = <<Head(frames) \ {e}>> \o Tail(frames),
         out' = Append(out, e), pc = "collect", FALSE \in IsSymlink(e),
         UNCHANGED <<children, links, dir, renamed, pc>>
  PROVE  WalkInv'
<1>1. Pending' = Pending \ {e} /\ Apart(frames')
  BY TakeOut, FramesTyped DEF WalkInv, NamesHeld, Pending
<1>2. Range(out') = Range(out) \union {e}
  BY AppendRange, FramesTyped
<1>3. e \in Pending
  BY HeadTailSeq, FramesTyped DEF Pending, All
<1>4. /\ DOMAIN out' = (DOMAIN out) \union {Len(out) + 1}
      /\ out'[Len(out) + 1] = e
      /\ \A k \in DOMAIN out : out'[k] = out[k] /\ out[k] # e
  BY <1>3, AppendSeq, FramesTyped DEF WalkInv, NamesHeld
<1>5. Reachable' = Reachable /\ ReachableDirs' = ReachableDirs
  BY DEF Reachable, ReachableDirs
<1>6. e \notin renamed => e \notin linked /\ dir[e] # NoInode
  BY <1>3 DEF WalkInv, LinksListed, NamesHeld, IsSymlink
<1>7. NamesHeld' /\ LinksListed'
  <2>1. Pending' \union Range(out)' = Pending \union Range(out)
    BY <1>1, <1>2, <1>3
  <2>2. \A k \in DOMAIN out' : out'[k] \notin Pending'
    BY <1>1, <1>4 DEF WalkInv, NamesHeld
  <2>3. \A j, k \in DOMAIN out' : j # k => out'[j] # out'[k]
    BY <1>4 DEF WalkInv, NamesHeld
  <2>4. LinksListed'
    BY <1>1 DEF WalkInv, LinksListed, links
  <2>5. QED
    BY <1>1, <1>2, <1>5, <1>6, <2>1, <2>2, <2>3, <2>4
       DEF WalkInv, NamesHeld, links
<1>8. ASSUME NEW V \in SUBSET Dirs, Entered(V)
      PROVE  Entered(V)'
  <2>1. e \notin Specials /\ e \notin Dirs
    BY CorpusAssumption
  <2>2. QED
    BY <1>1, <1>2, <1>3, <1>5, <1>6, <1>8, <2>1 DEF Entered, links
<1>9. QED
  BY <1>7, <1>8 DEF WalkInv

(* A directory that is entered trades its name for the names it lists,     *)
(* none of which has been seen: each name has one parent.                  *)
LEMMA EnterKeepsWalk ==
  ASSUME TypeOK, WalkInv, NEW e \in Dirs, frames # <<>>, e \in Head(frames),
         frames' = <<ReadDir(e)>> \o (<<Head(frames) \ {e}>> \o Tail(frames)),
         ListLinks(e), pc = "collect",
         UNCHANGED <<children, linked, dir, renamed, out, pc>>
  PROVE  WalkInv'
<1> DEFINE rest == <<Head(frames) \ {e}>> \o Tail(frames)
<1>1. rest \in Seq(SUBSET Nodes) /\ All(rest) = Pending \ {e} /\ Apart(rest)
  BY TakeOut, FramesTyped DEF WalkInv, NamesHeld, Pending
<1> HIDE DEF rest
<1>2. e \in Pending
  BY HeadTailSeq, FramesTyped DEF Pending, All
<1>3. PICK V \in SUBSET Dirs : Entered(V)
  BY DEF WalkInv
<1>4. /\ e \notin V /\ e # Base
      /\ e \in UNION {children[d] : d \in V}
  BY <1>2, <1>3 DEF Entered
<1>5. /\ children[e] \subseteq Nodes /\ Base \notin children[e]
      /\ \A d \in V : children[d] \intersect children[e] = {}
      /\ e \notin children[e]
  <2>1. \A d \in Dirs \ {e} : children[e] \intersect children[d] = {}
    BY CorpusAssumption DEF TypeOK
  <2>2. children[e] \subseteq Nodes /\ Base \notin children[e]
    BY ReadDirTyped
  <2>3. QED
    BY <1>4, <2>1, <2>2
<1>6. children[e] \intersect (Pending \union Range(out) \union V) = {}
  BY <1>3, <1>5 DEF Entered
<1>7. ReadDir(e) \subseteq children[e] /\ ReadDir(e) \in SUBSET Nodes
  BY ReadDirTyped
<1>8. /\ Pending' = ReadDir(e) \union (Pending \ {e}) /\ Apart(frames')
  <2>1. ReadDir(e) \intersect All(rest) = {}
    BY <1>1, <1>6, <1>7
  <2>2. frames' = <<ReadDir(e)>> \o rest
    BY DEF rest
  <2>3. QED
    BY <1>1, <1>7, <2>1, <2>2, PutIn DEF Pending
<1>9. Reachable' = Reachable /\ ReachableDirs' = ReachableDirs
  BY DEF Reachable, ReachableDirs
<1>10. e \in ReachableDirs /\ children[e] \subseteq Reachable
  BY <1>2, Reaching DEF WalkInv, NamesHeld
<1>11. NamesHeld' /\ LinksListed'
  <2>1. (Pending \union Range(out))' \subseteq Reachable'
    BY <1>7, <1>8, <1>9, <1>10 DEF WalkInv, NamesHeld, Range
  <2>2. \A k \in DOMAIN out' : out'[k] \notin Pending'
    <3>1. \A k \in DOMAIN out : out[k] \in Range(out)
      BY DEF Range
    <3>2. QED
      BY <1>6, <1>7, <1>8, <3>1 DEF WalkInv, NamesHeld
  <2>3. \A p \in (Paths \intersect Pending') \ renamed :
          dir[p] # NoInode \/ p \in linked
    BY <1>8 DEF WalkInv, NamesHeld, ReadDir
  <2>4. LinksListed'
    BY <1>7, <1>8 DEF WalkInv, LinksListed, ListLinks
  <2>5. QED
    BY <1>8, <2>1, <2>2, <2>3, <2>4 DEF WalkInv, NamesHeld, Range
<1>12. Entered(V \union {e})'
  <2> DEFINE W == V \union {e}
  <2>1. Base \in W /\ W \subseteq ReachableDirs
    BY <1>3, <1>10 DEF Entered
  <2>2. ASSUME NEW d \in W, NEW x \in children[d]
        PROVE  /\ x \in Specials \union (linked \ renamed) => x \in Pending'
               /\ x \in Dirs => x \in W \union Pending'
               /\ x \in Paths /\ x \notin renamed /\ dir[x] # NoInode =>
                    x \in Pending' \union Range(out)
    <3>1. CASE d = e
      <4>1. \/ x \in ReadDir(e)
            \/ x \in Paths /\ x \notin linked /\ dir[x] = NoInode
        BY <2>2, <3>1 DEF ReadDir
      <4>2. x \in Paths => x \notin Dirs \union Specials
        BY CorpusAssumption
      <4>3. QED
        BY <1>8, <4>1, <4>2
    <3>2. CASE d \in V
      <4>1. e \notin Specials \union linked \union Paths
        BY CorpusAssumption DEF TypeOK
      <4>2. QED
        BY <1>3, <1>8, <2>2, <3>2, <4>1 DEF Entered
    <3>3. QED
      BY <3>1, <3>2
  <2>3. Pending' \union Range(out) \subseteq UNION {children[d] : d \in W}
    <3>1. Pending \union Range(out) \subseteq UNION {children[d] : d \in V}
      BY <1>3 DEF Entered
    <3>2. QED
      BY <1>7, <1>8, <3>1
  <2>4. W \subseteq {Base} \union UNION {children[d] : d \in W}
    <3>1. V \subseteq {Base} \union UNION {children[d] : d \in V}
      BY <1>3 DEF Entered
    <3>2. QED
      BY <1>4, <3>1
  <2>5. W \intersect Pending' = {}
    <3>1. V \intersect Pending = {}
      BY <1>3 DEF Entered
    <3>2. QED
      BY <1>5, <1>6, <1>7, <1>8, <3>1
  <2> HIDE DEF W
  <2>6. Range(out)' = Range(out)
    BY DEF Range
  <2>7. Entered(W)'
    BY <1>9, <2>1, <2>2, <2>3, <2>4, <2>5, <2>6 DEF Entered
  <2>8. QED
    BY <2>7 DEF W
<1>13. QED
  BY <1>11, <1>12 DEF WalkInv

(* The end of a call of collect_files leaves only the outer calls, or none. *)
LEMMA LeaveDirKeepsWalk ==
  ASSUME TypeOK, WalkInv, LeaveDir
  PROVE  WalkInv'
<1>1. /\ frames' = Tail(frames)
      /\ UNCHANGED <<children, linked, listed, dir, renamed, out>>
      /\ pc' # "collect" => Len(frames) <= 1
  BY DEF LeaveDir, args, links, fsvars
<1>2. Pending' = Pending /\ Apart(frames')
  BY <1>1, DropEmpty, FramesTyped DEF WalkInv, NamesHeld, Pending, LeaveDir
<1>3. pc' # "collect" => frames' = <<>>
  <2> SUFFICES ASSUME Len(frames) <= 1 PROVE Tail(frames) = <<>>
    BY <1>1
  <2>1. /\ Tail(frames) \in Seq(SUBSET Nodes)
        /\ Len(Tail(frames)) = Len(frames) - 1 /\ Len(frames) \in Nat \ {0}
    BY FramesTyped, HeadTailSeq DEF LeaveDir
  <2>2. Len(Tail(frames)) = 0
    BY <2>1
  <2>3. QED
    BY <2>1, <2>2
<1>4. /\ Reachable' = Reachable /\ ReachableDirs' = ReachableDirs
      /\ Range(out)' = Range(out)
  BY <1>1 DEF Reachable, ReachableDirs, Range
<1>5. NamesHeld' /\ LinksListed'
  BY <1>1, <1>2, <1>4 DEF WalkInv, NamesHeld, LinksListed
<1>6. \A V \in SUBSET Dirs : Entered(V) => Entered(V)'
  BY <1>1, <1>2, <1>4 DEF Entered
<1>7. QED
  BY <1>3, <1>5, <1>6 DEF WalkInv

LEMMA WriterKeepsWalk ==
  ASSUME TypeOK, WalkInv, Writer
  PROVE  WalkInv'
<1>1. /\ renamed \subseteq renamed'
      /\ \A p \in Paths \ renamed' : dir'[p] = dir[p]
      /\ linked \ renamed' = linked' \ renamed'
  BY WriterOnlyGrows
<1>2. UNCHANGED <<children, listed, frames, out, pc>>
  BY DEF Writer, args
<1>3. /\ Reachable' = Reachable /\ ReachableDirs' = ReachableDirs
      /\ Range(out)' = Range(out) /\ Pending' = Pending
      /\ Apart(frames)' = Apart(frames)
  BY <1>2 DEF Reachable, ReachableDirs, Range, Pending, All, Apart
<1>4. NamesHeld' /\ LinksListed'
  <2>1. Range(out) \subseteq Paths
    BY FramesTyped DEF Range
  <2>2. QED
    BY <1>1, <1>2, <1>3, <2>1 DEF WalkInv, NamesHeld, LinksListed
<1>5. \A V \in SUBSET Dirs : Entered(V) => Entered(V)'
  BY <1>1, <1>2, <1>3 DEF Entered
<1>6. QED
  BY <1>2, <1>4, <1>5 DEF WalkInv

LEMMA NextKeepsWalk == TypeOK /\ WalkInv /\ [Next]_vars => WalkInv'
<1> SUFFICES ASSUME TypeOK, WalkInv, [Next]_vars
             PROVE  WalkInv'
  OBVIOUS
<1>1. ASSUME NEW e \in Nodes, ReadEntry(e) PROVE WalkInv'
  BY <1>1, ReturnErrKeepsWalk, FoundKeepsWalk, EnterKeepsWalk
     DEF ReadEntry, args, links, fsvars
<1>2. CASE LeaveDir
  BY <1>2, LeaveDirKeepsWalk
<1>3. CASE OpenFile
  BY <1>3, ReturnErrKeepsWalk, UnchangedWalk DEF OpenFile, args, links, walk, fsvars
<1>4. CASE StatFile
  BY <1>4, ReturnErrKeepsWalk, UnchangedWalk DEF StatFile, args, links, walk, fsvars
<1>5. CASE MapFile \/ AdviseAndPush \/ ReturnOk
  BY <1>5, UnchangedWalk
     DEF MapFile, AdviseAndPush, ReturnOk, args, links, walk, fsvars
<1>6. CASE Revalidate
  BY <1>6, ReturnErrKeepsWalk, UnchangedWalk DEF Revalidate, args, links, walk, fsvars
<1>7. CASE SyscallFails
  BY <1>7, ReturnErrKeepsWalk DEF SyscallFails
<1>8. CASE Writer
  BY <1>8, WriterKeepsWalk
<1>9. CASE UNCHANGED vars
  BY <1>9, UnchangedWalk DEF vars, links
<1>10. QED
  BY <1>1, <1>2, <1>3, <1>4, <1>5, <1>6, <1>7, <1>8, <1>9 DEF Next, Advance

LEMMA InitWalk == Init => WalkInv
<1> SUFFICES ASSUME Init PROVE WalkInv
  OBVIOUS
<1>1. TypeOK
  BY InitTyped
<1>2. /\ Pending = ReadDir(Base) /\ Apart(frames)
      /\ DOMAIN out = {} /\ Range(out) = {}
  <2>1. DOMAIN frames = {1} /\ frames[1] = ReadDir(Base) /\ out = <<>>
    BY DEF Init
  <2>2. QED
    BY <2>1 DEF Pending, All, Apart, Range
<1>3. ReadDir(Base) \subseteq children[Base]
  BY <1>1, CorpusAssumption, ReadDirTyped
<1>4. Base \in ReachableDirs /\ children[Base] \subseteq Reachable
  BY <1>1, Reaching
<1>5. NamesHeld /\ LinksListed
  <2>1. listed = children[Base] \intersect linked
    BY DEF Init
  <2>2. QED
    BY <1>2, <1>3, <1>4, <2>1 DEF NamesHeld, LinksListed, ReadDir
<1>6. Entered({Base})
  <2>1. Base \in Dirs /\ Base \notin children[Base]
    BY <1>1, CorpusAssumption DEF TypeOK
  <2>2. ASSUME NEW x \in children[Base]
        PROVE  \/ x \in ReadDir(Base)
               \/ x \in Paths /\ x \notin linked /\ dir[x] = NoInode
    BY DEF ReadDir
  <2>3. \A x \in Paths : x \notin Dirs \union Specials
    BY CorpusAssumption
  <2>4. QED
    BY <1>2, <1>3, <1>4, <2>1, <2>2, <2>3 DEF Entered
<1>7. Base \in Dirs /\ pc = "collect"
  BY CorpusAssumption DEF Init
<1>8. QED
  BY <1>5, <1>6, <1>7 DEF WalkInv
-----------------------------------------------------------------------------
(* When the walk is over, the directories entered are the reachable ones.  *)
LEMMA WalkedEverything ==
  ASSUME TypeOK, WalkInv, pc \notin {"collect", "err"}
  PROVE  /\ Reachable \intersect (Specials \union (linked \ renamed)) = {}
         /\ Range(out) \subseteq Paths \intersect Reachable
         /\ \A p \in Paths \ renamed :
              p \in Range(out) <=> p \in Reachable /\ dir[p] # NoInode
<1>1. Pending = {}
  BY DEF WalkInv, Pending, All
<1>2. PICK V \in SUBSET Dirs : Entered(V)
  BY DEF WalkInv
<1>3. ReachableDirs \subseteq V
  <2>1. Base \in V /\ \A d \in V : children[d] \intersect Dirs \subseteq V
    BY <1>1, <1>2 DEF Entered
  <2>2. QED
    BY <2>1 DEF ReachableDirs
<1>4. Range(out) \subseteq Paths \intersect Reachable
  BY FramesTyped DEF WalkInv, NamesHeld, Range
<1>5. ASSUME NEW x \in Reachable
      PROVE  /\ x \notin Specials \union (linked \ renamed)
             /\ x \in Paths /\ x \notin renamed /\ dir[x] # NoInode
                  => x \in Range(out)
  <2>1. PICK d \in ReachableDirs : x \in children[d]
    BY DEF Reachable
  <2>2. QED
    BY <1>1, <1>2, <1>3, <2>1 DEF Entered
<1>6. \A p \in Range(out) \ renamed : dir[p] # NoInode
  BY DEF WalkInv, NamesHeld
<1>7. QED
  BY <1>4, <1>5, <1>6

(* The walk and the loop, from the first entry to the last region.         *)
WalkedInv == LengthsInv /\ WalkInv /\ ProgressInv

(* The files in order, each found once.                                    *)
LEMMA FilesInOrder ==
  ASSUME TypeOK, WalkInv
  PROVE  /\ Files \in Seq(Paths) /\ Len(Files) = Len(out)
         /\ Range(Files) = Range(out)
         /\ \A j, k \in 1..Len(out) : j < k => Files[j] < Files[k]
         /\ Len(out) \in Nat /\ DOMAIN Files = 1..Len(out)
<1>1. out \in Seq(Paths)
  BY DEF TypeOK
<1>2. DOMAIN out = 1..Len(out) /\ Len(out) \in Nat
  BY <1>1
<1>3. \A j, k \in DOMAIN out : j # k => out[j] # out[k]
  BY DEF WalkInv, NamesHeld
<1>4. /\ Files \in Seq(Paths) /\ Len(Files) = Len(out)
      /\ Range(Files) = Range(out)
      /\ \A j, k \in DOMAIN out : j < k => Files[j] < Files[k]
  BY <1>1, <1>3, SortedFilesOfPaths DEF Files
<1>5. DOMAIN Files = 1..Len(out)
  BY <1>4
<1>6. QED
  BY <1>2, <1>4, <1>5

LEMMA ReturnErrKeepsProgress ==
  ASSUME NEW reason, ReturnErr(reason)
  PROVE  ProgressInv'
BY DEF ReturnErr, ProgressInv

LEMMA LeaveDirKeepsProgress ==
  ASSUME TypeOK, WalkInv, ProgressInv, LeaveDir
  PROVE  ProgressInv'
<1>1. mappings' = <<>> /\ out' = out
  BY DEF LeaveDir, ProgressInv
<1>2. CASE pc' = "collect"
  BY <1>1, <1>2 DEF ProgressInv
<1>3. CASE pc' = "open" /\ todo' = Files
  <2>1. Len(mappings') = 0 /\ DOMAIN mappings' = {}
    BY <1>1
  <2>2. Len(todo') = Len(out) /\ Len(out) \in Nat /\ Files' = Files
    BY <1>1, <1>3, FilesInOrder DEF Files
  <2>3. \A k \in DOMAIN todo' : todo'[k] = Files[0 + k]
    BY <1>3, FilesInOrder
  <2>4. QED
    BY <1>1, <1>3, <2>1, <2>2, <2>3 DEF ProgressInv
<1>4. QED
  BY <1>2, <1>3 DEF LeaveDir, Files

LEMMA AdviseAndPushKeepsProgress ==
  ASSUME TypeOK, LocalsMatch, ProgressInv, AdviseAndPush
  PROVE  ProgressInv'
<1> DEFINE region == [path |-> Head(todo), size |-> ident.len, map |-> map]
           m == Len(mappings)
<1>1. /\ pc' = "open" /\ mappings' = Append(mappings, region)
      /\ todo' = Tail(todo) /\ out' = out /\ Files' = Files
  BY DEF AdviseAndPush, Files
<1>2. todo \in Seq(Paths) /\ todo # <<>> /\ m \in Nat
  BY MappingsTyped DEF LocalsMatch, AdviseAndPush
<1>3. /\ Head(todo) \in Paths /\ Head(todo) = todo[1]
      /\ todo' \in Seq(Paths) /\ Len(todo') = Len(todo) - 1
      /\ \A k \in 1..(Len(todo) - 1) : todo'[k] = todo[k + 1]
      /\ Len(todo) \in Nat \ {0} /\ DOMAIN todo = 1..Len(todo)
  BY <1>1, <1>2, HeadTailSeq
<1>4. region \in Regions /\ region.path = todo[1]
  BY <1>3 DEF TypeOK, Regions, FileIdentities
<1> HIDE DEF region
<1>5. /\ Len(mappings') = m + 1
      /\ DOMAIN mappings' = (DOMAIN mappings) \union {m + 1}
      /\ mappings'[m + 1] = region
      /\ \A k \in DOMAIN mappings : mappings'[k] = mappings[k]
  BY <1>1, <1>4, AppendSeq, MappingsTyped
<1>6. /\ m + Len(todo) = Len(out)
      /\ \A k \in DOMAIN mappings : mappings[k].path = Files[k]
      /\ \A k \in DOMAIN todo : todo[k] = Files[m + k]
  BY DEF ProgressInv, AdviseAndPush
<1> HIDE DEF m
<1>7. Len(mappings') + Len(todo') = Len(out)
  <2>1. (m + 1) + (Len(todo) - 1) = m + Len(todo)
    BY <1>2, <1>3
  <2>2. QED
    BY <1>3, <1>5, <1>6, <2>1
<1>8. \A k \in DOMAIN mappings' : mappings'[k].path = Files[k]
  <2>1. region.path = Files[m + 1]
    BY <1>3, <1>4, <1>6
  <2>2. QED
    BY <1>5, <1>6, <2>1
<1>9. ASSUME NEW k \in DOMAIN todo'
      PROVE  todo'[k] = Files[Len(mappings') + k]
  <2>1. k \in 1..(Len(todo) - 1) /\ k + 1 \in DOMAIN todo
    BY <1>3
  <2>2. todo'[k] = Files[m + (k + 1)] /\ m + (k + 1) = (m + 1) + k
    BY <1>2, <1>3, <1>6, <2>1
  <2>3. QED
    BY <1>5, <2>2
<1>10. QED
  BY <1>1, <1>7, <1>8, <1>9 DEF ProgressInv

LEMMA NextKeepsProgress ==
  TypeOK /\ LocalsMatch /\ WalkInv /\ ProgressInv /\ [Next]_vars
    => ProgressInv'
<1> SUFFICES ASSUME TypeOK, LocalsMatch, WalkInv, ProgressInv, [Next]_vars
             PROVE  ProgressInv'
  OBVIOUS
<1>1. ASSUME UNCHANGED <<mappings, todo, out>>,
             pc' \in {"collect", "err"} <=> pc \in {"collect", "err"},
             pc' = "ok" => todo = <<>>
      PROVE  ProgressInv'
  BY <1>1 DEF ProgressInv, Files
<1>2. ASSUME pc = "collect", pc' = "collect", mappings' = mappings
      PROVE  ProgressInv'
  BY <1>2 DEF ProgressInv
<1>3. ASSUME NEW e \in Nodes, ReadEntry(e)
      PROVE  ProgressInv'
  BY <1>2, <1>3, ReturnErrKeepsProgress DEF ReadEntry
<1>4. CASE LeaveDir \/ AdviseAndPush
  BY <1>4, LeaveDirKeepsProgress, AdviseAndPushKeepsProgress
<1>5. CASE OpenFile
  BY <1>1, <1>5, ReturnErrKeepsProgress DEF OpenFile, walk
<1>6. CASE StatFile
  BY <1>1, <1>6, ReturnErrKeepsProgress DEF StatFile, walk
<1>7. CASE MapFile
  BY <1>1, <1>7 DEF MapFile, walk
<1>8. CASE Revalidate
  BY <1>1, <1>8, ReturnErrKeepsProgress DEF Revalidate, walk
<1>9. CASE ReturnOk
  BY <1>1, <1>9 DEF ReturnOk, walk
<1>10. CASE SyscallFails
  BY <1>10, ReturnErrKeepsProgress DEF SyscallFails
<1>11. CASE Writer \/ UNCHANGED vars
  <2>1. pc = "ok" => todo = <<>>
    BY DEF ProgressInv
  <2>2. QED
    BY <1>1, <1>11, <2>1 DEF Writer, vars
<1>12. QED
  BY <1>3, <1>4, <1>5, <1>6, <1>7, <1>8, <1>9, <1>10, <1>11
     DEF Next, Advance

LEMMA WalkedInvariant == Init /\ [][Next]_vars => []WalkedInv
<1>1. Init => WalkedInv
  BY InitLengths, InitWalk DEF WalkedInv, ProgressInv, Init
<1>2. WalkedInv /\ [Next]_vars => WalkedInv'
  BY NextKeepsLengths, NextKeepsWalk, NextKeepsProgress
     DEF WalkedInv, LengthsInv
<1>3. QED
  BY <1>1, <1>2, PTL

(* A corpus that opened has no special file under its base, and no link    *)
(* under a name that nobody changed meanwhile, in any tree and for any     *)
(* order of the listings: every directory reached was entered, and every   *)
(* name listed was looked at.  Nothing is promised of a name that another  *)
(* program changed: a link renamed over a file between its file_type and   *)
(* its File::open is followed.  Directories and special files stay put.    *)
THEOREM NoLinksInCorpus == Spec => []OpenedCorpusHasNoLinks
<1>1. WalkedInv => OpenedCorpusHasNoLinks
  BY WalkedEverything DEF WalkedInv, LengthsInv, OpenedCorpusHasNoLinks
<1>2. QED
  BY <1>1, WalkedInvariant, PTL DEF Spec

(* A corpus that opened has one region for each file under its base whose  *)
(* name nobody changed, and the regions are in the order of their paths.   *)
THEOREM RegionsAreFiles == Spec => []RegionsAreTheFilesInOrder
<1>1. ASSUME WalkedInv PROVE RegionsAreTheFilesInOrder
  <2>1. /\ Files \in Seq(Paths) /\ Len(Files) = Len(out)
        /\ Range(Files) = Range(out)
        /\ \A j, k \in 1..Len(out) : j < k => Files[j] < Files[k]
        /\ Len(out) \in Nat /\ DOMAIN Files = 1..Len(out)
    BY <1>1, FilesInOrder DEF WalkedInv, LengthsInv
  <2>2. /\ mappings \in Seq(Regions) /\ todo \in Seq(Paths)
        /\ DOMAIN mappings = 1..Len(mappings) /\ Len(mappings) \in Nat
        /\ Len(todo) \in Nat
    BY <1>1, MappingsTyped DEF WalkedInv, LengthsInv
  <2>3. CASE pc \in {"collect", "err"}
    BY <1>1, <2>3 DEF WalkedInv, ProgressInv, RegionsAreTheFilesInOrder
  <2>4. CASE pc \notin {"collect", "err"}
    <3>1. /\ Len(mappings) + Len(todo) = Len(out)
          /\ \A k \in DOMAIN mappings : mappings[k].path = Files[k]
      BY <1>1, <2>4 DEF WalkedInv, ProgressInv
    <3>2. DOMAIN mappings \subseteq 1..Len(out)
      BY <2>1, <2>2, <3>1
    <3>3. \A j, k \in DOMAIN mappings :
            j < k => mappings[j].path < mappings[k].path
      BY <2>1, <3>1, <3>2
    <3>4. ASSUME pc = "ok"
          PROVE  {mappings[k].path : k \in DOMAIN mappings} \ renamed
                   = {p \in (Paths \intersect Reachable) \ renamed :
                        dir[p] # NoInode}
      <4>1. Len(mappings) = Len(out)
        BY <1>1, <2>2, <3>1, <3>4 DEF WalkedInv, ProgressInv
      <4>2. {mappings[k].path : k \in DOMAIN mappings} = Range(out)
        BY <2>1, <2>2, <3>1, <4>1 DEF Range
      <4>3. /\ Range(out) \subseteq Paths \intersect Reachable
            /\ \A p \in Paths \ renamed :
                 p \in Range(out) <=> p \in Reachable /\ dir[p] # NoInode
        BY <1>1, <2>4, WalkedEverything DEF WalkedInv, LengthsInv
      <4>4. QED
        BY <4>2, <4>3
    <3>5. QED
      BY <3>3, <3>4 DEF RegionsAreTheFilesInOrder
  <2>5. QED
    BY <2>3, <2>4
<1>2. QED
  BY <1>1, WalkedInvariant, PTL DEF Spec
-----------------------------------------------------------------------------
(* The limits: total is the sum of the sizes while it can be compared with *)
(* its limit, since it saturates above every limit there is.               *)
LEMMA SizesTyped ==
  ASSUME TypeOK
  PROVE  /\ Sizes \in Seq(Nat) /\ Len(Sizes) = Len(mappings)
         /\ DOMAIN Sizes = DOMAIN mappings
         /\ mappings = <<>> => Sizes = <<>>
         /\ ident.len \in Nat /\ ident.len \in 0..MaxLen
         /\ limits.total \in Nat /\ limits.file \in Nat /\ U64Max \in Nat
         /\ total \in Nat
<1>1. mappings \in Seq(Regions) /\ DOMAIN mappings = 1..Len(mappings)
      /\ Len(mappings) \in Nat
  BY MappingsTyped
<1>2. \A k \in DOMAIN mappings : mappings[k].size \in Nat
  <2>1. \A k \in DOMAIN mappings : mappings[k] \in Regions
    BY <1>1
  <2>2. \A r \in Regions : r.size \in Nat
    BY FileSystemAssumption DEF Regions
  <2>3. QED
    BY <2>1, <2>2
<1>3. Sizes \in [1..Len(mappings) -> Nat]
  BY <1>1, <1>2 DEF Sizes
<1>4. Sizes \in Seq(Nat) /\ Len(Sizes) = Len(mappings)
      /\ DOMAIN Sizes = DOMAIN mappings
  BY <1>1, <1>3
<1>5. mappings = <<>> => Sizes = <<>>
  BY <1>4
<1>6. ident.len \in 0..MaxLen
  BY DEF TypeOK, FileIdentities
<1>7. /\ limits.total \in 0..U64Max /\ limits.file \in 0..U64Max
      /\ total \in 0..U64Max
  BY CorpusAssumption DEF TypeOK
<1>8. QED
  BY <1>4, <1>5, <1>6, <1>7, FileSystemAssumption, CorpusAssumption

LEMMA ReturnErrKeepsTotal ==
  ASSUME NEW reason, ReturnErr(reason)
  PROVE  TotalInv'
BY DEF ReturnErr, TotalInv

LEMMA StatFileKeepsTotal ==
  ASSUME TypeOK, LocalsMatch, TotalInv, StatFile
  PROVE  TotalInv'
<1> DEFINE size == len[fd]
           sum == SaturatingAdd(total, size)
<1>1. CASE Exceeds(size, limits.file) \/ Exceeds(sum, limits.total)
  BY <1>1, ReturnErrKeepsTotal DEF StatFile
<1>2. CASE ~(Exceeds(size, limits.file) \/ Exceeds(sum, limits.total))
  <2>1. /\ pc = "stat" /\ pc' = "map" /\ ident'.len = size /\ total' = sum
        /\ limits' = limits /\ mappings' = mappings /\ Sizes' = Sizes
    <3>1. /\ pc = "stat" /\ pc' = "map" /\ ident' = FromMetadata(fd)
          /\ total' = sum /\ limits' = limits /\ mappings' = mappings
      BY <1>2 DEF StatFile, args
    <3>2. ident'.len = size
      BY <3>1 DEF FromMetadata
    <3>3. Sizes' = Sizes
      BY <3>1 DEF Sizes
    <3>4. QED
      BY <3>1, <3>2, <3>3
  <2>2. size \in 0..MaxLen /\ total \in 0..U64Max
    BY DEF TypeOK, FSTypeOK, LocalsMatch, StatFile
  <2>3. size \in Nat /\ sum \in Nat /\ SumOf(Sizes) \in Nat
    <3>1. sum \in 0..U64Max /\ SumOf(Sizes) \in Nat
      BY <2>2, Saturates, SizesTyped, SumOfNat
    <3>2. size \in Nat
      BY <2>2, FileSystemAssumption
    <3> HIDE DEF size, sum
    <3>3. QED
      BY <3>1, <3>2, SizesTyped
  <2>4. ASSUME limits.total < U64Max
        PROVE  total' = SumOf(Sizes) + size /\ total' <= limits.total
    <3>1. sum <= limits.total
      BY <1>2, <2>3, SizesTyped DEF Exceeds
    <3>2. sum < U64Max
      BY <2>3, <2>4, <3>1, SizesTyped
    <3>3. sum = total + size
      BY <2>2, <3>2, Saturates
    <3>4. total = SumOf(Sizes)
      BY <2>1, <2>3, <2>4 DEF TotalInv, Current
    <3>5. QED
      BY <2>1, <3>1, <3>3, <3>4
  <2>5. Current' = size
    BY <2>1 DEF Current
  <2>6. QED
    BY <2>1, <2>4, <2>5 DEF TotalInv
<1>3. QED
  BY <1>1, <1>2

LEMMA PushedSizes ==
  ASSUME TypeOK, LocalsMatch, AdviseAndPush
  PROVE  /\ Sizes' = Append(Sizes, ident.len)
         /\ \A k \in DOMAIN mappings' :
              \/ k \in DOMAIN mappings /\ mappings'[k] = mappings[k]
              \/ /\ mappings'[k].size = ident.len
                 /\ mappings'[k].path = Head(todo)
<1> DEFINE region == [path |-> Head(todo), size |-> ident.len, map |-> map]
           m == Len(mappings)
<1>1. mappings' = Append(mappings, region)
  BY DEF AdviseAndPush
<1>2. region \in Regions /\ region.size = ident.len /\ region.path = Head(todo)
  BY HeadTailSeq
     DEF TypeOK, LocalsMatch, AdviseAndPush, Regions, FileIdentities
<1> HIDE DEF region
<1>3. /\ Len(mappings') = m + 1
      /\ DOMAIN mappings' = (DOMAIN mappings) \union {m + 1}
      /\ mappings'[m + 1] = region
      /\ \A k \in DOMAIN mappings : mappings'[k] = mappings[k]
      /\ m + 1 \notin DOMAIN mappings
  BY <1>1, <1>2, AppendSeq, MappingsTyped
<1> DEFINE t == Append(Sizes, ident.len)
<1>4. /\ t \in Seq(Nat) /\ DOMAIN t = (DOMAIN mappings) \union {m + 1}
      /\ t[m + 1] = ident.len
      /\ \A k \in DOMAIN mappings : t[k] = mappings[k].size
  <2>1. \A k \in DOMAIN mappings : Sizes[k] = mappings[k].size
    BY DEF Sizes
  <2>2. QED
    BY <2>1, SizesTyped, AppendSeq
<1> HIDE DEF t
<1>5. Sizes' = [k \in DOMAIN mappings' |-> mappings'[k].size]
  BY DEF Sizes
<1>6. \A k \in DOMAIN mappings' : t[k] = mappings'[k].size
  BY <1>2, <1>3, <1>4
<1>7. t = [k \in DOMAIN t |-> t[k]]
  BY <1>4
<1>8. Sizes' = t
  BY <1>3, <1>4, <1>5, <1>6, <1>7
<1>9. QED
  BY <1>2, <1>3, <1>8 DEF t

LEMMA AdviseAndPushKeepsTotal ==
  ASSUME TypeOK, LocalsMatch, TotalInv, AdviseAndPush
  PROVE  TotalInv'
<1>1. /\ pc = "advise" /\ pc' = "open" /\ UNCHANGED <<total, limits>>
      /\ ident.len <= limits.file
  BY DEF AdviseAndPush, LocalsMatch, args
<1>2. SumOf(Sizes') = SumOf(Sizes) + ident.len
  BY PushedSizes, SumOfAppend, SizesTyped
<1>3. SumOf(Sizes) \in Nat /\ ident.len \in Nat
  BY SumOfNat, SizesTyped
<1>4. Current = ident.len /\ Current' = 0
  BY <1>1 DEF Current
<1>5. SumOf(Sizes') + Current' = SumOf(Sizes) + Current
  BY <1>2, <1>3, <1>4
<1>6. \A k \in DOMAIN mappings' : mappings'[k].size <= limits.file
  BY <1>1, PushedSizes DEF TotalInv
<1>7. SumOf(Sizes)' = SumOf(Sizes')
  BY DEF SumOf
<1>8. QED
  BY <1>1, <1>5, <1>6, <1>7 DEF TotalInv

LEMMA NextKeepsTotal ==
  TypeOK /\ LocalsMatch /\ TotalInv /\ [Next]_vars => TotalInv'
<1> SUFFICES ASSUME TypeOK, LocalsMatch, TotalInv, [Next]_vars
             PROVE  TotalInv'
  OBVIOUS
<1>1. ASSUME UNCHANGED <<limits, mappings, total>>, Current' = Current,
             pc' = "err" <=> pc = "err"
      PROVE  TotalInv'
  BY <1>1 DEF TotalInv, Sizes, SumOf
<1>2. ASSUME NEW e \in Nodes, ReadEntry(e)
      PROVE  TotalInv'
  BY <1>1, <1>2, ReturnErrKeepsTotal DEF ReadEntry, args, current, Current
<1>3. CASE LeaveDir
  BY <1>1, <1>3 DEF LeaveDir, args, current, Current
<1>4. CASE OpenFile
  BY <1>1, <1>4, ReturnErrKeepsTotal DEF OpenFile, args, walk, Current
<1>5. CASE StatFile \/ AdviseAndPush
  BY <1>5, StatFileKeepsTotal, AdviseAndPushKeepsTotal
<1>6. CASE MapFile
  BY <1>1, <1>6 DEF MapFile, args, walk, Current
<1>7. CASE Revalidate
  BY <1>1, <1>7, ReturnErrKeepsTotal DEF Revalidate, args, current, Current
<1>8. CASE ReturnOk
  BY <1>1, <1>8 DEF ReturnOk, args, current, Current
<1>9. CASE SyscallFails
  BY <1>9, ReturnErrKeepsTotal DEF SyscallFails
<1>10. CASE Writer \/ UNCHANGED vars
  BY <1>1, <1>10 DEF Writer, vars, args, Current
<1>11. QED
  BY <1>2, <1>3, <1>4, <1>5, <1>6, <1>7, <1>8, <1>9, <1>10 DEF Next, Advance

LEMMA InitTotal == Init => TotalInv
<1> SUFFICES ASSUME Init PROVE TotalInv
  OBVIOUS
<1>1. TypeOK
  BY InitTyped
<1>2. Sizes = <<>>
  BY <1>1, SizesTyped DEF Init
<1>3. SumOf(Sizes) = 0 /\ Current = 0 /\ total = 0
  BY <1>2, SumOfEmpty DEF Init, Current
<1>4. total <= limits.total /\ total = SumOf(Sizes) + Current
  BY <1>1, <1>3, SizesTyped
<1>5. \A k \in DOMAIN mappings : mappings[k].size <= limits.file
  BY DEF Init
<1>6. QED
  BY <1>4, <1>5 DEF TotalInv

TotalledInv == WalkedInv /\ TotalInv

LEMMA TotalledInvariant == Init /\ [][Next]_vars => []TotalledInv
<1>1. TotalInv /\ WalkedInv /\ [Next]_vars => TotalInv'
  BY NextKeepsTotal DEF WalkedInv, LengthsInv
<1>2. TotalInv /\ WalkedInv => TotalledInv
  BY DEF TotalledInv
<1>3. QED
  BY <1>1, <1>2, InitTotal, WalkedInvariant, PTL

(* No region is larger than max_file_bytes, and together they are no       *)
(* larger than max_total_bytes, for any number of files of any size: the   *)
(* sum that saturates never passes for a smaller one.                      *)
THEOREM LimitsHold == Spec => []SizesWithinLimits
<1>1. ASSUME TotalledInv PROVE SizesWithinLimits
  <2>1. TypeOK /\ TotalInv /\ ProgressInv
    BY <1>1 DEF TotalledInv, WalkedInv, LengthsInv
  <2>2. SumOf(Sizes) \in Nat /\ Current \in Nat /\ limits.total \in Nat
    BY <2>1, SumOfNat, SizesTyped DEF Current
  <2>3. CASE pc # "err"
    BY <2>1, <2>2, <2>3 DEF TotalInv, SizesWithinLimits
  <2>4. CASE pc = "err"
    <3>1. mappings = <<>> /\ Sizes = <<>>
      BY <2>1, <2>4, SizesTyped DEF ProgressInv
    <3>2. SumOf(Sizes) = 0
      BY <3>1, SumOfEmpty
    <3>3. QED
      BY <2>2, <3>1, <3>2 DEF SizesWithinLimits
  <2>5. QED
    BY <2>3, <2>4
<1>2. QED
  BY <1>1, TotalledInvariant, PTL DEF Spec
-----------------------------------------------------------------------------
(* As long as nobody writes, what was stat-ed is what is there, and every  *)
(* error is about the tree or the sizes in it.  The inductive invariant is *)
(* TotalledInv /\ CalmInv /\ NoFalseAlarm.                                 *)
LEMMA Parts ==
  ASSUME TotalledInv
  PROVE  /\ TypeOK /\ LocalsMatch /\ WalkInv /\ ProgressInv /\ TotalInv
         /\ writes \in Nat
<1>1. TypeOK /\ LocalsMatch /\ WalkInv /\ ProgressInv /\ TotalInv
  BY DEF TotalledInv, WalkedInv, LengthsInv
<1>2. writes \in 0..MaxWrites
  BY <1>1 DEF TypeOK, FSTypeOK
<1>3. QED
  BY <1>1, <1>2, FileSystemAssumption

(* The file being mapped is one of those found under the base.             *)
LEMMA CurrentFile ==
  ASSUME TotalledInv, pc \notin {"collect", "err"}, todo # <<>>
  PROVE  /\ Head(todo) \in Paths \intersect Reachable
         /\ Head(todo) = Files[Len(mappings) + 1]
         /\ Len(mappings) + 1 \in 1..Len(out)
         /\ Head(todo) \notin renamed => dir[Head(todo)] # NoInode
<1>1. /\ Head(todo) = todo[1] /\ 1 \in DOMAIN todo
      /\ Len(todo) \in Nat \ {0} /\ Len(mappings) \in Nat
  BY Parts, MappingsTyped, HeadTailSeq
<1>2. /\ Len(mappings) + Len(todo) = Len(out)
      /\ todo[1] = Files[Len(mappings) + 1]
  BY <1>1, Parts DEF ProgressInv
<1>3. Len(mappings) + 1 \in 1..Len(out)
  BY <1>1, <1>2
<1>4. Head(todo) \in Range(out)
  BY <1>1, <1>2, <1>3, Parts, FilesInOrder DEF Range
<1>5. /\ Range(out) \subseteq Paths \intersect Reachable
      /\ \A p \in Paths \ renamed :
           p \in Range(out) <=> p \in Reachable /\ dir[p] # NoInode
  BY Parts, WalkedEverything
<1>6. QED
  BY <1>1, <1>2, <1>3, <1>4, <1>5

(* Files enumerates the files under the base when nobody has written.      *)
LEMMA FilesAreListed ==
  ASSUME TotalledInv, CalmInv, writes = 0, pc \notin {"collect", "err"}
  PROVE  Files \in SetToSeqs({p \in Paths \intersect Reachable :
                                dir[p] # NoInode})
<1> DEFINE files == {p \in Paths \intersect Reachable : dir[p] # NoInode}
           n == Len(out)
<1>1. /\ Range(Files) = Range(out)
      /\ \A j, k \in 1..n : j < k => Files[j] < Files[k]
      /\ n \in Nat /\ DOMAIN Files = 1..n /\ Files \in Seq(Paths)
  BY Parts, FilesInOrder
<1>2. renamed = {}
  BY DEF CalmInv
<1>3. Range(Files) = files
  BY <1>1, <1>2, Parts, WalkedEverything
<1>4. Files \in [1..n -> files] /\ \A p \in files : \E k \in 1..n : Files[k] = p
  BY <1>1, <1>3 DEF Range
<1>5. \A j, k \in 1..n : j # k => Files[j] # Files[k]
  <2> SUFFICES ASSUME NEW j \in 1..n, NEW k \in 1..n, j # k
               PROVE  Files[j] # Files[k]
    OBVIOUS
  <2>1. Files[j] \in Nat /\ Files[k] \in Nat
    BY <1>1, CorpusAssumption DEF Nodes
  <2>2. j < k \/ k < j
    OBVIOUS
  <2>3. QED
    BY <1>1, <2>1, <2>2
<1> HIDE DEF n, files
<1>6. Files \in Bijection(1..n, files)
  BY <1>4, <1>5 DEF Bijection, Injection, Surjection, IsInjective
<1>7. IsFiniteSet(1..n) /\ Cardinality(1..n) = n
  BY <1>1, FS_Interval
<1>8. Cardinality(files) = n
  BY <1>6, <1>7, FS_Bijection DEF ExistsBijection
<1>9. Files \in SetToSeqs(files)
  BY <1>4, <1>5, <1>8 DEF SetToSeqs
<1>10. QED
  BY <1>9 DEF files

(* Whatever a stat refuses without writes is too large: alone, or with the *)
(* files before it and so with all there are.                              *)
LEMMA RefusedFile ==
  ASSUME TotalledInv, CalmInv, writes = 0, pc = "stat"
  PROVE  LET files == {p \in Paths \intersect Reachable : dir[p] # NoInode}
             size(p) == len[dir[p]]
         IN  /\ Exceeds(len[fd], limits.file) =>
                  \E p \in files : size(p) > limits.file
             /\ Exceeds(SaturatingAdd(total, len[fd]), limits.total) =>
                  \E s \in SetToSeqs(files) :
                    SumOf([k \in DOMAIN s |-> size(s[k])]) > limits.total
<1> DEFINE p == Head(todo)
           m == Len(mappings)
           sum == SaturatingAdd(total, len[fd])
           sizes == [k \in DOMAIN Files |-> len[dir[Files[k]]]]
           files == {q \in Paths \intersect Reachable : dir[q] # NoInode}
<1>1. /\ todo # <<>> /\ fd \in Inodes /\ fd = dir[p] /\ fd # NoInode
      /\ len[fd] \in Nat /\ len[fd] \in 0..MaxLen
      /\ \A k \in DOMAIN mappings :
           mappings[k].size = len[dir[mappings[k].path]]
  <2>1. todo # <<>> /\ fd \in Inodes
    BY Parts DEF LocalsMatch
  <2>2. /\ fd = dir[p]
        /\ \A k \in DOMAIN mappings :
             mappings[k].size = len[dir[mappings[k].path]]
    BY DEF CalmInv
  <2>3. len[fd] \in 0..MaxLen
    BY <2>1, Parts DEF TypeOK, FSTypeOK
  <2>4. QED
    BY <2>1, <2>2, <2>3, FileSystemAssumption
<1>2. /\ p \in Paths \intersect Reachable /\ p = Files[m + 1]
      /\ m + 1 \in 1..Len(out)
  BY <1>1, CurrentFile
<1>3. Exceeds(len[fd], limits.file) =>
        \E q \in files : len[dir[q]] > limits.file
  BY <1>1, <1>2 DEF Exceeds
<1>4. ASSUME Exceeds(sum, limits.total)
      PROVE  SumOf(sizes) > limits.total
  <2>1. /\ limits.total \in Nat /\ U64Max \in Nat /\ total \in 0..U64Max
        /\ limits.total \in 0..U64Max /\ Sizes \in Seq(Nat)
        /\ DOMAIN Sizes = DOMAIN mappings /\ Len(Sizes) = m
    BY Parts, SizesTyped, CorpusAssumption DEF TypeOK
  <2>2. sum \in 0..U64Max /\ sum <= total + len[fd] /\ sum > limits.total
    BY <1>1, <1>4, <2>1, Saturates DEF Exceeds
  <2>3. total = SumOf(Sizes) + 0 /\ SumOf(Sizes) \in Nat
    <3>1. limits.total < U64Max /\ Current = 0
      BY <2>1, <2>2 DEF Current
    <3>2. SumOf(Sizes) \in Nat
      BY <2>1, SumOfNat
    <3>3. QED
      BY <3>1, <3>2, Parts DEF TotalInv
  <2> DEFINE t == Append(Sizes, len[fd])
  <2>4. /\ t \in Seq(Nat) /\ Len(t) = m + 1 /\ t[m + 1] = len[fd]
        /\ \A k \in DOMAIN mappings : t[k] = Sizes[k]
    BY <1>1, <2>1, AppendSeq
  <2>5. SumOf(t) = SumOf(Sizes) + len[fd]
    BY <1>1, <2>1, SumOfAppend
  <2> HIDE DEF t
  <2>6. /\ DOMAIN Files = 1..Len(out) /\ Len(out) \in Nat
        /\ \A k \in DOMAIN Files : dir[Files[k]] \in Inodes
    <3>1. /\ Files \in SetToSeqs(files)
          /\ DOMAIN Files = 1..Len(out) /\ Len(out) \in Nat
      BY FilesAreListed, FilesInOrder, Parts
    <3>2. \A k \in DOMAIN Files : Files[k] \in files
      BY <3>1 DEF SetToSeqs
    <3>3. QED
      BY <3>1, <3>2, Parts DEF TypeOK, FSTypeOK
  <2>7. sizes \in Seq(Nat) /\ Len(sizes) = Len(out)
    <3>1. \A i \in Inodes : len[i] \in Nat
      BY Parts, LengthsTyped
    <3>2. sizes \in [1..Len(out) -> Nat]
      BY <2>6, <3>1
    <3>3. QED
      BY <2>6, <3>2
  <2>8. \A k \in 1..(m + 1) : t[k] = sizes[k]
    <3>1. /\ DOMAIN mappings = 1..m /\ m \in Nat
          /\ \A k \in DOMAIN mappings : mappings[k].path = Files[k]
      BY Parts, MappingsTyped DEF ProgressInv
    <3>2. \A k \in 1..(m + 1) : k \in 1..Len(out) /\ (k \in 1..m \/ k = m + 1)
      BY <1>2, <2>6, <3>1
    <3>3. ASSUME NEW k \in 1..m
          PROVE  t[k] = sizes[k]
      <4>1. t[k] = mappings[k].size
        BY <2>1, <2>4, <3>1 DEF Sizes
      <4>2. k \in DOMAIN Files
        BY <1>2, <2>6, <3>1
      <4>3. QED
        BY <1>1, <3>1, <4>1, <4>2
    <3>4. t[m + 1] = sizes[m + 1]
      BY <1>1, <1>2, <2>4, <2>6
    <3>5. QED
      BY <3>2, <3>3, <3>4
  <2>9. SumOf(t) <= SumOf(sizes)
    <3>1. Len(t) <= Len(sizes) /\ \A k \in 1..Len(t) : t[k] = sizes[k]
      <4>1. m + 1 <= Len(out)
        BY <1>2, <2>6
      <4> HIDE DEF sizes, m
      <4>2. QED
        BY <2>4, <2>7, <2>8, <4>1
    <3> HIDE DEF sizes
    <3>2. QED
      BY <2>4, <2>7, <3>1, SumOfPrefix
  <2>10. SumOf(sizes) \in Nat /\ SumOf(t) \in Nat
    BY <2>4, <2>7, SumOfNat
  <2> HIDE DEF sizes, sum, m
  <2>11. QED
    BY <1>1, <2>1, <2>2, <2>3, <2>5, <2>9, <2>10
<1>5. Files \in SetToSeqs(files)
  BY FilesAreListed
<1>6. QED
  BY <1>3, <1>4, <1>5
(* Without writes nothing is renamed, and the steps keep what they stat-ed. *)
LEMMA NextKeepsCalm ==
  TotalledInv /\ CalmInv /\ [Next]_vars => CalmInv'
<1> SUFFICES ASSUME TotalledInv, CalmInv, [Next]_vars, writes' = 0
             PROVE  /\ renamed' = {}
                    /\ pc' \in {"stat", "map", "revalidate", "advise"} =>
                         fd' = dir'[Head(todo')]
                    /\ pc' \in {"map", "revalidate", "advise"} =>
                         ident' = [ino |-> fd', len |-> len'[fd']]
                    /\ pc' = "revalidate" =>
                         map' = [ino |-> fd', len |-> len'[fd']]
                    /\ \A k \in DOMAIN mappings' :
                         mappings'[k].size = len'[dir'[mappings'[k].path]]
  BY DEF CalmInv, FromMetadata
<1>1. UNCHANGED fsvars
  <2>1. ~Writer
    BY Parts, WriterOnlyGrows
  <2>2. QED
    BY <2>1 DEF Next, Advance, ReadEntry, LeaveDir, OpenFile, StatFile, MapFile,
                Revalidate, AdviseAndPush, ReturnOk, SyscallFails, vars, fsvars
<1>2. UNCHANGED <<dir, len, writes, shrunk, renamed>>
  BY <1>1 DEF fsvars
<1>3. /\ renamed = {}
      /\ pc \in {"stat", "map", "revalidate", "advise"} => fd = dir[Head(todo)]
      /\ pc \in {"map", "revalidate", "advise"} =>
           ident = [ino |-> fd, len |-> len[fd]]
      /\ pc = "revalidate" => map = [ino |-> fd, len |-> len[fd]]
      /\ \A k \in DOMAIN mappings :
           mappings[k].size = len[dir[mappings[k].path]]
  BY <1>2 DEF CalmInv, FromMetadata
<1>4. ASSUME NEW reason, ReturnErr(reason)
      PROVE  pc' = "err" /\ DOMAIN mappings' = {}
  BY <1>4 DEF ReturnErr
<1>5. ASSUME NEW e \in Nodes, ReadEntry(e)
      PROVE  (pc' = "err" /\ DOMAIN mappings' = {})
               \/ (pc' = "collect" /\ mappings' = mappings)
  BY <1>4, <1>5 DEF ReadEntry
<1>6. CASE AdviseAndPush
  <2>1. /\ pc = "advise" /\ pc' = "open"
        /\ \A k \in DOMAIN mappings' :
             \/ k \in DOMAIN mappings /\ mappings'[k] = mappings[k]
             \/ /\ mappings'[k].size = ident.len
                /\ mappings'[k].path = Head(todo)
    BY <1>6, Parts, PushedSizes DEF AdviseAndPush
  <2>2. ident.len = len[dir[Head(todo)]]
    BY <1>3, <2>1
  <2>3. QED
    BY <1>2, <1>3, <2>1, <2>2
<1>7. CASE LeaveDir
  BY <1>2, <1>3, <1>7 DEF LeaveDir
<1>8. CASE OpenFile
  BY <1>2, <1>3, <1>4, <1>8 DEF OpenFile, walk
<1>9. CASE StatFile
  BY <1>2, <1>3, <1>4, <1>9 DEF StatFile, walk, FromMetadata
<1>10. CASE MapFile
  BY <1>2, <1>3, <1>10 DEF MapFile, walk, FromMetadata
<1>11. CASE Revalidate
  BY <1>2, <1>3, <1>4, <1>11 DEF Revalidate, walk, current
<1>12. CASE ReturnOk
  BY <1>2, <1>3, <1>12 DEF ReturnOk
<1>13. CASE SyscallFails
  BY <1>2, <1>3, <1>4, <1>13 DEF SyscallFails
<1>14. CASE UNCHANGED vars
  BY <1>2, <1>3, <1>14 DEF vars
<1>15. CASE \E e \in Nodes : ReadEntry(e)
  BY <1>2, <1>3, <1>5, <1>15
<1>16. CASE Writer
  BY <1>2, <1>3, <1>16 DEF Writer
<1>17. QED
  BY <1>6, <1>7, <1>8, <1>9, <1>10, <1>11, <1>12, <1>13, <1>14, <1>15, <1>16
     DEF Next, Advance

(* An alarm that is raised has its cause, and keeps it.                    *)
LEMMA SameAlarm ==
  ASSUME NoFalseAlarm, UNCHANGED <<fsvars, args, linked, why>>
  PROVE  NoFalseAlarm'
<1> DEFINE files == {p \in Paths \intersect Reachable : dir[p] # NoInode}
           TooLarge == \E p \in files : len[dir[p]] > limits.file
           AllTooLarge == \E s \in SetToSeqs(files) :
             SumOf([k \in DOMAIN s |-> len[dir[s[k]]]]) > limits.total
<1>1. /\ UNCHANGED <<dir, len, writes, renamed, linked, children, limits, why>>
      /\ Reachable' = Reachable
  BY DEF fsvars, args, Reachable, ReachableDirs
<1>2. TooLarge' = TooLarge /\ AllTooLarge' = AllTooLarge
  BY <1>1, Zenon
<1>3. /\ why = "file limit" /\ writes = 0 => TooLarge
      /\ why = "total limit" /\ writes = 0 => AllTooLarge
  BY Zenon DEF NoFalseAlarm
<1>4. /\ why' = "file limit" /\ writes' = 0 => TooLarge'
      /\ why' = "total limit" /\ writes' = 0 => AllTooLarge'
  <2> HIDE DEF TooLarge, AllTooLarge
  <2>1. QED
    BY <1>1, <1>2, <1>3
<1>5. /\ why' = "link" => Reachable' \intersect (linked' \union renamed') # {}
      /\ why' = "special" => Reachable' \intersect Specials # {}
      /\ why' \in {"open", "changed"} => writes' > 0
  BY <1>1 DEF NoFalseAlarm
<1>6. QED
  BY <1>4, <1>5, Zenon DEF NoFalseAlarm

LEMMA SilentAlarm ==
  ASSUME why' = "io"
  PROVE  NoFalseAlarm'
BY DEF NoFalseAlarm

LEMMA WriterKeepsAlarm ==
  ASSUME TypeOK, NoFalseAlarm, Writer
  PROVE  NoFalseAlarm'
<1>1. writes' # 0 /\ writes' \in Nat
  <2>1. FSTypeOK' /\ writes' # 0
    BY WriterOnlyGrows
  <2>2. QED
    BY <2>1, FileSystemAssumption DEF FSTypeOK
<1>2. why' = why /\ Reachable' = Reachable /\ writes' > 0
  BY <1>1 DEF Writer, args, Reachable, ReachableDirs
<1>3. linked \union renamed \subseteq linked' \union renamed'
  BY WriterOnlyGrows
<1>4. QED
  BY <1>1, <1>2, <1>3 DEF NoFalseAlarm

(* A link that is refused is one, or its name has been changed since its   *)
(* directory listed it as one.                                             *)
LEMMA LinkIsThere ==
  ASSUME TotalledInv, NEW e \in Nodes, pc = "collect",
         frames # <<>>, e \in Head(frames), UNCHANGED fsvars,
         \/ e \in Specials /\ ReturnErr("special")
         \/ TRUE \in IsSymlink(e) /\ ReturnErr("link")
  PROVE  NoFalseAlarm'
<1>1. e \in Reachable
  BY Parts, FramesTyped, HeadTailSeq DEF WalkInv, NamesHeld, Pending, All
<1>2. /\ Reachable' = Reachable
      /\ linked' = linked /\ renamed' = renamed
  BY DEF ReturnErr, args, links, fsvars, Reachable, ReachableDirs
<1>3. TRUE \in IsSymlink(e) => e \in linked \union renamed
  BY Parts DEF WalkInv, LinksListed, IsSymlink
<1>4. QED
  BY <1>1, <1>2, <1>3 DEF ReturnErr, NoFalseAlarm

LEMMA NextKeepsAlarm ==
  TotalledInv /\ CalmInv /\ NoFalseAlarm /\ [Next]_vars => NoFalseAlarm'
<1> SUFFICES ASSUME TotalledInv, CalmInv, NoFalseAlarm, [Next]_vars
             PROVE  NoFalseAlarm'
  OBVIOUS
<1>1. ASSUME NEW e \in Nodes, ReadEntry(e)
      PROVE  NoFalseAlarm'
  BY <1>1, LinkIsThere, SameAlarm DEF ReadEntry, args, links
<1>2. CASE LeaveDir \/ MapFile \/ AdviseAndPush \/ ReturnOk
  BY <1>2, SameAlarm DEF LeaveDir, MapFile, AdviseAndPush, ReturnOk, links
<1>3. CASE OpenFile
  <2>1. CASE dir[Head(todo)] = NoInode
    <3>1. writes > 0
      BY <1>3, <2>1, CurrentFile, Parts DEF OpenFile, CalmInv
    <3>2. why' = "open" /\ writes' = writes
      BY <1>3, <2>1 DEF OpenFile, ReturnErr, fsvars
    <3>3. QED
      BY <3>1, <3>2 DEF NoFalseAlarm
  <2>2. CASE dir[Head(todo)] # NoInode
    BY <1>3, <2>2, SameAlarm DEF OpenFile, links
  <2>3. QED
    BY <2>1, <2>2
<1>4. CASE Revalidate
  <2>1. CASE ~IdentityHolds(fd, ident, ident.len)
    <3>1. writes > 0
      BY <1>4, <2>1, Parts
         DEF Revalidate, CalmInv, IdentityHolds, SameInode, FromMetadata
    <3>2. why' = "changed" /\ writes' = writes
      BY <1>4, <2>1 DEF Revalidate, ReturnErr, fsvars
    <3>3. QED
      BY <3>1, <3>2 DEF NoFalseAlarm
  <2>2. CASE IdentityHolds(fd, ident, ident.len)
    BY <1>4, <2>2, SameAlarm DEF Revalidate, links
  <2>3. QED
    BY <2>1, <2>2
<1>5. CASE StatFile
  <2> DEFINE sum == SaturatingAdd(total, len[fd])
             files == {p \in Paths \intersect Reachable : dir[p] # NoInode}
             TooLarge == \E p \in files : len[dir[p]] > limits.file
             AllTooLarge == \E s \in SetToSeqs(files) :
               SumOf([k \in DOMAIN s |-> len[dir[s[k]]]]) > limits.total
  <2>1. CASE ReturnErr("file limit") /\ Exceeds(len[fd], limits.file)
    <3>1. writes = 0 => TooLarge
      BY <1>5, <2>1, RefusedFile DEF StatFile
    <3>2. why' = "file limit" /\ UNCHANGED <<fsvars, args>>
      BY <1>5, <2>1 DEF StatFile, ReturnErr
    <3>3. writes' = writes /\ TooLarge' = TooLarge
      BY <3>2 DEF fsvars, args, Reachable, ReachableDirs
    <3>4. QED
      BY <3>1, <3>2, <3>3 DEF NoFalseAlarm
  <2>2. CASE ReturnErr("total limit") /\ Exceeds(sum, limits.total)
    <3>1. writes = 0 => AllTooLarge
      BY <1>5, <2>2, RefusedFile DEF StatFile
    <3>2. why' = "total limit" /\ UNCHANGED <<fsvars, args>>
      BY <1>5, <2>2 DEF StatFile, ReturnErr
    <3>3. writes' = writes /\ AllTooLarge' = AllTooLarge
      BY <3>2, Zenon DEF fsvars, args, Reachable, ReachableDirs
    <3>4. QED
      BY <3>1, <3>2, <3>3 DEF NoFalseAlarm
  <2>3. CASE UNCHANGED <<args, links, why>>
    BY <1>5, <2>3, SameAlarm DEF StatFile, links
  <2>4. QED
    BY <1>5, <2>1, <2>2, <2>3 DEF StatFile
<1>6. CASE SyscallFails
  BY <1>6, SilentAlarm DEF SyscallFails, ReturnErr
<1>7. CASE Writer
  BY <1>7, WriterKeepsAlarm, Parts
<1>8. CASE UNCHANGED vars
  BY <1>8, SameAlarm DEF vars, fsvars, args
<1>9. QED
  BY <1>1, <1>2, <1>3, <1>4, <1>5, <1>6, <1>7, <1>8 DEF Next, Advance

(* Every error of open_with_limits has its cause: the link, special file   *)
(* or oversized file it names is under the base, the files there do exceed *)
(* the total, or another program has changed a file.                       *)
THEOREM CorpusErrorsHaveCauses == Spec => []NoFalseAlarm
<1>1. Init => CalmInv /\ NoFalseAlarm
  BY DEF Init, FSInit, CalmInv, NoFalseAlarm
<1>2. TotalledInv /\ CalmInv /\ NoFalseAlarm /\ [Next]_vars
        => CalmInv' /\ NoFalseAlarm'
  BY NextKeepsCalm, NextKeepsAlarm
<1>3. QED
  BY <1>1, <1>2, TotalledInvariant, PTL DEF Spec
=============================================================================
