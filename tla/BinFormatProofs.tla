--------------------------- MODULE BinFormatProofs ---------------------------
(***************************************************************************)
(* Proofs about BinFormat, for bytes of any number of values, a u64 of any *)
(* width, any magics, versions and payloads, and any number of sections.   *)
(***************************************************************************)
EXTENDS BinFormat, SequenceTheorems, WellFoundedInduction, TLAPS

LEMMA LeastNatural ==
  ASSUME NEW S \in SUBSET Nat, S # {}
  PROVE  \E m \in S : \A x \in S : m <= x
<1> DEFINE R == {ss \in Nat \X Nat : ss[1] < ss[2]}
<1>1. IsWellFoundedOn(R, Nat)
  BY NatLessThanWellFounded DEF OpToRel
<1> HIDE DEF R
<1>2. PICK m \in S : \A y \in S : ~(<<y, m>> \in R)
  BY <1>1, WFMin
<1>3. \A y \in S : m <= y
  <2> SUFFICES ASSUME NEW y \in S, y < m PROVE FALSE
    OBVIOUS
  <2>1. <<y, m>> \in Nat \X Nat /\ <<y, m>>[1] < <<y, m>>[2]
    OBVIOUS
  <2>2. <<y, m>> \in R
    BY <2>1 DEF R
  <2>3. QED
    BY <1>2, <2>2
<1>4. QED
  BY <1>3

(* A loop of m rounds, of which round k makes step[k][x] of x, has a run.  *)
Runs(f, m, first, step) ==
  \A k \in 0..m : f[k] = IF k = 0 THEN first ELSE step[k][f[k - 1]]

LEMMA RunExists ==
  ASSUME NEW S, NEW first \in S, NEW m \in Nat, NEW step \in [1..m -> [S -> S]]
  PROVE  \E f \in [0..m -> S] : Runs(f, m, first, step)
<1> DEFINE RunsTo(k) == \E f \in [0..k -> S] : Runs(f, k, first, step)
           Bad == {k \in 0..m : ~RunsTo(k)}
<1> HIDE DEF RunsTo
<1>1. SUFFICES ASSUME Bad # {} PROVE FALSE
  BY DEF RunsTo
<1>2. PICK k \in Bad : \A j \in Bad : k <= j
  <2>1. Bad \subseteq Nat
    OBVIOUS
  <2> HIDE DEF Bad
  <2>2. QED
    BY <1>1, <2>1, LeastNatural
<1>3. k # 0
  <2>1. RunsTo(0)
    <3> DEFINE f == [n \in 0..0 |-> first]
    <3>1. f \in [0..0 -> S] /\ Runs(f, 0, first, step)
      BY DEF Runs
    <3>2. QED
      BY <3>1 DEF RunsTo
  <2>2. QED
    BY <1>2, <2>1
<1>4. RunsTo(k - 1) /\ k \in 1..m
  <2>1. k - 1 \in 0..m /\ ~(k <= k - 1) /\ k \in 1..m
    BY <1>2, <1>3
  <2>2. QED
    BY <1>2, <2>1
<1>5. PICK g \in [0..k - 1 -> S] : Runs(g, k - 1, first, step)
  BY <1>4 DEF RunsTo
<1> DEFINE f == [n \in 0..k |-> IF n = k THEN step[k][g[k - 1]] ELSE g[n]]
<1>6. f \in [0..k -> S]
  <2>1. g[k - 1] \in S /\ step[k] \in [S -> S]
    BY <1>4, <1>5
  <2>2. \A n \in 0..k : n # k => n \in 0..k - 1
    BY <1>4
  <2>3. QED
    BY <1>5, <2>1, <2>2
<1>7. Runs(f, k, first, step)
  <2> SUFFICES ASSUME NEW n \in 0..k
               PROVE  f[n] = IF n = 0 THEN first ELSE step[n][f[n - 1]]
    BY DEF Runs
  <2>1. CASE n = k
    <3>1. f[n] = step[k][g[k - 1]] /\ f[k - 1] = g[k - 1]
      BY <1>4, <2>1
    <3> HIDE DEF f
    <3>2. QED
      BY <1>4, <2>1, <3>1
  <2>2. CASE n # k
    <3>1. n \in 0..k - 1
      BY <1>4, <2>2
    <3>2. f[n] = g[n] /\ (n # 0 => f[n - 1] = g[n - 1])
      BY <1>4, <2>2, <3>1
    <3> HIDE DEF f
    <3>3. QED
      BY <1>5, <3>1, <3>2 DEF Runs
  <2>3. QED
    BY <2>1, <2>2
<1>8. RunsTo(k)
  BY <1>6, <1>7 DEF RunsTo
<1>9. QED
  BY <1>2, <1>8
-----------------------------------------------------------------------------
(* Bytes of numbers, and numbers of bytes.                                 *)
Words == [1..Width -> Bytes]

LEMMA ByteArithmetic ==
  ASSUME NEW b \in Bytes, NEW n \in Nat
  PROVE  /\ b + Base * n \in Nat
         /\ (b + Base * n) \div Base = n
         /\ (b + Base * n) % Base = b
<1>1. Base \in Nat /\ Base > 1 /\ b \in 0..Base - 1
  BY BinFormatAssumption DEF Bytes
<1> DEFINE x == b + Base * n
           q == x \div Base
           r == x % Base
<1>2. Base * n \in Nat /\ x \in Nat
  BY <1>1
<1>3. /\ q \in Int /\ r \in 0..Base - 1
      /\ x = Base * q + r
  <2> HIDE DEF x
  <2>1. QED
    BY <1>1, <1>2
<1>4. q = n
  <2>1. Base * q + r = Base * n + b
    BY <1>1, <1>2, <1>3
  <2> HIDE DEF q, r, x
  <2>2. Base * (q - n) = b - r
    BY <1>1, <1>3, <2>1
  <2>3. q - n \in Int /\ b - r < Base /\ b - r > -Base
    BY <1>1, <1>3
  <2>4. CASE q - n >= 1
    <3>1. Base * (q - n) >= Base
      BY <1>1, <2>3, <2>4
    <3>2. QED
      BY <1>1, <1>3, <2>2, <2>3, <3>1
  <2>5. CASE q - n <= -1
    <3>1. Base * (q - n) <= -Base
      BY <1>1, <2>3, <2>5
    <3>2. QED
      BY <1>1, <1>3, <2>2, <2>3, <3>1
  <2>6. QED
    BY <1>3, <2>3, <2>4, <2>5
<1>5. r = b
  <2>1. Base * q + r = Base * q + b /\ Base * q \in Nat
    BY <1>1, <1>2, <1>3, <1>4
  <2> HIDE DEF q, r, x
  <2>2. QED
    BY <1>1, <1>3, <2>1
<1>6. QED
  BY <1>2, <1>4, <1>5

(* The values that from_le_bytes goes through.                             *)
ValuesOf(f, s) ==
  \A k \in 0..Width :
    f[k] = IF k = 0 THEN 0 ELSE s[Width + 1 - k] + Base * f[k - 1]

LEMMA FromLeValues ==
  ASSUME NEW s \in Words
  PROVE  \E f \in [0..Width -> Nat] : ValuesOf(f, s) /\ FromLe(s) = f[Width]
<1> DEFINE Made(f) == f = [k \in 0..Width |->
                             IF k = 0 THEN 0 ELSE s[Width + 1 - k] + Base * f[k - 1]]
           value == CHOOSE f : Made(f)
           step == [k \in 1..Width |-> [n \in Nat |-> s[Width + 1 - k] + Base * n]]
<1>1. Width \in Nat /\ \A k \in 1..Width : s[Width + 1 - k] \in Bytes
  BY BinFormatAssumption DEF Words
<1>2. step \in [1..Width -> [Nat -> Nat]]
  BY <1>1, ByteArithmetic
<1>3. PICK g \in [0..Width -> Nat] : Runs(g, Width, 0, step)
  <2> HIDE DEF step
  <2>1. QED
    BY <1>1, <1>2, RunExists
<1>4. Made(g)
  <2>1. \A k \in 0..Width :
          g[k] = IF k = 0 THEN 0 ELSE s[Width + 1 - k] + Base * g[k - 1]
    <3> SUFFICES ASSUME NEW k \in 0..Width, k # 0
                 PROVE  g[k] = s[Width + 1 - k] + Base * g[k - 1]
      BY <1>3 DEF Runs
    <3>1. k \in 1..Width /\ g[k - 1] \in Nat
      BY <1>1, <1>3
    <3>2. g[k] = step[k][g[k - 1]]
      <4> HIDE DEF step
      <4>1. QED
        BY <1>3 DEF Runs
    <3>3. QED
      BY <3>1, <3>2
  <2>2. QED
    BY <1>3, <2>1
<1>5. Made(value)
  <2> HIDE DEF Made
  <2>1. QED
    BY <1>4
<1>6. FromLe(s) = value[Width]
  BY DEF FromLe
<1> HIDE DEF value
<1>7. ValuesOf(value, s)
  BY <1>5 DEF ValuesOf
<1>8. value \in [0..Width -> Nat]
  <2> DEFINE Bad == {k \in 0..Width : value[k] \notin Nat}
  <2>1. SUFFICES ASSUME Bad # {} PROVE FALSE
    BY <1>5
  <2>2. PICK k \in Bad : \A j \in Bad : k <= j
    <3>1. Bad \subseteq Nat
      OBVIOUS
    <3> HIDE DEF Bad
    <3>2. QED
      BY <2>1, <3>1, LeastNatural
  <2>3. k # 0
    BY <1>1, <1>7, <2>2 DEF ValuesOf
  <2>4. k - 1 \in 0..Width /\ ~(k <= k - 1) /\ k \in 1..Width
    BY <1>1, <2>2, <2>3
  <2>5. value[k - 1] \in Nat
    BY <2>2, <2>4
  <2>6. value[k] = s[Width + 1 - k] + Base * value[k - 1]
    BY <1>7, <2>3, <2>2 DEF ValuesOf
  <2>7. value[k] \in Nat
    BY <1>1, <2>4, <2>5, <2>6, ByteArithmetic
  <2>8. QED
    BY <2>2, <2>7
<1>9. QED
  BY <1>6, <1>7, <1>8

(* The numbers that to_le_bytes takes its bytes from.                      *)
LeftOf(g, n) ==
  \A k \in 1..Width : g[k] = IF k = 1 THEN n ELSE g[k - 1] \div Base

LEMMA ToLeLeft ==
  ASSUME NEW n \in Nat
  PROVE  /\ ToLe(n) \in Words
         /\ \E g \in [1..Width -> Nat] :
              LeftOf(g, n) /\ ToLe(n) = [k \in 1..Width |-> g[k] % Base]
<1> DEFINE Made(f) == f = [k \in 1..Width |->
                             IF k = 1 THEN n ELSE f[k - 1] \div Base]
           left == CHOOSE f : Made(f)
           step == [k \in 1..Width |->
                      [x \in Nat |-> IF k = 1 THEN x ELSE x \div Base]]
<1>1. Width \in Nat \ {0} /\ Base \in Nat \ {0}
  BY BinFormatAssumption
<1>2. \A x \in Nat : x \div Base \in Nat /\ x % Base \in Bytes
  BY <1>1 DEF Bytes
<1>3. step \in [1..Width -> [Nat -> Nat]]
  BY <1>2
<1>4. PICK f \in [0..Width -> Nat] : Runs(f, Width, n, step)
  <2> HIDE DEF step
  <2>1. QED
    BY <1>1, <1>3, RunExists
<1> DEFINE g == [k \in 1..Width |-> f[k]]
<1>5. Made(g)
  <2>1. ASSUME NEW k \in 1..Width
        PROVE  f[k] = IF k = 1 THEN n ELSE f[k - 1] \div Base
    <3>1. f[k] = step[k][f[k - 1]] /\ f[0] = n
      <4> HIDE DEF step
      <4>1. k \in 0..Width /\ k # 0 /\ 0 \in 0..Width
        BY <1>1
      <4>2. QED
        BY <1>4, <4>1 DEF Runs
    <3>2. f[k - 1] \in Nat
      BY <1>1, <1>4
    <3>3. f[k] = IF k = 1 THEN f[k - 1] ELSE f[k - 1] \div Base
      BY <3>1, <3>2
    <3>4. QED
      BY <3>1, <3>3
  <2>2. \A k \in 1..Width : k # 1 => k - 1 \in 1..Width
    BY <1>1
  <2>3. \A k \in 1..Width : k # 1 => g[k - 1] = f[k - 1]
    BY <2>2
  <2>4. QED
    BY <2>1, <2>3
<1>6. Made(left)
  <2> HIDE DEF Made, g
  <2>1. QED
    BY <1>5
<1>7. ToLe(n) = [k \in 1..Width |-> left[k] % Base]
  BY DEF ToLe
<1> HIDE DEF left
<1>8. LeftOf(left, n)
  BY <1>6 DEF LeftOf
<1>9. left \in [1..Width -> Nat]
  <2> DEFINE Bad == {k \in 1..Width : left[k] \notin Nat}
  <2>1. SUFFICES ASSUME Bad # {} PROVE FALSE
    BY <1>6
  <2>2. PICK k \in Bad : \A j \in Bad : k <= j
    <3>1. Bad \subseteq Nat
      OBVIOUS
    <3> HIDE DEF Bad
    <3>2. QED
      BY <2>1, <3>1, LeastNatural
  <2>3. k # 1
    BY <1>8, <2>2 DEF LeftOf
  <2>4. k - 1 \in 1..Width /\ ~(k <= k - 1)
    BY <1>1, <2>2, <2>3
  <2>5. left[k - 1] \in Nat
    BY <2>2, <2>4
  <2>6. left[k] = left[k - 1] \div Base
    BY <1>8, <2>2, <2>3 DEF LeftOf
  <2>7. QED
    BY <1>2, <2>2, <2>5, <2>6
<1>10. ToLe(n) \in Words
  BY <1>2, <1>7, <1>9 DEF Words
<1>11. QED
  BY <1>7, <1>8, <1>9, <1>10

(* What from_le_bytes made of bytes is written as those bytes.             *)
LEMMA BytesComeBack ==
  ASSUME NEW s \in Words
  PROVE  FromLe(s) \in Nat /\ ToLe(FromLe(s)) = s
<1>1. PICK f \in [0..Width -> Nat] : ValuesOf(f, s) /\ FromLe(s) = f[Width]
  BY FromLeValues
<1>2. Width \in Nat \ {0}
  BY BinFormatAssumption
<1>3. FromLe(s) \in Nat
  BY <1>1, <1>2
<1>4. PICK g \in [1..Width -> Nat] :
        /\ LeftOf(g, FromLe(s))
        /\ ToLe(FromLe(s)) = [k \in 1..Width |-> g[k] % Base]
  BY <1>3, ToLeLeft
<1>5. ASSUME NEW k \in 1..Width
      PROVE  /\ Width - k \in 0..Width /\ Width + 1 - k \in 1..Width
             /\ f[Width + 1 - k] = s[k] + Base * f[Width - k]
             /\ f[Width + 1 - k] \div Base = f[Width - k]
             /\ f[Width + 1 - k] % Base = s[k]
  <2>1. /\ Width - k \in 0..Width /\ Width + 1 - k \in 1..Width
        /\ (Width + 1 - k) - 1 = Width - k /\ Width + 1 - (Width + 1 - k) = k
        /\ Width + 1 - k \in 0..Width /\ Width + 1 - k # 0
    BY <1>2
  <2>2. f[Width + 1 - k] =
          s[Width + 1 - (Width + 1 - k)] + Base * f[(Width + 1 - k) - 1]
    BY <1>1, <2>1 DEF ValuesOf
  <2>3. f[Width + 1 - k] = s[k] + Base * f[Width - k]
    BY <2>1, <2>2
  <2>4. s[k] \in Bytes /\ f[Width - k] \in Nat
    BY <1>1, <2>1 DEF Words
  <2>5. /\ (s[k] + Base * f[Width - k]) \div Base = f[Width - k]
        /\ (s[k] + Base * f[Width - k]) % Base = s[k]
    BY <2>4, ByteArithmetic
  <2>6. QED
    BY <2>1, <2>3, <2>5
<1>6. \A k \in 1..Width : g[k] = f[Width + 1 - k]
  <2> DEFINE Bad == {k \in 1..Width : g[k] # f[Width + 1 - k]}
  <2>1. SUFFICES ASSUME Bad # {} PROVE FALSE
    OBVIOUS
  <2>2. PICK k \in Bad : \A j \in Bad : k <= j
    <3>1. Bad \subseteq Nat
      OBVIOUS
    <3> HIDE DEF Bad
    <3>2. QED
      BY <2>1, <3>1, LeastNatural
  <2>3. k # 1
    BY <1>1, <1>2, <1>4, <2>2 DEF LeftOf
  <2>4. k - 1 \in 1..Width /\ ~(k <= k - 1)
    BY <1>2, <2>2, <2>3
  <2>5. g[k - 1] = f[Width + 1 - (k - 1)]
    BY <2>2, <2>4
  <2>6. f[Width + 1 - (k - 1)] \div Base = f[Width - (k - 1)]
    BY <1>5, <2>4
  <2>7. Width - (k - 1) = Width + 1 - k
    BY <1>2, <2>2
  <2>8. g[k] = g[k - 1] \div Base
    BY <1>4, <2>2, <2>3 DEF LeftOf
  <2>9. QED
    BY <2>2, <2>5, <2>6, <2>7, <2>8
<1>7. \A k \in 1..Width : g[k] % Base = s[k]
  BY <1>5, <1>6
<1>8. QED
  BY <1>3, <1>4, <1>7 DEF Words

(* What was written as bytes is read back from them.                       *)
LEMMA NumberComesBack ==
  ASSUME NEW n \in U64
  PROVE  n \in Nat /\ ToLe(n) \in Words /\ FromLe(ToLe(n)) = n
<1>1. PICK s \in Words : n = FromLe(s)
  BY DEF U64, Words
<1>2. n \in Nat /\ ToLe(n) = s
  BY <1>1, BytesComeBack
<1>3. QED
  BY <1>1, <1>2
-----------------------------------------------------------------------------
(* Bytes one after the other.                                              *)
ByteSeqs == Seq(Bytes)

LEMMA WordsAreBytes ==
  ASSUME NEW s \in Words
  PROVE  s \in ByteSeqs /\ Len(s) = Width
BY BinFormatAssumption DEF Words, ByteSeqs

LEMMA BytesAreWords ==
  ASSUME NEW s \in ByteSeqs, Len(s) = Width
  PROVE  s \in Words
BY DEF Words, ByteSeqs

LEMMA Joined ==
  ASSUME NEW x \in ByteSeqs, NEW y \in ByteSeqs
  PROVE  x \o y \in ByteSeqs /\ Len(x \o y) = Len(x) + Len(y)
BY ConcatProperties DEF ByteSeqs

LEMMA Regrouped ==
  ASSUME NEW x \in ByteSeqs, NEW y \in ByteSeqs, NEW z \in ByteSeqs
  PROVE  (x \o y) \o z = x \o (y \o z)
BY ConcatAssociative DEF ByteSeqs

LEMMA SplitAt ==
  ASSUME NEW s \in ByteSeqs, NEW n \in Nat, n <= Len(s)
  PROVE  /\ TakeFirst(s, n) \in ByteSeqs /\ Len(TakeFirst(s, n)) = n
         /\ DropFirst(s, n) \in ByteSeqs /\ Len(DropFirst(s, n)) = Len(s) - n
         /\ s = TakeFirst(s, n) \o DropFirst(s, n)
<1>1. Len(s) \in Nat /\ \A i \in 1..Len(s) : s[i] \in Bytes
  BY DEF ByteSeqs
<1>2. /\ SubSeq(s, 1, n) \in Seq(Bytes)
      /\ Len(SubSeq(s, 1, n)) = IF 1 <= n THEN n - 1 + 1 ELSE 0
  BY <1>1, SubSeqProperties
<1>3. /\ SubSeq(s, n + 1, Len(s)) \in Seq(Bytes)
      /\ Len(SubSeq(s, n + 1, Len(s))) =
           IF n + 1 <= Len(s) THEN Len(s) - (n + 1) + 1 ELSE 0
  BY <1>1, SubSeqProperties
<1>4. SubSeq(s, 1, n) \o SubSeq(s, n + 1, Len(s)) = SubSeq(s, 1, Len(s))
  <2>1. 1 \in 1..Len(s) + 1 /\ n \in 1 - 1..Len(s) /\ Len(s) \in n..Len(s)
    BY <1>1
  <2>2. QED
    BY <2>1, ConcatAdjacentSubSeq DEF ByteSeqs
<1>5. SubSeq(s, 1, Len(s)) = s
  BY SubSeqFull DEF ByteSeqs
<1>6. (IF 1 <= n THEN n - 1 + 1 ELSE 0) = n
  OBVIOUS
<1>7. (IF n + 1 <= Len(s) THEN Len(s) - (n + 1) + 1 ELSE 0) = Len(s) - n
  BY <1>1
<1>8. TakeFirst(s, n) \in ByteSeqs /\ Len(TakeFirst(s, n)) = n
  BY <1>2, <1>6 DEF TakeFirst, ByteSeqs
<1>9. DropFirst(s, n) \in ByteSeqs /\ Len(DropFirst(s, n)) = Len(s) - n
  BY <1>3, <1>7 DEF DropFirst, ByteSeqs
<1>10. QED
  BY <1>4, <1>5, <1>8, <1>9 DEF TakeFirst, DropFirst

LEMMA Fronts ==
  ASSUME NEW x \in ByteSeqs, NEW y \in ByteSeqs,
         NEW u \in ByteSeqs, NEW w \in ByteSeqs,
         x \o y = u \o w, Len(x) = Len(u)
  PROVE  x = u /\ y = w
<1>1. x = u
  <2>1. \A i \in 1..Len(x) : (x \o y)[i] = x[i] /\ (u \o w)[i] = u[i]
    BY DEF ByteSeqs
  <2>2. QED
    BY <2>1, SeqEqual DEF ByteSeqs
<1>2. Len(y) = Len(w)
  <2>1. Len(x) + Len(y) = Len(u) + Len(w)
    BY Joined
  <2>2. Len(x) \in Nat /\ Len(y) \in Nat /\ Len(w) \in Nat
    BY DEF ByteSeqs
  <2>3. QED
    BY <2>1, <2>2
<1>3. y = w
  <2>1. ASSUME NEW i \in 1..Len(y) PROVE y[i] = w[i]
    <3>1. /\ Len(x) \in Nat /\ Len(y) \in Nat
          /\ Len(x) + i \in 1..Len(x) + Len(y)
          /\ ~(Len(x) + i <= Len(x)) /\ (Len(x) + i) - Len(x) = i
      BY DEF ByteSeqs
    <3>2. (x \o y)[Len(x) + i] = y[i]
      BY <3>1, ConcatProperties DEF ByteSeqs
    <3>3. (u \o w)[Len(x) + i] = w[i]
      BY <1>2, <3>1, ConcatProperties DEF ByteSeqs
    <3>4. QED
      BY <3>2, <3>3
  <2>2. QED
    BY <1>2, <2>1, SeqEqual DEF ByteSeqs
<1>4. QED
  BY <1>1, <1>3
-----------------------------------------------------------------------------
(* The file of a magic, a version and payloads.                            *)
LEMMA SectionIsBytes ==
  ASSUME NEW p \in ByteSeqs
  PROVE  /\ ToLe(Len(p)) \in Words
         /\ WriteSection(p) = ToLe(Len(p)) \o p
         /\ WriteSection(p) \in ByteSeqs
<1>1. Len(p) \in Nat
  BY DEF ByteSeqs
<1>2. ToLe(Len(p)) \in Words
  BY <1>1, ToLeLeft
<1>3. QED
  BY <1>2, WordsAreBytes, Joined DEF WriteSection

FilesOf(f, magic, v, ps) ==
  \A k \in 0..Len(ps) :
    f[k] = IF k = 0 THEN magic \o ToLe(v) ELSE f[k - 1] \o WriteSection(ps[k])

LEMMA FileOfFiles ==
  ASSUME NEW magic \in ByteSeqs, NEW v \in Nat, NEW ps \in Seq(ByteSeqs)
  PROVE  \E f \in [0..Len(ps) -> ByteSeqs] :
           FilesOf(f, magic, v, ps) /\ FileOf(magic, v, ps) = f[Len(ps)]
<1> DEFINE m == Len(ps)
           first == magic \o ToLe(v)
           Made(f) == f = [k \in 0..m |-> IF k = 0 THEN first
                                          ELSE f[k - 1] \o WriteSection(ps[k])]
           file == CHOOSE f : Made(f)
           step == [k \in 1..m |-> [s \in ByteSeqs |-> s \o WriteSection(ps[k])]]
<1>1. m \in Nat /\ \A k \in 1..m : ps[k] \in ByteSeqs
  OBVIOUS
<1>2. first \in ByteSeqs
  BY ToLeLeft, WordsAreBytes, Joined
<1>3. \A k \in 1..m, s \in ByteSeqs : s \o WriteSection(ps[k]) \in ByteSeqs
  BY <1>1, SectionIsBytes, Joined
<1>4. FileOf(magic, v, ps) = file[m]
  BY DEF FileOf
<1> HIDE DEF m, first
<1>5. step \in [1..m -> [ByteSeqs -> ByteSeqs]]
  BY <1>3
<1>6. PICK g \in [0..m -> ByteSeqs] : Runs(g, m, first, step)
  <2> HIDE DEF step
  <2>1. QED
    BY <1>1, <1>2, <1>5, RunExists
<1>7. Made(g)
  <2>1. ASSUME NEW k \in 0..m
        PROVE  g[k] = IF k = 0 THEN first ELSE g[k - 1] \o WriteSection(ps[k])
    <3>1. CASE k = 0
      BY <1>6, <3>1 DEF Runs
    <3>2. CASE k # 0
      <4>1. k \in 1..m /\ g[k - 1] \in ByteSeqs
        BY <1>1, <1>6, <3>2
      <4>2. g[k] = step[k][g[k - 1]]
        <5> HIDE DEF step
        <5>1. QED
          BY <1>6, <3>2 DEF Runs
      <4>3. QED
        BY <3>2, <4>1, <4>2
    <3>3. QED
      BY <3>1, <3>2
  <2>2. QED
    BY <1>6, <2>1
<1>8. Made(file)
  <2> HIDE DEF Made
  <2>1. QED
    BY <1>7
<1> HIDE DEF file
<1>9. \A k \in 0..m :
        file[k] = IF k = 0 THEN first ELSE file[k - 1] \o WriteSection(ps[k])
  BY <1>8
<1>10. file \in [0..m -> ByteSeqs]
  <2> DEFINE Bad == {k \in 0..m : file[k] \notin ByteSeqs}
  <2>1. SUFFICES ASSUME Bad # {} PROVE FALSE
    BY <1>8
  <2>2. PICK k \in Bad : \A j \in Bad : k <= j
    <3>1. Bad \subseteq Nat
      OBVIOUS
    <3> HIDE DEF Bad
    <3>2. QED
      BY <2>1, <3>1, LeastNatural
  <2>3. k # 0
    BY <1>2, <1>9, <2>2
  <2>4. k - 1 \in 0..m /\ ~(k <= k - 1) /\ k \in 1..m
    BY <1>1, <2>2, <2>3
  <2>5. file[k - 1] \in ByteSeqs
    BY <2>2, <2>4
  <2>6. file[k] = file[k - 1] \o WriteSection(ps[k])
    BY <1>9, <2>2, <2>3
  <2>7. QED
    BY <1>3, <2>2, <2>4, <2>5, <2>6
<1>11. FilesOf(file, magic, v, ps)
  BY <1>9 DEF FilesOf, m, first
<1>12. QED
  BY <1>4, <1>10, <1>11 DEF m

LEMMA FilesAgree ==
  ASSUME NEW magic, NEW v, NEW ps \in Seq(ByteSeqs), NEW qs \in Seq(ByteSeqs),
         NEW f, FilesOf(f, magic, v, ps), NEW g, FilesOf(g, magic, v, qs),
         NEW m \in Nat, m <= Len(ps), m <= Len(qs),
         \A k \in 1..m : ps[k] = qs[k]
  PROVE  f[m] = g[m]
<1> DEFINE Bad == {k \in 0..m : f[k] # g[k]}
<1>1. SUFFICES ASSUME Bad # {} PROVE FALSE
  OBVIOUS
<1>2. PICK k \in Bad : \A j \in Bad : k <= j
  <2>1. Bad \subseteq Nat
    OBVIOUS
  <2> HIDE DEF Bad
  <2>2. QED
    BY <1>1, <2>1, LeastNatural
<1>3. Len(ps) \in Nat /\ Len(qs) \in Nat
  OBVIOUS
<1>4. k \in 0..Len(ps) /\ k \in 0..Len(qs)
  BY <1>2, <1>3
<1>5. k # 0
  BY <1>2, <1>4 DEF FilesOf
<1>6. k - 1 \in 0..m /\ ~(k <= k - 1) /\ k \in 1..m
  BY <1>2, <1>5
<1>7. f[k - 1] = g[k - 1] /\ ps[k] = qs[k]
  BY <1>2, <1>6
<1>8. /\ f[k] = f[k - 1] \o WriteSection(ps[k])
      /\ g[k] = g[k - 1] \o WriteSection(qs[k])
  BY <1>4, <1>5 DEF FilesOf
<1>9. QED
  BY <1>2, <1>7, <1>8

LEMMA FileOfNone ==
  ASSUME NEW magic \in ByteSeqs, NEW v \in Nat
  PROVE  FileOf(magic, v, <<>>) = magic \o ToLe(v)
<1> DEFINE ps == <<>>
<1>1. ps \in Seq(ByteSeqs) /\ Len(ps) = 0 /\ 0 \in 0..0
  OBVIOUS
<1> HIDE DEF ps
<1>2. PICK f \in [0..Len(ps) -> ByteSeqs] :
        FilesOf(f, magic, v, ps) /\ FileOf(magic, v, ps) = f[Len(ps)]
  BY <1>1, FileOfFiles
<1>3. f[0] = magic \o ToLe(v)
  BY <1>1, <1>2 DEF FilesOf
<1>4. QED
  BY <1>1, <1>2, <1>3 DEF ps

LEMMA FileOfIsBytes ==
  ASSUME NEW magic \in ByteSeqs, NEW v \in Nat, NEW ps \in Seq(ByteSeqs)
  PROVE  FileOf(magic, v, ps) \in ByteSeqs
<1>1. PICK f \in [0..Len(ps) -> ByteSeqs] : FileOf(magic, v, ps) = f[Len(ps)]
  BY FileOfFiles
<1>2. Len(ps) \in 0..Len(ps)
  OBVIOUS
<1>3. QED
  BY <1>1, <1>2

LEMMA FileOfAppend ==
  ASSUME NEW magic \in ByteSeqs, NEW v \in Nat, NEW ps \in Seq(ByteSeqs),
         NEW p \in ByteSeqs
  PROVE  FileOf(magic, v, Append(ps, p)) = FileOf(magic, v, ps) \o WriteSection(p)
<1> DEFINE qs == Append(ps, p)
<1>1. /\ qs \in Seq(ByteSeqs) /\ Len(ps) \in Nat
      /\ Len(qs) = Len(ps) + 1 /\ qs[Len(ps) + 1] = p
      /\ \A k \in 1..Len(ps) : ps[k] = qs[k]
  OBVIOUS
<1> HIDE DEF qs
<1>2. PICK f \in [0..Len(ps) -> ByteSeqs] :
        FilesOf(f, magic, v, ps) /\ FileOf(magic, v, ps) = f[Len(ps)]
  BY FileOfFiles
<1>3. PICK g \in [0..Len(qs) -> ByteSeqs] :
        FilesOf(g, magic, v, qs) /\ FileOf(magic, v, qs) = g[Len(qs)]
  BY <1>1, FileOfFiles
<1>4. f[Len(ps)] = g[Len(ps)]
  <2>1. Len(ps) <= Len(ps) /\ Len(ps) <= Len(qs)
    BY <1>1
  <2>2. QED
    BY <1>1, <1>2, <1>3, <2>1, FilesAgree
<1>5. g[Len(ps) + 1] = g[Len(ps)] \o WriteSection(p)
  <2>1. Len(ps) + 1 \in 0..Len(qs) /\ Len(ps) + 1 # 0 /\ (Len(ps) + 1) - 1 = Len(ps)
    BY <1>1
  <2>2. g[Len(ps) + 1] = g[(Len(ps) + 1) - 1] \o WriteSection(qs[Len(ps) + 1])
    BY <1>3, <2>1 DEF FilesOf
  <2>3. QED
    BY <1>1, <2>1, <2>2
<1>6. QED
  BY <1>1, <1>2, <1>3, <1>4, <1>5 DEF qs

(* A file goes on after its first k payloads with the next one.            *)
LEMMA FileGoesOn ==
  ASSUME NEW magic \in ByteSeqs, NEW v \in Nat, NEW ps \in Seq(ByteSeqs),
         NEW k \in 0..Len(ps) - 1
  PROVE  /\ SubSeq(ps, 1, k) \in Seq(ByteSeqs) /\ ps[k + 1] \in ByteSeqs
         /\ FileOf(magic, v, SubSeq(ps, 1, k + 1)) =
              FileOf(magic, v, SubSeq(ps, 1, k)) \o WriteSection(ps[k + 1])
<1>1. /\ Len(ps) \in Nat /\ k \in Nat /\ k + 1 \in 1..Len(ps)
      /\ ps[k + 1] \in ByteSeqs
  OBVIOUS
<1>2. SubSeq(ps, 1, k) \in Seq(ByteSeqs)
  <2>1. \A i \in 1..k : ps[i] \in ByteSeqs
    BY <1>1
  <2>2. QED
    BY <1>1, <2>1, SubSeqProperties
<1>3. SubSeq(ps, 1, k + 1) = Append(SubSeq(ps, 1, k), ps[k + 1])
  <2>1. 1 \in 1..Len(ps) /\ k + 1 \in 1..Len(ps) /\ (k + 1) - 1 = k
    BY <1>1
  <2>2. SubSeq(ps, 1, k + 1) = SubSeq(ps, 1, (k + 1) - 1) \o <<ps[k + 1]>>
    BY <2>1, SubSeqRecursiveSecond
  <2>3. Append(SubSeq(ps, 1, k), ps[k + 1]) = SubSeq(ps, 1, k) \o <<ps[k + 1]>>
    BY <1>1, <1>2, AppendIsConcat
  <2>4. QED
    BY <2>1, <2>2, <2>3
<1>4. FileOf(magic, v, Append(SubSeq(ps, 1, k), ps[k + 1])) =
        FileOf(magic, v, SubSeq(ps, 1, k)) \o WriteSection(ps[k + 1])
  BY <1>1, <1>2, FileOfAppend
<1>5. QED
  BY <1>1, <1>2, <1>3, <1>4

LEMMA FileHasFronts ==
  ASSUME NEW magic \in ByteSeqs, NEW v \in Nat, NEW ps \in Seq(ByteSeqs),
         NEW k \in 0..Len(ps)
  PROVE  \E r \in ByteSeqs :
           FileOf(magic, v, ps) = FileOf(magic, v, SubSeq(ps, 1, k)) \o r
<1> DEFINE m == Len(ps)
           Begin(j) == FileOf(magic, v, SubSeq(ps, 1, j))
           Goes(j) == \E r \in ByteSeqs : FileOf(magic, v, ps) = Begin(j) \o r
           Bad == {d \in 0..m : ~Goes(m - d)}
<1>1. m \in Nat
  OBVIOUS
<1>2. Bad = {}
  <2> HIDE DEF Goes
  <2>1. SUFFICES ASSUME Bad # {} PROVE FALSE
    OBVIOUS
  <2>2. PICK d \in Bad : \A e \in Bad : d <= e
    <3>1. Bad \subseteq Nat
      OBVIOUS
    <3> HIDE DEF Bad
    <3>2. QED
      BY <2>1, <3>1, LeastNatural
  <2>3. Goes(m)
    <3>1. SubSeq(ps, 1, m) = ps
      BY SubSeqFull
    <3>2. FileOf(magic, v, ps) \in ByteSeqs
      BY FileOfIsBytes
    <3>3. FileOf(magic, v, ps) \o <<>> = FileOf(magic, v, ps)
      BY <3>2, ConcatEmptySeq DEF ByteSeqs
    <3>4. <<>> \in ByteSeqs
      BY DEF ByteSeqs
    <3>5. QED
      BY <3>1, <3>3, <3>4 DEF Goes
  <2>4. d # 0
    <3>1. m - 0 = m
      BY <1>1
    <3>2. QED
      BY <2>2, <2>3, <3>1
  <2>5. /\ d - 1 \in 0..m /\ ~(d <= d - 1) /\ m - d \in 0..m - 1
        /\ m - (d - 1) = (m - d) + 1
    BY <1>1, <2>2, <2>4
  <2> DEFINE j == m - d
  <2>6. Goes(j + 1)
    BY <2>2, <2>5
  <2>7. PICK r \in ByteSeqs : FileOf(magic, v, ps) = Begin(j + 1) \o r
    BY <2>6 DEF Goes
  <2>8. /\ SubSeq(ps, 1, j) \in Seq(ByteSeqs) /\ ps[j + 1] \in ByteSeqs
        /\ Begin(j + 1) = Begin(j) \o WriteSection(ps[j + 1])
    BY <2>5, FileGoesOn
  <2>9. Begin(j) \in ByteSeqs /\ WriteSection(ps[j + 1]) \in ByteSeqs
    BY <2>8, FileOfIsBytes, SectionIsBytes
  <2>10. /\ FileOf(magic, v, ps) = Begin(j) \o (WriteSection(ps[j + 1]) \o r)
         /\ WriteSection(ps[j + 1]) \o r \in ByteSeqs
    <3>1. (Begin(j) \o WriteSection(ps[j + 1])) \o r =
            Begin(j) \o (WriteSection(ps[j + 1]) \o r)
      BY <2>9, Regrouped
    <3>2. WriteSection(ps[j + 1]) \o r \in ByteSeqs
      BY <2>9, Joined
    <3>3. QED
      BY <2>7, <2>8, <3>1, <3>2
  <2>11. Goes(j)
    BY <2>10 DEF Goes
  <2>12. QED
    BY <2>2, <2>11
<1>3. m - k \in 0..m /\ m - (m - k) = k
  BY <1>1
<1>4. Goes(k)
  BY <1>2, <1>3
<1>5. QED
  BY <1>4

LEMMA FileAfterFront ==
  ASSUME NEW magic \in ByteSeqs, NEW v \in Nat, NEW ps \in Seq(ByteSeqs),
         NEW k \in 0..Len(ps) - 1
  PROVE  \E r \in ByteSeqs :
           FileOf(magic, v, ps) =
             FileOf(magic, v, SubSeq(ps, 1, k))
               \o (ToLe(Len(ps[k + 1])) \o (ps[k + 1] \o r))
<1> DEFINE front == FileOf(magic, v, SubSeq(ps, 1, k))
           p == ps[k + 1]
<1>1. k + 1 \in 0..Len(ps)
  OBVIOUS
<1>2. PICK r \in ByteSeqs :
        FileOf(magic, v, ps) = FileOf(magic, v, SubSeq(ps, 1, k + 1)) \o r
  BY <1>1, FileHasFronts
<1>3. /\ SubSeq(ps, 1, k) \in Seq(ByteSeqs) /\ p \in ByteSeqs
      /\ FileOf(magic, v, SubSeq(ps, 1, k + 1)) = front \o WriteSection(p)
  BY FileGoesOn
<1>4. front \in ByteSeqs
  BY <1>3, FileOfIsBytes
<1>5. /\ WriteSection(p) \in ByteSeqs /\ ToLe(Len(p)) \in ByteSeqs
      /\ WriteSection(p) = ToLe(Len(p)) \o p
  BY <1>3, SectionIsBytes, WordsAreBytes
<1> HIDE DEF front, p
<1>6. FileOf(magic, v, ps) = front \o (WriteSection(p) \o r)
  <2>1. (front \o WriteSection(p)) \o r = front \o (WriteSection(p) \o r)
    BY <1>4, <1>5, Regrouped
  <2>2. QED
    BY <1>2, <1>3, <2>1
<1>7. WriteSection(p) \o r = ToLe(Len(p)) \o (p \o r)
  <2>1. (ToLe(Len(p)) \o p) \o r = ToLe(Len(p)) \o (p \o r)
    BY <1>3, <1>5, Regrouped
  <2>2. QED
    BY <1>5, <2>1
<1>8. QED
  BY <1>6, <1>7 DEF front, p
-----------------------------------------------------------------------------
BinTypes ==
  /\ header \in [magic : Magics, version : Versions]
  /\ expected \in [magic : Magics, max_version : Versions]
  /\ written \in Seq(Payloads)
  /\ bytes \in ByteSeqs /\ rest \in ByteSeqs
  /\ version \in Nat
  /\ got \in Seq(ByteSeqs)
  /\ pc \in {"write", "read header", "read", "done", "failed"}

File == FileOf(header.magic, header.version, written)

(* The file is what the writer has written, up to where it was cut.        *)
FileInv ==
  /\ pc = "write" => bytes = File
  /\ \E cut \in ByteSeqs : File = bytes \o cut

(* What was read and what is left to read make up the file.                *)
ReadInv ==
  /\ pc \in {"write", "read header"} => got = <<>>
  /\ pc = "read header" => rest = bytes
  /\ pc \in {"read", "done"} => bytes = FileOf(expected.magic, version, got) \o rest
  /\ pc = "done" => rest = <<>>

(* A reader of the writer's format has read what was written.              *)
MatchInv ==
  pc # "write" /\ expected.magic = header.magic =>
    /\ Len(got) <= Len(written) /\ got = SubSeq(written, 1, Len(got))
    /\ pc \in {"read", "done"} \/ got # <<>> => version = header.version

BinInv == BinTypes /\ FileInv /\ ReadInv /\ MatchInv /\ ErrorHasCause
-----------------------------------------------------------------------------
LEMMA ConstantsAreBytes ==
  /\ Magics \subseteq ByteSeqs /\ Payloads \subseteq ByteSeqs
  /\ Versions \subseteq U64 /\ Versions \subseteq Nat
  /\ \A p \in Payloads : Len(p) \in U64
  /\ Width \in Nat \ {0} /\ UsizeMax \in Nat
BY BinFormatAssumption, NumberComesBack DEF ByteSeqs

LEMMA StateIsBytes ==
  ASSUME BinTypes
  PROVE  /\ header.magic \in ByteSeqs /\ expected.magic \in ByteSeqs
         /\ header.version \in U64 /\ header.version \in Nat
         /\ expected.max_version \in Nat
         /\ written \in Seq(ByteSeqs)
         /\ File \in ByteSeqs
<1>1. /\ header.magic \in Magics /\ expected.magic \in Magics
      /\ header.version \in Versions /\ expected.max_version \in Versions
  BY DEF BinTypes
<1>2. written \in Seq(ByteSeqs)
  BY ConstantsAreBytes, SeqMonotonic DEF BinTypes
<1>3. header.magic \in ByteSeqs /\ header.version \in Nat
  BY <1>1, ConstantsAreBytes
<1>4. File \in ByteSeqs
  BY <1>2, <1>3, FileOfIsBytes DEF File
<1>5. QED
  BY <1>1, <1>2, <1>3, <1>4, ConstantsAreBytes

LEMMA BinInitInv == Init => BinInv
<1> SUFFICES ASSUME Init PROVE BinInv
  OBVIOUS
<1>1. /\ header.magic \in ByteSeqs /\ header.version \in Nat
      /\ written = <<>> /\ got = <<>> /\ pc = "write" /\ rest = <<>> /\ version = 0
  BY ConstantsAreBytes DEF Init
<1>2. bytes = header.magic \o ToLe(header.version)
  BY DEF Init, WriteTo
<1>3. bytes = File
  BY <1>1, <1>2, FileOfNone DEF File
<1>4. bytes \in ByteSeqs /\ <<>> \in ByteSeqs
  BY <1>1, <1>2, ToLeLeft, WordsAreBytes, Joined DEF ByteSeqs
<1>5. BinTypes
  BY <1>1, <1>4 DEF Init, BinTypes
<1>6. File = bytes \o <<>>
  BY <1>3, <1>4, ConcatEmptySeq DEF ByteSeqs
<1>7. QED
  BY <1>1, <1>3, <1>4, <1>5, <1>6
     DEF BinInv, FileInv, ReadInv, MatchInv, ErrorHasCause

LEMMA AppendSectionInv ==
  ASSUME BinInv, NEW payload \in Payloads, AppendSection(payload)
  PROVE  BinInv'
<1>1. BinTypes /\ pc = "write" /\ bytes = File /\ got = <<>>
  BY DEF BinInv, FileInv, ReadInv, AppendSection
<1>2. /\ written' = Append(written, payload)
      /\ bytes' = bytes \o WriteSection(payload)
      /\ pc' = pc /\ header' = header /\ expected' = expected
      /\ rest' = rest /\ version' = version /\ got' = got /\ why' = why
  BY DEF AppendSection, reader
<1>3. payload \in ByteSeqs /\ written \in Seq(ByteSeqs)
      /\ header.magic \in ByteSeqs /\ header.version \in Nat
  BY <1>1, ConstantsAreBytes, StateIsBytes
<1>4. bytes' \in ByteSeqs /\ <<>> \in ByteSeqs
  BY <1>1, <1>2, <1>3, SectionIsBytes, Joined DEF BinTypes, ByteSeqs
<1>5. BinTypes'
  BY <1>1, <1>2, <1>4 DEF BinTypes
<1>6. bytes' = File'
  BY <1>1, <1>2, <1>3, FileOfAppend DEF File
<1>7. bytes' \o <<>> = bytes'
  BY <1>4, ConcatEmptySeq DEF ByteSeqs
<1>8. FileInv'
  BY <1>4, <1>6, <1>7 DEF FileInv
<1>9. QED
  BY <1>1, <1>2, <1>5, <1>8 DEF BinInv, ReadInv, MatchInv, ErrorHasCause

LEMMA CloseInv ==
  ASSUME BinInv, NEW n \in 0..Len(bytes), Close(n)
  PROVE  BinInv'
<1>1. BinTypes /\ pc = "write" /\ bytes = File /\ got = <<>>
  BY DEF BinInv, FileInv, ReadInv, Close
<1>2. /\ bytes' = TakeFirst(bytes, n) /\ rest' = bytes' /\ pc' = "read header"
      /\ written' = written /\ header' = header /\ expected' = expected
      /\ version' = version /\ got' = got /\ why' = why
  BY DEF Close, reader, writer
<1>3. n \in Nat /\ n <= Len(bytes) /\ bytes \in ByteSeqs
  BY <1>1 DEF BinTypes, ByteSeqs
<1>4. /\ bytes' \in ByteSeqs /\ DropFirst(bytes, n) \in ByteSeqs
      /\ bytes = bytes' \o DropFirst(bytes, n)
  BY <1>2, <1>3, SplitAt
<1>5. BinTypes'
  BY <1>1, <1>2, <1>4 DEF BinTypes
<1>6. FileInv'
  BY <1>1, <1>2, <1>4 DEF FileInv, File
<1>7. ReadInv' /\ ErrorHasCause'
  BY <1>1, <1>2 DEF ReadInv, ErrorHasCause
<1>8. MatchInv'
  <2>1. Len(written) \in Nat
    BY <1>1 DEF BinTypes
  <2>2. Len(<<>>) = 0 /\ SubSeq(written, 1, 0) = <<>>
    BY SubSeqEmpty
  <2>3. Len(got) <= Len(written) /\ got = SubSeq(written, 1, Len(got))
    BY <1>1, <2>1, <2>2
  <2>4. Len(got') <= Len(written') /\ got' = SubSeq(written', 1, Len(got'))
    BY <1>2, <2>3
  <2>5. got' = <<>> /\ pc' \notin {"read", "done"}
    BY <1>1, <1>2
  <2>6. QED
    BY <2>4, <2>5 DEF MatchInv
<1>9. QED
  BY <1>5, <1>6, <1>7, <1>8 DEF BinInv

(* An error leaves everything but pc and why as it is.                     *)
LEMMA FailsInv ==
  ASSUME BinInv, pc \in {"read header", "read"}, NEW error, Fails(error),
         expected.magic = header.magic =>
           CASE error = "UnsupportedVersion" ->
                  header.version > expected.max_version
             [] error = "SectionTooLarge" ->
                  \E k \in DOMAIN written : Len(written[k]) > UsizeMax
             [] OTHER -> bytes # File
  PROVE  BinInv'
<1>1. /\ written' = written /\ header' = header /\ expected' = expected
      /\ bytes' = bytes /\ rest' = rest /\ version' = version /\ got' = got
      /\ pc' = "failed" /\ why' = error
  BY DEF Fails, writer
<1>2. BinTypes' /\ FileInv'
  BY <1>1 DEF BinInv, BinTypes, FileInv, File
<1>3. ReadInv'
  BY <1>1 DEF ReadInv
<1>4. MatchInv'
  BY <1>1 DEF BinInv, MatchInv
<1>5. ErrorHasCause'
  BY <1>1 DEF ErrorHasCause, File
<1>6. QED
  BY <1>2, <1>3, <1>4, <1>5 DEF BinInv

(* The file of a writer begins with what the reader of its format expects. *)
LEMMA FileHasHeader ==
  ASSUME BinTypes
  PROVE  \E r \in ByteSeqs : File = header.magic \o (ToLe(header.version) \o r)
<1> DEFINE m == header.magic
           word == ToLe(header.version)
<1>1. /\ m \in ByteSeqs /\ header.version \in Nat /\ written \in Seq(ByteSeqs)
      /\ 0 \in 0..Len(written)
  BY StateIsBytes
<1>2. word \in ByteSeqs
  BY <1>1, ToLeLeft, WordsAreBytes
<1>3. SubSeq(written, 1, 0) = <<>>
  BY SubSeqEmpty
<1>4. FileOf(m, header.version, <<>>) = m \o word
  BY <1>1, FileOfNone
<1>5. PICK r \in ByteSeqs :
        FileOf(m, header.version, written) =
          FileOf(m, header.version, SubSeq(written, 1, 0)) \o r
  BY <1>1, FileHasFronts
<1>6. (m \o word) \o r = m \o (word \o r)
  BY <1>1, <1>2, Regrouped
<1>7. File = m \o (word \o r)
  BY <1>3, <1>4, <1>5, <1>6 DEF File
<1>8. QED
  BY <1>7

LEMMA ReadFromInv ==
  ASSUME BinInv, ReadFrom
  PROVE  BinInv'
<1> DEFINE magic == expected.magic
           n == Len(magic)
           front == TakeFirst(rest, n)
           after == DropFirst(rest, n)
           word == TakeFirst(after, Width)
           v == FromLe(word)
           mine == magic = header.magic
           written_word == ToLe(header.version)
<1>1. BinTypes /\ pc = "read header" /\ rest = bytes /\ got = <<>>
  BY DEF BinInv, ReadInv, ReadFrom
<1>2. /\ magic \in ByteSeqs /\ header.magic \in ByteSeqs
      /\ header.version \in U64 /\ Width \in Nat
      /\ bytes \in ByteSeqs
  <2>1. bytes \in ByteSeqs
    BY <1>1 DEF BinTypes
  <2>2. QED
    BY <1>1, <2>1, StateIsBytes, ConstantsAreBytes
<1>3. n \in Nat /\ Len(bytes) \in Nat
  BY <1>2 DEF ByteSeqs
<1>4. /\ written_word \in ByteSeqs /\ Len(written_word) = Width
      /\ FromLe(written_word) = header.version
  BY <1>2, NumberComesBack, WordsAreBytes
<1>5. PICK r \in ByteSeqs : File = header.magic \o (written_word \o r)
  BY <1>1, FileHasHeader
<1>6. PICK cut \in ByteSeqs : File = bytes \o cut
  BY DEF BinInv, FileInv
<1> HIDE DEF written_word
<1>7. written_word \o r \in ByteSeqs
  BY <1>4, Joined
<1>8. mine => Len(File) >= n + Width
  <2>1. Len(written_word \o r) = Width + Len(r) /\ Len(r) \in Nat
    BY <1>4, Joined DEF ByteSeqs
  <2>2. Len(header.magic \o (written_word \o r)) =
          Len(header.magic) + Len(written_word \o r)
    BY <1>2, <1>7, Joined
  <2>3. QED
    BY <1>2, <1>3, <1>5, <2>1, <2>2
<1>9. CASE Lacks(rest, n)
  <2>1. Fails("magic eof")
    BY <1>9 DEF ReadFrom
  <2>2. Len(bytes) < n
    BY <1>1, <1>9 DEF Lacks
  <2>3. mine => bytes # File
    BY <1>2, <1>3, <1>8, <2>2
  <2>4. QED
    BY <1>1, <2>1, <2>3, FailsInv
<1>10. CASE ~Lacks(rest, n)
  <2>1. /\ front \in ByteSeqs /\ Len(front) = n
        /\ after \in ByteSeqs /\ Len(after) = Len(bytes) - n
        /\ bytes = front \o after
    <3>1. ~(Len(bytes) < n)
      BY <1>1, <1>10 DEF Lacks
    <3> HIDE DEF n
    <3>2. n <= Len(bytes)
      BY <1>3, <3>1
    <3>3. QED
      BY <1>1, <1>2, <1>3, <3>2, SplitAt
  <2>2. CASE front # magic
    <3>1. Fails("InvalidMagic")
      BY <1>10, <2>2 DEF ReadFrom
    <3>2. ASSUME mine, bytes = File PROVE FALSE
      <4>1. front \o after = magic \o (written_word \o r)
        BY <1>5, <2>1, <3>2
      <4>2. front = magic
        <5> HIDE DEF front, after, magic
        <5>1. QED
          BY <1>2, <1>7, <2>1, <4>1, Fronts DEF n
      <4>3. QED
        BY <2>2, <4>2
    <3>3. QED
      BY <1>1, <3>1, <3>2, FailsInv
  <2>3. CASE front = magic /\ Lacks(after, Width)
    <3>1. Fails("version eof")
      BY <1>10, <2>3 DEF ReadFrom
    <3>2. Len(bytes) - n < Width
      BY <2>1, <2>3 DEF Lacks
    <3>3. mine => bytes # File
      <4> HIDE DEF n, mine
      <4>1. QED
        BY <1>2, <1>3, <1>8, <3>2
    <3>4. QED
      BY <1>1, <3>1, <3>3, FailsInv
  <2>4. CASE front = magic /\ ~Lacks(after, Width)
    <3> DEFINE left == DropFirst(after, Width)
    <3>1. /\ word \in ByteSeqs /\ Len(word) = Width
          /\ left \in ByteSeqs /\ after = word \o left
      <4> HIDE DEF after
      <4>1. Len(after) \in Nat /\ Width <= Len(after)
        BY <1>2, <2>1, <2>4 DEF Lacks, ByteSeqs
      <4>2. QED
        BY <1>2, <2>1, <4>1, SplitAt
    <3>2. v \in Nat /\ ToLe(v) = word
      BY <3>1, BytesAreWords, BytesComeBack
    <3>3. ASSUME mine PROVE v = header.version
      <4>1. (magic \o after) \o cut = magic \o (written_word \o r)
        BY <1>5, <1>6, <2>1, <2>4, <3>3
      <4> HIDE DEF magic, after, word, left
      <4>2. (magic \o after) \o cut = magic \o (after \o cut)
        <5>1. magic \in ByteSeqs /\ after \in ByteSeqs /\ cut \in ByteSeqs
          BY <1>2, <2>1
        <5>2. QED
          BY <5>1, Regrouped
      <4>3. after \o cut \in ByteSeqs
        BY <2>1, Joined
      <4>4. magic \o (after \o cut) = magic \o (written_word \o r)
        BY <4>1, <4>2
      <4>5. after \o cut = written_word \o r
        BY <1>2, <1>7, <4>3, <4>4, Fronts
      <4>6. (word \o left) \o cut = word \o (left \o cut)
        BY <3>1, Regrouped
      <4>7. left \o cut \in ByteSeqs
        BY <3>1, Joined
      <4>8. word \o (left \o cut) = written_word \o r
        BY <3>1, <4>5, <4>6
      <4>9. word = written_word
        BY <1>4, <3>1, <4>7, <4>8, Fronts
      <4>10. QED
        BY <1>4, <4>9
    <3>4. CASE v > expected.max_version
      <4>1. Fails("UnsupportedVersion")
        BY <1>10, <2>4, <3>4 DEF ReadFrom
      <4>2. mine => header.version > expected.max_version
        BY <3>3, <3>4
      <4>3. QED
        BY <1>1, <4>1, <4>2, FailsInv
    <3>5. CASE ~(v > expected.max_version)
      <4>1. /\ pc' = "read" /\ version' = v /\ rest' = left
            /\ header' = header /\ written' = written /\ bytes' = bytes
            /\ expected' = expected /\ got' = got /\ why' = why
        BY <1>10, <2>4, <3>5 DEF ReadFrom, writer
      <4>2. bytes = FileOf(magic, v, <<>>) \o left
        <5>1. FileOf(magic, v, <<>>) = magic \o word
          BY <1>2, <3>2, FileOfNone
        <5>2. (magic \o word) \o left = magic \o (word \o left)
          BY <1>2, <3>1, Regrouped
        <5>3. bytes = magic \o (word \o left)
          BY <2>1, <2>4, <3>1
        <5>4. QED
          BY <5>1, <5>2, <5>3
      <4> HIDE DEF magic, v, left
      <4>3. BinTypes'
        BY <1>1, <3>1, <3>2, <4>1 DEF BinTypes
      <4>4. FileInv'
        BY <1>1, <1>6, <4>1 DEF FileInv, File
      <4>5. ReadInv'
        BY <1>1, <4>1, <4>2 DEF ReadInv, magic
      <4>6. MatchInv'
        <5>1. expected.magic = header.magic => version' = header.version
          BY <3>3, <4>1 DEF magic
        <5>2. expected.magic = header.magic =>
                Len(got) <= Len(written) /\ got = SubSeq(written, 1, Len(got))
          BY <1>1 DEF BinInv, MatchInv
        <5>3. QED
          BY <4>1, <5>1, <5>2 DEF MatchInv
      <4>7. ErrorHasCause'
        BY <4>1 DEF ErrorHasCause
      <4>8. QED
        BY <4>3, <4>4, <4>5, <4>6, <4>7 DEF BinInv
    <3>6. QED
      BY <3>4, <3>5
  <2>5. QED
    BY <2>2, <2>3, <2>4
<1>11. QED
  BY <1>9, <1>10

(* What a reader of the writer's format has left begins with the section   *)
(* that was written next, unless the file is cut inside it.                *)
LEMMA NextSection ==
  ASSUME BinInv, pc = "read", rest # <<>>, expected.magic = header.magic
  PROVE  LET p == written[Len(got) + 1] IN
           /\ Len(got) + 1 \in 1..Len(written)
           /\ got = SubSeq(written, 1, Len(got))
           /\ p \in ByteSeqs /\ Len(p) \in U64
           /\ \E cut, r \in ByteSeqs :
                File = bytes \o cut /\ rest \o cut = ToLe(Len(p)) \o (p \o r)
<1> DEFINE m == header.magic
           v == header.version
           k == Len(got)
           p == written[k + 1]
           front == FileOf(m, v, got)
<1>1. /\ BinTypes /\ rest \in ByteSeqs /\ got \in Seq(ByteSeqs)
      /\ k <= Len(written) /\ got = SubSeq(written, 1, k) /\ version = v
      /\ bytes = front \o rest
  BY DEF BinInv, BinTypes, ReadInv, MatchInv
<1>2. /\ m \in ByteSeqs /\ v \in Nat
      /\ written \in Seq(ByteSeqs) /\ written \in Seq(Payloads)
      /\ k \in Nat /\ Len(written) \in Nat
  BY <1>1, StateIsBytes DEF BinTypes
<1>3. front \in ByteSeqs
  BY <1>1, <1>2, FileOfIsBytes
<1>4. PICK cut \in ByteSeqs : File = bytes \o cut
  BY DEF BinInv, FileInv
<1>5. File = front \o (rest \o cut) /\ rest \o cut \in ByteSeqs
  <2> HIDE DEF front
  <2>1. (front \o rest) \o cut = front \o (rest \o cut)
    BY <1>1, <1>3, Regrouped
  <2>2. rest \o cut \in ByteSeqs
    BY <1>1, Joined
  <2>3. QED
    BY <1>1, <1>4, <2>1, <2>2
<1>6. k # Len(written)
  <2> SUFFICES ASSUME k = Len(written) PROVE FALSE
    OBVIOUS
  <2>1. got = written
    BY <1>1, <1>2, SubSeqFull
  <2>2. File = front
    BY <2>1 DEF File
  <2> HIDE DEF front
  <2>3. rest \o cut = <<>>
    <3> DEFINE tail == rest \o cut
    <3>1. tail \in Seq(Bytes) /\ front \in Seq(Bytes)
      BY <1>3, <1>5 DEF ByteSeqs
    <3>2. front \o tail = front
      BY <1>5, <2>2
    <3> HIDE DEF tail
    <3>3. tail = <<>>
      BY <3>1, <3>2, ConcatEqualIffEmpty
    <3>4. QED
      BY <3>3 DEF tail
  <2>4. rest = <<>>
    BY <1>1, <2>3, ConcatEqualIffEmpty DEF ByteSeqs
  <2>5. QED
    BY <2>4
<1>7. k \in 0..Len(written) - 1 /\ k + 1 \in 1..Len(written)
  BY <1>1, <1>2, <1>6
<1>8. p \in Payloads /\ p \in ByteSeqs /\ Len(p) \in U64
  BY <1>2, <1>7, ConstantsAreBytes
<1>9. PICK r \in ByteSeqs :
        FileOf(m, v, written) =
          FileOf(m, v, SubSeq(written, 1, k)) \o (ToLe(Len(p)) \o (p \o r))
  BY <1>2, <1>7, FileAfterFront
<1>10. rest \o cut = ToLe(Len(p)) \o (p \o r)
  <2>1. front \o (rest \o cut) = front \o (ToLe(Len(p)) \o (p \o r))
    BY <1>1, <1>5, <1>9 DEF File
  <2>2. ToLe(Len(p)) \in ByteSeqs
    BY <1>8, SectionIsBytes, WordsAreBytes
  <2>3. ToLe(Len(p)) \o (p \o r) \in ByteSeqs
    BY <1>8, <2>2, Joined
  <2> DEFINE x == rest \o cut
             y == ToLe(Len(p)) \o (p \o r)
  <2>4. x \in ByteSeqs /\ y \in ByteSeqs /\ front \o x = front \o y
    BY <1>5, <2>1, <2>3
  <2> HIDE DEF front, p, x, y
  <2>5. x = y
    BY <1>3, <2>4, Fronts
  <2>6. QED
    BY <2>5 DEF x, y
<1>11. QED
  BY <1>1, <1>4, <1>7, <1>8, <1>10

LEMMA ReadSectionInv ==
  ASSUME BinInv, ReadSection
  PROVE  BinInv'
<1> DEFINE word == TakeFirst(rest, Width)
           after == DropFirst(rest, Width)
           n == FromLe(word)
           q == TakeFirst(after, n)
           left == DropFirst(after, n)
           mine == expected.magic = header.magic
           k == Len(got)
           p == written[k + 1]
           written_word == ToLe(Len(p))
<1>1. /\ BinTypes /\ pc = "read" /\ rest # <<>> /\ rest \in ByteSeqs
      /\ got \in Seq(ByteSeqs) /\ version \in Nat
      /\ bytes = FileOf(expected.magic, version, got) \o rest
  BY DEF BinInv, BinTypes, ReadInv, ReadSection
<1>2. /\ expected.magic \in ByteSeqs /\ Width \in Nat /\ Len(rest) \in Nat
      /\ written \in Seq(ByteSeqs) /\ Len(written) \in Nat
  BY <1>1, StateIsBytes, ConstantsAreBytes DEF ByteSeqs
<1>3. ASSUME mine
      PROVE  /\ k + 1 \in 1..Len(written) /\ got = SubSeq(written, 1, k)
             /\ p \in ByteSeqs /\ Len(p) \in U64
             /\ \E cut, r \in ByteSeqs :
                  File = bytes \o cut /\ rest \o cut = written_word \o (p \o r)
  BY <1>1, <1>3, NextSection
<1>4. mine => /\ Len(p) \in Nat /\ FromLe(written_word) = Len(p)
              /\ written_word \in ByteSeqs /\ Len(written_word) = Width
  BY <1>3, NumberComesBack, WordsAreBytes
<1> HIDE DEF mine, k, p, written_word
<1>5. ASSUME mine, bytes = File
      PROVE  \E r \in ByteSeqs : rest = written_word \o (p \o r)
  <2>1. PICK cut, r \in ByteSeqs :
          File = bytes \o cut /\ rest \o cut = written_word \o (p \o r)
    BY <1>3, <1>5
  <2>2. cut = <<>>
    <3>1. bytes \in ByteSeqs /\ bytes = bytes \o cut
      BY <1>1, <1>5, <2>1 DEF BinTypes
    <3>2. QED
      BY <3>1, ConcatEqualIffEmpty DEF ByteSeqs
  <2>3. rest \o cut = rest
    BY <1>1, <2>2, ConcatEmptySeq DEF ByteSeqs
  <2>4. QED
    BY <2>1, <2>3
<1>6. CASE Lacks(rest, Width)
  <2>1. Fails("length eof")
    BY <1>6 DEF ReadSection
  <2>2. ASSUME mine, bytes = File PROVE FALSE
    <3>1. PICK r \in ByteSeqs : rest = written_word \o (p \o r)
      BY <1>5, <2>2
    <3>2. p \o r \in ByteSeqs /\ Len(p \o r) \in Nat
      BY <1>3, <2>2, Joined DEF ByteSeqs
    <3>3. Len(rest) = Width + Len(p \o r)
      BY <1>4, <2>2, <3>1, <3>2, Joined
    <3>4. QED
      BY <1>2, <1>6, <3>2, <3>3 DEF Lacks
  <2>3. QED
    BY <1>1, <2>1, <2>2, FailsInv DEF mine
<1>7. CASE ~Lacks(rest, Width)
  <2>1. /\ word \in ByteSeqs /\ Len(word) = Width /\ word \in Words
        /\ after \in ByteSeqs /\ rest = word \o after
    <3>1. Width <= Len(rest)
      BY <1>2, <1>7 DEF Lacks
    <3>2. QED
      BY <1>1, <1>2, <3>1, SplitAt, BytesAreWords
  <2>2. n \in Nat /\ ToLe(n) = word
    BY <2>1, BytesComeBack
  <2> HIDE DEF word, after, n
  <2>3. ASSUME mine
        PROVE  /\ n = Len(p)
               /\ \E cut, r \in ByteSeqs : File = bytes \o cut
                                           /\ after \o cut = p \o r
    <3>1. PICK cut, r \in ByteSeqs :
            File = bytes \o cut /\ rest \o cut = written_word \o (p \o r)
      BY <1>3, <2>3
    <3>2. /\ after \o cut \in ByteSeqs /\ p \o r \in ByteSeqs
          /\ written_word \in ByteSeqs /\ Len(written_word) = Width
      BY <1>3, <1>4, <2>1, <2>3, Joined
    <3>3. (word \o after) \o cut = word \o (after \o cut)
      BY <2>1, Regrouped
    <3>4. word \o (after \o cut) = written_word \o (p \o r)
      BY <2>1, <3>1, <3>3
    <3>5. word = written_word /\ after \o cut = p \o r
      BY <2>1, <3>2, <3>4, Fronts
    <3>6. n = Len(p)
      BY <1>4, <2>3, <3>5 DEF n
    <3>7. QED
      BY <3>1, <3>5, <3>6
  <2>4. CASE n > UsizeMax
    <3>1. Fails("SectionTooLarge")
      BY <1>7, <2>4 DEF ReadSection, n, word
    <3>2. mine => \E j \in DOMAIN written : Len(written[j]) > UsizeMax
      <4> SUFFICES ASSUME mine PROVE \E j \in DOMAIN written : Len(written[j]) > UsizeMax
        OBVIOUS
      <4>1. k + 1 \in DOMAIN written /\ Len(p) > UsizeMax
        BY <1>2, <1>3, <2>3, <2>4
      <4>2. QED
        BY <4>1 DEF p
    <3>3. QED
      BY <1>1, <3>1, <3>2, FailsInv DEF mine
  <2>5. CASE ~(n > UsizeMax) /\ Lacks(after, n)
    <3>1. Fails("payload eof")
      BY <1>7, <2>5 DEF ReadSection, n, word, after
    <3>2. ASSUME mine, bytes = File PROVE FALSE
      <4>1. PICK cut, r \in ByteSeqs : File = bytes \o cut /\ after \o cut = p \o r
        BY <2>3, <3>2
      <4>2. cut = <<>>
        <5>1. bytes \in ByteSeqs /\ bytes = bytes \o cut
          BY <1>1, <3>2, <4>1 DEF BinTypes
        <5>2. QED
          BY <5>1, ConcatEqualIffEmpty DEF ByteSeqs
      <4>3. after = p \o r
        BY <2>1, <4>1, <4>2, ConcatEmptySeq DEF ByteSeqs
      <4>4. p \in ByteSeqs /\ n = Len(p) /\ Len(r) \in Nat /\ Len(p) \in Nat
        BY <1>3, <1>4, <2>3, <3>2 DEF ByteSeqs
      <4>5. Len(after) = n + Len(r)
        BY <4>3, <4>4, Joined
      <4>6. QED
        BY <2>2, <2>5, <4>4, <4>5 DEF Lacks
    <3>3. QED
      BY <1>1, <3>1, <3>2, FailsInv DEF mine
  <2>6. CASE ~(n > UsizeMax) /\ ~Lacks(after, n)
    <3>1. /\ q \in ByteSeqs /\ Len(q) = n
          /\ left \in ByteSeqs /\ after = q \o left
      <4>1. n <= Len(after)
        <5>1. Len(after) \in Nat
          BY <2>1 DEF ByteSeqs
        <5>2. QED
          BY <2>2, <2>6, <5>1 DEF Lacks
      <4>2. QED
        BY <2>1, <2>2, <4>1, SplitAt
    <3>2. /\ pc' = pc /\ version' = version /\ rest' = left
          /\ got' = Append(got, q)
          /\ header' = header /\ written' = written /\ bytes' = bytes
          /\ expected' = expected /\ why' = why
      BY <1>7, <2>6 DEF ReadSection, writer, n, word, after
    <3> HIDE DEF q, left
    <3>3. BinTypes'
      <4>1. Append(got, q) \in Seq(ByteSeqs)
        BY <1>1, <3>1
      <4>2. QED
        BY <1>1, <3>1, <3>2, <4>1 DEF BinTypes
    <3>4. FileInv'
      BY <1>1, <3>2 DEF BinInv, FileInv, File
    <3>5. ReadInv'
      <4> DEFINE front == FileOf(expected.magic, version, got)
      <4>1. FileOf(expected.magic, version, Append(got, q)) = front \o WriteSection(q)
        BY <1>1, <1>2, <3>1, FileOfAppend
      <4>2. front \in ByteSeqs
        BY <1>1, <1>2, FileOfIsBytes
      <4>3. WriteSection(q) = word \o q /\ WriteSection(q) \in ByteSeqs
        BY <2>2, <3>1, SectionIsBytes
      <4> HIDE DEF front
      <4>4. (front \o WriteSection(q)) \o left = front \o (WriteSection(q) \o left)
        BY <3>1, <4>2, <4>3, Regrouped
      <4>5. (word \o q) \o left = word \o (q \o left)
        BY <2>1, <3>1, Regrouped
      <4>6. bytes = FileOf(expected.magic, version, Append(got, q)) \o left
        BY <1>1, <2>1, <3>1, <4>1, <4>3, <4>4, <4>5 DEF front
      <4>7. QED
        BY <1>1, <3>2, <4>6 DEF ReadInv
    <3>6. MatchInv'
      <4> SUFFICES ASSUME mine
                   PROVE  /\ Len(got') <= Len(written)
                          /\ got' = SubSeq(written, 1, Len(got'))
                          /\ version = header.version
        BY <3>2 DEF MatchInv, mine
      <4>1. PICK cut, r \in ByteSeqs : File = bytes \o cut /\ after \o cut = p \o r
        BY <2>3
      <4>2. p \in ByteSeqs /\ n = Len(p) /\ k + 1 \in 1..Len(written)
            /\ got = SubSeq(written, 1, k) /\ k \in Nat
        BY <1>1, <1>3, <2>3 DEF k
      <4>3. q = p
        <5>1. (q \o left) \o cut = q \o (left \o cut)
          BY <3>1, Regrouped
        <5>2. left \o cut \in ByteSeqs
          BY <3>1, Joined
        <5>3. q \o (left \o cut) = p \o r
          BY <3>1, <4>1, <5>1
        <5>4. QED
          BY <3>1, <4>2, <5>2, <5>3, Fronts
      <4>4. Len(got') = k + 1
        BY <1>1, <3>1, <3>2 DEF k
      <4>5. SubSeq(written, 1, k + 1) = Append(SubSeq(written, 1, k), p)
        <5>1. 1 \in 1..Len(written) /\ (k + 1) - 1 = k
          BY <1>2, <4>2
        <5>2. SubSeq(written, 1, k + 1) =
                SubSeq(written, 1, (k + 1) - 1) \o <<written[k + 1]>>
          BY <1>2, <4>2, <5>1, SubSeqRecursiveSecond
        <5>3. Append(got, p) = got \o <<p>>
          BY <1>1, <4>2, AppendIsConcat
        <5>4. QED
          BY <4>2, <5>1, <5>2, <5>3 DEF p
      <4>6. version = header.version
        BY <1>1 DEF BinInv, MatchInv, mine
      <4>7. QED
        BY <1>2, <3>2, <4>2, <4>3, <4>4, <4>5, <4>6
    <3>7. ErrorHasCause'
      BY <1>1, <3>2 DEF ErrorHasCause
    <3>8. QED
      BY <3>3, <3>4, <3>5, <3>6, <3>7 DEF BinInv
  <2>7. QED
    BY <2>4, <2>5, <2>6
<1>8. QED
  BY <1>6, <1>7

LEMMA BinNextInv ==
  ASSUME BinInv, [Next]_vars
  PROVE  BinInv'
<1>1. CASE UNCHANGED vars
  BY <1>1 DEF vars, BinInv, BinTypes, FileInv, File, ReadInv, MatchInv, ErrorHasCause
<1>2. CASE Finish
  BY <1>2 DEF Finish, writer, reader, BinInv, BinTypes, FileInv, File, ReadInv,
              MatchInv, ErrorHasCause
<1>3. QED
  BY <1>1, <1>2, AppendSectionInv, CloseInv, ReadFromInv, ReadSectionInv
     DEF Next, Stopped

LEMMA BinInvInvariant == Spec => []BinInv
<1>1. QED
  BY BinInitInv, BinNextInv, PTL DEF Spec

(* A reader that expects the magic that was written gets the version and   *)
(* the payloads that were written, wherever the file was cut, for any      *)
(* width of a u64 and any payloads, those that look like sections too.     *)
THEOREM WhatIsReadWasWritten == Spec => []ReadsWhatWasWritten
<1>1. BinInv => ReadsWhatWasWritten
  <2> SUFFICES ASSUME BinInv, pc # "write", expected.magic = header.magic
               PROVE  /\ IsPrefix(got, written)
                      /\ got # <<>> \/ pc = "done" => version = header.version
    BY DEF ReadsWhatWasWritten
  <2>1. /\ Len(got) <= Len(written) /\ got = SubSeq(written, 1, Len(got))
        /\ got \in Seq(ByteSeqs)
        /\ pc \in {"read", "done"} \/ got # <<>> => version = header.version
    BY DEF BinInv, BinTypes, MatchInv
  <2>2. SubSeq(got, 1, Len(got)) = got
    BY <2>1, SubSeqFull DEF BinInv, BinTypes
  <2>3. QED
    BY <2>1, <2>2 DEF IsPrefix
<1>2. QED
  BY <1>1, BinInvInvariant, PTL

(* A reader that comes to the end without an error has consumed every byte *)
(* of the file: what it has read, written again, is that very file.        *)
THEOREM EveryByteIsAccountedFor == Spec => []EverythingIsAccountedFor
<1>1. BinInv => EverythingIsAccountedFor
  <2> SUFFICES ASSUME BinInv, pc = "done"
               PROVE  bytes = FileOf(expected.magic, version, got)
    BY DEF EverythingIsAccountedFor
  <2> DEFINE whole == FileOf(expected.magic, version, got)
  <2>1. bytes = whole \o <<>>
    BY DEF BinInv, ReadInv
  <2>2. whole \in ByteSeqs
    BY StateIsBytes, FileOfIsBytes DEF BinInv, BinTypes
  <2> HIDE DEF whole
  <2>3. QED
    BY <2>1, <2>2, ConcatEmptySeq DEF ByteSeqs, whole
<1>2. QED
  BY <1>1, BinInvInvariant, PTL

(* A file that is whole is refused for its version or for a section that   *)
(* the reader cannot hold and for nothing else.                            *)
THEOREM ReaderErrorsHaveCauses == Spec => []ErrorHasCause
<1>1. BinInv => ErrorHasCause
  BY DEF BinInv
<1>2. QED
  BY <1>1, BinInvInvariant, PTL
=============================================================================
