--------------------------- MODULE Viewer_proofs ----------------------------
(***************************************************************************)
(* Proofs about the viewer's typesetter: for every set of texts, every     *)
(* width and every bound on rows and layouts, what is on the page is the   *)
(* ledger, the open segment's last text is shown as it was said, and a row *)
(* that was painted is never set again while the layout stands.            *)
(***************************************************************************)
EXTENDS Viewer, TLAPS, WellFoundedInduction, SequenceTheorems

-----------------------------------------------------------------------------
(* Induction over lengths is on the least counterexample: a set of natural *)
(* numbers that is not empty has one.                                      *)

LEMMA Smallest ==
  ASSUME NEW S \in SUBSET Nat, S # {}
  PROVE  \E m \in S : \A j \in S : ~(j < m)
<1>1. PICK m \in S : \A j \in S : ~ (<<j, m>> \in OpToRel(<, Nat))
  BY NatLessThanWellFounded, WFMin
<1>2. \A j \in S : <<j, m>> \in OpToRel(<, Nat) <=> j < m
  BY DEF OpToRel
<1> QED BY <1>1, <1>2, Zenon

\* f is what FlattenSeq computes for the first n sequences of ss.
IsFlat(f, ss, n) ==
  f = [i \in 1..n |-> IF i = 1 THEN ss[i] ELSE f[i-1] \o ss[i]]

Agree(ss, tt, n) == \A i \in 1..n : ss[i] = tt[i]

LEMMA FlatExists ==
  ASSUME NEW ss, NEW n \in Nat
  PROVE  \E f : IsFlat(f, ss, n)
<1> DEFINE T == {k \in Nat : ~ \E f : IsFlat(f, ss, k)}
<1> SUFFICES ASSUME T # {} PROVE FALSE
  OBVIOUS
<1>1. PICK m \in T : \A j \in T : ~(j < m)
  BY Smallest
<1>2. m # 0
  <2> DEFINE f0 == [i \in 1..0 |-> ss[i]]
  <2>1. IsFlat(f0, ss, 0)
    BY DEF IsFlat
  <2> QED
    BY <2>1
<1>3. m \in Nat /\ m - 1 \in Nat /\ m - 1 \notin T
  BY <1>1, <1>2
<1>4. PICK g : IsFlat(g, ss, m - 1)
  BY <1>3
<1> DEFINE h == [i \in 1..m |-> IF i = m THEN IF m = 1 THEN ss[m] ELSE g[m - 1] \o ss[m]
                                ELSE g[i]]
<1>5. \A i \in 1..m : h[i] = IF i = 1 THEN ss[i] ELSE h[i-1] \o ss[i]
  <2> SUFFICES ASSUME NEW i \in 1..m PROVE h[i] = IF i = 1 THEN ss[i] ELSE h[i-1] \o ss[i]
    OBVIOUS
  <2>1. CASE i = m
    BY <2>1, <1>3
  <2>2. CASE i # m
    <3>1. i \in 1..m - 1 /\ (i # 1 => i - 1 \in 1..m - 1)
      BY <2>2, <1>3
    <3>2. g[i] = IF i = 1 THEN ss[i] ELSE g[i-1] \o ss[i]
      BY <1>4, <3>1 DEF IsFlat
    <3>3. h[i] = g[i] /\ (i # 1 => i - 1 \in 1..m /\ h[i - 1] = g[i - 1])
      BY <3>1, <1>3
    <3> QED
      BY <3>2, <3>3
  <2> QED
    BY <2>1, <2>2
<1>6. IsFlat(h, ss, m)
  BY <1>5 DEF IsFlat
<1> QED
  BY <1>6

LEMMA FlattenSeqIs ==
  ASSUME NEW S, NEW ss \in Seq(S), ss # <<>>
  PROVE  \E f : IsFlat(f, ss, Len(ss)) /\ FlattenSeq(ss) = f[Len(ss)]
<1>1. Len(ss) \in Nat /\ Len(ss) # 0
  OBVIOUS
<1> DEFINE F == CHOOSE f : f = [i \in 1..Len(ss) |-> IF i = 1 THEN ss[i] ELSE f[i-1] \o ss[i]]
<1>2. F = [i \in 1..Len(ss) |-> IF i = 1 THEN ss[i] ELSE F[i-1] \o ss[i]]
  <2>1. \E f : f = [i \in 1..Len(ss) |-> IF i = 1 THEN ss[i] ELSE f[i-1] \o ss[i]]
    BY <1>1, FlatExists DEF IsFlat
  <2> QED
    BY <2>1, Zenon
<1>3. FlattenSeq(ss) = F[Len(ss)]
  BY <1>1, Zenon DEF FlattenSeq
<1> QED
  BY <1>2, <1>3 DEF IsFlat

LEMMA FlatUnique ==
  ASSUME NEW f, NEW g, NEW ss, NEW tt, NEW n \in Nat, NEW m \in Nat,
         IsFlat(f, ss, n), IsFlat(g, tt, m), n <= m,
         Agree(ss, tt, n)
  PROVE  Agree(f, g, n)
<1> USE DEF Agree
<1> DEFINE T == {k \in 1..n : f[k] # g[k]}
<1> SUFFICES ASSUME T # {} PROVE FALSE
  OBVIOUS
<1>0. T \in SUBSET Nat
  OBVIOUS
<1>1. PICK k \in T : \A j \in T : ~(j < k)
  <2> HIDE DEF T
  <2> QED
    BY <1>0, Smallest
<1>2. k \in 1..n /\ k \in 1..m /\ f[k] # g[k]
  BY <1>1
<1>3. /\ f[k] = IF k = 1 THEN ss[k] ELSE f[k-1] \o ss[k]
      /\ g[k] = IF k = 1 THEN tt[k] ELSE g[k-1] \o tt[k]
  BY <1>2 DEF IsFlat
<1>4. ss[k] = tt[k] /\ (k # 1 => k - 1 \in 1..n)
  BY <1>2
<1>5. k # 1 => f[k - 1] = g[k - 1]
  BY <1>1, <1>4
<1> QED
  BY <1>2, <1>3, <1>4, <1>5

\* Appending to what is flattened appends to the result.
LEMMA FlattenAppend ==
  ASSUME NEW S, NEW ss \in Seq(Seq(S)), NEW e \in Seq(S)
  PROVE  FlattenSeq(Append(ss, e)) = FlattenSeq(ss) \o e
<1> DEFINE tt == Append(ss, e)
           n  == Len(ss)
<1>1. /\ tt \in Seq(Seq(S)) /\ tt # <<>> /\ n \in Nat
      /\ Len(tt) = n + 1 /\ tt[n + 1] = e
      /\ \A i \in 1..n : ss[i] = tt[i]
  BY AppendProperties
<1>2. PICK g : IsFlat(g, tt, n + 1) /\ FlattenSeq(tt) = g[n + 1]
  <2> HIDE DEF tt, n
  <2> QED
    BY <1>1, FlattenSeqIs
<1>3. g[n + 1] = IF n + 1 = 1 THEN e ELSE g[n] \o e
  <2>1. n + 1 \in 1..n + 1 /\ (n + 1) - 1 = n
    BY <1>1
  <2> QED
    BY <1>1, <1>2, <2>1 DEF IsFlat
<1>4. CASE ss = <<>>
  <2>1. FlattenSeq(ss) = <<>> /\ n = 0
    BY <1>4 DEF FlattenSeq
  <2> QED
    BY <1>2, <1>3, <2>1
<1>5. CASE ss # <<>>
  <2>1. PICK f : IsFlat(f, ss, n) /\ FlattenSeq(ss) = f[n]
    BY <1>5, FlattenSeqIs
  <2>2. n \in 1..n
    BY <1>1, <1>5
  <2> HIDE DEF tt, n
  <2>3. n + 1 \in Nat /\ n <= n + 1
    BY <1>1
  <2>5. Agree(f, g, n)
    <3>1. n \in Nat /\ Agree(ss, tt, n)
      BY <1>1 DEF Agree
    <3>2. IsFlat(f, ss, n) /\ IsFlat(g, tt, n + 1)
      BY <1>2, <2>1
    <3> QED
      BY <2>3, <3>1, <3>2, FlatUnique, Zenon
  <2>6. f[n] = g[n]
    BY <2>2, <2>5 DEF Agree
  <2>4. n + 1 # 1
    BY <2>2
  <2> QED
    BY <1>2, <1>3, <2>1, <2>4, <2>6 DEF tt
<1> QED
  BY <1>4, <1>5

LEMMA FlattenType ==
  ASSUME NEW S, NEW ss \in Seq(Seq(S))
  PROVE  FlattenSeq(ss) \in Seq(S)
<1>1. CASE ss = <<>>
  BY <1>1 DEF FlattenSeq
<1>2. CASE ss # <<>>
  <2>1. PICK f : IsFlat(f, ss, Len(ss)) /\ FlattenSeq(ss) = f[Len(ss)]
    BY <1>2, FlattenSeqIs
  <2> DEFINE T == {k \in 1..Len(ss) : f[k] \notin Seq(S)}
  <2>2. T = {}
    <3> SUFFICES ASSUME T # {} PROVE FALSE
      OBVIOUS
    <3>0. T \in SUBSET Nat
      OBVIOUS
    <3>1. PICK k \in T : \A j \in T : ~(j < k)
      <4> HIDE DEF T
      <4> QED
        BY <3>0, Smallest
    <3>2. k \in 1..Len(ss) /\ f[k] \notin Seq(S)
      BY <3>1
    <3>3. f[k] = IF k = 1 THEN ss[k] ELSE f[k-1] \o ss[k]
      BY <2>1, <3>2 DEF IsFlat
    <3>4. ss[k] \in Seq(S) /\ (k # 1 => k - 1 \in 1..Len(ss))
      BY <3>2
    <3>5. k # 1 => f[k - 1] \in Seq(S)
      BY <3>1, <3>4
    <3> QED
      BY <3>2, <3>3, <3>4, <3>5
  <2>3. Len(ss) \in 1..Len(ss)
    BY <1>2
  <2> QED
    BY <2>1, <2>2, <2>3
<1> QED
  BY <1>1, <1>2

LEMMA Upto ==
  ASSUME NEW n \in Nat, NEW S, 0 \in S, \A k \in 1..n : k - 1 \in S => k \in S
  PROVE  \A k \in 0..n : k \in S
<1> DEFINE T == {k \in 0..n : k \notin S}
<1> SUFFICES ASSUME T # {} PROVE FALSE
  OBVIOUS
<1>0. T \in SUBSET Nat
  OBVIOUS
<1>1. PICK k \in T : \A j \in T : ~(j < k)
  <2> HIDE DEF T
  <2> QED
    BY <1>0, Smallest
<1>2. k \in 1..n /\ k \notin S /\ k - 1 \in 0..n /\ k - 1 < k
  BY <1>1
<1>3. k - 1 \in S
  BY <1>1, <1>2
<1> QED
  BY <1>2, <1>3

LEMMA AppendJoin ==
  ASSUME NEW Q, NEW a \in Seq(Q), NEW r \in Seq(Q), NEW w \in Q
  PROVE  a \o Append(r, w) = Append(a \o r, w) /\ a \o r \in Seq(Q)
<1>1. a \o r \in Seq(Q)
  BY ConcatProperties
<1>2. Append(r, w) = r \o <<w>> /\ Append(a \o r, w) = (a \o r) \o <<w>>
  BY <1>1, AppendIsConcat
<1>3. <<w>> \in Seq(Q)
  OBVIOUS
<1>4. a \o (r \o <<w>>) = (a \o r) \o <<w>>
  BY <1>3, ConcatAssociative, SMTT(30)
<1> QED
  BY <1>1, <1>2, <1>4, Zenon

LEMMA FlattenJoin ==
  ASSUME NEW S, NEW a \in Seq(Seq(S)), NEW b \in Seq(Seq(S))
  PROVE  FlattenSeq(a \o b) = FlattenSeq(a) \o FlattenSeq(b)
<1> DEFINE part(k) == SubSeq(b, 1, k)
           T == {k \in 0..Len(b) : FlattenSeq(a \o part(k)) = FlattenSeq(a) \o FlattenSeq(part(k))}
<1>0. Len(b) \in Nat /\ FlattenSeq(a) \in Seq(S)
  BY FlattenType
<1>1. 0 \in T
  <2>1. part(0) = <<>> /\ FlattenSeq(<<>>) = <<>>
    BY DEF FlattenSeq
  <2>2. a \o <<>> = a /\ FlattenSeq(a) \o <<>> = FlattenSeq(a)
    BY <1>0, ConcatEmptySeq
  <2>3. FlattenSeq(a \o part(0)) = FlattenSeq(a) \o FlattenSeq(part(0))
    BY <2>1, <2>2, Zenon
  <2>4. 0 \in 0..Len(b)
    BY <1>0
  <2> QED
    BY <2>3, <2>4
<1>2. ASSUME NEW k \in 1..Len(b), k - 1 \in T PROVE k \in T
  <2> DEFINE r == part(k - 1)
             w == b[k]
  <2>1. /\ r \in Seq(Seq(S)) /\ w \in Seq(S) /\ k \in 1..Len(b)
    BY <1>0
  <2>2. part(k) = Append(r, w)
    BY <1>0
  <2>3. FlattenSeq(a \o r) = FlattenSeq(a) \o FlattenSeq(r)
    BY <1>2
  <2> HIDE DEF part, r, w, T
  <2>4. a \o Append(r, w) = Append(a \o r, w) /\ a \o r \in Seq(Seq(S))
    <3> DEFINE Q == Seq(S)
    <3>1. a \in Seq(Q) /\ r \in Seq(Q) /\ w \in Q
      BY <2>1
    <3> HIDE DEF Q
    <3>2. a \o Append(r, w) = Append(a \o r, w) /\ a \o r \in Seq(Q)
      BY <3>1, AppendJoin, Zenon
    <3> QED
      BY <3>2 DEF Q
  <2>5. FlattenSeq(r) \in Seq(S) /\ FlattenSeq(a) \in Seq(S)
    BY <1>0, <2>1, FlattenType
  <2>6. FlattenSeq(Append(a \o r, w)) = FlattenSeq(a \o r) \o w
    BY <2>1, <2>4, FlattenAppend
  <2>7. FlattenSeq(Append(r, w)) = FlattenSeq(r) \o w
    BY <2>1, FlattenAppend
  <2>8. (FlattenSeq(a) \o FlattenSeq(r)) \o w = FlattenSeq(a) \o (FlattenSeq(r) \o w)
    <3> DEFINE A == FlattenSeq(a)
               R == FlattenSeq(r)
    <3>1. A \in Seq(S) /\ R \in Seq(S) /\ w \in Seq(S)
      BY <2>1, <2>5
    <3> HIDE DEF A, R
    <3>2. (A \o R) \o w = A \o (R \o w)
      BY <3>1, ConcatAssociative, SMTT(30)
    <3> QED
      BY <3>2 DEF A, R
  <2>9. FlattenSeq(a \o part(k)) = FlattenSeq(a) \o FlattenSeq(part(k))
    BY <2>2, <2>3, <2>4, <2>6, <2>7, <2>8, Zenon
  <2> QED
    BY <1>2, <2>9 DEF T
<1>3. Len(b) \in T
  <2>1. \A k \in 1..Len(b) : k - 1 \in T => k \in T
    BY <1>2
  <2> HIDE DEF T
  <2>2. \A k \in 0..Len(b) : k \in T
    BY <1>0, <1>1, <2>1, Upto, Zenon
  <2> QED
    BY <1>0, <2>2
<1>4. part(Len(b)) = b
  BY SubSeqFull
<1> QED
  BY <1>3, <1>4

-----------------------------------------------------------------------------
(* Maxima, and the common beginning of two sequences.                      *)

LEMMA MaxIs ==
  ASSUME NEW n \in Nat, NEW S \in SUBSET (0..n), S # {}
  PROVE  Max(S) \in S /\ \A y \in S : y <= Max(S)
<1> DEFINE T == {k \in 0..n : n - k \in S}
<1>0. T \in SUBSET Nat /\ T # {}
  <2>1. PICK x : x \in S
    OBVIOUS
  <2>2. x \in 0..n
    BY <2>1
  <2>3. n - x \in 0..n /\ n - (n - x) = x
    BY <2>2
  <2>4. n - x \in T
    BY <2>1, <2>3
  <2> QED
    BY <2>4
<1>1. PICK k \in T : \A j \in T : ~(j < k)
  <2> HIDE DEF T
  <2> QED
    BY <1>0, Smallest
<1>2. k \in 0..n /\ n - k \in S
  BY <1>1
<1>3. ASSUME NEW y \in S PROVE n - k >= y
  <2>1. y \in 0..n
    OBVIOUS
  <2>2. n - y \in 0..n /\ n - (n - y) = y
    BY <2>1
  <2>3. n - y \in T
    BY <2>2
  <2> QED
    BY <1>1, <1>2, <2>1, <2>3
<1>4. \E x \in S : \A y \in S : x >= y
  BY <1>2, <1>3
<1>5. Max(S) \in S /\ \A y \in S : Max(S) >= y
  BY <1>4, Zenon DEF Max
<1>6. \A y \in S : y \in Int
  OBVIOUS
<1> QED
  BY <1>5, <1>6

LEMMA MaxTwo ==
  ASSUME NEW a \in Int, NEW b \in Int
  PROVE  Max({a, b}) = IF a >= b THEN a ELSE b
<1>1. \E x \in {a, b} : \A y \in {a, b} : x >= y
  OBVIOUS
<1>2. Max({a, b}) \in {a, b} /\ \A y \in {a, b} : Max({a, b}) >= y
  BY <1>1, Zenon DEF Max
<1> QED
  BY <1>2

LEMMA MaxUpto ==
  ASSUME NEW n \in Nat \ {0}
  PROVE  Max(1..n) = n
<1>1. 1..n \in SUBSET (0..n) /\ 1..n # {}
  OBVIOUS
<1>2. Max(1..n) \in 1..n /\ \A y \in 1..n : y <= Max(1..n)
  BY <1>1, MaxIs
<1> QED
  BY <1>2

\* c is the length of the longest common prefix of a and b.
IsCommon(c, a, b) ==
  /\ c \in Nat /\ c <= Len(a) /\ c <= Len(b)
  /\ \A i \in 1..c : a[i] = b[i]
  /\ c < Len(a) /\ c < Len(b) => a[c + 1] # b[c + 1]

LEMMA CommonPrefixIs ==
  ASSUME NEW S, NEW a \in Seq(S), NEW b \in Seq(S)
  PROVE  IsCommon(Len(LongestCommonPrefix({a, b})), a, b)
<1> DEFINE C == {p \in {SubSeq(a, 1, l) : l \in 0..Len(a)} \cup {SubSeq(b, 1, l) : l \in 0..Len(b)} :
                   IsPrefix(p, a) /\ IsPrefix(p, b)}
           M == {l \in 0..Len(a) : l <= Len(b) /\ \A i \in 1..l : a[i] = b[i]}
           L == LongestCommonPrefix({a, b})
<1>0. Len(a) \in Nat /\ Len(b) \in Nat
  OBVIOUS
<1>1. L = CHOOSE p \in C : \A q \in C : Len(q) <= Len(p)
  <2>1. UNION {Prefixes(s) : s \in {a, b}} = Prefixes(a) \cup Prefixes(b)
    BY Zenon
  <2>2. CommonPrefixes({a, b}) = C
    BY <2>1, Zenon DEF CommonPrefixes, Prefixes
  <2> HIDE DEF C
  <2> QED
    BY <2>2, Zenon DEF LongestCommonPrefix
<1>2. ASSUME NEW p \in C
      PROVE  p \in Seq(S) /\ Len(p) \in M /\ p = SubSeq(a, 1, Len(p))
  <2>1. p \in Seq(S)
    BY SubSeqProperties
  <2>2. Len(p) \in Nat /\ Len(p) <= Len(a) /\ Len(p) <= Len(b)
    BY <2>1 DEF IsPrefix
  <2>3. SubSeq(p, 1, Len(p)) = SubSeq(a, 1, Len(p)) /\ SubSeq(p, 1, Len(p)) = SubSeq(b, 1, Len(p))
    BY DEF IsPrefix
  <2>4. SubSeq(p, 1, Len(p)) = p
    BY <2>1, SubSeqFull
  <2> HIDE DEF C
  <2>5. ASSUME NEW i \in 1..Len(p) PROVE a[i] = b[i]
    <3> DEFINE n == Len(p)
    <3>1. SubSeq(a, 1, n)[i] = a[i] /\ SubSeq(b, 1, n)[i] = b[i]
      BY <2>2
    <3> QED
      BY <2>3, <3>1
  <2> QED
    BY <2>1, <2>2, <2>3, <2>4, <2>5
<1>3. ASSUME NEW l \in M PROVE SubSeq(a, 1, l) \in C /\ Len(SubSeq(a, 1, l)) = l
  <2> DEFINE u == SubSeq(a, 1, l)
  <2>1. l \in 0..Len(a) /\ l \in 0..Len(b) /\ \A i \in 1..l : a[i] = b[i]
    BY <1>0
  <2>2. u \in Seq(S) /\ Len(u) = l
    BY <2>1
  <2>3. SubSeq(b, 1, l) \in Seq(S) /\ Len(SubSeq(b, 1, l)) = l
    BY <2>1
  <2>4. u = SubSeq(b, 1, l)
    BY <2>1, <2>2, <2>3, SeqEqual
  <2>5. SubSeq(u, 1, l) = u
    BY <2>2, SubSeqFull
  <2> HIDE DEF u
  <2>6. IsPrefix(u, a) /\ IsPrefix(u, b)
    BY <2>1, <2>2, <2>4, <2>5 DEF IsPrefix, u
  <2> QED
    BY <2>1, <2>2, <2>6 DEF u
<1>4. M \in SUBSET (0..Len(a)) /\ M # {}
  <2>1. 0 \in M
    BY <1>0
  <2> QED
    BY <2>1
<1>5. PICK m \in M : \A l \in M : l <= m
  <2> HIDE DEF M
  <2> QED
    BY <1>0, <1>4, MaxIs
<1>6. L \in C /\ \A q \in C : Len(q) <= Len(L)
  <2>1. SubSeq(a, 1, m) \in C /\ \A q \in C : Len(q) <= Len(SubSeq(a, 1, m))
    BY <1>2, <1>3, <1>5
  <2> HIDE DEF C, L
  <2> QED
    BY <1>1, <2>1, Zenon
<1>7. Len(L) \in M /\ \A l \in M : l <= Len(L)
  <2> HIDE DEF C, L, M
  <2> QED
    BY <1>2, <1>3, <1>6
<1> HIDE DEF L
<1>8. Len(L) < Len(a) /\ Len(L) < Len(b) => a[Len(L) + 1] # b[Len(L) + 1]
  <2> SUFFICES ASSUME Len(L) < Len(a), Len(L) < Len(b), a[Len(L) + 1] = b[Len(L) + 1] PROVE FALSE
    OBVIOUS
  <2>1. Len(L) + 1 \in M
    BY <1>0, <1>7
  <2>2. Len(L) + 1 <= Len(L) /\ Len(L) \in Nat
    BY <1>7, <2>1
  <2> QED
    BY <2>2
<1>9. Len(L) \in Nat /\ Len(L) <= Len(a) /\ Len(L) <= Len(b) /\ \A i \in 1..Len(L) : a[i] = b[i]
  BY <1>7
<1> QED
  BY <1>8, <1>9 DEF IsCommon, L

-----------------------------------------------------------------------------
(* The folds.  FoldLeft computes from a function on the sets of places; on *)
(* the sets 1..k that function is a run of states, one for each element.   *)

\* One element of a fold: a word pushed, a chunk placed, an entry laid out.
Fold1(op, arg, q, x) ==
  IF op = "push" THEN PushWord(q, x, arg)
  ELSE IF op = "chunk" THEN Place(Freeze(q, arg), x)
  ELSE RowsWith(q, x, arg)

OnSets(f, op, arg, b, s, n) ==
  f = [T \in SUBSET (1..n) |->
         IF T = {} THEN b ELSE Fold1(op, arg, f[T \ {Max(T)}], s[Max(T)])]

\* h[k] is the state after the first k elements of s.
IsRun(h, op, arg, b, s, n) ==
  h[0] = b /\ \A k \in 1..n : h[k] = Fold1(op, arg, h[k - 1], s[k])

LEMMA OnSetsExists ==
  ASSUME NEW op, NEW arg, NEW b, NEW s, NEW n \in Nat
  PROVE  \E f : OnSets(f, op, arg, b, s, n)
<1> DEFINE S == {k \in 0..n : \E f : OnSets(f, op, arg, b, s, k)}
<1>1. 0 \in S
  <2> DEFINE f0 == [T \in SUBSET (1..0) |-> b]
  <2>1. \A T \in SUBSET (1..0) : T = {}
    OBVIOUS
  <2>2. f0 = [T \in SUBSET (1..0) |->
                IF T = {} THEN b ELSE Fold1(op, arg, f0[T \ {Max(T)}], s[Max(T)])]
    BY <2>1, Zenon
  <2>3. OnSets(f0, op, arg, b, s, 0)
    BY <2>2, Zenon DEF OnSets
  <2> QED
    BY <2>3
<1>2. ASSUME NEW k \in 1..n, k - 1 \in S PROVE k \in S
  <2>1. PICK f : OnSets(f, op, arg, b, s, k - 1)
    BY <1>2
  <2> DEFINE below == SUBSET (1..(k - 1))
             value(T, g) == IF T = {} THEN b ELSE Fold1(op, arg, g[T \ {Max(T)}], s[Max(T)])
             g == [T \in SUBSET (1..k) |->
                     IF T \in below THEN f[T] ELSE Fold1(op, arg, f[T \ {k}], s[k])]
  <2>2. \A T \in below : f[T] = value(T, f)
    BY <2>1, Zenon DEF OnSets
  <2>3. ASSUME NEW T \in SUBSET (1..k), T \notin below PROVE T # {} /\ Max(T) = k /\ T \ {k} \in below
    <3>1. k \in T /\ T # {} /\ T \in SUBSET (0..k)
      BY <2>3
    <3>2. Max(T) \in T /\ \A y \in T : y <= Max(T)
      BY <3>1, MaxIs
    <3>3. \A y \in T : y \in 1..k
      OBVIOUS
    <3>6. k <= Max(T) /\ Max(T) \in 1..k
      BY <3>1, <3>2, <3>3, Zenon
    <3>4. Max(T) = k
      <4> HIDE DEF g, below
      <4> QED
        BY <3>6
    <3>5. \A y \in T \ {k} : y \in 1..(k - 1)
      BY <3>3
    <3> QED
      BY <3>1, <3>4, <3>5
  <2>4. ASSUME NEW T \in below PROVE T \ {Max(T)} \in below
    OBVIOUS
  <2>5. ASSUME NEW T \in below PROVE T \in SUBSET (1..k)
    BY <2>5
  <2> HIDE DEF below
  <2>6. ASSUME NEW T \in SUBSET (1..k) PROVE g[T] = value(T, g)
    <3>1. CASE T \in below
      <4>1. g[T] = f[T] /\ g[T \ {Max(T)}] = f[T \ {Max(T)}]
        BY <2>4, <2>5, <3>1
      <4> HIDE DEF g
      <4> QED
        BY <2>2, <3>1, <4>1, Zenon
    <3>2. CASE T \notin below
      <4>1. g[T] = Fold1(op, arg, f[T \ {k}], s[k]) /\ g[T \ {k}] = f[T \ {k}]
        BY <2>3, <2>5, <3>2
      <4> HIDE DEF g
      <4> QED
        BY <2>3, <3>2, <4>1, Zenon
    <3> QED
      BY <3>1, <3>2
  <2>7. g = [T \in SUBSET (1..k) |-> value(T, g)]
    <3>1. g = [T \in SUBSET (1..k) |-> g[T]]
      BY Zenon
    <3> HIDE DEF g, value
    <3> QED
      BY <2>6, <3>1, Zenon
  <2>8. OnSets(g, op, arg, b, s, k)
    BY <2>7, Zenon DEF OnSets
  <2> QED
    BY <2>8
<1>3. \A k \in 1..n : k - 1 \in S => k \in S
  BY <1>2
<1>4. n \in S
  <2> HIDE DEF S
  <2>1. \A k \in 0..n : k \in S
    BY <1>1, <1>3, Upto, Zenon
  <2> QED
    BY <2>1
<1> QED
  BY <1>4

LEMMA RunOf ==
  ASSUME NEW f, NEW op, NEW arg, NEW b, NEW s, NEW n \in Nat, OnSets(f, op, arg, b, s, n)
  PROVE  IsRun([k \in 0..n |-> f[1..k]], op, arg, b, s, n)
<1> DEFINE h == [k \in 0..n |-> f[1..k]]
<1>0. \A T \in SUBSET (1..n) : f[T] = IF T = {} THEN b ELSE Fold1(op, arg, f[T \ {Max(T)}], s[Max(T)])
  BY Zenon DEF OnSets
<1>1. h[0] = b
  <2>1. 1..0 = {} /\ 0 \in 0..n
    OBVIOUS
  <2> QED
    BY <1>0, <2>1
<1>2. ASSUME NEW k \in 1..n PROVE h[k] = Fold1(op, arg, h[k - 1], s[k])
  <2>1. /\ 1..k \in SUBSET (1..n) /\ 1..k # {} /\ (1..k) \ {k} = 1..(k - 1)
        /\ k \in 0..n /\ k - 1 \in 0..n
    OBVIOUS
  <2>2. Max(1..k) = k
    BY MaxUpto
  <2>3. f[1..k] = Fold1(op, arg, f[(1..k) \ {Max(1..k)}], s[Max(1..k)])
    BY <1>0, <2>1, Zenon
  <2>4. h[k] = f[1..k] /\ h[k - 1] = f[1..(k - 1)]
    BY <2>1
  <2> QED
    BY <2>1, <2>2, <2>3, <2>4, Zenon
<1> QED
  BY <1>1, <1>2 DEF IsRun

LEMMA PushAllIs ==
  ASSUME NEW p, NEW a, NEW s, NEW n \in Nat, DOMAIN s = 1..n
  PROVE  \E h : IsRun(h, "push", a, p, s, n) /\ PushAll(p, s, a) = h[n]
<1> DEFINE F == CHOOSE f : f = [T \in SUBSET DOMAIN s |->
                  IF T = {} THEN p ELSE PushWord(f[T \ {Max(T)}], s[Max(T)], a)]
<1>1. PICK f : OnSets(f, "push", a, p, s, n)
  BY OnSetsExists
<1>2. f = [T \in SUBSET DOMAIN s |-> IF T = {} THEN p ELSE PushWord(f[T \ {Max(T)}], s[Max(T)], a)]
  BY <1>1, Zenon DEF OnSets, Fold1
<1>3. F = [T \in SUBSET DOMAIN s |-> IF T = {} THEN p ELSE PushWord(F[T \ {Max(T)}], s[Max(T)], a)]
  BY <1>2, Zenon
<1>4. PushAll(p, s, a) = F[DOMAIN s]
  BY Zenon DEF PushAll, FoldLeft, MapThenFoldSet
<1>5. OnSets(F, "push", a, p, s, n)
  <2> HIDE DEF F
  <2> QED
    BY <1>3, Zenon DEF OnSets, Fold1
<1> HIDE DEF F
<1>6. [k \in 0..n |-> F[1..k]][n] = F[DOMAIN s]
  OBVIOUS
<1> QED
  BY <1>4, <1>5, <1>6, RunOf, Zenon

LEMMA RebuiltRowsIs ==
  ASSUME NEW ledger, NEW width, NEW n \in Nat, DOMAIN ledger = 1..n
  PROVE  \E h : IsRun(h, "row", width, << <<>> >>, ledger, n) /\ RebuiltRows(ledger, width) = h[n]
<1> DEFINE b == << <<>> >>
           F == CHOOSE f : f = [T \in SUBSET DOMAIN ledger |->
                  IF T = {} THEN b ELSE RowsWith(f[T \ {Max(T)}], ledger[Max(T)], width)]
<1>1. PICK f : OnSets(f, "row", width, b, ledger, n)
  BY OnSetsExists
<1>0. "row" # "push" /\ "row" # "chunk"
  OBVIOUS
<1>2. f = [T \in SUBSET DOMAIN ledger |-> IF T = {} THEN b ELSE RowsWith(f[T \ {Max(T)}], ledger[Max(T)], width)]
  BY <1>0, <1>1, Zenon DEF OnSets, Fold1
<1>3. F = [T \in SUBSET DOMAIN ledger |-> IF T = {} THEN b ELSE RowsWith(F[T \ {Max(T)}], ledger[Max(T)], width)]
  BY <1>2, Zenon
<1>4. RebuiltRows(ledger, width) = F[DOMAIN ledger]
  BY Zenon DEF RebuiltRows, FoldLeft, MapThenFoldSet
<1>5. OnSets(F, "row", width, b, ledger, n)
  <2> HIDE DEF F
  <2> QED
    BY <1>0, <1>3, Zenon DEF OnSets, Fold1
<1> HIDE DEF F
<1>6. [k \in 0..n |-> F[1..k]][n] = F[DOMAIN ledger]
  OBVIOUS
<1> QED
  BY <1>4, <1>5, <1>6, RunOf, Zenon

\* What hardSplit's loop leaves, before the mark.
LEMMA HardSplitIs ==
  ASSUME NEW p, NEW w, NEW a, NEW n \in Nat, DOMAIN Chunks(w, p.width) = 1..n
  PROVE  \E h : /\ IsRun(h, "chunk", a, p, Chunks(w, p.width), n)
                /\ HardSplit(p, w, a) = [h[n] EXCEPT !.split = TRUE]
<1> DEFINE s == Chunks(w, p.width)
           F == CHOOSE f : f = [T \in SUBSET DOMAIN s |->
                  IF T = {} THEN p ELSE Place(Freeze(f[T \ {Max(T)}], a), s[Max(T)])]
<1>1. PICK f : OnSets(f, "chunk", a, p, s, n)
  BY OnSetsExists
<1>0. "chunk" # "push"
  OBVIOUS
<1>2. f = [T \in SUBSET DOMAIN s |-> IF T = {} THEN p ELSE Place(Freeze(f[T \ {Max(T)}], a), s[Max(T)])]
  BY <1>0, <1>1, Zenon DEF OnSets, Fold1
<1>3. F = [T \in SUBSET DOMAIN s |-> IF T = {} THEN p ELSE Place(Freeze(F[T \ {Max(T)}], a), s[Max(T)])]
  BY <1>2, Zenon
<1>4. HardSplit(p, w, a) = [F[DOMAIN s] EXCEPT !.split = TRUE]
  BY Zenon DEF HardSplit, FoldLeft, MapThenFoldSet
<1>5. OnSets(F, "chunk", a, p, s, n)
  <2> HIDE DEF F
  <2> QED
    BY <1>0, <1>3, Zenon DEF OnSets, Fold1
<1> HIDE DEF F, s
<1>6. [k \in 0..n |-> F[1..k]][n] = F[DOMAIN s]
  BY DEF s
<1> QED
  BY <1>4, <1>5, <1>6, RunOf, Zenon DEF s

-----------------------------------------------------------------------------
(* Rows of words.                                                          *)

Words == Seq(Glyphs)
Rows == Seq(Seq(Words))

\* The rows with row r in place of the open one.
WithOpen(rows, r) == Append(Front(rows), r)

LEMMA OpenRow ==
  ASSUME NEW rows \in Rows, rows # <<>>
  PROVE  /\ Last(rows) \in Seq(Words) /\ Front(rows) \in Rows
         /\ Len(Front(rows)) = Len(rows) - 1 /\ Len(rows) \in Nat \ {0}
         /\ \A i \in 1..(Len(rows) - 1) : Front(rows)[i] = rows[i]
         /\ rows = WithOpen(rows, Last(rows))
         /\ FlattenSeq(rows) = FlattenSeq(Front(rows)) \o Last(rows)
<1> DEFINE n == Len(rows)
<1>1. n \in Nat \ {0} /\ \A i \in 1..n : rows[i] \in Seq(Words)
  BY DEF Rows
<1>2. Last(rows) \in Seq(Words)
  BY <1>1 DEF Last
<1>3. /\ Front(rows) \in Rows /\ Len(Front(rows)) = n - 1
      /\ \A i \in 1..(n - 1) : Front(rows)[i] = rows[i]
  <2>1. n - 1 \in Nat
    BY <1>1
  <2>2. \A i \in 1..(n - 1) : rows[i] \in Seq(Words)
    BY <1>1
  <2>3. Front(rows) = SubSeq(rows, 1, n - 1)
    BY DEF Front
  <2>4. /\ SubSeq(rows, 1, n - 1) \in Seq(Seq(Words)) /\ Len(SubSeq(rows, 1, n - 1)) = n - 1
        /\ \A i \in 1..(n - 1) : SubSeq(rows, 1, n - 1)[i] = rows[i]
    <3> HIDE DEF n
    <3>1. Len(SubSeq(rows, 1, n - 1)) = n - 1
      BY <2>1, <2>2, SubSeqProperties
    <3> QED
      BY <2>1, <2>2, <3>1
  <2> QED
    BY <2>3, <2>4 DEF Rows
<1>4. rows = WithOpen(rows, Last(rows))
  <2>1. WithOpen(rows, Last(rows)) \in Rows /\ Len(WithOpen(rows, Last(rows))) = n
    BY <1>1, <1>2, <1>3 DEF WithOpen, Rows
  <2>2. \A i \in 1..n : WithOpen(rows, Last(rows))[i] = rows[i]
    <3> SUFFICES ASSUME NEW i \in 1..n PROVE WithOpen(rows, Last(rows))[i] = rows[i]
      OBVIOUS
    <3>1. CASE i = n
      BY <1>1, <1>2, <1>3, <3>1 DEF WithOpen, Rows, Last
    <3>2. CASE i # n
      BY <1>1, <1>2, <1>3, <3>2 DEF WithOpen, Rows
    <3> QED
      BY <3>1, <3>2
  <2> QED
    BY <2>1, <2>2, SeqEqual DEF Rows
<1>5. FlattenSeq(rows) = FlattenSeq(Front(rows)) \o Last(rows)
  <2>1. FlattenSeq(WithOpen(rows, Last(rows))) = FlattenSeq(Front(rows)) \o Last(rows)
    BY <1>2, <1>3, FlattenAppend DEF WithOpen, Rows
  <2> QED
    BY <1>4, <2>1, Zenon
<1> QED
  BY <1>1, <1>2, <1>3, <1>4, <1>5

\* Another open row.
LEMMA OpenRowIs ==
  ASSUME NEW rows \in Rows, rows # <<>>, NEW r \in Seq(Words)
  PROVE  /\ WithOpen(rows, r) \in Rows /\ WithOpen(rows, r) # <<>>
         /\ Len(WithOpen(rows, r)) = Len(rows) /\ Last(WithOpen(rows, r)) = r
         /\ \A i \in 1..(Len(rows) - 1) : WithOpen(rows, r)[i] = rows[i]
         /\ FlattenSeq(WithOpen(rows, r)) = FlattenSeq(Front(rows)) \o r
<1> DEFINE f == Front(rows)
<1>1. f \in Rows /\ Len(f) = Len(rows) - 1 /\ Len(rows) \in Nat \ {0}
      /\ \A i \in 1..(Len(rows) - 1) : f[i] = rows[i]
  BY OpenRow
<1> HIDE DEF f
<1>0. f \in Seq(Seq(Words))
  BY <1>1 DEF Rows
<1>2. /\ Append(f, r) \in Seq(Seq(Words)) /\ Append(f, r) # <<>> /\ Len(Append(f, r)) = Len(f) + 1
      /\ Append(f, r)[Len(f) + 1] = r
      /\ \A i \in 1..Len(f) : Append(f, r)[i] = f[i]
  BY <1>0, AppendProperties
<1>3. FlattenSeq(Append(f, r)) = FlattenSeq(f) \o r
  BY <1>1, FlattenAppend DEF Rows
<1>4. WithOpen(rows, r) = Append(f, r)
  BY DEF WithOpen, f
<1>5. Len(WithOpen(rows, r)) = Len(rows) /\ Last(WithOpen(rows, r)) = r
  BY <1>1, <1>2, <1>4 DEF Last
<1>6. \A i \in 1..(Len(rows) - 1) : WithOpen(rows, r)[i] = rows[i]
  BY <1>1, <1>2, <1>4
<1>7. FlattenSeq(WithOpen(rows, r)) = FlattenSeq(Front(rows)) \o r
  BY <1>3, <1>4 DEF f
<1> QED
  BY <1>2, <1>4, <1>5, <1>6, <1>7 DEF Rows

\* An empty row below.
LEMMA NewRowIs ==
  ASSUME NEW rows \in Rows, rows # <<>>
  PROVE  /\ Append(rows, <<>>) \in Rows /\ Append(rows, <<>>) # <<>>
         /\ Len(Append(rows, <<>>)) = Len(rows) + 1
         /\ Last(Append(rows, <<>>)) = <<>>
         /\ \A i \in 1..Len(rows) : Append(rows, <<>>)[i] = rows[i]
         /\ FlattenSeq(Append(rows, <<>>)) = FlattenSeq(rows)
<1>0. <<>> \in Seq(Words)
  OBVIOUS
<1>1. /\ Append(rows, <<>>) \in Rows /\ Append(rows, <<>>) # <<>>
      /\ Len(Append(rows, <<>>)) = Len(rows) + 1
      /\ Append(rows, <<>>)[Len(rows) + 1] = <<>>
      /\ \A i \in 1..Len(rows) : Append(rows, <<>>)[i] = rows[i]
  <2> DEFINE Q == Seq(Words)
  <2>1. rows \in Seq(Q) /\ <<>> \in Q
    BY <1>0 DEF Rows
  <2> HIDE DEF Q
  <2>2. /\ Append(rows, <<>>) \in Seq(Q) /\ Append(rows, <<>>) # <<>>
        /\ Len(Append(rows, <<>>)) = Len(rows) + 1
        /\ Append(rows, <<>>)[Len(rows) + 1] = <<>>
        /\ \A i \in 1..Len(rows) : Append(rows, <<>>)[i] = rows[i]
    BY <2>1, AppendProperties, SMTT(30)
  <2> QED
    BY <2>2 DEF Q, Rows
<1>2. FlattenSeq(Append(rows, <<>>)) = FlattenSeq(rows) \o <<>>
  BY <1>0, FlattenAppend DEF Rows
<1>3. FlattenSeq(rows) \in Seq(Words)
  BY FlattenType DEF Rows
<1>4. FlattenSeq(rows) \o <<>> = FlattenSeq(rows)
  BY <1>3, ConcatEmptySeq
<1> QED
  BY <1>1, <1>2, <1>4 DEF Last

LEMMA FlattenRows ==
  ASSUME NEW rows \in Rows
  PROVE  FlattenSeq(rows) \in Seq(Words)
BY FlattenType DEF Rows

\* What is left of t when the rows before place j go.
IsRest(rest, t) ==
  /\ Len(rest) <= Len(t)
  /\ \A k \in Nat : k < Len(rest) => rest[Len(rest) - k] = t[Len(t) - k]

LEMMA RestOfConcat ==
  ASSUME NEW S, NEW s \in Seq(S), NEW t \in Seq(S)
  PROVE  IsRest(t, s \o t)
<1> DEFINE u == s \o t
<1>1. u \in Seq(S) /\ Len(u) = Len(s) + Len(t)
      /\ \A i \in 1..(Len(s) + Len(t)) : u[i] = IF i <= Len(s) THEN s[i] ELSE t[i - Len(s)]
  BY ConcatProperties
<1>2. Len(s) \in Nat /\ Len(t) \in Nat
  OBVIOUS
<1> HIDE DEF u
<1>3. ASSUME NEW k \in Nat, k < Len(t) PROVE t[Len(t) - k] = u[Len(u) - k]
  <2>1. /\ Len(u) - k \in 1..(Len(s) + Len(t)) /\ ~(Len(u) - k <= Len(s))
        /\ (Len(u) - k) - Len(s) = Len(t) - k
    BY <1>1, <1>2, <1>3
  <2> QED
    BY <1>1, <2>1
<1> QED
  BY <1>1, <1>2, <1>3 DEF IsRest, u

LEMMA TrimRowsIs ==
  ASSUME NEW rows \in Rows, rows # <<>>
  PROVE  \E j \in 1..Len(rows) :
           /\ TrimRows(rows) = SubSeq(rows, j, Len(rows))
           /\ TrimRows(rows) \in Rows /\ TrimRows(rows) # <<>>
           /\ Len(TrimRows(rows)) = Len(rows) - j + 1
           /\ \A i \in 1..Len(TrimRows(rows)) : TrimRows(rows)[i] = rows[j + i - 1]
           /\ Last(TrimRows(rows)) = Last(rows)
           /\ IsRest(FlattenSeq(TrimRows(rows)), FlattenSeq(rows))
           /\ j = 1 \/ Len(TrimRows(rows)) = MaxRows + 1
           /\ j # Len(rows) \/ j = 1
<1> DEFINE n == Len(rows)
           j == IF n > MaxRows + 1 THEN n - MaxRows ELSE 1
           t == TrimRows(rows)
<1>1. n \in Nat \ {0} /\ MaxRows \in Nat \ {0}
  BY ViewerAssumption DEF Rows
<1>2. j \in 1..n /\ (j = 1 \/ n - j + 1 = MaxRows + 1) /\ (j # n \/ j = 1)
  <2> HIDE DEF n
  <2> QED
    BY <1>1
<1>3. SubSeq(rows, 1, n) = rows
  BY SubSeqFull DEF Rows
<1>4. t = SubSeq(rows, j, n)
  BY <1>3 DEF TrimRows
<1> HIDE DEF j, t
<1>5. t \in Rows /\ Len(t) = n - j + 1 /\ \A i \in 1..(n - j + 1) : t[i] = rows[j + i - 1]
  <2>1. \A i \in j..n : rows[i] \in Seq(Words)
    BY <1>1, <1>2 DEF Rows
  <2> DEFINE Q == Seq(Words)
  <2>2. rows \in Seq(Q) /\ \A i \in j..n : rows[i] \in Q
    BY <2>1 DEF Rows
  <2> HIDE DEF n, Q
  <2>3. t \in Seq(Q) /\ Len(t) = n - j + 1 /\ \A i \in 1..(n - j + 1) : t[i] = rows[j + i - 1]
    BY <1>1, <1>2, <1>4, <2>2, SubSeqProperties, SMTT(30)
  <2> QED
    BY <2>3 DEF Q, Rows
<1>6. t # <<>> /\ Last(t) = Last(rows)
  <2> HIDE DEF n
  <2>1. Len(t) \in 1..(n - j + 1) /\ j + Len(t) - 1 = n
    BY <1>1, <1>2, <1>5
  <2>2. t[Len(t)] = rows[n]
    BY <1>5, <2>1
  <2> QED
    BY <2>1, <2>2 DEF Last, n
<1>7. IsRest(FlattenSeq(t), FlattenSeq(rows))
  <2> DEFINE s == SubSeq(rows, 1, j - 1)
  <2>1. s \in Rows
    <3>1. \A i \in 1..(j - 1) : rows[i] \in Seq(Words)
      BY <1>1, <1>2 DEF Rows
    <3> QED
      BY <1>2, <3>1, SubSeqProperties DEF Rows
  <2>2. s \o t = rows
    <3>1. 1 \in 1..(n + 1) /\ j - 1 \in (1 - 1)..n /\ n \in (j - 1)..n /\ (j - 1) + 1 = j
      BY <1>1, <1>2
    <3>2. SubSeq(rows, 1, j - 1) \o SubSeq(rows, (j - 1) + 1, n) = SubSeq(rows, 1, n)
      BY <3>1, ConcatAdjacentSubSeq DEF Rows
    <3> QED
      BY <1>3, <1>4, <3>1, <3>2
  <2> HIDE DEF s
  <2>3. FlattenSeq(s \o t) = FlattenSeq(s) \o FlattenSeq(t)
    BY <1>5, <2>1, FlattenJoin DEF Rows
  <2>4. FlattenSeq(s) \in Seq(Words) /\ FlattenSeq(t) \in Seq(Words)
    BY <1>5, <2>1, FlattenRows
  <2> QED
    BY <2>2, <2>3, <2>4, RestOfConcat
<1> QED
  BY <1>2, <1>4, <1>5, <1>6, <1>7 DEF t

-----------------------------------------------------------------------------
(* What every page keeps: the ledger, the rows and the width of a sound    *)
(* page.                                                                   *)

Entries == [text : Words, stale : BOOLEAN, frozen : BOOLEAN, last : BOOLEAN]

\* Words on the screen and words of the ledger agree, counted from the end.
Meets(shown, ledger) ==
  \A k \in Nat : k < Len(shown) /\ k < Len(ledger) =>
    shown[Len(shown) - k] = ledger[Len(ledger) - k].text

\* Just the words above the open row are frozen.
Marked(ledger, open) ==
  \A i \in 1..Len(ledger) : ledger[i].frozen <=> i <= Len(ledger) - open

RowFits(row, width) == RowWidth(row) <= width \/ Len(row) = 1

Sound(ledger, rows, width) ==
  /\ ledger \in Seq(Entries) /\ rows \in Rows /\ rows # <<>> /\ width \in Nat \ {0}
  /\ Meets(FlattenSeq(rows), ledger)
  /\ Marked(ledger, Len(Last(rows)))
  /\ \A i \in 1..Len(rows) : RowFits(rows[i], width)

\* The entries of b are those of a but for the marks.
SameWords(a, b) ==
  /\ Len(b) = Len(a) /\ \A i \in 1..Len(a) : b[i].text = a[i].text

LEMMA EntryIs ==
  ASSUME NEW w \in Words
  PROVE  /\ Entry(w) \in Entries /\ Entry(w).text = w
         /\ ~Entry(w).stale /\ ~Entry(w).frozen
<1>1. Entry(w) \in Entries /\ Entry(w).text = w
  BY DEF Entry, Entries
<1>2. ~Entry(w).stale /\ ~Entry(w).frozen
  BY Zenon DEF Entry
<1> QED
  BY <1>1, <1>2

LEMMA EmptyFits ==
  ASSUME NEW width \in Nat
  PROVE  RowFits(<<>>, width)
BY DEF RowFits, RowWidth

LEMMA MeetsAppend ==
  ASSUME NEW shown \in Seq(Words), NEW ledger \in Seq(Entries), NEW e \in Entries,
         Meets(shown, ledger)
  PROVE  Meets(Append(shown, e.text), Append(ledger, e))
<1>0. e.text \in Words
  BY DEF Entries
<1>1. /\ Len(Append(shown, e.text)) = Len(shown) + 1
      /\ Append(shown, e.text)[Len(shown) + 1] = e.text
      /\ \A i \in 1..Len(shown) : Append(shown, e.text)[i] = shown[i]
  BY <1>0, AppendProperties
<1>2. /\ Len(Append(ledger, e)) = Len(ledger) + 1
      /\ Append(ledger, e)[Len(ledger) + 1] = e
      /\ \A i \in 1..Len(ledger) : Append(ledger, e)[i] = ledger[i]
  BY AppendProperties
<1>3. Len(shown) \in Nat /\ Len(ledger) \in Nat
  OBVIOUS
<1> DEFINE s == Append(shown, e.text)
           l == Append(ledger, e)
<1> HIDE DEF s, l
<1>4. ASSUME NEW k \in Nat, k < Len(s), k < Len(l)
      PROVE  s[Len(s) - k] = l[Len(l) - k].text
  <2>1. CASE k = 0
    <3>1. Len(s) - k = Len(shown) + 1 /\ Len(l) - k = Len(ledger) + 1
      BY <1>1, <1>2, <1>3, <2>1 DEF s, l
    <3> QED
      BY <1>1, <1>2, <3>1 DEF s, l
  <2>2. CASE k # 0
    <3>1. /\ Len(s) - k = Len(shown) - (k - 1) /\ Len(l) - k = Len(ledger) - (k - 1)
          /\ k - 1 \in Nat /\ k - 1 < Len(shown) /\ k - 1 < Len(ledger)
      BY <1>1, <1>2, <1>3, <1>4, <2>2 DEF s, l
    <3>2. shown[Len(shown) - (k - 1)] = ledger[Len(ledger) - (k - 1)].text
      BY <3>1 DEF Meets
    <3>3. Len(shown) - (k - 1) \in 1..Len(shown) /\ Len(ledger) - (k - 1) \in 1..Len(ledger)
      BY <1>3, <3>1
    <3>4. s[Len(s) - k] = shown[Len(shown) - (k - 1)] /\ l[Len(l) - k] = ledger[Len(ledger) - (k - 1)]
      BY <1>1, <1>2, <3>1, <3>3 DEF s, l
    <3> QED
      BY <3>2, <3>4
  <2> QED
    BY <2>1, <2>2
<1> QED
  BY <1>4 DEF Meets, s, l

\* Fewer words on the screen.
LEMMA MeetsRest ==
  ASSUME NEW t \in Seq(Words), NEW rest \in Seq(Words), IsRest(rest, t),
         NEW ledger, Meets(t, ledger)
  PROVE  Meets(rest, ledger)
<1>1. ASSUME NEW k \in Nat, k < Len(rest), k < Len(ledger)
      PROVE  rest[Len(rest) - k] = ledger[Len(ledger) - k].text
  <2>1. k < Len(t)
    BY <1>1 DEF IsRest
  <2>2. rest[Len(rest) - k] = t[Len(t) - k]
    BY <1>1 DEF IsRest
  <2>3. t[Len(t) - k] = ledger[Len(ledger) - k].text
    BY <1>1, <2>1 DEF Meets
  <2> QED
    BY <2>2, <2>3
<1> QED
  BY <1>1 DEF Meets

\* The first d words of the ledger gone.
LEMMA Dropped ==
  ASSUME NEW S, NEW s \in Seq(S), NEW d \in 0..Len(s)
  PROVE  /\ SubSeq(s, d + 1, Len(s)) \in Seq(S) /\ Len(SubSeq(s, d + 1, Len(s))) = Len(s) - d
         /\ \A i \in 1..(Len(s) - d) : SubSeq(s, d + 1, Len(s))[i] = s[i + d]
<1>1. Len(s) \in Nat /\ \A i \in 1..Len(s) : s[i] \in S
  OBVIOUS
<1> DEFINE n == Len(s)
<1> HIDE DEF n
<1>2. n \in Nat /\ d \in 0..n /\ \A i \in (d + 1)..n : s[i] \in S
  BY <1>1 DEF n
<1>3. /\ SubSeq(s, d + 1, n) \in Seq(S)
      /\ Len(SubSeq(s, d + 1, n)) = IF d + 1 <= n THEN n - (d + 1) + 1 ELSE 0
      /\ \A i \in 1..(n - (d + 1) + 1) : SubSeq(s, d + 1, n)[i] = s[d + 1 + i - 1]
  BY <1>2, SubSeqProperties
<1>4. Len(SubSeq(s, d + 1, n)) = n - d
  BY <1>2, <1>3
<1>5. ASSUME NEW i \in 1..(n - d) PROVE SubSeq(s, d + 1, n)[i] = s[i + d]
  <2>1. i \in 1..(n - (d + 1) + 1) /\ d + 1 + i - 1 = i + d
    BY <1>2
  <2> QED
    BY <1>3, <2>1
<1> QED
  BY <1>3, <1>4, <1>5 DEF n

\* The first n words of a sequence.
LEMMA Taken ==
  ASSUME NEW S, NEW s \in Seq(S), NEW n \in 0..Len(s)
  PROVE  /\ SubSeq(s, 1, n) \in Seq(S) /\ Len(SubSeq(s, 1, n)) = n
         /\ \A i \in 1..n : SubSeq(s, 1, n)[i] = s[i]
<1>1. Len(s) \in Nat /\ \A i \in 1..Len(s) : s[i] \in S
  OBVIOUS
<1>2. n \in Nat /\ \A i \in 1..n : s[i] \in S
  BY <1>1
<1>3. /\ SubSeq(s, 1, n) \in Seq(S)
      /\ Len(SubSeq(s, 1, n)) = IF 1 <= n THEN n - 1 + 1 ELSE 0
      /\ \A i \in 1..(n - 1 + 1) : SubSeq(s, 1, n)[i] = s[1 + i - 1]
  BY <1>2, SubSeqProperties
<1>4. Len(SubSeq(s, 1, n)) = n
  BY <1>2, <1>3
<1>5. ASSUME NEW i \in 1..n PROVE SubSeq(s, 1, n)[i] = s[i]
  <2>1. i \in 1..(n - 1 + 1) /\ 1 + i - 1 = i
    BY <1>2
  <2> QED
    BY <1>3, <2>1
<1> QED
  BY <1>3, <1>4, <1>5

LEMMA SoundDropped ==
  ASSUME NEW ledger, NEW rows, NEW width, Sound(ledger, rows, width),
         NEW d \in 0..Len(ledger)
  PROVE  Sound(SubSeq(ledger, d + 1, Len(ledger)), rows, width)
<1> DEFINE l == SubSeq(ledger, d + 1, Len(ledger))
           F == FlattenSeq(rows)
<1>0. ledger \in Seq(Entries) /\ rows \in Rows
  BY DEF Sound
<1>1. l \in Seq(Entries) /\ Len(l) = Len(ledger) - d /\ \A i \in 1..(Len(ledger) - d) : l[i] = ledger[i + d]
  BY <1>0, Dropped
<1>2. Len(ledger) \in Nat /\ Len(Last(rows)) \in Nat
  <2>1. Last(rows) \in Seq(Words)
    BY OpenRow DEF Sound
  <2> QED
    BY <1>0, <2>1
<1> HIDE DEF l, F
<1>3. Meets(F, l)
  <2>1. ASSUME NEW k \in Nat, k < Len(F), k < Len(l) PROVE F[Len(F) - k] = l[Len(l) - k].text
    <3>1. k < Len(ledger) /\ Len(l) - k \in 1..(Len(ledger) - d) /\ (Len(l) - k) + d = Len(ledger) - k
      BY <1>1, <1>2, <2>1
    <3>2. F[Len(F) - k] = ledger[Len(ledger) - k].text
      BY <2>1, <3>1 DEF Sound, Meets, F
    <3> QED
      BY <1>1, <3>1, <3>2
  <2> QED
    BY <2>1 DEF Meets
<1>4. Marked(l, Len(Last(rows)))
  <2>1. ASSUME NEW i \in 1..Len(l) PROVE l[i].frozen <=> i <= Len(l) - Len(Last(rows))
    <3>1. /\ i + d \in 1..Len(ledger) /\ i \in 1..(Len(ledger) - d)
          /\ i + d <= Len(ledger) - Len(Last(rows)) <=> i <= Len(l) - Len(Last(rows))
      BY <1>1, <1>2
    <3>2. ledger[i + d].frozen <=> i + d <= Len(ledger) - Len(Last(rows))
      BY <3>1 DEF Sound, Marked
    <3>3. l[i] = ledger[i + d]
      BY <1>1, <3>1
    <3> QED
      BY <3>1, <3>2, <3>3, Zenon
  <2> QED
    BY <2>1 DEF Marked
<1> QED
  BY <1>1, <1>3, <1>4 DEF Sound, l, F

\* Other marks, the same words and the same frozen words.
LEMMA SoundRemarked ==
  ASSUME NEW ledger, NEW rows, NEW width, Sound(ledger, rows, width),
         NEW l \in Seq(Entries), SameWords(ledger, l),
         \A i \in 1..Len(ledger) : l[i].frozen <=> ledger[i].frozen
  PROVE  Sound(l, rows, width)
<1>0. ledger \in Seq(Entries) /\ Len(ledger) \in Nat /\ Len(l) = Len(ledger)
  BY DEF Sound, SameWords
<1>1. Meets(FlattenSeq(rows), l)
  <2> DEFINE F == FlattenSeq(rows)
  <2> HIDE DEF F
  <2>1. ASSUME NEW k \in Nat, k < Len(F), k < Len(l) PROVE F[Len(F) - k] = l[Len(l) - k].text
    <3>1. Len(ledger) - k \in 1..Len(ledger) /\ k < Len(ledger)
      BY <1>0, <2>1
    <3>2. F[Len(F) - k] = ledger[Len(ledger) - k].text
      BY <2>1, <3>1 DEF Sound, Meets, F
    <3> QED
      BY <1>0, <3>1, <3>2 DEF SameWords
  <2> QED
    BY <2>1 DEF Meets, F
<1>2. Marked(l, Len(Last(rows)))
  BY <1>0, Zenon DEF Sound, Marked
<1> QED
  BY <1>1, <1>2 DEF Sound

LEMMA SoundPlaced ==
  ASSUME NEW ledger, NEW rows, NEW width, Sound(ledger, rows, width),
         NEW w \in Words, Last(rows) = <<>> \/ Fits(Last(rows), w, width)
  PROVE  Sound(Append(ledger, Entry(w)), WithOpen(rows, Append(Last(rows), w)), width)
<1> DEFINE open == Append(Last(rows), w)
           l == Append(ledger, Entry(w))
           r == WithOpen(rows, open)
<1>0. /\ ledger \in Seq(Entries) /\ rows \in Rows /\ rows # <<>> /\ width \in Nat \ {0}
      /\ Len(ledger) \in Nat
  BY DEF Sound
<1>1. /\ Last(rows) \in Seq(Words) /\ Front(rows) \in Rows /\ Len(rows) \in Nat \ {0}
      /\ FlattenSeq(rows) = FlattenSeq(Front(rows)) \o Last(rows)
  BY <1>0, OpenRow
<1>2. open \in Seq(Words) /\ Len(open) = Len(Last(rows)) + 1 /\ Len(Last(rows)) \in Nat
  BY <1>1, AppendProperties
<1>3. /\ r \in Rows /\ r # <<>> /\ Len(r) = Len(rows) /\ Last(r) = open
      /\ \A i \in 1..(Len(rows) - 1) : r[i] = rows[i]
      /\ FlattenSeq(r) = FlattenSeq(Front(rows)) \o open
  <2> HIDE DEF open
  <2> QED
    BY <1>0, <1>2, OpenRowIs
<1>4. FlattenSeq(r) = Append(FlattenSeq(rows), w)
  <2>1. FlattenSeq(Front(rows)) \in Seq(Words)
    BY <1>1, FlattenRows
  <2> DEFINE f == FlattenSeq(Front(rows))
  <2> HIDE DEF f
  <2>2. f \o Append(Last(rows), w) = Append(f \o Last(rows), w)
    <3>1. f \in Seq(Words)
      BY <2>1 DEF f
    <3> QED
      BY <1>1, <3>1
  <2> QED
    BY <1>1, <1>3, <2>2 DEF f
<1>5. l \in Seq(Entries) /\ Len(l) = Len(ledger) + 1
      /\ l[Len(ledger) + 1] = Entry(w) /\ \A i \in 1..Len(ledger) : l[i] = ledger[i]
  BY <1>0, EntryIs, AppendProperties
<1>6. Meets(FlattenSeq(r), l)
  <2>1. Meets(FlattenSeq(rows), ledger) /\ FlattenSeq(rows) \in Seq(Words)
    BY <1>0, FlattenRows DEF Sound
  <2>2. Entry(w) \in Entries /\ Entry(w).text = w
    BY EntryIs
  <2>3. Meets(Append(FlattenSeq(rows), Entry(w).text), Append(ledger, Entry(w)))
    BY <1>0, <2>1, <2>2, MeetsAppend
  <2> QED
    BY <1>4, <2>2, <2>3
<1> HIDE DEF open, l, r
<1>7. Marked(l, Len(Last(r)))
  <2>1. ASSUME NEW i \in 1..Len(l) PROVE l[i].frozen <=> i <= Len(l) - Len(open)
    <3>1. CASE i = Len(ledger) + 1
      <4>1. ~(i <= Len(l) - Len(open))
        BY <1>0, <1>2, <1>5, <3>1
      <4>2. ~Entry(w).frozen
        BY EntryIs
      <4>3. l[i] = Entry(w)
        BY <1>5, <3>1
      <4> QED
        BY <4>1, <4>2, <4>3, Zenon
    <3>2. CASE i # Len(ledger) + 1
      <4>1. i \in 1..Len(ledger) /\ Len(l) - Len(open) = Len(ledger) - Len(Last(rows))
        BY <1>0, <1>2, <1>5, <3>2
      <4>2. ledger[i].frozen <=> i <= Len(ledger) - Len(Last(rows))
        BY <4>1 DEF Sound, Marked
      <4>3. l[i] = ledger[i]
        BY <1>5, <4>1
      <4> QED
        BY <4>1, <4>2, <4>3, Zenon
    <3> QED
      BY <3>1, <3>2
  <2> QED
    BY <1>3, <2>1 DEF Marked
<1>8. \A i \in 1..Len(r) : RowFits(r[i], width)
  <2>1. RowFits(open, width)
    <3>1. CASE Last(rows) = <<>>
      <4>1. Len(open) = 1
        BY <1>2, <3>1
      <4> QED
        BY <4>1 DEF RowFits
    <3>2. CASE Fits(Last(rows), w, width)
      BY <3>2 DEF RowFits, Fits, open
    <3> QED
      BY <3>1, <3>2
  <2> SUFFICES ASSUME NEW i \in 1..Len(r) PROVE RowFits(r[i], width)
    OBVIOUS
  <2>2. CASE i = Len(rows)
    <3>1. r[i] = open
      BY <1>3, <2>2 DEF Last
    <3> QED
      BY <2>1, <3>1
  <2>3. CASE i # Len(rows)
    <3>1. i \in 1..(Len(rows) - 1) /\ i \in 1..Len(rows)
      BY <1>1, <1>3, <2>3
    <3> QED
      BY <1>3, <3>1 DEF Sound
  <2> QED
    BY <2>2, <2>3
<1> QED
  BY <1>0, <1>3, <1>5, <1>6, <1>7, <1>8 DEF Sound, open, l, r

LEMMA SoundTrimmed ==
  ASSUME NEW ledger, NEW rows, NEW width, Sound(ledger, rows, width)
  PROVE  Sound(ledger, TrimRows(rows), width)
<1> DEFINE t == TrimRows(rows)
<1>0. rows \in Rows /\ rows # <<>> /\ Len(rows) \in Nat
  BY DEF Sound, Rows
<1>1. PICK j \in 1..Len(rows) :
        /\ t \in Rows /\ t # <<>> /\ Len(t) = Len(rows) - j + 1
        /\ \A i \in 1..Len(t) : t[i] = rows[j + i - 1]
        /\ Last(t) = Last(rows)
        /\ IsRest(FlattenSeq(t), FlattenSeq(rows))
  BY <1>0, TrimRowsIs
<1> HIDE DEF t
<1>2. Meets(FlattenSeq(t), ledger)
  <2>1. FlattenSeq(t) \in Seq(Words) /\ FlattenSeq(rows) \in Seq(Words)
    BY <1>0, <1>1, FlattenRows
  <2>2. Meets(FlattenSeq(rows), ledger)
    BY DEF Sound
  <2> QED
    BY <1>1, <2>1, <2>2, MeetsRest
<1>3. ASSUME NEW i \in 1..Len(t) PROVE RowFits(t[i], width)
  <2>1. j + i - 1 \in 1..Len(rows)
    BY <1>0, <1>1
  <2> QED
    BY <1>1, <2>1 DEF Sound
<1> QED
  BY <1>1, <1>2, <1>3 DEF Sound, t

FrozenIf(e, b) == [e EXCEPT !.frozen = @ \/ b]

LEMMA FrozenIfIs ==
  ASSUME NEW e \in Entries, NEW b \in BOOLEAN
  PROVE  /\ FrozenIf(e, b) \in Entries
         /\ FrozenIf(e, b).text = e.text
         /\ FrozenIf(e, b).stale = e.stale
         /\ FrozenIf(e, b).frozen <=> (e.frozen \/ b)
<1>1. (e.frozen \/ b) \in BOOLEAN
  BY Zenon DEF Entries
<1>2. FrozenIf(e, b) \in Entries /\ FrozenIf(e, b).text = e.text
      /\ FrozenIf(e, b).stale = e.stale
  BY DEF Entries, FrozenIf
<1>3. "frozen" \in DOMAIN e
  BY DEF Entries
<1>4. FrozenIf(e, b).frozen <=> (e.frozen \/ b)
  BY <1>3, Zenon DEF FrozenIf
<1> QED
  BY <1>2, <1>4

LEMMA FrozenFromIs ==
  ASSUME NEW ledger \in Seq(Entries), NEW first \in Int
  PROVE  /\ FrozenFrom(ledger, first) \in Seq(Entries)
         /\ Len(FrozenFrom(ledger, first)) = Len(ledger)
         /\ \A i \in 1..Len(ledger) :
              /\ FrozenFrom(ledger, first)[i].text = ledger[i].text
              /\ FrozenFrom(ledger, first)[i].stale = ledger[i].stale
              /\ FrozenFrom(ledger, first)[i].frozen <=> (ledger[i].frozen \/ i >= first)
<1> DEFINE l == FrozenFrom(ledger, first)
<1>1. Len(ledger) \in Nat /\ DOMAIN ledger = 1..Len(ledger) /\ \A i \in 1..Len(ledger) : ledger[i] \in Entries
  OBVIOUS
<1>2. ASSUME NEW i \in 1..Len(ledger) PROVE l[i] = FrozenIf(ledger[i], i >= first)
  <2>1. i \in DOMAIN ledger
    BY <1>1
  <2> QED
    BY <2>1, Zenon DEF FrozenFrom, FrozenIf
<1>3. ASSUME NEW i \in 1..Len(ledger)
      PROVE  /\ l[i] \in Entries
             /\ l[i].text = ledger[i].text /\ l[i].stale = ledger[i].stale
             /\ l[i].frozen <=> (ledger[i].frozen \/ i >= first)
  <2> DEFINE e == ledger[i]
             b == i >= first
  <2>1. e \in Entries
    BY <1>1
  <2>2. b \in BOOLEAN
    OBVIOUS
  <2> HIDE DEF l, e, b
  <2>3. /\ FrozenIf(e, b) \in Entries /\ FrozenIf(e, b).text = e.text
        /\ FrozenIf(e, b).stale = e.stale /\ (FrozenIf(e, b).frozen <=> (e.frozen \/ b))
    BY <2>1, <2>2, FrozenIfIs
  <2>4. l[i] = FrozenIf(e, b)
    BY <1>2 DEF e, b
  <2> QED
    BY <2>3, <2>4, Zenon DEF e, b
<1>4. l \in Seq(Entries) /\ Len(l) = Len(ledger)
  <2>1. l = [i \in 1..Len(ledger) |-> l[i]]
    BY <1>1, Zenon DEF FrozenFrom
  <2> HIDE DEF l
  <2>2. l \in [1..Len(ledger) -> Entries]
    BY <1>3, <2>1
  <2> QED
    BY <1>1, <2>2
<1> HIDE DEF l
<1>5. \A i \in 1..Len(ledger) :
        /\ l[i].text = ledger[i].text /\ l[i].stale = ledger[i].stale
        /\ l[i].frozen <=> (ledger[i].frozen \/ i >= first)
  BY <1>3, Zenon
<1> QED
  BY <1>4, <1>5, Zenon DEF l

LEMMA SoundClosed ==
  ASSUME NEW ledger, NEW rows, NEW width, Sound(ledger, rows, width)
  PROVE  Sound(FrozenFrom(ledger, Len(ledger) - Len(Last(rows)) + 1), Append(rows, <<>>), width)
<1> DEFINE first == Len(ledger) - Len(Last(rows)) + 1
           l == FrozenFrom(ledger, first)
           r == Append(rows, <<>>)
<1>0. /\ ledger \in Seq(Entries) /\ Len(ledger) \in Nat /\ rows \in Rows /\ rows # <<>>
      /\ width \in Nat \ {0} /\ Len(rows) \in Nat
  BY DEF Sound, Rows
<1>1. first \in Int
  <2>1. Last(rows) \in Seq(Words)
    BY <1>0, OpenRow
  <2>2. Len(Last(rows)) \in Nat
    BY <2>1
  <2> QED
    BY <1>0, <2>2
<1> HIDE DEF first
<1>2. /\ l \in Seq(Entries) /\ Len(l) = Len(ledger)
      /\ \A i \in 1..Len(ledger) :
           l[i].text = ledger[i].text /\ (l[i].frozen <=> (ledger[i].frozen \/ i >= first))
  <2>1. l \in Seq(Entries) /\ Len(l) = Len(ledger)
    BY <1>0, <1>1, FrozenFromIs
  <2>2. ASSUME NEW i \in 1..Len(ledger)
        PROVE  l[i].text = ledger[i].text /\ (l[i].frozen <=> (ledger[i].frozen \/ i >= first))
    BY <1>0, <1>1, FrozenFromIs
  <2> QED
    BY <2>1, <2>2
<1>3. /\ r \in Rows /\ r # <<>> /\ Len(r) = Len(rows) + 1 /\ Last(r) = <<>>
      /\ \A i \in 1..Len(rows) : r[i] = rows[i]
      /\ FlattenSeq(r) = FlattenSeq(rows)
  BY <1>0, NewRowIs
<1>4. Meets(FlattenSeq(r), l)
  <2> DEFINE F == FlattenSeq(rows)
  <2> HIDE DEF l, r, F
  <2>1. ASSUME NEW k \in Nat, k < Len(F), k < Len(l) PROVE F[Len(F) - k] = l[Len(l) - k].text
    <3>1. Len(ledger) - k \in 1..Len(ledger) /\ k < Len(ledger)
      BY <1>0, <1>2, <2>1
    <3>2. F[Len(F) - k] = ledger[Len(ledger) - k].text
      BY <2>1, <3>1 DEF Sound, Meets, F
    <3> QED
      BY <1>2, <3>1, <3>2
  <2> QED
    BY <1>3, <2>1 DEF Meets, F
<1>5. Marked(l, Len(Last(r)))
  <2> HIDE DEF l, r
  <2>1. Len(Last(r)) = 0
    BY <1>3
  <2>2. ASSUME NEW i \in 1..Len(l) PROVE l[i].frozen <=> i <= Len(l) - 0
    <3>1. i \in 1..Len(ledger) /\ i <= Len(l) - 0
      BY <1>0, <1>2
    <3>2. i <= Len(ledger) - Len(Last(rows)) \/ i >= first
      <4>1. Last(rows) \in Seq(Words)
        BY <1>0, OpenRow
      <4>2. Len(Last(rows)) \in Nat
        BY <4>1
      <4> QED
        BY <1>0, <4>2 DEF first
    <3>3. ledger[i].frozen <=> i <= Len(ledger) - Len(Last(rows))
      BY <3>1 DEF Sound, Marked
    <3>4. l[i].frozen <=> (ledger[i].frozen \/ i >= first)
      BY <1>2, <3>1
    <3> QED
      BY <3>1, <3>2, <3>3, <3>4, Zenon
  <2> QED
    BY <2>1, <2>2 DEF Marked
<1>6. ASSUME NEW i \in 1..Len(r) PROVE RowFits(r[i], width)
  <2>1. CASE i = Len(rows) + 1
    <3>1. r[i] = <<>>
      BY <1>3, <2>1 DEF Last
    <3> QED
      BY <1>0, <3>1, EmptyFits
  <2>2. CASE i # Len(rows) + 1
    <3>1. i \in 1..Len(rows)
      BY <1>0, <1>3, <2>2
    <3> QED
      BY <1>3, <3>1 DEF Sound
  <2> QED
    BY <2>1, <2>2
<1> QED
  BY <1>0, <1>2, <1>3, <1>4, <1>5, <1>6 DEF Sound, first

\* The first words of a row that fits fit.
LEMMA ShorterFits ==
  ASSUME NEW row \in Seq(Words), NEW n \in 0..Len(row), NEW width \in Nat, RowFits(row, width)
  PROVE  RowFits(SubSeq(row, 1, n), width)
<1> DEFINE a == SubSeq(row, 1, n)
           b == SubSeq(row, n + 1, Len(row))
<1>0. Len(row) \in Nat
  OBVIOUS
<1>1. a \in Seq(Words) /\ Len(a) = n
  BY Taken
<1>2. b \in Seq(Words)
  BY Dropped
<1>3. CASE n = 0
  <2>1. a = <<>>
    <3> HIDE DEF a
    <3> QED
      BY <1>1, <1>3
  <2> QED
    BY <2>1, EmptyFits
<1>4. CASE n # 0 /\ Len(row) = 1
  <2>1. Len(a) = 1
    BY <1>1, <1>4
  <2> QED
    BY <2>1 DEF RowFits
<1>5. CASE n # 0 /\ Len(row) # 1
  <2>1. a \o b = row
    <3>1. 1 \in 1..(Len(row) + 1) /\ n \in (1 - 1)..Len(row) /\ Len(row) \in n..Len(row)
      BY <1>0
    <3>2. SubSeq(row, 1, n) \o SubSeq(row, n + 1, Len(row)) = SubSeq(row, 1, Len(row))
      BY <3>1, ConcatAdjacentSubSeq
    <3> QED
      BY <3>2, SubSeqFull
  <2>2. FlattenSeq(row) = FlattenSeq(a) \o FlattenSeq(b)
    <3> HIDE DEF a, b
    <3>1. FlattenSeq(a \o b) = FlattenSeq(a) \o FlattenSeq(b)
      BY <1>1, <1>2, FlattenJoin DEF Words
    <3> QED
      BY <2>1, <3>1
  <2>3. FlattenSeq(a) \in Seq(Glyphs) /\ FlattenSeq(b) \in Seq(Glyphs)
    <3> HIDE DEF a, b
    <3> QED
      BY <1>1, <1>2, FlattenType DEF Words
  <2> DEFINE fa == FlattenSeq(a)
             fb == FlattenSeq(b)
  <2> HIDE DEF fa, fb
  <2>4. Len(fa \o fb) = Len(fa) + Len(fb) /\ Len(fa) \in Nat /\ Len(fb) \in Nat
    BY <2>3 DEF fa, fb
  <2>5. RowWidth(row) <= width /\ row # <<>> /\ a # <<>>
    <3> HIDE DEF a
    <3> QED
      BY <1>0, <1>1, <1>5 DEF RowFits
  <2>6. RowWidth(row) = Len(fa \o fb) + Len(row) - 1
    BY <2>2, <2>5 DEF RowWidth, fa, fb
  <2>7. RowWidth(a) = Len(fa) + n - 1
    <3> HIDE DEF a
    <3> QED
      BY <1>1, <2>5 DEF RowWidth, fa
  <2>8. RowWidth(a) <= width
    <3> DEFINE v == RowWidth(a)
               u == RowWidth(row)
               la == Len(fa)
               lb == Len(fb)
    <3>1. u = la + lb + Len(row) - 1 /\ v = la + n - 1 /\ u <= width /\ la \in Nat /\ lb \in Nat
      BY <2>4, <2>5, <2>6, <2>7
    <3> HIDE DEF v, u, la, lb
    <3>2. v <= width
      BY <1>0, <3>1
    <3> QED
      BY <3>2 DEF v
  <2> QED
    BY <2>8 DEF RowFits
<1> QED
  BY <1>3, <1>4, <1>5

LEMMA SoundShortened ==
  ASSUME NEW ledger, NEW rows, NEW width, Sound(ledger, rows, width),
         NEW n \in 0..Len(Last(rows)), n <= Len(ledger)
  PROVE  Sound(SubSeq(ledger, 1, Len(ledger) - n),
               WithOpen(rows, SubSeq(Last(rows), 1, Len(Last(rows)) - n)), width)
<1> DEFINE m == Len(Last(rows)) - n
           open == SubSeq(Last(rows), 1, m)
           l == SubSeq(ledger, 1, Len(ledger) - n)
           r == WithOpen(rows, open)
           f == FlattenSeq(Front(rows))
<1>0. /\ ledger \in Seq(Entries) /\ rows \in Rows /\ rows # <<>> /\ width \in Nat \ {0}
      /\ Len(ledger) \in Nat
  BY DEF Sound
<1>1. /\ Last(rows) \in Seq(Words) /\ Front(rows) \in Rows /\ Len(rows) \in Nat \ {0}
      /\ FlattenSeq(rows) = f \o Last(rows) /\ Len(Last(rows)) \in Nat
  BY <1>0, OpenRow
<1>2. m \in 0..Len(Last(rows))
  BY <1>1
<1> HIDE DEF m
<1>3. open \in Seq(Words) /\ Len(open) = m /\ \A i \in 1..m : open[i] = Last(rows)[i]
  BY <1>1, <1>2, Taken
<1>4. l \in Seq(Entries) /\ Len(l) = Len(ledger) - n /\ \A i \in 1..(Len(ledger) - n) : l[i] = ledger[i]
  <2>1. Len(ledger) - n \in 0..Len(ledger)
    BY <1>0, <1>1
  <2> QED
    BY <1>0, <2>1, Taken
<1>5. /\ r \in Rows /\ r # <<>> /\ Len(r) = Len(rows) /\ Last(r) = open
      /\ \A i \in 1..(Len(rows) - 1) : r[i] = rows[i]
      /\ FlattenSeq(r) = f \o open
  <2> HIDE DEF open
  <2> QED
    BY <1>0, <1>3, OpenRowIs
<1>6. f \in Seq(Words) /\ Len(f) \in Nat
  BY <1>1, FlattenRows
<1> HIDE DEF f, open, l, r
<1>7. Meets(FlattenSeq(r), l)
  <2> DEFINE g == f \o open
             h == f \o Last(rows)
  <2>1. /\ Len(g) = Len(f) + m /\ Len(h) = Len(g) + n
        /\ \A i \in 1..Len(g) : g[i] = h[i]
    <3>1. Len(g) = Len(f) + m /\ \A i \in 1..Len(g) : g[i] = IF i <= Len(f) THEN f[i] ELSE open[i - Len(f)]
      <4>1. Len(g) = Len(f) + Len(open) /\ \A i \in 1..(Len(f) + Len(open)) : g[i] = IF i <= Len(f) THEN f[i] ELSE open[i - Len(f)]
        BY <1>3, <1>6, ConcatProperties
      <4> HIDE DEF g
      <4> QED
        BY <1>3, <4>1
    <3>2. Len(h) = Len(f) + Len(Last(rows)) /\ \A i \in 1..Len(h) : h[i] = IF i <= Len(f) THEN f[i] ELSE Last(rows)[i - Len(f)]
      BY <1>1, <1>6, ConcatProperties
    <3> HIDE DEF g, h
    <3>3. Len(h) = Len(g) + n
      BY <1>1, <1>2, <1>6, <3>1, <3>2 DEF m
    <3>4. ASSUME NEW i \in 1..Len(g) PROVE g[i] = h[i]
      <4>1. i \in 1..Len(h)
        BY <1>6, <1>2, <3>1, <3>3
      <4>2. i <= Len(f) \/ i - Len(f) \in 1..m
        BY <1>6, <1>2, <3>1
      <4> QED
        BY <1>3, <3>1, <3>2, <4>1, <4>2
    <3> QED
      BY <3>1, <3>3, <3>4
  <2>2. h = FlattenSeq(rows) /\ g = FlattenSeq(r)
    BY <1>1, <1>5
  <2> HIDE DEF g, h
  <2>3. ASSUME NEW k \in Nat, k < Len(g), k < Len(l) PROVE g[Len(g) - k] = l[Len(l) - k].text
    <3>1. /\ k + n \in Nat /\ k + n < Len(h) /\ k + n < Len(ledger)
          /\ Len(g) - k \in 1..Len(g) /\ Len(h) - (k + n) = Len(g) - k
          /\ Len(l) - k \in 1..(Len(ledger) - n) /\ Len(ledger) - (k + n) = Len(l) - k
      BY <1>0, <1>1, <1>2, <1>4, <1>6, <2>1, <2>3
    <3>2. h[Len(h) - (k + n)] = ledger[Len(ledger) - (k + n)].text
      BY <2>2, <3>1 DEF Sound, Meets
    <3> QED
      BY <1>4, <2>1, <3>1, <3>2
  <2> QED
    BY <2>2, <2>3 DEF Meets
<1>8. Marked(l, Len(Last(r)))
  <2>1. ASSUME NEW i \in 1..Len(l) PROVE l[i].frozen <=> i <= Len(l) - m
    <3>1. i \in 1..Len(ledger) /\ Len(l) - m = Len(ledger) - Len(Last(rows)) /\ i \in 1..(Len(ledger) - n)
      BY <1>0, <1>1, <1>4 DEF m
    <3>2. ledger[i].frozen <=> i <= Len(ledger) - Len(Last(rows))
      BY <3>1 DEF Sound, Marked
    <3>3. l[i] = ledger[i]
      BY <1>4, <3>1
    <3> QED
      BY <3>1, <3>2, <3>3, Zenon
  <2> QED
    BY <1>3, <1>5, <2>1 DEF Marked
<1>9. ASSUME NEW i \in 1..Len(r) PROVE RowFits(r[i], width)
  <2>1. CASE i = Len(rows)
    <3>1. r[i] = open
      BY <1>5, <2>1 DEF Last
    <3>2. RowFits(Last(rows), width)
      BY <1>1 DEF Sound, Last
    <3>3. RowFits(open, width)
      BY <1>0, <1>1, <1>2, <3>2, ShorterFits DEF open
    <3> QED
      BY <3>1, <3>3
  <2>2. CASE i # Len(rows)
    <3>1. i \in 1..(Len(rows) - 1) /\ i \in 1..Len(rows)
      BY <1>1, <1>5, <2>2
    <3> QED
      BY <1>5, <3>1 DEF Sound
  <2> QED
    BY <2>1, <2>2
<1> QED
  BY <1>0, <1>4, <1>5, <1>7, <1>8, <1>9 DEF Sound, open, l, r, m

-----------------------------------------------------------------------------
(* The rows laid out anew.                                                 *)

\* Rows of that width that hold the texts of the first n entries.
Laid(rows, ledger, n, width) ==
  /\ rows \in Rows /\ rows # <<>>
  /\ Len(FlattenSeq(rows)) = n
  /\ \A i \in 1..n : FlattenSeq(rows)[i] = ledger[i].text
  /\ \A i \in 1..Len(rows) : RowFits(rows[i], width)

LEMMA LaidBelow ==
  ASSUME NEW rows, NEW ledger, NEW n, NEW width \in Nat, Laid(rows, ledger, n, width)
  PROVE  Laid(Append(rows, <<>>), ledger, n, width) /\ Last(Append(rows, <<>>)) = <<>>
<1> DEFINE r == Append(rows, <<>>)
<1>1. /\ r \in Rows /\ r # <<>> /\ Len(r) = Len(rows) + 1 /\ Last(r) = <<>>
      /\ \A i \in 1..Len(rows) : r[i] = rows[i]
      /\ FlattenSeq(r) = FlattenSeq(rows)
  BY NewRowIs DEF Laid
<1>2. Len(rows) \in Nat
  BY DEF Laid, Rows
<1> HIDE DEF r
<1>3. ASSUME NEW i \in 1..Len(r) PROVE RowFits(r[i], width)
  <2>1. CASE i = Len(rows) + 1
    <3>1. r[i] = <<>>
      BY <1>1, <2>1 DEF Last
    <3> QED
      BY <3>1, EmptyFits
  <2>2. CASE i # Len(rows) + 1
    <3>1. i \in 1..Len(rows)
      BY <1>1, <1>2, <2>2
    <3> QED
      BY <1>1, <3>1 DEF Laid
  <2> QED
    BY <2>1, <2>2
<1> QED
  BY <1>1, <1>3 DEF Laid, r

LEMMA LaidWord ==
  ASSUME NEW rows, NEW ledger \in Seq(Entries), NEW n \in Nat, NEW width \in Nat,
         Laid(rows, ledger, n, width), n + 1 <= Len(ledger),
         Last(rows) = <<>> \/ Fits(Last(rows), ledger[n + 1].text, width)
  PROVE  Laid(Append(Front(rows), Append(Last(rows), ledger[n + 1].text)), ledger, n + 1, width)
<1> DEFINE w == ledger[n + 1].text
           open == Append(Last(rows), w)
           r == WithOpen(rows, open)
           f == FlattenSeq(Front(rows))
<1>0. w \in Words
  <2>1. n + 1 \in 1..Len(ledger)
    OBVIOUS
  <2>2. ledger[n + 1] \in Entries
    BY <2>1
  <2> QED
    BY <2>2 DEF Entries
<1> HIDE DEF w
<1>1. /\ Last(rows) \in Seq(Words) /\ Front(rows) \in Rows /\ Len(rows) \in Nat \ {0}
      /\ FlattenSeq(rows) = f \o Last(rows)
  BY OpenRow DEF Laid
<1>2. open \in Seq(Words) /\ Len(open) = Len(Last(rows)) + 1
  BY <1>0, <1>1, AppendProperties
<1>3. /\ r \in Rows /\ r # <<>> /\ Len(r) = Len(rows) /\ Last(r) = open
      /\ \A i \in 1..(Len(rows) - 1) : r[i] = rows[i]
      /\ FlattenSeq(r) = f \o open
  <2> HIDE DEF open
  <2> QED
    BY <1>2, OpenRowIs DEF Laid
<1>4. FlattenSeq(r) = Append(FlattenSeq(rows), w)
  <2>1. f \in Seq(Words)
    BY <1>1, FlattenRows
  <2> HIDE DEF f
  <2>2. f \o Append(Last(rows), w) = Append(f \o Last(rows), w)
    <3> DEFINE l == Last(rows)
    <3>1. l \in Seq(Words)
      BY <1>1
    <3> HIDE DEF l
    <3>2. f \o Append(l, w) = Append(f \o l, w)
      BY <1>0, <2>1, <3>1, AppendJoin
    <3> QED
      BY <3>2 DEF l
  <2> QED
    BY <1>1, <1>3, <2>2
<1> DEFINE F == FlattenSeq(rows)
           G == FlattenSeq(r)
<1>5. /\ Len(G) = n + 1 /\ \A i \in 1..(n + 1) : G[i] = ledger[i].text
  <2>1. F \in Seq(Words) /\ Len(F) = n /\ G = Append(F, w)
    BY <1>4, FlattenRows DEF Laid
  <2> HIDE DEF F, G
  <2>2. Len(G) = n + 1 /\ G[n + 1] = w /\ \A i \in 1..n : G[i] = F[i]
    BY <1>0, <2>1, AppendProperties
  <2>3. \A i \in 1..n : F[i] = ledger[i].text
    BY DEF Laid, F
  <2>4. ASSUME NEW i \in 1..(n + 1) PROVE G[i] = ledger[i].text
    <3>1. i = n + 1 \/ i \in 1..n
      OBVIOUS
    <3> QED
      BY <2>2, <2>3, <3>1 DEF w
  <2> QED
    BY <2>2, <2>4
<1> HIDE DEF open, r, F, G
<1>6. ASSUME NEW i \in 1..Len(r) PROVE RowFits(r[i], width)
  <2>1. RowFits(open, width)
    <3>1. CASE Last(rows) = <<>>
      <4>1. Len(open) = 1
        BY <1>2, <3>1
      <4> QED
        BY <4>1 DEF RowFits
    <3>2. CASE Last(rows) # <<>>
      BY <3>2 DEF RowFits, Fits, open, w
    <3> QED
      BY <3>1, <3>2
  <2>2. CASE i = Len(rows)
    <3>1. r[i] = open
      BY <1>3, <2>2 DEF Last
    <3> QED
      BY <2>1, <3>1
  <2>3. CASE i # Len(rows)
    <3>1. i \in 1..(Len(rows) - 1) /\ i \in 1..Len(rows)
      BY <1>1, <1>3, <2>3
    <3> QED
      BY <1>3, <3>1 DEF Laid
  <2> QED
    BY <2>2, <2>3
<1>7. Laid(r, ledger, n + 1, width)
  BY <1>3, <1>5, <1>6 DEF Laid, G
<1> QED
  BY <1>7 DEF r, open, w, WithOpen

LEMMA LaidStep ==
  ASSUME NEW rows, NEW ledger \in Seq(Entries), NEW n \in Nat, NEW width \in Nat,
         Laid(rows, ledger, n, width), n + 1 <= Len(ledger)
  PROVE  Laid(RowsWith(rows, ledger[n + 1], width), ledger, n + 1, width)
<1> DEFINE e == ledger[n + 1]
           opened == IF Last(rows) = <<>> \/ Fits(Last(rows), e.text, width) THEN rows
                     ELSE Append(rows, <<>>)
           placed == Append(Front(opened), Append(Last(opened), e.text))
<1>1. Laid(opened, ledger, n, width) /\ (Last(opened) = <<>> \/ Fits(Last(opened), e.text, width))
  <2>1. CASE Last(rows) = <<>> \/ Fits(Last(rows), e.text, width)
    BY <2>1
  <2>2. CASE ~(Last(rows) = <<>> \/ Fits(Last(rows), e.text, width))
    <3>1. Laid(Append(rows, <<>>), ledger, n, width) /\ Last(Append(rows, <<>>)) = <<>>
      BY LaidBelow
    <3> QED
      BY <2>2, <3>1
  <2> QED
    BY <2>1, <2>2
<1> HIDE DEF opened
<1>2. Laid(placed, ledger, n + 1, width)
  BY <1>1, LaidWord
<1> HIDE DEF placed
<1>3. Laid(Append(placed, <<>>), ledger, n + 1, width)
  BY <1>2, LaidBelow
<1>4. RowsWith(rows, e, width) = IF e.last THEN Append(placed, <<>>) ELSE placed
  BY Zenon DEF RowsWith, placed, opened, e
<1>5. CASE e.last
  BY <1>3, <1>4, <1>5
<1>6. CASE ~e.last
  BY <1>2, <1>4, <1>6
<1> QED
  BY <1>5, <1>6 DEF e

LEMMA RebuiltLaid ==
  ASSUME NEW ledger \in Seq(Entries), NEW width \in Nat
  PROVE  Laid(RebuiltRows(ledger, width), ledger, Len(ledger), width)
<1> DEFINE n == Len(ledger)
<1>1. n \in Nat /\ DOMAIN ledger = 1..n
  OBVIOUS
<1> HIDE DEF n
<1>2. PICK h : IsRun(h, "row", width, << <<>> >>, ledger, n) /\ RebuiltRows(ledger, width) = h[n]
  BY <1>1, RebuiltRowsIs
<1> DEFINE S == {k \in 0..n : Laid(h[k], ledger, k, width)}
<1>3. 0 \in S
  <2> DEFINE b == << <<>> >>
  <2>1. h[0] = b
    BY <1>2 DEF IsRun
  <2>2. b \in Rows /\ b # <<>> /\ Len(b) = 1 /\ b[1] = <<>>
    BY DEF Rows
  <2>3. FlattenSeq(b) = <<>>
    <3>1. <<>> \in Rows /\ <<>> \in Seq(Words) /\ b = Append(<<>>, <<>>)
      BY DEF Rows
    <3>2. FlattenSeq(Append(<<>>, <<>>)) = FlattenSeq(<<>>) \o <<>>
      BY <3>1, FlattenAppend DEF Rows
    <3>3. FlattenSeq(<<>>) = <<>>
      BY DEF FlattenSeq
    <3> QED
      BY <3>1, <3>2, <3>3
  <2> HIDE DEF b
  <2>4. \A i \in 1..Len(b) : RowFits(b[i], width)
    BY <2>2, EmptyFits
  <2>5. Laid(b, ledger, 0, width)
    BY <2>2, <2>3, <2>4 DEF Laid
  <2> QED
    BY <1>1, <2>1, <2>5
<1>4. ASSUME NEW k \in 1..n, k - 1 \in S PROVE k \in S
  <2>1. /\ Laid(h[k - 1], ledger, k - 1, width) /\ k - 1 \in Nat /\ (k - 1) + 1 = k
        /\ k <= Len(ledger) /\ k \in 0..n
    BY <1>1, <1>4 DEF n
  <2>2. h[k] = RowsWith(h[k - 1], ledger[k], width)
    <3>1. "row" # "push" /\ "row" # "chunk"
      OBVIOUS
    <3>2. h[k] = Fold1("row", width, h[k - 1], ledger[k])
      BY <1>2 DEF IsRun
    <3> QED
      BY <3>1, <3>2, Zenon DEF Fold1
  <2>3. Laid(RowsWith(h[k - 1], ledger[(k - 1) + 1], width), ledger, (k - 1) + 1, width)
    BY <2>1, LaidStep
  <2>4. Laid(h[k], ledger, k, width)
    BY <2>1, <2>2, <2>3
  <2> QED
    BY <2>1, <2>4
<1>5. \A k \in 1..n : k - 1 \in S => k \in S
  BY <1>4
<1>6. n \in S
  <2> HIDE DEF S
  <2>1. \A k \in 0..n : k \in S
    BY <1>1, <1>3, <1>5, Upto, Zenon
  <2> QED
    BY <1>1, <2>1
<1> QED
  BY <1>2, <1>6 DEF n

LEMMA SoundRebuilt ==
  ASSUME NEW ledger \in Seq(Entries), NEW l \in Seq(Entries), NEW width \in Nat \ {0},
         SameWords(ledger, l),
         \A i \in 1..Len(ledger) :
           l[i].frozen <=> i <= Len(ledger) - Len(Last(RebuiltRows(ledger, width)))
  PROVE  Sound(l, RebuiltRows(ledger, width), width)
<1> DEFINE rows == RebuiltRows(ledger, width)
           F == FlattenSeq(rows)
<1>1. Laid(rows, ledger, Len(ledger), width)
  BY RebuiltLaid
<1> HIDE DEF rows
<1>2. Len(F) = Len(ledger) /\ \A i \in 1..Len(ledger) : F[i] = ledger[i].text
  BY <1>1 DEF Laid
<1>3. Len(ledger) \in Nat /\ Len(l) = Len(ledger) /\ \A i \in 1..Len(ledger) : l[i].text = ledger[i].text
  BY DEF SameWords
<1> HIDE DEF F
<1>4. Meets(F, l)
  <2>1. ASSUME NEW k \in Nat, k < Len(F), k < Len(l) PROVE F[Len(F) - k] = l[Len(l) - k].text
    <3>1. Len(ledger) - k \in 1..Len(ledger)
      BY <1>2, <1>3, <2>1
    <3> QED
      BY <1>2, <1>3, <3>1
  <2> QED
    BY <2>1 DEF Meets
<1>5. Marked(l, Len(Last(rows)))
  BY <1>3, Zenon DEF Marked, rows
<1> QED
  BY <1>1, <1>4, <1>5 DEF Sound, Laid, F, rows

-----------------------------------------------------------------------------
(* The steps of typesetting, on pages that are sound.                      *)

Pages == [ledger : Seq(Entries), start : Nat, rows : Rows, width : Nat \ {0},
          gliding : BOOLEAN, base : Nat, split : BOOLEAN]

\* Entries as they were but for frozen ones.
Touched(a, b) ==
  /\ Len(b) = Len(a)
  /\ \A i \in 1..Len(a) : /\ b[i].text = a[i].text /\ b[i].stale = a[i].stale
                          /\ a[i].frozen => b[i].frozen

Good(p) ==
  /\ p \in Pages /\ Sound(p.ledger, p.rows, p.width)
  /\ p.start <= Len(p.ledger) /\ p.base <= p.start

\* Nothing painted moves: closed rows stay, the open row only grows.
Extends(rows, new) ==
  /\ Len(rows) <= Len(new)
  /\ \A i \in 1..(Len(rows) - 1) : new[i] = rows[i]
  /\ Len(Last(rows)) <= Len(new[Len(rows)])
  /\ \A i \in 1..Len(Last(rows)) : new[Len(rows)][i] = Last(rows)[i]

LEMMA ExtendsSelf ==
  ASSUME NEW rows \in Rows, rows # <<>>
  PROVE  Extends(rows, rows)
<1>1. Last(rows) = rows[Len(rows)] /\ Last(rows) \in Seq(Words) /\ Len(rows) \in Nat
  BY OpenRow DEF Last
<1> QED
  BY <1>1 DEF Extends

LEMMA ExtendsAgain ==
  ASSUME NEW a \in Rows, NEW b \in Rows, NEW c \in Rows, a # <<>>, b # <<>>, c # <<>>,
         Extends(a, b), Extends(b, c)
  PROVE  Extends(a, c)
<1>1. /\ Len(a) \in Nat \ {0} /\ Len(b) \in Nat \ {0} /\ Len(c) \in Nat \ {0}
      /\ Last(a) = a[Len(a)] /\ Last(b) = b[Len(b)]
      /\ Last(a) \in Seq(Words) /\ Last(b) \in Seq(Words)
  BY OpenRow DEF Last
<1>2. /\ Len(a) <= Len(b) /\ \A i \in 1..(Len(a) - 1) : b[i] = a[i]
      /\ Len(Last(a)) <= Len(b[Len(a)]) /\ \A i \in 1..Len(Last(a)) : b[Len(a)][i] = Last(a)[i]
  BY DEF Extends
<1>3. /\ Len(b) <= Len(c) /\ \A i \in 1..(Len(b) - 1) : c[i] = b[i]
      /\ Len(Last(b)) <= Len(c[Len(b)]) /\ \A i \in 1..Len(Last(b)) : c[Len(b)][i] = Last(b)[i]
  BY DEF Extends
<1>4. CASE Len(a) = Len(b)
  <2>1. b[Len(a)] = Last(b)
    BY <1>1, <1>4
  <2>2. Len(c[Len(a)]) \in Nat /\ Len(Last(a)) \in Nat /\ Len(Last(b)) \in Nat
    <3>1. Len(a) \in 1..Len(c)
      BY <1>1, <1>2, <1>3
    <3>2. c[Len(a)] \in Seq(Words)
      BY <3>1 DEF Rows
    <3> QED
      BY <1>1, <3>2
  <2>3. Len(Last(a)) <= Len(c[Len(a)])
    BY <1>2, <1>3, <1>4, <2>1, <2>2
  <2>4. ASSUME NEW i \in 1..Len(Last(a)) PROVE c[Len(a)][i] = Last(a)[i]
    <3>1. i \in 1..Len(Last(b))
      BY <1>2, <2>1, <2>2
    <3> QED
      BY <1>2, <1>3, <1>4, <2>1, <3>1
  <2> QED
    BY <1>1, <1>2, <1>3, <1>4, <2>3, <2>4 DEF Extends
<1>5. CASE Len(a) # Len(b)
  <2>1. \A i \in 1..Len(a) : i \in 1..(Len(b) - 1)
    BY <1>1, <1>2, <1>5
  <2>2. c[Len(a)] = b[Len(a)] /\ \A i \in 1..(Len(a) - 1) : c[i] = a[i]
    <3>1. Len(a) \in 1..Len(a) /\ \A i \in 1..(Len(a) - 1) : i \in 1..Len(a)
      BY <1>1
    <3> QED
      BY <1>2, <1>3, <2>1, <3>1
  <2>3. Len(a) <= Len(c)
    BY <1>1, <1>2, <1>3
  <2> QED
    BY <1>2, <2>2, <2>3 DEF Extends
<1> QED
  BY <1>4, <1>5

\* The open row grows by a word, or a new one opens below.
LEMMA ExtendsWord ==
  ASSUME NEW rows \in Rows, rows # <<>>, NEW w \in Words
  PROVE  Extends(rows, WithOpen(rows, Append(Last(rows), w)))
<1> DEFINE open == Append(Last(rows), w)
           r == WithOpen(rows, open)
<1>1. Last(rows) \in Seq(Words) /\ Len(rows) \in Nat \ {0}
  BY OpenRow
<1>2. /\ open \in Seq(Words) /\ Len(open) = Len(Last(rows)) + 1 /\ Len(Last(rows)) \in Nat
      /\ \A i \in 1..Len(Last(rows)) : open[i] = Last(rows)[i]
  BY <1>1, AppendProperties
<1>3. /\ Len(r) = Len(rows) /\ Last(r) = open
      /\ \A i \in 1..(Len(rows) - 1) : r[i] = rows[i]
  <2> HIDE DEF open
  <2> QED
    BY <1>2, OpenRowIs
<1>4. r[Len(rows)] = open
  <2> HIDE DEF r, open
  <2> QED
    BY <1>3 DEF Last
<1> HIDE DEF r, open
<1>5. Extends(rows, r)
  BY <1>1, <1>2, <1>3, <1>4 DEF Extends
<1> QED
  BY <1>5 DEF r, open

LEMMA ExtendsBelow ==
  ASSUME NEW rows \in Rows, rows # <<>>
  PROVE  Extends(rows, Append(rows, <<>>))
<1> DEFINE r == Append(rows, <<>>)
<1>1. /\ Last(rows) = rows[Len(rows)] /\ Last(rows) \in Seq(Words) /\ Len(rows) \in Nat \ {0}
      /\ Len(r) = Len(rows) + 1 /\ \A i \in 1..Len(rows) : r[i] = rows[i]
  BY OpenRow, NewRowIs DEF Last
<1> HIDE DEF r
<1>2. r[Len(rows)] = Last(rows) /\ Len(Last(rows)) \in Nat
  BY <1>1
<1>3. Extends(rows, r)
  BY <1>1, <1>2 DEF Extends
<1> QED
  BY <1>3 DEF r

LEMMA PageParts ==
  ASSUME NEW p \in Pages
  PROVE  /\ p.ledger \in Seq(Entries) /\ p.start \in Nat /\ p.rows \in Rows
         /\ p.width \in Nat \ {0} /\ p.base \in Nat /\ p.split \in BOOLEAN
         /\ Len(p.ledger) \in Nat
BY DEF Pages

\* A word placed in a row that has room for it.
LEMMA PlaceIs ==
  ASSUME NEW p, Good(p), NEW w \in Words, Last(p.rows) = <<>> \/ Fits(Last(p.rows), w, p.width)
  PROVE  /\ Good(Place(p, w)) /\ Place(p, w).width = p.width
         /\ Extends(p.rows, Place(p, w).rows)
         /\ Place(p, w).start = p.start /\ Place(p, w).base = p.base
         /\ Place(p, w).split = p.split
         /\ Place(p, w).ledger = Append(p.ledger, Entry(w))
<1> DEFINE L == Append(p.ledger, Entry(w))
           R == WithOpen(p.rows, Append(Last(p.rows), w))
           r == Place(p, w)
<1>0. p \in Pages
  BY DEF Good
<1>1. Sound(L, R, p.width)
  BY SoundPlaced DEF Good
<1>2. L \in Seq(Entries) /\ R \in Rows
  BY <1>1 DEF Sound
<1>3. r = [p EXCEPT !.ledger = L, !.rows = R]
  BY <1>0 DEF Place, WithOpen, Pages
<1>4. Len(L) = Len(p.ledger) + 1
  BY <1>0, PageParts, EntryIs, AppendProperties
<1>5. Extends(p.rows, R)
  BY ExtendsWord DEF Good, Sound
<1> HIDE DEF L, R, r
<1>6. /\ r \in Pages /\ r.ledger = L /\ r.rows = R /\ r.width = p.width
      /\ r.start = p.start /\ r.base = p.base /\ r.split = p.split
  BY <1>0, <1>2, <1>3 DEF Pages
<1>7. p.start <= Len(L) /\ p.base <= p.start
  BY <1>0, <1>4, PageParts DEF Good
<1>8. Good(r)
  BY <1>1, <1>6, <1>7 DEF Good
<1> QED
  BY <1>5, <1>6, <1>8 DEF r, L

\* A row closed.
LEMMA FreezeIs ==
  ASSUME NEW p, Good(p), NEW a \in BOOLEAN
  PROVE  /\ Good(Freeze(p, a)) /\ Freeze(p, a).width = p.width
         /\ a => Extends(p.rows, Freeze(p, a).rows)
         /\ Freeze(p, a).start = p.start /\ Freeze(p, a).base = p.base
         /\ Freeze(p, a).split = p.split
         /\ Touched(p.ledger, Freeze(p, a).ledger)
         /\ Last(Freeze(p, a).rows) = <<>>
<1> DEFINE r == Freeze(p, a)
<1>0. /\ p \in Pages /\ Sound(p.ledger, p.rows, p.width)
      /\ p.rows \in Rows /\ p.rows # <<>>
      /\ p.start <= Len(p.ledger) /\ p.base <= p.start /\ Len(p.ledger) \in Nat
  BY PageParts DEF Good, Sound
<1>1. CASE Last(p.rows) = <<>>
  <2>1. r = p
    BY <1>1 DEF Freeze
  <2>2. Touched(p.ledger, p.ledger)
    BY DEF Touched
  <2>3. Extends(p.rows, p.rows)
    BY <1>0, ExtendsSelf
  <2> QED
    BY <1>1, <2>1, <2>2, <2>3
<1>2. CASE Last(p.rows) # <<>>
  <2> DEFINE first == Len(p.ledger) - Len(Last(p.rows)) + 1
             L == FrozenFrom(p.ledger, first)
             B == Append(p.rows, <<>>)
             R == IF a THEN B ELSE TrimRows(B)
  <2>1. r = [p EXCEPT !.ledger = L, !.rows = R, !.gliding = a]
    BY <1>2, Zenon DEF Freeze
  <2>2. Sound(L, B, p.width)
    BY <1>0, SoundClosed
  <2> HIDE DEF L
  <2>3. Sound(L, R, p.width)
    BY <2>2, SoundTrimmed
  <2>4. first \in Int
    <3>1. Last(p.rows) \in Seq(Words)
      BY <1>0, OpenRow
    <3> QED
      BY <1>0, <3>1
  <2>5. Touched(p.ledger, L)
    <3>1. Len(L) = Len(p.ledger) /\ p.ledger \in Seq(Entries)
      BY <1>0, <2>4, FrozenFromIs, PageParts DEF L
    <3>2. ASSUME NEW i \in 1..Len(p.ledger)
          PROVE  L[i].text = p.ledger[i].text /\ L[i].stale = p.ledger[i].stale
                 /\ (L[i].frozen <=> (p.ledger[i].frozen \/ i >= first))
      BY <2>4, <3>1, FrozenFromIs DEF L
    <3> QED
      BY <3>1, <3>2 DEF Touched
  <2>6. a => Extends(p.rows, R)
    BY <1>0, ExtendsBelow
  <2>7. Last(R) = <<>>
    <3>1. B \in Rows /\ B # <<>> /\ Last(B) = <<>>
      BY <1>0, NewRowIs
    <3> HIDE DEF B
    <3>2. Last(TrimRows(B)) = <<>>
      <4>1. PICK j \in 1..Len(B) : Last(TrimRows(B)) = Last(B)
        BY <3>1, TrimRowsIs
      <4> QED
        BY <3>1, <4>1
    <3> QED
      BY <3>1, <3>2
  <2>8. L \in Seq(Entries) /\ R \in Rows
    BY <2>3 DEF Sound
  <2> HIDE DEF R, r, first
  <2>9. /\ r \in Pages /\ r.ledger = L /\ r.rows = R /\ r.width = p.width
        /\ r.start = p.start /\ r.base = p.base /\ r.split = p.split
    BY <1>0, <2>1, <2>8 DEF Pages
  <2>10. Good(r)
    BY <1>0, <2>3, <2>5, <2>9 DEF Good, Touched
  <2> QED
    BY <2>5, <2>6, <2>7, <2>9, <2>10 DEF r
<1> QED
  BY <1>1, <1>2

\* A place or a length after d words have gone.
Less(x, d) == IF x >= d THEN x - d ELSE 0

\* The ledger cut to its bound.
LEMMA TrimLedgerIs ==
  ASSUME NEW p, Good(p)
  PROVE  LET r == TrimLedger(p)
         IN  /\ Good(r) /\ r.rows = p.rows /\ r.width = p.width /\ r.split = p.split
             /\ Len(r.ledger) <= LedgerCap
             /\ \E d \in 0..Len(p.ledger) :
                  /\ r.ledger = SubSeq(p.ledger, d + 1, Len(p.ledger))
                  /\ r.start = Less(p.start, d) /\ r.base = Less(p.base, d)
                  /\ Len(r.ledger) = Len(p.ledger) - d
                  /\ d = 0 \/ Len(p.ledger) - d = LedgerCap
<1> DEFINE r == TrimLedger(p)
           n == Len(p.ledger)
           d == Max({n - LedgerCap, 0})
           L == SubSeq(p.ledger, d + 1, n)
<1>0. /\ p \in Pages /\ Sound(p.ledger, p.rows, p.width)
      /\ p.start <= n /\ p.base <= p.start /\ n \in Nat /\ LedgerCap \in Nat
      /\ p.start \in Nat /\ p.base \in Nat /\ p.ledger \in Seq(Entries)
  BY PageParts, ViewerAssumption DEF Good
<1> HIDE DEF n
<1>1. d = (IF n - LedgerCap >= 0 THEN n - LedgerCap ELSE 0)
  BY <1>0, MaxTwo
<1> HIDE DEF d
<1>2. d \in 0..n /\ n - d <= LedgerCap /\ (d = 0 \/ n - d = LedgerCap)
  BY <1>0, <1>1
<1>3. Max({p.start - d, 0}) = Less(p.start, d) /\ Max({p.base - d, 0}) = Less(p.base, d)
  <2>1. p.start - d \in Int /\ p.base - d \in Int /\ 0 \in Int
    BY <1>0, <1>2
  <2> DEFINE x == p.start - d
             y == p.base - d
  <2>2. (x >= 0 <=> p.start >= d) /\ (y >= 0 <=> p.base >= d)
    BY <1>0, <1>2
  <2> HIDE DEF x, y
  <2>3. Max({x, 0}) = (IF x >= 0 THEN x ELSE 0) /\ Max({y, 0}) = (IF y >= 0 THEN y ELSE 0)
    BY <2>1, MaxTwo DEF x, y
  <2> QED
    BY <2>2, <2>3 DEF Less, x, y
<1>4. r = [p EXCEPT !.ledger = L, !.start = Less(p.start, d), !.base = Less(p.base, d)]
  <2>1. r = [p EXCEPT !.ledger = SubSeq(@, d + 1, Len(@)), !.start = Max({@ - d, 0}), !.base = Max({@ - d, 0})]
    BY Zenon DEF TrimLedger, d, n
  <2>2. r = [p EXCEPT !.ledger = L, !.start = Max({p.start - d, 0}), !.base = Max({p.base - d, 0})]
    <3> HIDE DEF r
    <3> QED
      BY <2>1, Zenon DEF n
  <2> HIDE DEF r, L
  <2> QED
    BY <1>3, <2>2, Zenon
<1>5. L \in Seq(Entries) /\ Len(L) = n - d
  BY <1>0, <1>2, Dropped DEF n
<1>6. Sound(L, p.rows, p.width)
  BY <1>0, <1>2, SoundDropped DEF n
<1>7. /\ Less(p.start, d) \in Nat /\ Less(p.base, d) \in Nat
      /\ Less(p.start, d) <= n - d /\ Less(p.base, d) <= Less(p.start, d)
  BY <1>0, <1>2 DEF Less
<1> HIDE DEF L, r
<1>8. /\ r \in Pages /\ r.ledger = L /\ r.rows = p.rows /\ r.width = p.width
      /\ r.start = Less(p.start, d) /\ r.base = Less(p.base, d) /\ r.split = p.split
  BY <1>0, <1>4, <1>5, <1>7 DEF Pages
<1>9. Good(r)
  BY <1>5, <1>6, <1>7, <1>8 DEF Good
<1>10. \E e \in 0..Len(p.ledger) :
         /\ r.ledger = SubSeq(p.ledger, e + 1, Len(p.ledger))
         /\ r.start = Less(p.start, e) /\ r.base = Less(p.base, e)
         /\ Len(r.ledger) = Len(p.ledger) - e
         /\ e = 0 \/ Len(p.ledger) - e = LedgerCap
  <2>1. d \in 0..Len(p.ledger)
    BY <1>2 DEF n
  <2>2. /\ r.ledger = SubSeq(p.ledger, d + 1, Len(p.ledger))
        /\ r.start = Less(p.start, d) /\ r.base = Less(p.base, d)
        /\ Len(r.ledger) = Len(p.ledger) - d
        /\ d = 0 \/ Len(p.ledger) - d = LedgerCap
    BY <1>2, <1>5, <1>8 DEF n, L
  <2> QED
    BY <2>1, <2>2
<1> QED
  BY <1>2, <1>5, <1>8, <1>9, <1>10 DEF r

\* Nothing hides a word, a split stays recorded, the page stays sound.
Typeset(p, r, a) ==
  /\ Good(r) /\ r.width = p.width
  /\ a => Extends(p.rows, r.rows)
  /\ p.split => r.split
  /\ p.start = p.base => r.start = r.base

LEMMA TypesetSelf ==
  ASSUME NEW p, Good(p), NEW a
  PROVE  Typeset(p, p, a)
<1>1. Extends(p.rows, p.rows)
  BY ExtendsSelf DEF Good, Sound
<1> QED
  BY <1>1 DEF Typeset

LEMMA TypesetAgain ==
  ASSUME NEW p, NEW q, NEW r, NEW a, Good(p), Typeset(p, q, a), Typeset(q, r, a)
  PROVE  Typeset(p, r, a)
<1>1. a => Extends(p.rows, r.rows)
  BY ExtendsAgain DEF Typeset, Good, Sound
<1> QED
  BY <1>1 DEF Typeset

LEMMA MinTwo ==
  ASSUME NEW a \in Int, NEW b \in Int
  PROVE  Min({a, b}) = IF a <= b THEN a ELSE b
<1> DEFINE x == IF a <= b THEN a ELSE b
<1>1. x \in {a, b} /\ \A y \in {a, b} : x <= y
  OBVIOUS
<1>2. \A z \in {a, b} : (\A y \in {a, b} : z <= y) => z = x
  OBVIOUS
<1> HIDE DEF x
<1>3. Min({a, b}) = x
  BY <1>1, <1>2, Zenon DEF Min
<1> QED
  BY <1>3 DEF x

\* hardSplit's chunks: so many, and words each.
LEMMA ChunksAre ==
  ASSUME NEW w \in Words, NEW width \in Nat \ {0}
  PROVE  \E n \in Nat : /\ DOMAIN Chunks(w, width) = 1..n
                        /\ \A i \in 1..n : Chunks(w, width)[i] \in Words
<1> DEFINE n == (Len(w) + width - 1) \div width
           chunk(i) == SubSeq(w, (i - 1) * width + 1, Min({i * width, Len(w)}))
<1>0. Len(w) \in Nat /\ \A j \in 1..Len(w) : w[j] \in Glyphs
  BY DEF Words
<1>1. n \in Nat
  BY <1>0
<1>2. Chunks(w, width) = [i \in 1..n |-> chunk(i)]
  BY DEF Chunks
<1> HIDE DEF n
<1>3. ASSUME NEW i \in 1..n PROVE chunk(i) \in Words
  <2>1. i - 1 \in Nat /\ i \in Nat
    BY <1>1
  <2>2. (i - 1) * width \in Nat /\ i * width \in Nat
    BY <2>1
  <2> DEFINE x == (i - 1) * width
             y == i * width
             m == Min({y, Len(w)})
  <2> HIDE DEF x, y
  <2>3. x \in Nat /\ y \in Nat
    BY <2>2 DEF x, y
  <2>4. m = IF y <= Len(w) THEN y ELSE Len(w)
    BY <1>0, <2>3, MinTwo
  <2> HIDE DEF m
  <2>5. m \in Nat /\ m <= Len(w)
    BY <1>0, <2>3, <2>4
  <2>6. \A j \in (x + 1)..m : w[j] \in Glyphs
    BY <1>0, <2>3, <2>5
  <2>7. SubSeq(w, x + 1, m) \in Seq(Glyphs)
    BY <2>3, <2>5, <2>6, SubSeqProperties
  <2> QED
    BY <2>7 DEF x, y, m, Words
<1> HIDE DEF chunk
<1>4. DOMAIN Chunks(w, width) = 1..n /\ \A i \in 1..n : Chunks(w, width)[i] \in Words
  BY <1>2, <1>3
<1> QED
  BY <1>1, <1>4

LEMMA ChunkPlaced ==
  ASSUME NEW p, Good(p), NEW a \in BOOLEAN, NEW w \in Words
  PROVE  Typeset(p, Place(Freeze(p, a), w), a)
<1> DEFINE q == Freeze(p, a)
<1>1. Good(q) /\ Typeset(p, q, a) /\ Last(q.rows) = <<>>
  BY FreezeIs DEF Typeset
<1> HIDE DEF q
<1>2. Typeset(q, Place(q, w), a)
  BY <1>1, PlaceIs DEF Typeset
<1> QED
  BY <1>1, <1>2, TypesetAgain DEF q

LEMMA HardSplitTypeset ==
  ASSUME NEW p, Good(p), NEW a \in BOOLEAN, NEW w \in Words
  PROVE  Typeset(p, HardSplit(p, w, a), a) /\ HardSplit(p, w, a).split
<1>0. p.width \in Nat \ {0} /\ p \in Pages
  BY PageParts DEF Good
<1>1. PICK n \in Nat : /\ DOMAIN Chunks(w, p.width) = 1..n
                       /\ \A i \in 1..n : Chunks(w, p.width)[i] \in Words
  BY <1>0, ChunksAre
<1>2. PICK h : /\ IsRun(h, "chunk", a, p, Chunks(w, p.width), n)
               /\ HardSplit(p, w, a) = [h[n] EXCEPT !.split = TRUE]
  BY <1>1, HardSplitIs
<1> DEFINE c == Chunks(w, p.width)
           S == {k \in 0..n : Typeset(p, h[k], a)}
<1> HIDE DEF c
<1>3. 0 \in S
  <2>1. h[0] = p
    BY <1>2 DEF IsRun
  <2>2. Typeset(p, p, a)
    BY TypesetSelf
  <2> QED
    BY <2>1, <2>2
<1>4. ASSUME NEW k \in 1..n, k - 1 \in S PROVE k \in S
  <2>1. Typeset(p, h[k - 1], a) /\ Good(h[k - 1]) /\ k \in 0..n
    BY <1>4 DEF Typeset
  <2>2. h[k] = Place(Freeze(h[k - 1], a), c[k])
    <3>1. "chunk" # "push"
      OBVIOUS
    <3>2. h[k] = Fold1("chunk", a, h[k - 1], c[k])
      BY <1>2 DEF IsRun, c
    <3> QED
      BY <3>1, <3>2, Zenon DEF Fold1
  <2>3. c[k] \in Words
    BY <1>1 DEF c
  <2>4. Typeset(h[k - 1], h[k], a)
    BY <2>1, <2>2, <2>3, ChunkPlaced
  <2>5. Typeset(p, h[k], a)
    BY <2>1, <2>4, TypesetAgain
  <2> QED
    BY <2>1, <2>5
<1>5. \A k \in 1..n : k - 1 \in S => k \in S
  BY <1>4
<1>6. n \in S
  <2> HIDE DEF S
  <2>1. \A k \in 0..n : k \in S
    BY <1>3, <1>5, Upto, Zenon
  <2> QED
    BY <2>1
<1> DEFINE q == h[n]
           r == [q EXCEPT !.split = TRUE]
<1>7. Typeset(p, q, a) /\ Good(q) /\ q \in Pages
  BY <1>6 DEF Typeset, Good
<1> HIDE DEF q
<1>8. r \in Pages /\ r.ledger = q.ledger /\ r.rows = q.rows /\ r.width = q.width
      /\ r.start = q.start /\ r.base = q.base
  BY <1>7 DEF Pages
<1>9. r.split
  BY <1>7, Zenon DEF Pages
<1> HIDE DEF r
<1>10. Good(r)
  BY <1>7, <1>8 DEF Good
<1>11. Typeset(p, r, a) /\ r.split
  BY <1>7, <1>8, <1>9, <1>10 DEF Typeset
<1> QED
  BY <1>2, <1>11 DEF r, q

\* The word w is the new end of the ledger; d words have gone at its start.
Added(p, r, w) ==
  \E d \in Nat :
    /\ Len(r.ledger) = Len(p.ledger) + 1 - d
    /\ r.start = Less(p.start, d) /\ r.base = Less(p.base, d)
    /\ d = 0 \/ Len(r.ledger) = LedgerCap
    /\ \A i \in 1..Len(r.ledger) :
         IF i + d <= Len(p.ledger)
         THEN /\ r.ledger[i].text = p.ledger[i + d].text
              /\ r.ledger[i].stale = p.ledger[i + d].stale
              /\ p.ledger[i + d].frozen => r.ledger[i].frozen
         ELSE r.ledger[i].text = w /\ ~r.ledger[i].stale

\* A word placed whole, in the open row or in a new one.
LEMMA PlacedWhole ==
  ASSUME NEW p, Good(p), NEW q, Good(q), NEW w \in Words, Touched(p.ledger, q.ledger),
         q.start = p.start, q.base = p.base,
         Last(q.rows) = <<>> \/ Fits(Last(q.rows), w, q.width)
  PROVE  Added(p, TrimLedger(Place(q, w)), w)
<1> DEFINE s == Place(q, w)
           r == TrimLedger(s)
<1>0. Len(p.ledger) \in Nat /\ q.ledger \in Seq(Entries) /\ Len(q.ledger) \in Nat
  BY PageParts DEF Good
<1>1. Good(s) /\ s.start = p.start /\ s.base = p.base /\ s.ledger = Append(q.ledger, Entry(w))
  BY PlaceIs
<1> HIDE DEF s
<1>2. PICK d \in 0..Len(s.ledger) :
        /\ r.ledger = SubSeq(s.ledger, d + 1, Len(s.ledger))
        /\ r.start = Less(s.start, d) /\ r.base = Less(s.base, d)
        /\ Len(r.ledger) = Len(s.ledger) - d
        /\ d = 0 \/ Len(s.ledger) - d = LedgerCap
  BY <1>1, TrimLedgerIs
<1> HIDE DEF r
<1>3. /\ s.ledger \in Seq(Entries) /\ Len(s.ledger) = Len(p.ledger) + 1
      /\ \A i \in 1..Len(p.ledger) : s.ledger[i] = q.ledger[i]
      /\ s.ledger[Len(p.ledger) + 1] = Entry(w)
  <2>1. Entry(w) \in Entries
    BY EntryIs
  <2> QED
    BY <1>0, <1>1, <2>1, AppendProperties DEF Touched
<1>4. ASSUME NEW i \in 1..Len(r.ledger)
      PROVE  IF i + d <= Len(p.ledger)
             THEN /\ r.ledger[i].text = p.ledger[i + d].text
                  /\ r.ledger[i].stale = p.ledger[i + d].stale
                  /\ p.ledger[i + d].frozen => r.ledger[i].frozen
             ELSE r.ledger[i].text = w /\ ~r.ledger[i].stale
  <2>1. i \in 1..(Len(s.ledger) - d)
    BY <1>2
  <2>2. r.ledger[i] = s.ledger[i + d]
    BY <1>2, <1>3, <2>1, Dropped
  <2>3. CASE i + d <= Len(p.ledger)
    <3>1. i + d \in 1..Len(p.ledger)
      BY <1>0, <1>3, <2>1, <2>3
    <3>2. r.ledger[i] = q.ledger[i + d]
      BY <1>3, <2>2, <3>1
    <3>3. /\ q.ledger[i + d].text = p.ledger[i + d].text /\ q.ledger[i + d].stale = p.ledger[i + d].stale
          /\ p.ledger[i + d].frozen => q.ledger[i + d].frozen
      BY <3>1 DEF Touched
    <3> QED
      BY <2>3, <3>2, <3>3, Zenon
  <2>4. CASE ~(i + d <= Len(p.ledger))
    <3>1. i + d = Len(p.ledger) + 1
      <4> DEFINE n == Len(p.ledger)
      <4>1. n \in Nat /\ d \in 0..(n + 1) /\ i \in 1..(n + 1 - d) /\ ~(i + d <= n)
        BY <1>0, <1>3, <2>1, <2>4
      <4> HIDE DEF n
      <4>2. i + d = n + 1
        BY <4>1
      <4> QED
        BY <4>2 DEF n
    <3>2. r.ledger[i] = Entry(w)
      BY <1>3, <2>2, <3>1
    <3> QED
      BY <2>4, <3>2, EntryIs
  <2> QED
    BY <2>3, <2>4
<1>5. /\ d \in Nat /\ Len(r.ledger) = Len(p.ledger) + 1 - d
      /\ r.start = Less(p.start, d) /\ r.base = Less(p.base, d)
      /\ d = 0 \/ Len(r.ledger) = LedgerCap
  BY <1>0, <1>1, <1>2, <1>3
<1>6. Added(p, r, w)
  BY <1>4, <1>5, Zenon DEF Added
<1> QED
  BY <1>6 DEF r, s

LEMMA Trimmed ==
  ASSUME NEW p, Good(p), NEW a
  PROVE  Typeset(p, TrimLedger(p), a) /\ Len(TrimLedger(p).ledger) <= LedgerCap
<1>1. /\ Good(TrimLedger(p)) /\ TrimLedger(p).rows = p.rows /\ TrimLedger(p).width = p.width
      /\ TrimLedger(p).split = p.split /\ Len(TrimLedger(p).ledger) <= LedgerCap
  BY TrimLedgerIs
<1>2. Extends(p.rows, p.rows)
  BY ExtendsSelf DEF Good, Sound
<1>3. PICK d \in 0..Len(p.ledger) :
        TrimLedger(p).start = Less(p.start, d) /\ TrimLedger(p).base = Less(p.base, d)
  BY TrimLedgerIs
<1> QED
  BY <1>1, <1>2, <1>3 DEF Typeset

LEMMA PushWordIs ==
  ASSUME NEW p, Good(p), NEW a \in BOOLEAN, NEW w \in Words
  PROVE  /\ Typeset(p, PushWord(p, w, a), a)
         /\ Len(PushWord(p, w, a).ledger) <= LedgerCap
         /\ PushWord(p, w, a).split \/ Added(p, PushWord(p, w, a), w)
<1> DEFINE r == PushWord(p, w, a)
           q == Freeze(p, a)
<1>1. CASE Fits(Last(p.rows), w, p.width)
  <2>1. r = TrimLedger(Place(p, w))
    BY <1>1 DEF PushWord
  <2>2. Typeset(p, Place(p, w), a)
    BY <1>1, PlaceIs DEF Typeset
  <2>3. Typeset(Place(p, w), r, a) /\ Len(r.ledger) <= LedgerCap
    BY <2>1, <2>2, Trimmed DEF Typeset
  <2>4. Typeset(p, r, a)
    BY <2>2, <2>3, TypesetAgain
  <2>5. Touched(p.ledger, p.ledger)
    BY DEF Touched
  <2>6. Added(p, TrimLedger(Place(p, w)), w)
    BY <1>1, <2>5, PlacedWhole
  <2> QED
    BY <2>1, <2>3, <2>4, <2>6
<1>2. CASE ~Fits(Last(p.rows), w, p.width) /\ Len(w) <= p.width
  <2>1. r = TrimLedger(Place(q, w))
    BY <1>2 DEF PushWord
  <2>2. /\ Good(q) /\ Typeset(p, q, a) /\ Last(q.rows) = <<>> /\ Touched(p.ledger, q.ledger)
        /\ q.start = p.start /\ q.base = p.base
    BY FreezeIs DEF Typeset
  <2> HIDE DEF q, r
  <2>3. Typeset(q, Place(q, w), a)
    BY <2>2, PlaceIs DEF Typeset
  <2>4. Typeset(p, Place(q, w), a)
    BY <2>2, <2>3, TypesetAgain
  <2>5. Typeset(Place(q, w), r, a) /\ Len(r.ledger) <= LedgerCap
    BY <2>1, <2>3, Trimmed DEF Typeset
  <2>6. Typeset(p, r, a)
    BY <2>4, <2>5, TypesetAgain
  <2>7. Added(p, r, w)
    BY <2>1, <2>2, PlacedWhole
  <2> QED
    BY <2>5, <2>6, <2>7 DEF r
<1>3. CASE ~Fits(Last(p.rows), w, p.width) /\ ~(Len(w) <= p.width)
  <2> DEFINE s == HardSplit(q, w, a)
  <2>1. r = TrimLedger(s)
    BY <1>3 DEF PushWord
  <2>2. Good(q) /\ Typeset(p, q, a)
    BY FreezeIs DEF Typeset
  <2> HIDE DEF q, r
  <2>3. Typeset(q, s, a) /\ s.split
    BY <2>2, HardSplitTypeset
  <2> HIDE DEF s
  <2>4. Typeset(p, s, a)
    BY <2>2, <2>3, TypesetAgain
  <2>5. Typeset(s, r, a) /\ Len(r.ledger) <= LedgerCap
    BY <2>1, <2>3, Trimmed DEF Typeset
  <2>6. Typeset(p, r, a)
    BY <2>4, <2>5, TypesetAgain
  <2>7. r.split
    BY <2>3, <2>5 DEF Typeset
  <2> QED
    BY <2>5, <2>6, <2>7 DEF r
<1> QED
  BY <1>1, <1>2, <1>3

-----------------------------------------------------------------------------
(* The utterance on the page: its words are told of the text.              *)

\* The utterance's j-th word is the text's.
Agrees(p, text, j) == j <= Len(text) /\ p.ledger[p.base + j].text = text[j]

ToldAt(p, text, R, i) ==
  /\ ~p.ledger[p.base + i].stale => Agrees(p, text, i)
  /\ p.ledger[p.base + i].stale => R \/ \E j \in 1..i : ~Agrees(p, text, j)
  /\ p.ledger[p.base + i].stale /\ ~p.ledger[p.base + i].frozen => R

\* The utterance has m words on the page; R excuses stale words that the
\* text does not contradict.
Told(p, text, R, m) ==
  /\ Len(p.ledger) = p.base + m
  /\ \A i \in 1..m : ToldAt(p, text, R, i)

\* Words that stay where they are, frozen perhaps, are told as before.
LEMMA ToldAtKept ==
  ASSUME NEW p, NEW r, NEW text, NEW R, NEW i \in Nat, ToldAt(p, text, R, i),
         \A j \in 1..i : r.ledger[r.base + j].text = p.ledger[p.base + j].text,
         r.ledger[r.base + i].stale = p.ledger[p.base + i].stale,
         p.ledger[p.base + i].frozen => r.ledger[r.base + i].frozen, i # 0
  PROVE  ToldAt(r, text, R, i)
<1>1. \A j \in 1..i : Agrees(r, text, j) <=> Agrees(p, text, j)
  BY DEF Agrees
<1>2. i \in 1..i
  OBVIOUS
<1> HIDE DEF Agrees
<1> QED
  BY <1>1, <1>2, Zenon DEF ToldAt

LEMMA ToldPush ==
  ASSUME NEW p, Good(p), NEW r, Good(r), NEW text \in Seq(Words), NEW R, NEW m \in Nat,
         Told(p, text, R, m), m + 1 <= Len(text), Len(text) <= LedgerCap,
         Added(p, r, text[m + 1])
  PROVE  Told(r, text, R, m + 1)
<1>0. /\ LedgerCap \in Nat /\ p.base \in Nat /\ p.start \in Nat /\ Len(p.ledger) \in Nat /\ Len(r.ledger) \in Nat
      /\ Len(text) \in Nat
  BY PageParts, ViewerAssumption DEF Good
<1>1. PICK d \in Nat :
        /\ Len(r.ledger) = Len(p.ledger) + 1 - d
        /\ r.start = Less(p.start, d) /\ r.base = Less(p.base, d)
        /\ d = 0 \/ Len(r.ledger) = LedgerCap
        /\ \A i \in 1..Len(r.ledger) :
             IF i + d <= Len(p.ledger)
             THEN /\ r.ledger[i].text = p.ledger[i + d].text
                  /\ r.ledger[i].stale = p.ledger[i + d].stale
                  /\ p.ledger[i + d].frozen => r.ledger[i].frozen
             ELSE r.ledger[i].text = text[m + 1] /\ ~r.ledger[i].stale
  BY Zenon DEF Added
<1>2. Len(p.ledger) = p.base + m
  BY DEF Told
<1> DEFINE A == Len(p.ledger)
           B == Len(r.ledger)
           b == p.base
           c == r.base
<1>11. /\ A \in Nat /\ B \in Nat /\ b \in Nat /\ B = A + 1 - d /\ A = b + m
       /\ d = 0 \/ B = LedgerCap
       /\ m + 1 <= Len(text) /\ Len(text) <= LedgerCap /\ LedgerCap \in Nat /\ Len(text) \in Nat
  BY <1>0, <1>1, <1>2
<1>12. c = Less(b, d)
  BY <1>1
<1> HIDE DEF A, B, b, c
<1>3. d <= b
  BY <1>11
<1>4. c = b - d /\ B = c + (m + 1) /\ c \in Nat
  BY <1>11, <1>12, <1>3 DEF Less
<1>5. ASSUME NEW i \in 1..m
      PROVE  /\ r.ledger[r.base + i].text = p.ledger[p.base + i].text
             /\ r.ledger[r.base + i].stale = p.ledger[p.base + i].stale
             /\ p.ledger[p.base + i].frozen => r.ledger[r.base + i].frozen
  <2>1. /\ r.base + i \in 1..Len(r.ledger) /\ (r.base + i) + d = p.base + i
        /\ (r.base + i) + d <= Len(p.ledger)
    <3>1. c + i \in 1..B /\ (c + i) + d = b + i /\ (c + i) + d <= A
      BY <1>11, <1>3, <1>4
    <3> QED
      BY <3>1 DEF A, B, b, c
  <2> QED
    BY <1>1, <2>1, Zenon
<1>6. ASSUME NEW i \in 1..m PROVE ToldAt(r, text, R, i)
  <2>1. ToldAt(p, text, R, i)
    BY DEF Told
  <2>2. i \in Nat /\ i # 0 /\ i \in 1..i /\ \A j \in 1..i : j \in 1..m
    OBVIOUS
  <2>3. \A j \in 1..i : r.ledger[r.base + j].text = p.ledger[p.base + j].text
    BY <1>5, <2>2
  <2>4. /\ r.ledger[r.base + i].stale = p.ledger[p.base + i].stale
        /\ p.ledger[p.base + i].frozen => r.ledger[r.base + i].frozen
    BY <1>5
  <2> QED
    BY <2>1, <2>2, <2>3, <2>4, ToldAtKept, Zenon
<1>7. ToldAt(r, text, R, m + 1)
  <2>1. /\ r.base + (m + 1) \in 1..Len(r.ledger) /\ ~((r.base + (m + 1)) + d <= Len(p.ledger))
    <3>1. c + (m + 1) \in 1..B /\ ~((c + (m + 1)) + d <= A)
      BY <1>11, <1>3, <1>4
    <3> QED
      BY <3>1 DEF A, B, b, c
  <2>2. r.ledger[r.base + (m + 1)].text = text[m + 1] /\ ~r.ledger[r.base + (m + 1)].stale
    BY <1>1, <2>1, Zenon
  <2>3. Agrees(r, text, m + 1)
    BY <2>2 DEF Agrees
  <2> QED
    BY <2>2, <2>3, Zenon DEF ToldAt
<1>8. \A i \in 1..(m + 1) : i \in 1..m \/ i = m + 1
  OBVIOUS
<1>9. Told(r, text, R, m + 1)
  <2>1. Len(r.ledger) = r.base + (m + 1)
    BY <1>4 DEF B, c
  <2> QED
    BY <1>6, <1>7, <1>8, <2>1, Zenon DEF Told
<1> QED
  BY <1>9

\* The text is told so far, and the ledger has room for all of it.
CanTell(p, text, R, m) == Len(text) <= LedgerCap /\ (p.split \/ Told(p, text, R, m))

\* What pushing the rest of a text onto a page does.
LEMMA PushRest ==
  ASSUME NEW p, Good(p), Len(p.ledger) <= LedgerCap, NEW a \in BOOLEAN,
         NEW text \in Seq(Words), NEW m \in Nat, NEW R
  PROVE  LET r == PushAll(p, SubSeq(text, m + 1, Len(text)), a)
         IN  /\ Typeset(p, r, a) /\ Len(r.ledger) <= LedgerCap
             /\ CanTell(p, text, R, m) /\ ~r.split =>
                  Told(r, text, R, IF m <= Len(text) THEN Len(text) ELSE m)
<1> DEFINE s == SubSeq(text, m + 1, Len(text))
           n == IF m <= Len(text) THEN Len(text) - m ELSE 0
           r == PushAll(p, s, a)
<1>0. Len(text) \in Nat /\ n \in Nat
  OBVIOUS
<1>1. s \in Seq(Words) /\ Len(s) = n /\ \A k \in 1..n : s[k] = text[m + k]
  <2>1. \A i \in (m + 1)..Len(text) : text[i] \in Words
    OBVIOUS
  <2>2. /\ s \in Seq(Words) /\ Len(s) = IF m + 1 <= Len(text) THEN Len(text) - (m + 1) + 1 ELSE 0
        /\ \A k \in 1..(Len(text) - (m + 1) + 1) : s[k] = text[m + 1 + k - 1]
    BY <1>0, <2>1, SubSeqProperties
  <2> HIDE DEF s
  <2>3. Len(s) = n
    <3> DEFINE t == Len(text)
               u == Len(s)
    <3>1. u = (IF m + 1 <= t THEN t - (m + 1) + 1 ELSE 0) /\ t \in Nat
      BY <1>0, <2>2
    <3> HIDE DEF t, u
    <3>2. u = IF m <= t THEN t - m ELSE 0
      BY <3>1
    <3> QED
      BY <3>2 DEF t, u
  <2>4. ASSUME NEW k \in 1..n PROVE s[k] = text[m + k]
    <3>1. k \in 1..(Len(text) - (m + 1) + 1) /\ m + 1 + k - 1 = m + k
      BY <1>0
    <3> QED
      BY <2>2, <3>1
  <2> QED
    BY <2>2, <2>3, <2>4
<1>2. DOMAIN s = 1..n /\ \A k \in 1..n : s[k] \in Words
  <2> HIDE DEF s, n
  <2> QED
    BY <1>0, <1>1
<1>20. \A k \in 1..n : m + k <= Len(text) /\ (m + (k - 1)) + 1 = m + k /\ m + (k - 1) \in Nat
  BY <1>0
<1>21. m + n = (IF m <= Len(text) THEN Len(text) ELSE m) /\ m + 0 = m
  BY <1>0
<1> HIDE DEF s, n
<1>3. PICK h : IsRun(h, "push", a, p, s, n) /\ PushAll(p, s, a) = h[n]
  BY <1>0, <1>2, PushAllIs
<1> DEFINE S == {k \in 0..n : /\ Typeset(p, h[k], a) /\ Len(h[k].ledger) <= LedgerCap
                              /\ (CanTell(p, text, R, m) /\ ~h[k].split) =>
                                    Told(h[k], text, R, m + k)}
<1>4. 0 \in S
  <2>1. h[0] = p
    BY <1>3 DEF IsRun
  <2>2. Typeset(p, p, a)
    BY TypesetSelf
  <2>3. CanTell(p, text, R, m) /\ ~p.split => Told(p, text, R, m + 0)
    BY <1>21 DEF CanTell
  <2>4. 0 \in 0..n
    BY <1>0
  <2> QED
    BY <2>1, <2>2, <2>3, <2>4
<1>5. ASSUME NEW k \in 1..n, k - 1 \in S PROVE k \in S
  <2> DEFINE g == h[k - 1]
             x == h[k]
  <2>1. /\ Typeset(p, g, a) /\ Good(g) /\ k \in 0..n
        /\ CanTell(p, text, R, m) /\ ~g.split => Told(g, text, R, m + (k - 1))
    BY <1>0, <1>5 DEF Typeset
  <2>2. x = PushWord(g, s[k], a)
    <3>1. x = Fold1("push", a, g, s[k])
      BY <1>3 DEF IsRun
    <3> HIDE DEF x, g
    <3> QED
      BY <3>1, Zenon DEF Fold1
  <2>3. s[k] \in Words /\ s[k] = text[m + k]
    BY <1>1, <1>2
  <2> HIDE DEF g, x
  <2>4. Typeset(g, x, a) /\ Len(x.ledger) <= LedgerCap /\ (x.split \/ Added(g, x, s[k]))
    BY <2>1, <2>2, <2>3, PushWordIs
  <2>5. Typeset(p, x, a)
    BY <2>1, <2>4, TypesetAgain
  <2>6. ~x.split => Added(g, x, text[m + k]) /\ ~g.split
    BY <2>3, <2>4 DEF Typeset
  <2>8. ASSUME CanTell(p, text, R, m), ~x.split PROVE Told(x, text, R, m + k)
    <3> DEFINE j == m + (k - 1)
    <3>1. j \in Nat /\ j + 1 = m + k /\ j + 1 <= Len(text)
      BY <1>20
    <3>2. Told(g, text, R, j)
      BY <2>1, <2>6, <2>8
    <3>3. Good(x)
      BY <2>4 DEF Typeset
    <3>4. Added(g, x, text[j + 1])
      BY <2>6, <2>8, <3>1
    <3> HIDE DEF j
    <3>5. Told(x, text, R, j + 1)
      BY <2>1, <2>8, <3>1, <3>2, <3>3, <3>4, ToldPush DEF CanTell
    <3> QED
      BY <3>1, <3>5
  <2> QED
    BY <2>1, <2>4, <2>5, <2>8 DEF x
<1>6. \A k \in 1..n : k - 1 \in S => k \in S
  BY <1>5
<1>7. n \in S
  <2> HIDE DEF S
  <2>1. \A k \in 0..n : k \in S
    BY <1>0, <1>4, <1>6, Upto, Zenon
  <2> QED
    BY <1>0, <2>1
<1>8. r = h[n]
  BY <1>3
<1>9. /\ Typeset(p, r, a) /\ Len(r.ledger) <= LedgerCap
      /\ CanTell(p, text, R, m) /\ ~r.split => Told(r, text, R, m + n)
  <2> HIDE DEF r
  <2> QED
    BY <1>7, <1>8
<1> HIDE DEF r
<1>10. CanTell(p, text, R, m) /\ ~r.split =>
         Told(r, text, R, IF m <= Len(text) THEN Len(text) ELSE m)
  BY <1>9, <1>21
<1> QED
  BY <1>9, <1>10, Zenon DEF r, s

LEMMA MarkIs ==
  ASSUME NEW entries \in Seq(Entries), NEW f \in Nat, NEW c \in Nat
  PROVE  /\ Mark(entries, f, c) \in Seq(Entries) /\ Len(Mark(entries, f, c)) = Len(entries)
         /\ \A i \in 1..Len(entries) :
              /\ Mark(entries, f, c)[i].text = entries[i].text
              /\ Mark(entries, f, c)[i].frozen = entries[i].frozen
              /\ IF i <= f THEN Mark(entries, f, c)[i].stale <=> i > c
                 ELSE Mark(entries, f, c)[i].stale = entries[i].stale
<1> DEFINE l == Mark(entries, f, c)
           new(i) == IF i <= f THEN i > c ELSE entries[i].stale
<1>1. Len(entries) \in Nat /\ DOMAIN entries = 1..Len(entries) /\ \A i \in 1..Len(entries) : entries[i] \in Entries
  OBVIOUS
<1>2. l = [i \in DOMAIN entries |-> [entries[i] EXCEPT !.stale = new(i)]]
  BY Zenon DEF Mark
<1>3. ASSUME NEW i \in 1..Len(entries)
      PROVE  /\ l[i] \in Entries /\ l[i].text = entries[i].text /\ l[i].frozen = entries[i].frozen
             /\ IF i <= f THEN l[i].stale <=> i > c ELSE l[i].stale = entries[i].stale
  <2> DEFINE e == entries[i]
             b == new(i)
  <2>1. i \in DOMAIN entries /\ e \in Entries
    BY <1>1
  <2>2. l[i] = [e EXCEPT !.stale = b]
    <3> HIDE DEF l, new
    <3> QED
      BY <1>2, <2>1, Zenon
  <2>3. b \in BOOLEAN
    <3>1. e.stale \in BOOLEAN
      BY <2>1, Zenon DEF Entries
    <3>2. (i > c) \in BOOLEAN
      OBVIOUS
    <3> QED
      BY <3>1, <3>2, Zenon
  <2>4. ASSUME NEW x \in Entries, NEW y \in BOOLEAN
        PROVE  /\ [x EXCEPT !.stale = y] \in Entries /\ [x EXCEPT !.stale = y].text = x.text
               /\ [x EXCEPT !.stale = y].frozen = x.frozen
               /\ [x EXCEPT !.stale = y].stale = y
    BY DEF Entries
  <2> HIDE DEF l, e, b
  <2>5. l[i] \in Entries /\ l[i].text = e.text /\ l[i].frozen = e.frozen /\ l[i].stale = b
    BY <2>1, <2>2, <2>3, <2>4
  <2>6. IF i <= f THEN b <=> i > c ELSE b = e.stale
    BY Zenon DEF b, e
  <2> QED
    BY <2>5, <2>6, Zenon DEF e
<1>4. l \in Seq(Entries) /\ Len(l) = Len(entries)
  <2>1. l = [i \in 1..Len(entries) |-> l[i]]
    BY <1>1, Zenon DEF Mark
  <2> HIDE DEF l
  <2>2. l \in [1..Len(entries) -> Entries]
    BY <1>3, <2>1
  <2> QED
    BY <1>1, <2>2
<1> HIDE DEF l
<1>5. \A i \in 1..Len(entries) :
        /\ l[i].text = entries[i].text /\ l[i].frozen = entries[i].frozen
        /\ IF i <= f THEN l[i].stale <=> i > c ELSE l[i].stale = entries[i].stale
  BY <1>3, Zenon
<1> QED
  BY <1>4, <1>5, Zenon DEF l

\* The utterance closed.
LEMMA CloseIs ==
  ASSUME NEW p, Good(p), NEW a \in BOOLEAN
  PROVE  /\ Good(CloseUtterance(p, a)) /\ CloseUtterance(p, a).width = p.width
         /\ a => Extends(p.rows, CloseUtterance(p, a).rows)
         /\ CloseUtterance(p, a).split = p.split /\ CloseUtterance(p, a).base = p.base
         /\ CloseUtterance(p, a).start = Len(p.ledger)
         /\ Touched(p.ledger, CloseUtterance(p, a).ledger)
<1> DEFINE n == Len(p.ledger)
           e == [p.ledger[n] EXCEPT !.last = TRUE]
           L == [p.ledger EXCEPT ![n] = e]
           q == IF n = p.start THEN p ELSE [p EXCEPT !.ledger = L]
           s == Freeze(q, a)
           r == [s EXCEPT !.start = Len(s.ledger)]
<1>0. /\ p \in Pages /\ Sound(p.ledger, p.rows, p.width) /\ p.ledger \in Seq(Entries)
      /\ n \in Nat /\ p.start \in Nat /\ p.start <= n /\ p.base <= p.start /\ p.base \in Nat
  BY PageParts DEF Good
<1>1. CloseUtterance(p, a) = r
  <2>1. [p EXCEPT !.ledger[n].last = TRUE] = [p EXCEPT !.ledger = L]
    BY Zenon
  <2> QED
    BY <2>1, Zenon DEF CloseUtterance
<1>2. /\ Good(q) /\ q.rows = p.rows /\ q.width = p.width /\ q.start = p.start /\ q.base = p.base
      /\ q.split = p.split /\ Touched(p.ledger, q.ledger)
  <2>1. CASE n = p.start
    <3>1. Touched(p.ledger, p.ledger)
      BY DEF Touched
    <3> QED
      BY <2>1, <3>1
  <2>2. CASE n # p.start
    <3>1. n \in 1..n
      BY <1>0, <2>2
    <3>2. e \in Entries /\ e.text = p.ledger[n].text /\ e.stale = p.ledger[n].stale /\ e.frozen = p.ledger[n].frozen
      <4>1. p.ledger[n] \in Entries
        BY <1>0, <3>1
      <4> QED
        BY <4>1 DEF Entries
    <3> HIDE DEF e
    <3>3. L \in Seq(Entries) /\ Len(L) = n /\ \A i \in 1..n : L[i] = IF i = n THEN e ELSE p.ledger[i]
      BY <1>0, <3>1, <3>2
    <3> HIDE DEF L
    <3>4. \A i \in 1..n : /\ L[i].text = p.ledger[i].text /\ L[i].stale = p.ledger[i].stale
                          /\ L[i].frozen = p.ledger[i].frozen
      BY <3>2, <3>3
    <3>5. \A i \in 1..n : (L[i].frozen <=> p.ledger[i].frozen) /\ (p.ledger[i].frozen => L[i].frozen)
      BY <3>4, Zenon
    <3>6. SameWords(p.ledger, L)
      BY <3>3, <3>4 DEF SameWords
    <3>7. Sound(L, p.rows, p.width)
      BY <1>0, <3>3, <3>5, <3>6, SoundRemarked
    <3>8. Touched(p.ledger, L)
      BY <3>3, <3>4, <3>5 DEF Touched
    <3>9. q = [p EXCEPT !.ledger = L]
      BY <2>2
    <3> HIDE DEF q
    <3>10. /\ q \in Pages /\ q.ledger = L /\ q.rows = p.rows /\ q.width = p.width /\ q.start = p.start
           /\ q.base = p.base /\ q.split = p.split
      BY <1>0, <3>3, <3>9 DEF Pages
    <3> QED
      BY <1>0, <3>3, <3>7, <3>8, <3>10 DEF Good
  <2> QED
    BY <2>1, <2>2
<1> HIDE DEF q
<1>3. /\ Good(s) /\ s.width = q.width /\ (a => Extends(q.rows, s.rows))
      /\ s.start = q.start /\ s.base = q.base /\ s.split = q.split /\ Touched(q.ledger, s.ledger)
  BY <1>2, FreezeIs
<1> HIDE DEF s
<1>4. s \in Pages /\ s.ledger \in Seq(Entries) /\ Len(s.ledger) = n
  BY <1>2, <1>3, PageParts DEF Good, Touched
<1>5. /\ r \in Pages /\ r.ledger = s.ledger /\ r.rows = s.rows /\ r.width = s.width
      /\ r.start = n /\ r.base = s.base /\ r.split = s.split
  BY <1>0, <1>4 DEF Pages
<1> HIDE DEF r
<1>6. Good(r)
  BY <1>0, <1>2, <1>3, <1>4, <1>5 DEF Good
<1>7. Touched(p.ledger, r.ledger)
  <2>1. Len(q.ledger) = n /\ Len(s.ledger) = n
    BY <1>2, <1>4 DEF Touched
  <2>2. \A i \in 1..n : /\ s.ledger[i].text = p.ledger[i].text /\ s.ledger[i].stale = p.ledger[i].stale
                        /\ p.ledger[i].frozen => s.ledger[i].frozen
    BY <1>2, <1>3, <2>1 DEF Touched
  <2> QED
    BY <1>4, <1>5, <2>2 DEF Touched
<1>8. Good(r) /\ r.width = p.width /\ (a => Extends(p.rows, r.rows))
  BY <1>2, <1>3, <1>5, <1>6
<1> HIDE DEF n
<1> QED
  BY <1>1, <1>2, <1>3, <1>5, <1>7, <1>8 DEF n

\* The entries of the utterance: the frozen ones come first.
FrozenCount(old) == Max({n \in 0..Len(old) : \A i \in 1..n : old[i].frozen})

LEMMA FrozenFirst ==
  ASSUME NEW p, Good(p), NEW old, old = SubSeq(p.ledger, p.start + 1, Len(p.ledger)),
         NEW f, f = FrozenCount(old)
  PROVE  /\ old \in Seq(Entries) /\ Len(old) = Len(p.ledger) - p.start
         /\ \A i \in 1..Len(old) : old[i] = p.ledger[p.start + i]
         /\ f \in 0..Len(old) /\ \A i \in 1..Len(old) : old[i].frozen <=> i <= f
         /\ Len(old) - f <= Len(Last(p.rows))
<1> DEFINE N == Len(old)
           S == {n \in 0..N : \A i \in 1..n : old[i].frozen}
           o == Len(Last(p.rows))
           A == Len(p.ledger)
           b == p.start
<1>0. p \in Pages /\ A \in Nat /\ b \in 0..A /\ p.ledger \in Seq(Entries) /\ o \in Nat
  <2>1. Last(p.rows) \in Seq(Words)
    BY OpenRow DEF Good, Sound
  <2> QED
    BY <2>1, PageParts DEF Good
<1>1. old \in Seq(Entries) /\ N = A - b /\ \A i \in 1..(A - b) : old[i] = p.ledger[i + b]
  BY <1>0, Dropped
<1>2. \A i \in 1..A : p.ledger[i].frozen <=> i <= A - o
  BY DEF Good, Sound, Marked
<1> HIDE DEF N, o, A, b
<1>3. ASSUME NEW i \in 1..N PROVE old[i].frozen <=> i <= N - o
  <2>1. i \in 1..(A - b) /\ i + b \in 1..A /\ (i + b <= A - o <=> i <= N - o)
    BY <1>0, <1>1
  <2> QED
    BY <1>1, <1>2, <2>1
<1>4. N \in Nat
  BY <1>0, <1>1
<1>5. S # {} /\ S \in SUBSET (0..N)
  <2>1. 0 \in S
    BY <1>4
  <2> QED
    BY <2>1
<1>6. f \in S /\ \A y \in S : y <= f
  <2>1. f = Max(S)
    BY Zenon DEF FrozenCount, N
  <2> HIDE DEF S
  <2> QED
    BY <1>4, <1>5, <2>1, MaxIs
<1>7. f \in 0..N /\ \A i \in 1..f : old[i].frozen
  BY <1>6
<1>8. ASSUME NEW i \in 1..N PROVE old[i].frozen <=> i <= f
  <2>1. CASE i <= f
    <3>1. i \in 1..f
      BY <1>4, <1>7, <2>1
    <3> QED
      BY <1>7, <2>1, <3>1, Zenon
  <2>2. CASE ~(i <= f)
    <3>1. ~(i <= N - o)
      <4> SUFFICES ASSUME i <= N - o PROVE FALSE
        OBVIOUS
      <4>1. \A j \in 1..i : j \in 1..N /\ j <= N - o
        BY <1>0, <1>4
      <4>3. \A j \in 1..i : old[j].frozen
        BY <1>3, <4>1, Zenon
      <4>4. i \in 0..N
        BY <1>4
      <4>2. i \in S
        BY <4>3, <4>4, Zenon
      <4> QED
        BY <1>4, <1>6, <1>7, <2>2, <4>2
    <3> QED
      BY <1>3, <2>2, <3>1
  <2> QED
    BY <2>1, <2>2
<1>9. N - f <= o
  <2>1. CASE o >= N
    BY <1>0, <1>4, <1>7, <2>1
  <2>2. CASE ~(o >= N)
    <3>1. N - o \in 0..N /\ \A j \in 1..(N - o) : j \in 1..N /\ j <= N - o
      BY <1>0, <1>4, <2>2
    <3>2. N - o \in S
      BY <1>3, <3>1
    <3>3. N - o <= f
      BY <1>6, <3>2
    <3> QED
      BY <1>0, <1>4, <1>7, <3>3
  <2> QED
    BY <2>1, <2>2
<1>10. \A i \in 1..N : old[i] = p.ledger[b + i]
  <2>1. \A i \in 1..N : i \in 1..(A - b) /\ i + b = b + i
    BY <1>0, <1>1
  <2> QED
    BY <1>1, <2>1
<1> QED
  BY <1>1, <1>7, <1>8, <1>9, <1>10 DEF N, o, A, b

-----------------------------------------------------------------------------
(* A text of the utterance applied: the words that go, then those pushed.  *)

Old(p) == SubSeq(p.ledger, p.start + 1, Len(p.ledger))
Common(p, text) == Len(LongestCommonPrefix({TextsOf(Old(p)), text}))
Keep(p, text) == Max({Common(p, text), FrozenCount(Old(p))})

MarkedPage(p, text) ==
  [p EXCEPT !.ledger = SubSeq(@, 1, p.start) \o Mark(Old(p), FrozenCount(Old(p)), Common(p, text)),
            !.base = p.start,
            !.split = @ /\ p.base = p.start]

Revised(p, text) == Unplace(MarkedPage(p, text), Len(Old(p)) - Keep(p, text))

Pushed(p, text, a) == PushAll(Revised(p, text), SubSeq(text, Keep(p, text) + 1, Len(text)), a)

LEMMA ApplyIs ==
  ASSUME NEW p, NEW text, NEW final, NEW a
  PROVE  ApplyUtterance(p, text, final, a) =
           TrimLedger(IF final THEN CloseUtterance(Pushed(p, text, a), a) ELSE Pushed(p, text, a))
BY Zenon DEF ApplyUtterance, Pushed, Revised, MarkedPage, Keep, Common, FrozenCount, Old

LEMMA TextsOfIs ==
  ASSUME NEW s \in Seq(Entries)
  PROVE  TextsOf(s) \in Seq(Words) /\ Len(TextsOf(s)) = Len(s)
         /\ \A i \in 1..Len(s) : TextsOf(s)[i] = s[i].text
<1>1. Len(s) \in Nat /\ DOMAIN s = 1..Len(s) /\ \A i \in 1..Len(s) : s[i] \in Entries
  OBVIOUS
<1>2. \A i \in 1..Len(s) : s[i].text \in Words
  BY <1>1 DEF Entries
<1>3. TextsOf(s) = [i \in 1..Len(s) |-> s[i].text]
  BY <1>1 DEF TextsOf
<1>4. TextsOf(s) \in [1..Len(s) -> Words]
  BY <1>2, <1>3
<1> QED
  BY <1>1, <1>3, <1>4

\* How far the text confirms the utterance, and what stays of it.
LEMMA KeepIs ==
  ASSUME NEW p, Good(p), NEW text \in Seq(Words)
  PROVE  LET old == Old(p)
             c   == Common(p, text)
             f   == FrozenCount(old)
             m   == Keep(p, text)
         IN  /\ old \in Seq(Entries) /\ Len(old) = Len(p.ledger) - p.start
             /\ \A i \in 1..Len(old) : old[i] = p.ledger[p.start + i]
             /\ \A i \in 1..Len(old) : old[i].frozen <=> i <= f
             /\ c \in 0..Len(old) /\ c <= Len(text)
             /\ \A i \in 1..c : old[i].text = text[i]
             /\ c < Len(old) /\ c < Len(text) => old[c + 1].text # text[c + 1]
             /\ f \in 0..Len(old) /\ m \in 0..Len(old)
             /\ c <= m /\ f <= m /\ (m = c \/ m = f)
             /\ Len(old) - m \in 0..Len(Last(p.rows))
<1> DEFINE old == Old(p)
           c == Common(p, text)
           f == FrozenCount(old)
           m == Keep(p, text)
           t == TextsOf(old)
           o == Len(Last(p.rows))
<1>1. /\ old \in Seq(Entries) /\ Len(old) = Len(p.ledger) - p.start
      /\ \A i \in 1..Len(old) : old[i] = p.ledger[p.start + i]
      /\ f \in 0..Len(old) /\ \A i \in 1..Len(old) : old[i].frozen <=> i <= f
      /\ Len(old) - f <= o
  BY FrozenFirst DEF Old
<1>2. t \in Seq(Words) /\ Len(t) = Len(old) /\ \A i \in 1..Len(old) : t[i] = old[i].text
  BY <1>1, TextsOfIs
<1> HIDE DEF old, t
<1>3. IsCommon(c, t, text)
  <2>1. c = Len(LongestCommonPrefix({t, text}))
    BY DEF Common, old, t
  <2> QED
    BY <1>2, <2>1, CommonPrefixIs
<1>4. m = Max({c, f})
  BY DEF Keep, old
<1> HIDE DEF c, f, m
<1>5. c \in Nat /\ c <= Len(old) /\ c <= Len(text) /\ Len(old) \in Nat
  BY <1>1, <1>2, <1>3 DEF IsCommon
<1>6. m = IF c >= f THEN c ELSE f
  BY <1>1, <1>4, <1>5, MaxTwo
<1> DEFINE N == Len(old)
<1> HIDE DEF N
<1>61. N \in Nat /\ c \in Nat /\ c <= N /\ f \in 0..N /\ N - f <= o
  BY <1>1, <1>5 DEF N
<1>62. o \in Nat
  <2>1. Last(p.rows) \in Seq(Words)
    BY OpenRow DEF Good, Sound
  <2> QED
    BY <2>1
<1> HIDE DEF o
<1>7. c \in 0..N /\ m \in 0..N /\ c <= m /\ f <= m /\ (m = c \/ m = f) /\ N - m \in 0..o
  BY <1>6, <1>61, <1>62
<1>8. /\ \A i \in 1..c : old[i].text = text[i]
      /\ c < Len(old) /\ c < Len(text) => old[c + 1].text # text[c + 1]
  <2>1. \A i \in 1..c : t[i] = text[i]
    BY <1>3 DEF IsCommon
  <2>2. c < Len(old) /\ c < Len(text) => t[c + 1] # text[c + 1]
    BY <1>2, <1>3 DEF IsCommon
  <2>3. \A i \in 1..c : i \in 1..Len(old)
    BY <1>5
  <2>4. c < Len(old) => c + 1 \in 1..Len(old)
    BY <1>5
  <2> QED
    BY <1>2, <2>1, <2>2, <2>3, <2>4
<1> QED
  BY <1>1, <1>5, <1>7, <1>8 DEF old, c, f, m, N, o

LEMMA RevisedIs ==
  ASSUME NEW p, Good(p), NEW text \in Seq(Words)
  PROVE  LET c == Common(p, text)
             f == FrozenCount(Old(p))
             m == Keep(p, text)
             r == Revised(p, text)
             n == Len(Last(p.rows)) - (Len(Old(p)) - m)
         IN  /\ Good(r) /\ r.width = p.width /\ r.start = p.start /\ r.base = p.start
             /\ r.split <=> (p.split /\ p.base = p.start)
             /\ r.rows = WithOpen(p.rows, SubSeq(Last(p.rows), 1, n))
             /\ Len(r.ledger) = p.start + m /\ Len(r.ledger) <= Len(p.ledger)
             /\ \A i \in 1..m :
                  /\ r.ledger[p.start + i].text = Old(p)[i].text
                  /\ r.ledger[p.start + i].frozen <=> Old(p)[i].frozen
                  /\ r.ledger[p.start + i].stale <=> (IF i <= f THEN i > c ELSE Old(p)[i].stale)
<1> DEFINE old == Old(p)
           c == Common(p, text)
           f == FrozenCount(old)
           m == Keep(p, text)
           r == Revised(p, text)
           b == p.start
           A == Len(p.ledger)
           head == SubSeq(p.ledger, 1, b)
           mk == Mark(old, f, c)
           L1 == head \o mk
           k == Len(old) - m
           n == Len(Last(p.rows)) - k
           x == p.split /\ p.base = b
           q == MarkedPage(p, text)
           L2 == SubSeq(L1, 1, Len(L1) - k)
           R2 == WithOpen(p.rows, SubSeq(Last(p.rows), 1, n))
<1>0. /\ p \in Pages /\ Sound(p.ledger, p.rows, p.width) /\ p.ledger \in Seq(Entries)
      /\ A \in Nat /\ b \in Nat /\ b \in 0..A
  BY PageParts DEF Good
<1>1. /\ old \in Seq(Entries) /\ Len(old) = A - b
      /\ \A i \in 1..Len(old) : old[i] = p.ledger[b + i]
      /\ c \in Nat /\ f \in Nat /\ m \in 0..Len(old) /\ k \in 0..Len(Last(p.rows))
  BY KeepIs
<1> HIDE DEF old, c, f, m
<1>2. q = [p EXCEPT !.ledger = L1, !.base = b, !.split = x]
  BY Zenon DEF MarkedPage, old, c, f
<1>3. /\ mk \in Seq(Entries) /\ Len(mk) = Len(old)
      /\ \A i \in 1..Len(old) : mk[i].text = old[i].text /\ mk[i].frozen = old[i].frozen
      /\ \A i \in 1..Len(old) : IF i <= f THEN mk[i].stale <=> i > c ELSE mk[i].stale = old[i].stale
  BY <1>1, MarkIs
<1>4. head \in Seq(Entries) /\ Len(head) = b /\ \A i \in 1..b : head[i] = p.ledger[i]
  BY <1>0, Taken
<1> HIDE DEF mk, head, k, A, b
<1>5. L1 \in Seq(Entries) /\ Len(L1) = A /\ \A i \in 1..A : L1[i] = IF i <= b THEN p.ledger[i] ELSE mk[i - b]
  <2>1. L1 \in Seq(Entries) /\ Len(L1) = Len(head) + Len(mk)
        /\ \A i \in 1..(Len(head) + Len(mk)) : L1[i] = IF i <= Len(head) THEN head[i] ELSE mk[i - Len(head)]
    <3>1. head \in Seq(Entries) /\ mk \in Seq(Entries)
      BY <1>3, <1>4
    <3> QED
      BY <3>1, ConcatProperties, Zenon
  <2> HIDE DEF L1
  <2>2. Len(head) + Len(mk) = A
    BY <1>0, <1>1, <1>3, <1>4
  <2>3. ASSUME NEW i \in 1..A PROVE L1[i] = IF i <= b THEN p.ledger[i] ELSE mk[i - b]
    <3>1. i <= b => i \in 1..b
      BY <1>0
    <3> QED
      BY <1>4, <2>1, <2>2, <3>1
  <2> QED
    BY <2>1, <2>2, <2>3
<1> HIDE DEF L1
<1>6. \A i \in 1..A : L1[i].text = p.ledger[i].text /\ (L1[i].frozen <=> p.ledger[i].frozen)
  <2> SUFFICES ASSUME NEW i \in 1..A
               PROVE  L1[i].text = p.ledger[i].text /\ (L1[i].frozen <=> p.ledger[i].frozen)
    OBVIOUS
  <2>1. CASE i <= b
    BY <1>5, <2>1
  <2>2. CASE ~(i <= b)
    <3>1. i - b \in 1..Len(old) /\ b + (i - b) = i
      BY <1>0, <1>1, <2>2
    <3>2. L1[i] = mk[i - b] /\ old[i - b] = p.ledger[i]
      BY <1>1, <1>5, <2>2, <3>1
    <3>3. mk[i - b].text = old[i - b].text /\ mk[i - b].frozen = old[i - b].frozen
      BY <1>3, <3>1
    <3> QED
      BY <3>2, <3>3, Zenon
  <2> QED
    BY <2>1, <2>2
<1>7. Sound(L1, p.rows, p.width)
  <2>1. SameWords(p.ledger, L1)
    BY <1>5, <1>6 DEF SameWords, A
  <2>2. \A i \in 1..Len(p.ledger) : L1[i].frozen <=> p.ledger[i].frozen
    BY <1>6 DEF A
  <2> QED
    BY <1>0, <1>5, <2>1, <2>2, SoundRemarked
<1>8. k <= Len(L1) /\ Len(L1) - k = b + m /\ b + m \in 0..Len(L1) /\ b + m <= A
  BY <1>0, <1>1, <1>5 DEF k
<1>9. Sound(L2, R2, p.width)
  BY <1>1, <1>7, <1>8, SoundShortened
<1>10. L2 \in Seq(Entries) /\ Len(L2) = b + m /\ \A i \in 1..(b + m) : L2[i] = L1[i]
  <2>1. L2 = SubSeq(L1, 1, b + m)
    BY <1>8
  <2> HIDE DEF L2
  <2> QED
    BY <1>5, <1>8, <2>1, Taken
<1>11. x \in BOOLEAN
  <2>1. p.split \in BOOLEAN
    BY <1>0, PageParts
  <2> QED
    BY <2>1, Zenon
<1> HIDE DEF x
<1>12. /\ q \in Pages /\ q.ledger = L1 /\ q.rows = p.rows /\ q.width = p.width /\ q.start = b
       /\ q.base = b /\ q.split = x
  <2> HIDE DEF q
  <2> QED
    BY <1>0, <1>2, <1>5, <1>11 DEF Pages, b
<1>13. r = [q EXCEPT !.ledger = L2, !.rows = R2]
  <2>1. r = [q EXCEPT !.ledger = SubSeq(@, 1, Len(@) - k),
                      !.rows = Append(Front(@), SubSeq(Last(@), 1, Len(Last(@)) - k))]
    BY Zenon DEF Revised, Unplace, k, old, m
  <2>2. r = [q EXCEPT !.ledger = SubSeq(q.ledger, 1, Len(q.ledger) - k),
                      !.rows = Append(Front(q.rows), SubSeq(Last(q.rows), 1, Len(Last(q.rows)) - k))]
    <3> HIDE DEF r, q
    <3> QED
      BY <2>1, Zenon
  <2> HIDE DEF r, q
  <2> QED
    BY <1>12, <2>2, Zenon DEF WithOpen
<1>14. R2 \in Rows
  BY <1>9 DEF Sound
<1> HIDE DEF r, q, L2, R2
<1>15. /\ r \in Pages /\ r.ledger = L2 /\ r.rows = R2 /\ r.width = p.width /\ r.start = b
       /\ r.base = b /\ r.split = x
  BY <1>10, <1>12, <1>13, <1>14 DEF Pages
<1>16. Good(r)
  <2>1. b <= b + m
    BY <1>0, <1>1
  <2> QED
    BY <1>0, <1>9, <1>10, <1>15, <2>1 DEF Good
<1>17. ASSUME NEW i \in 1..m
       PROVE  /\ r.ledger[b + i].text = old[i].text
              /\ r.ledger[b + i].frozen <=> old[i].frozen
              /\ r.ledger[b + i].stale <=> (IF i <= f THEN i > c ELSE old[i].stale)
  <2>1. b + i \in 1..(b + m) /\ b + i \in 1..A /\ ~(b + i <= b) /\ (b + i) - b = i /\ i \in 1..Len(old)
    BY <1>0, <1>1, <1>8
  <2>2. r.ledger[b + i] = mk[i]
    BY <1>5, <1>10, <1>15, <2>1
  <2>3. /\ mk[i].text = old[i].text /\ mk[i].frozen = old[i].frozen
        /\ IF i <= f THEN mk[i].stale <=> i > c ELSE mk[i].stale = old[i].stale
    BY <1>3, <2>1
  <2> QED
    BY <2>2, <2>3, Zenon
<1>18. Len(r.ledger) = b + m /\ b + m <= A
  BY <1>8, <1>10, <1>15
<1>19. r.split <=> (p.split /\ p.base = b)
  BY <1>15, Zenon DEF x
<1>20. \A i \in 1..m :
         /\ r.ledger[b + i].text = old[i].text
         /\ r.ledger[b + i].frozen <=> old[i].frozen
         /\ r.ledger[b + i].stale <=> (IF i <= f THEN i > c ELSE old[i].stale)
  BY <1>17, Zenon
<1>21. r.width = p.width /\ r.start = b /\ r.base = b /\ r.rows = R2
  BY <1>15
<1> QED
  BY <1>16, <1>18, <1>19, <1>20, <1>21, Zenon DEF r, R2, b, A, m, f, c, old, k

\* Either an utterance is open, or none of its words is on the page yet.
Settled(p) == p.base = p.start \/ p.start = Len(p.ledger)

\* A stale word of the open utterance that can still be revised needs R.
Excused(p, R) ==
  ~p.split => \A i \in (p.start + 1)..Len(p.ledger) :
                p.ledger[i].stale /\ ~p.ledger[i].frozen => R

\* HypothesisShown of a page.
Shown(p, text, R) ==
  ~p.split => \E m \in Nat : Len(text) <= m /\ Told(p, text, R, m)

LEMMA TrimNothing ==
  ASSUME NEW p, Good(p), Len(p.ledger) <= LedgerCap
  PROVE  LET r == TrimLedger(p)
         IN  /\ Good(r) /\ r.width = p.width /\ r.rows = p.rows
             /\ r.ledger = p.ledger /\ r.start = p.start
             /\ r.base = p.base /\ r.split = p.split
<1> DEFINE r == TrimLedger(p)
<1>0. /\ p.ledger \in Seq(Entries) /\ Len(p.ledger) \in Nat /\ p.start \in Nat /\ p.base \in Nat
      /\ LedgerCap \in Nat
  BY PageParts, ViewerAssumption DEF Good
<1>1. PICK d \in 0..Len(p.ledger) :
        /\ r.ledger = SubSeq(p.ledger, d + 1, Len(p.ledger))
        /\ r.start = Less(p.start, d) /\ r.base = Less(p.base, d)
        /\ d = 0 \/ Len(p.ledger) - d = LedgerCap
  BY TrimLedgerIs
<1>2. Good(r) /\ r.width = p.width /\ r.rows = p.rows /\ r.split = p.split
  BY TrimLedgerIs
<1> HIDE DEF r
<1>3. d = 0
  BY <1>0, <1>1
<1>4. SubSeq(p.ledger, 1, Len(p.ledger)) = p.ledger
  BY <1>0, SubSeqFull
<1>5. d + 1 = 1
  BY <1>3
<1>6. r.ledger = p.ledger
  BY <1>1, <1>4, <1>5
<1>7. r.start = p.start /\ r.base = p.base
  BY <1>0, <1>1, <1>3 DEF Less
<1> QED
  BY <1>2, <1>6, <1>7 DEF r

LEMMA PushedIs ==
  ASSUME NEW p, Good(p), Len(p.ledger) <= LedgerCap, NEW text \in Seq(Words),
         NEW a \in BOOLEAN, NEW R
  PROVE  LET q == Revised(p, text)
             m == Keep(p, text)
             s == Pushed(p, text, a)
         IN  /\ Good(q) /\ Typeset(q, s, a) /\ Len(s.ledger) <= LedgerCap
             /\ q.width = p.width /\ q.start = q.base
             /\ CanTell(q, text, R, m) /\ ~s.split =>
                  Told(s, text, R, IF m <= Len(text) THEN Len(text) ELSE m)
<1> DEFINE q == Revised(p, text)
           m == Keep(p, text)
           s == Pushed(p, text, a)
<1>1. Good(q) /\ q.width = p.width /\ q.start = p.start /\ q.base = p.start
      /\ Len(q.ledger) <= Len(p.ledger)
  BY RevisedIs
<1>2. m \in 0..Len(Old(p)) /\ Len(Old(p)) \in Nat
  <2>1. m \in 0..Len(Old(p)) /\ Old(p) \in Seq(Entries)
    BY KeepIs
  <2> QED
    BY <2>1
<1>3. m \in Nat
  BY <1>2
<1>4. Len(q.ledger) <= LedgerCap
  BY <1>1, PageParts, ViewerAssumption DEF Good
<1>5. s = PushAll(q, SubSeq(text, m + 1, Len(text)), a)
  BY DEF Pushed
<1> HIDE DEF q, m, s
<1>6. /\ Typeset(q, s, a) /\ Len(s.ledger) <= LedgerCap
      /\ CanTell(q, text, R, m) /\ ~s.split =>
           Told(s, text, R, IF m <= Len(text) THEN Len(text) ELSE m)
  BY <1>1, <1>3, <1>4, <1>5, PushRest
<1>7. q.width = p.width /\ q.start = q.base
  BY <1>1
<1> QED
  BY <1>1, <1>6, <1>7 DEF q, m, s

LEMMA ApplyGood ==
  ASSUME NEW p, Good(p), Len(p.ledger) <= LedgerCap, NEW text \in Seq(Words),
         NEW final \in BOOLEAN, NEW a \in BOOLEAN
  PROVE  LET r == ApplyUtterance(p, text, final, a)
         IN  /\ Good(r) /\ r.width = p.width /\ Len(r.ledger) <= LedgerCap /\ Settled(r)
             /\ a => Extends(Revised(p, text).rows, r.rows)
<1> DEFINE q == Revised(p, text)
           s == Pushed(p, text, a)
           u == IF final THEN CloseUtterance(s, a) ELSE s
           r == ApplyUtterance(p, text, final, a)
<1>1. r = TrimLedger(u)
  BY ApplyIs
<1>2. /\ Good(q) /\ Typeset(q, s, a) /\ Len(s.ledger) <= LedgerCap
      /\ q.width = p.width /\ q.start = q.base
  BY PushedIs
<1> HIDE DEF q, s
<1>3. /\ Good(s) /\ s.width = p.width /\ (a => Extends(q.rows, s.rows)) /\ s.start = s.base
  BY <1>2 DEF Typeset
<1>4. /\ Good(u) /\ u.width = p.width /\ (a => Extends(q.rows, u.rows)) /\ Settled(u)
      /\ Len(u.ledger) <= LedgerCap
  <2>1. CASE ~final
    BY <1>2, <1>3, <2>1 DEF Settled
  <2>2. CASE final
    <3> DEFINE v == CloseUtterance(s, a)
    <3>1. /\ Good(v) /\ v.width = s.width /\ (a => Extends(s.rows, v.rows))
          /\ v.start = Len(s.ledger) /\ Len(v.ledger) = Len(s.ledger)
      BY <1>3, CloseIs DEF Touched
    <3>2. u = v
      BY <2>2
    <3> HIDE DEF u, v
    <3>3. a => Extends(q.rows, v.rows)
      BY <1>2, <1>3, <3>1, ExtendsAgain DEF Good, Sound
    <3> QED
      BY <1>2, <1>3, <3>1, <3>2, <3>3 DEF Settled
  <2> QED
    BY <2>1, <2>2
<1> HIDE DEF u, r
<1>5. /\ Good(r) /\ r.width = u.width /\ r.rows = u.rows /\ r.ledger = u.ledger
      /\ r.start = u.start /\ r.base = u.base
  BY <1>1, <1>4, TrimNothing
<1>6. Settled(r)
  BY <1>4, <1>5 DEF Settled
<1> QED
  BY <1>4, <1>5, <1>6 DEF q, r

\* The words that stay are told of the new text.
LEMMA RevisedTold ==
  ASSUME NEW p, Good(p), NEW text \in Seq(Words), Settled(p),
         NEW R \in BOOLEAN, Excused(p, R)
  PROVE  LET q == Revised(p, text)
         IN  ~q.split => Told(q, text, R /\ p.base = p.start, Keep(p, text))
<1> DEFINE q == Revised(p, text)
           c == Common(p, text)
           old == Old(p)
           f == FrozenCount(old)
           m == Keep(p, text)
           b == p.start
           X == R /\ p.base = p.start
           N == Len(old)
<1>0. p.ledger \in Seq(Entries) /\ Len(p.ledger) \in Nat /\ b \in Nat
  BY PageParts DEF Good
<1>1. /\ old \in Seq(Entries) /\ N = Len(p.ledger) - b
      /\ \A i \in 1..N : old[i] = p.ledger[b + i]
      /\ \A i \in 1..N : old[i].frozen <=> i <= f
      /\ c \in 0..N /\ c <= Len(text)
      /\ \A i \in 1..c : old[i].text = text[i]
      /\ c < N /\ c < Len(text) => old[c + 1].text # text[c + 1]
      /\ f \in 0..N /\ m \in 0..N
      /\ c <= m /\ f <= m /\ (m = c \/ m = f)
  BY KeepIs
<1>2. /\ q.base = b /\ Len(q.ledger) = b + m
      /\ q.split <=> (p.split /\ p.base = b)
      /\ \A i \in 1..m :
           /\ q.ledger[b + i].text = old[i].text
           /\ q.ledger[b + i].frozen <=> old[i].frozen
           /\ q.ledger[b + i].stale <=> (IF i <= f THEN i > c ELSE old[i].stale)
  BY RevisedIs
<1>3. N \in Nat /\ Len(text) \in Nat
  BY <1>0, <1>1
<1> HIDE DEF q, c, old, f, m, N, X
<1>4. ASSUME ~q.split, NEW i \in 1..m PROVE ToldAt(q, text, X, i)
  <2>0. i \in 1..N /\ i \in Nat
    BY <1>1, <1>3
  <2>1. /\ q.ledger[b + i].text = old[i].text
        /\ q.ledger[b + i].frozen <=> i <= f
        /\ q.ledger[b + i].stale <=> (IF i <= f THEN i > c ELSE old[i].stale)
    BY <1>1, <1>2, <2>0, Zenon
  <2>2. CASE i <= c
    <3>1. Agrees(q, text, i)
      <4>1. i \in 1..c /\ i <= Len(text)
        BY <1>1, <1>3, <2>0, <2>2
      <4>2. old[i].text = text[i]
        BY <1>1, <4>1
      <4> QED
        BY <1>2, <2>1, <4>1, <4>2 DEF Agrees
    <3>2. q.ledger[b + i].stale => X
      <4>1. CASE i <= f
        <5>1. ~(i > c)
          BY <1>1, <1>3, <2>0, <2>2
        <5> QED
          BY <2>1, <4>1, <5>1, Zenon
      <4>2. CASE ~(i <= f)
        <5>1. ~old[i].frozen /\ (q.ledger[b + i].stale <=> old[i].stale)
          BY <1>1, <2>0, <2>1, <4>2, Zenon
        <5>2. b # Len(p.ledger) /\ b + i \in (p.start + 1)..Len(p.ledger)
          <6> DEFINE L == Len(p.ledger)
          <6>1. L \in Nat /\ b \in Nat /\ N = L - b /\ i \in 1..N
            BY <1>0, <1>1, <2>0, Zenon
          <6> HIDE DEF b, L
          <6>2. b # L /\ b + i \in (b + 1)..L
            BY <6>1
          <6> QED
            BY <6>2 DEF b, L
        <5>3. p.base = p.start
          BY <5>2 DEF Settled
        <5>4. ~p.split
          BY <1>2, <1>4, <5>3, Zenon
        <5>5. p.ledger[b + i].stale /\ ~p.ledger[b + i].frozen => R
          BY <5>2, <5>4, Zenon DEF Excused
        <5>6. old[i] = p.ledger[b + i]
          BY <1>1, <2>0
        <5> QED
          BY <5>1, <5>3, <5>5, <5>6, Zenon DEF X
      <4> QED
        BY <4>1, <4>2
    <3> QED
      BY <1>2, <3>1, <3>2, Zenon DEF ToldAt
  <2>3. CASE ~(i <= c)
    <3>1. m = f /\ i <= f /\ i > c
      BY <1>1, <1>3, <2>0, <2>3
    <3>2. q.ledger[b + i].stale /\ q.ledger[b + i].frozen
      BY <2>1, <3>1, Zenon
    <3>3. c + 1 \in 1..i /\ c + 1 \in 1..m /\ c < N /\ c \in Nat
      BY <1>1, <1>3, <2>0, <2>3
    <3>4. ~Agrees(q, text, c + 1)
      <4>1. q.ledger[b + (c + 1)].text = old[c + 1].text
        BY <1>2, <3>3
      <4>2. ~(c + 1 <= Len(text)) \/ old[c + 1].text # text[c + 1]
        BY <1>1, <1>3, <3>3
      <4> QED
        BY <1>2, <4>1, <4>2 DEF Agrees
    <3>5. \E j \in 1..i : ~Agrees(q, text, j)
      BY <3>3, <3>4
    <3> QED
      BY <1>2, <3>2, <3>5, Zenon DEF ToldAt
  <2> QED
    BY <2>2, <2>3
<1>5. ~q.split => Told(q, text, X, m)
  BY <1>2, <1>4 DEF Told
<1> QED
  BY <1>5 DEF q, X, m

LEMMA ApplyShown ==
  ASSUME NEW p, Good(p), Len(p.ledger) <= LedgerCap, Settled(p),
         NEW text \in Seq(Words), Len(text) <= LedgerCap,
         NEW final \in BOOLEAN, NEW a \in BOOLEAN, NEW R \in BOOLEAN, Excused(p, R)
  PROVE  LET r == ApplyUtterance(p, text, final, a)
             X == R /\ p.base = p.start
         IN  Shown(r, text, X) /\ Excused(r, X)
<1> DEFINE X == R /\ p.base = p.start
           q == Revised(p, text)
           s == Pushed(p, text, a)
           u == IF final THEN CloseUtterance(s, a) ELSE s
           r == ApplyUtterance(p, text, final, a)
           k == Keep(p, text)
           m == IF k <= Len(text) THEN Len(text) ELSE k
<1>1. r = TrimLedger(u)
  BY ApplyIs
<1> HIDE DEF X
<1>2. /\ Good(q) /\ Typeset(q, s, a) /\ Len(s.ledger) <= LedgerCap
      /\ q.start = q.base
      /\ CanTell(q, text, X, k) /\ ~s.split => Told(s, text, X, m)
  BY PushedIs
<1>3. ~q.split => Told(q, text, X, k)
  BY RevisedTold DEF X
<1>4. k \in Nat
  <2>1. k \in 0..Len(Old(p)) /\ Old(p) \in Seq(Entries)
    BY KeepIs
  <2> QED
    BY <2>1
<1> HIDE DEF q, s, k
<1>5. m \in Nat /\ Len(text) <= m
  BY <1>4
<1> HIDE DEF m
<1>6. Good(s) /\ s.start = s.base /\ (~s.split => Told(s, text, X, m))
  BY <1>2, <1>3 DEF Typeset, CanTell
<1>7. /\ Good(u) /\ Len(u.ledger) <= LedgerCap /\ (~u.split => Told(u, text, X, m))
      /\ u.start = u.base \/ u.start = Len(u.ledger)
  <2>1. CASE ~final
    BY <1>2, <1>6, <2>1
  <2>2. CASE final
    <3> DEFINE v == CloseUtterance(s, a)
    <3>1. /\ Good(v) /\ v.split = s.split /\ v.base = s.base /\ v.start = Len(s.ledger)
          /\ Touched(s.ledger, v.ledger)
      BY <1>6, CloseIs
    <3>2. u = v
      BY <2>2
    <3> HIDE DEF u, v
    <3>3. ASSUME ~v.split PROVE Told(v, text, X, m)
      <4>1. Told(s, text, X, m)
        BY <1>6, <3>1, <3>3
      <4>2. Len(v.ledger) = v.base + m /\ Len(s.ledger) = s.base + m
        BY <3>1, <4>1 DEF Told, Touched
      <4>3. s.base \in Nat
        BY <1>6, PageParts DEF Good
      <4>4. ASSUME NEW i \in 1..m PROVE ToldAt(v, text, X, i)
        <5>1. \A j \in 1..m : s.base + j \in 1..Len(s.ledger)
          BY <1>5, <4>2, <4>3
        <5>2. \A j \in 1..m : /\ v.ledger[v.base + j].text = s.ledger[s.base + j].text
                              /\ v.ledger[v.base + j].stale = s.ledger[s.base + j].stale
                              /\ s.ledger[s.base + j].frozen => v.ledger[v.base + j].frozen
          BY <3>1, <5>1 DEF Touched
        <5>3. i \in Nat /\ i # 0 /\ \A j \in 1..i : j \in 1..m
          BY <1>5
        <5>4. ToldAt(s, text, X, i)
          BY <4>1 DEF Told
        <5>5. \A j \in 1..i : v.ledger[v.base + j].text = s.ledger[s.base + j].text
          BY <5>2, <5>3
        <5>6. /\ v.ledger[v.base + i].stale = s.ledger[s.base + i].stale
              /\ s.ledger[s.base + i].frozen => v.ledger[v.base + i].frozen
          BY <5>2
        <5> QED
          BY <5>3, <5>4, <5>5, <5>6, ToldAtKept, Zenon
      <4> QED
        BY <4>2, <4>4 DEF Told
    <3>4. Len(v.ledger) = Len(s.ledger)
      BY <3>1 DEF Touched
    <3> QED
      BY <1>2, <3>1, <3>2, <3>3, <3>4
  <2> QED
    BY <2>1, <2>2
<1> HIDE DEF u, r
<1>8. /\ r.ledger = u.ledger /\ r.start = u.start /\ r.base = u.base /\ r.split = u.split /\ Good(r)
  BY <1>1, <1>7, TrimNothing
<1>9. ~r.split => Told(r, text, X, m)
  <2>1. Told(u, text, X, m) => Told(r, text, X, m)
    BY <1>8 DEF Told, ToldAt, Agrees
  <2> QED
    BY <1>7, <1>8, <2>1
<1>10. Excused(r, X)
  <2>1. ASSUME ~r.split, NEW i \in (r.start + 1)..Len(r.ledger),
               r.ledger[i].stale, ~r.ledger[i].frozen
        PROVE  X
    <3>1. r.start \in Nat /\ Len(r.ledger) \in Nat /\ r.base \in Nat
      BY <1>8, PageParts DEF Good
    <3>2. r.start = r.base
      BY <1>7, <1>8, <2>1, <3>1
    <3>3. Told(r, text, X, m)
      BY <1>9, <2>1
    <3>4. i - r.base \in 1..m /\ r.base + (i - r.base) = i
      <4>1. Len(r.ledger) = r.base + m
        BY <3>3 DEF Told
      <4> QED
        BY <1>5, <3>1, <3>2, <4>1
    <3>5. ToldAt(r, text, X, i - r.base)
      BY <3>3, <3>4 DEF Told
    <3> QED
      BY <2>1, <3>4, <3>5, Zenon DEF ToldAt
  <2> QED
    BY <2>1, Zenon DEF Excused
<1>11. Shown(r, text, X)
  BY <1>5, <1>9 DEF Shown
<1> QED
  BY <1>10, <1>11 DEF r, X

-----------------------------------------------------------------------------
(* The other steps of the page.                                            *)

LEMMA FrozenUptoIs ==
  ASSUME NEW ledger \in Seq(Entries), NEW n \in Int
  PROVE  /\ FrozenUpto(ledger, n) \in Seq(Entries) /\ SameWords(ledger, FrozenUpto(ledger, n))
         /\ \A i \in 1..Len(ledger) :
              /\ FrozenUpto(ledger, n)[i].stale = ledger[i].stale
              /\ FrozenUpto(ledger, n)[i].frozen <=> i <= n
<1> DEFINE l == FrozenUpto(ledger, n)
<1>1. Len(ledger) \in Nat /\ DOMAIN ledger = 1..Len(ledger) /\ \A i \in 1..Len(ledger) : ledger[i] \in Entries
  OBVIOUS
<1>2. ASSUME NEW x \in Entries, NEW y \in BOOLEAN
      PROVE  /\ [x EXCEPT !.frozen = y] \in Entries /\ [x EXCEPT !.frozen = y].text = x.text
             /\ [x EXCEPT !.frozen = y].stale = x.stale
             /\ [x EXCEPT !.frozen = y].frozen = y
  BY DEF Entries
<1>3. ASSUME NEW i \in 1..Len(ledger)
      PROVE  /\ l[i] \in Entries /\ l[i].text = ledger[i].text /\ l[i].stale = ledger[i].stale
             /\ l[i].frozen <=> i <= n
  <2> DEFINE e == ledger[i]
             b == i <= n
  <2>1. i \in DOMAIN ledger /\ e \in Entries
    BY <1>1
  <2>2. l[i] = [e EXCEPT !.frozen = b]
    BY <2>1, Zenon DEF FrozenUpto
  <2>3. b \in BOOLEAN
    OBVIOUS
  <2> HIDE DEF l, e, b
  <2>4. l[i] \in Entries /\ l[i].text = e.text /\ l[i].stale = e.stale /\ l[i].frozen = b
    BY <1>2, <2>1, <2>2, <2>3
  <2> QED
    BY <2>4, Zenon DEF e, b
<1>4. l \in Seq(Entries) /\ Len(l) = Len(ledger)
  <2>1. l = [i \in 1..Len(ledger) |-> l[i]]
    BY <1>1, Zenon DEF FrozenUpto
  <2> HIDE DEF l
  <2>2. l \in [1..Len(ledger) -> Entries]
    BY <1>3, <2>1
  <2> QED
    BY <1>1, <2>2
<1> HIDE DEF l
<1>5. \A i \in 1..Len(ledger) :
        l[i].text = ledger[i].text /\ l[i].stale = ledger[i].stale /\ (l[i].frozen <=> i <= n)
  BY <1>3, Zenon
<1>6. SameWords(ledger, l)
  BY <1>4, <1>5 DEF SameWords
<1> QED
  BY <1>4, <1>5, <1>6, Zenon DEF l

LEMMA RebuildIs ==
  ASSUME NEW p \in Pages, p.start <= Len(p.ledger), p.base <= p.start
  PROVE  LET r == Rebuild(p)
         IN  /\ Good(r) /\ r.start = p.start /\ r.base = p.base /\ r.split = p.split
             /\ SameWords(p.ledger, r.ledger)
             /\ \A i \in 1..Len(p.ledger) : r.ledger[i].stale = p.ledger[i].stale
<1> DEFINE rows == RebuiltRows(p.ledger, p.width)
           n == Len(p.ledger) - Len(Last(rows))
           L == FrozenUpto(p.ledger, n)
           R == TrimRows(rows)
           r == Rebuild(p)
<1>0. p.ledger \in Seq(Entries) /\ p.width \in Nat \ {0} /\ Len(p.ledger) \in Nat /\ p.width \in Nat
  BY PageParts
<1>1. r = [p EXCEPT !.ledger = L, !.rows = R, !.gliding = FALSE]
  BY Zenon DEF Rebuild
<1>2. n \in Int
  <2>1. Laid(rows, p.ledger, Len(p.ledger), p.width)
    BY <1>0, RebuiltLaid
  <2> HIDE DEF rows
  <2>2. Last(rows) \in Seq(Words)
    BY <2>1, OpenRow DEF Laid
  <2> QED
    BY <1>0, <2>2
<1>3. /\ L \in Seq(Entries) /\ SameWords(p.ledger, L)
      /\ \A i \in 1..Len(p.ledger) : L[i].stale = p.ledger[i].stale
  <2> HIDE DEF n
  <2> QED
    BY <1>0, <1>2, FrozenUptoIs
<1>4. \A i \in 1..Len(p.ledger) : L[i].frozen <=> i <= n
  <2> HIDE DEF n
  <2> QED
    BY <1>0, <1>2, FrozenUptoIs
<1> HIDE DEF L
<1>5. Sound(L, rows, p.width)
  BY <1>0, <1>3, <1>4, SoundRebuilt
<1> HIDE DEF rows
<1>6. Sound(L, R, p.width)
  BY <1>5, SoundTrimmed
<1>7. R \in Rows
  BY <1>6 DEF Sound
<1> HIDE DEF R, r
<1>8. /\ r \in Pages /\ r.ledger = L /\ r.rows = R /\ r.width = p.width /\ r.start = p.start
      /\ r.base = p.base /\ r.split = p.split
  BY <1>1, <1>3, <1>7 DEF Pages
<1>9. Good(r)
  BY <1>3, <1>6, <1>8 DEF Good, SameWords
<1> QED
  BY <1>3, <1>8, <1>9 DEF r

LEMMA BlankIs ==
  ASSUME NEW width \in Nat \ {0}
  PROVE  LET p == BlankPage(width)
         IN  /\ Good(p) /\ p.ledger = <<>> /\ p.start = 0 /\ p.base = 0 /\ p.width = width
<1> DEFINE b == << <<>> >>
           p == BlankPage(width)
<1>1. b \in Rows /\ b # <<>> /\ Len(b) = 1 /\ b[1] = <<>> /\ <<>> \in Seq(Entries)
  BY DEF Rows
<1>2. p \in Pages /\ p.ledger = <<>> /\ p.rows = b /\ p.width = width /\ p.start = 0 /\ p.base = 0
  BY <1>1 DEF BlankPage, Pages
<1> HIDE DEF p, b
<1>3. Meets(FlattenSeq(b), <<>>) /\ Marked(<<>>, Len(Last(b)))
  BY DEF Meets, Marked
<1>4. \A i \in 1..Len(b) : RowFits(b[i], width)
  BY <1>1, EmptyFits
<1>5. Sound(<<>>, b, width)
  BY <1>1, <1>3, <1>4 DEF Sound
<1>6. Good(p)
  BY <1>2, <1>5 DEF Good
<1> QED
  BY <1>2, <1>6 DEF p

LEMMA GlideIs ==
  ASSUME NEW p, Good(p)
  PROVE  LET r == [p EXCEPT !.rows = TrimRows(@), !.gliding = FALSE]
         IN  /\ Good(r) /\ r.rows = TrimRows(p.rows) /\ r.ledger = p.ledger
             /\ r.start = p.start /\ r.base = p.base /\ r.split = p.split
<1> DEFINE r == [p EXCEPT !.rows = TrimRows(@), !.gliding = FALSE]
           R == TrimRows(p.rows)
<1>1. Sound(p.ledger, R, p.width) /\ p \in Pages
  BY SoundTrimmed DEF Good
<1>2. R \in Rows
  BY <1>1 DEF Sound
<1>3. r = [p EXCEPT !.rows = R, !.gliding = FALSE]
  OBVIOUS
<1> HIDE DEF r, R
<1>4. /\ r \in Pages /\ r.rows = R /\ r.ledger = p.ledger /\ r.width = p.width
      /\ r.start = p.start /\ r.base = p.base /\ r.split = p.split
  BY <1>1, <1>2, <1>3 DEF Pages
<1>5. Good(r)
  BY <1>1, <1>4 DEF Good
<1> QED
  BY <1>4, <1>5 DEF r, R

-----------------------------------------------------------------------------
(* Prefixes and suffixes.                                                  *)

LEMMA PrefixIs ==
  ASSUME NEW S, NEW s \in Seq(S), NEW t \in Seq(S), Len(s) <= Len(t),
         \A i \in 1..Len(s) : s[i] = t[i]
  PROVE  IsPrefix(s, t)
<1> DEFINE u == SubSeq(t, 1, Len(s))
<1>1. Len(s) \in 0..Len(t)
  OBVIOUS
<1>2. u \in Seq(S) /\ Len(u) = Len(s) /\ \A i \in 1..Len(s) : u[i] = t[i]
  BY <1>1, Taken
<1> HIDE DEF u
<1>3. u = s
  BY <1>2, SeqEqual
<1>4. SubSeq(s, 1, Len(s)) = s
  BY SubSeqFull
<1> QED
  BY <1>3, <1>4 DEF IsPrefix, u

LEMMA SuffixIs ==
  ASSUME NEW S, NEW s \in Seq(S), NEW t \in Seq(S), Len(s) <= Len(t),
         \A k \in Nat : k < Len(s) => s[Len(s) - k] = t[Len(t) - k]
  PROVE  IsSuffix(s, t)
<1>1. ASSUME NEW x \in Seq(S)
      PROVE  /\ Reverse(x) \in Seq(S) /\ Len(Reverse(x)) = Len(x)
             /\ \A i \in 1..Len(x) : Reverse(x)[i] = x[Len(x) - (i - 1)]
  <2>1. Len(x) \in Nat /\ \A i \in 1..Len(x) : (Len(x) - i) + 1 \in 1..Len(x) /\ (Len(x) - i) + 1 = Len(x) - (i - 1)
    OBVIOUS
  <2>2. Reverse(x) = [i \in 1..Len(x) |-> x[(Len(x) - i) + 1]]
    BY DEF Reverse
  <2>3. \A i \in 1..Len(x) : x[(Len(x) - i) + 1] \in S
    BY <2>1
  <2>4. Reverse(x) \in [1..Len(x) -> S]
    BY <2>2, <2>3
  <2>5. Reverse(x) \in Seq(S) /\ Len(Reverse(x)) = Len(x)
    BY <2>1, <2>2, <2>4
  <2>6. \A i \in 1..Len(x) : Reverse(x)[i] = x[Len(x) - (i - 1)]
    BY <2>1, <2>2
  <2> QED
    BY <2>5, <2>6
<1> DEFINE a == Reverse(s)
           b == Reverse(t)
<1>2. /\ a \in Seq(S) /\ Len(a) = Len(s) /\ \A i \in 1..Len(s) : a[i] = s[Len(s) - (i - 1)]
      /\ b \in Seq(S) /\ Len(b) = Len(t) /\ \A i \in 1..Len(t) : b[i] = t[Len(t) - (i - 1)]
  BY <1>1
<1> HIDE DEF a, b
<1>3. ASSUME NEW i \in 1..Len(a) PROVE a[i] = b[i]
  <2>1. i \in 1..Len(s) /\ i \in 1..Len(t) /\ i - 1 \in Nat /\ i - 1 < Len(s)
    BY <1>2
  <2> QED
    BY <1>2, <2>1
<1>4. IsPrefix(a, b)
  BY <1>2, <1>3, PrefixIs
<1> QED
  BY <1>4 DEF IsSuffix, a, b

-----------------------------------------------------------------------------
(* The invariant and the theorems.                                         *)

\* The screen, the ledger and the bounds on the utterance's places.
ScreenInv ==
  /\ Good(page) /\ Len(page.ledger) <= LedgerCap /\ Settled(page)
  /\ said \in Seq(Words) /\ resized \in BOOLEAN /\ layouts \in Nat

\* The last text is shown, and stale words are excused.
SaidInv == ScreenInv /\ Shown(page, said, resized) /\ Excused(page, resized)

\* No text is longer than the ledger.
TextsFit == \A text \in Texts : Len(text) <= LedgerCap

\* A settled page whose last text was said.
PageIs(p, text, R) == Good(p) /\ Len(p.ledger) <= LedgerCap /\ Settled(p) /\ Shown(p, text, R) /\ Excused(p, R)

LEMMA TextsAre ==
  ASSUME NEW text \in Texts \cup {<<>>}
  PROVE  text \in Seq(Words)
<1>1. CASE text = <<>>
  BY <1>1
<1>2. CASE text \in Texts
  <2>1. text \in Seq(Seq(Glyphs) \ {<<>>})
    BY <1>2, ViewerAssumption
  <2>2. Len(text) \in Nat /\ text = [i \in 1..Len(text) |-> text[i]] /\ \A i \in 1..Len(text) : text[i] \in Words
    BY <2>1 DEF Words
  <2>3. text \in [1..Len(text) -> Words]
    BY <2>2
  <2> QED
    BY <2>2, <2>3
<1> QED
  BY <1>1, <1>2

LEMMA WidthsAre ==
  ASSUME NEW width \in Widths
  PROVE  width \in Nat \ {0}
BY ViewerAssumption

\* A blank page shows the empty text.
LEMMA BlankShown ==
  ASSUME NEW width \in Nat \ {0}, NEW R
  PROVE  LET p == BlankPage(width)
         IN  /\ Good(p) /\ Len(p.ledger) <= LedgerCap /\ Settled(p) /\ p.width = width
             /\ Shown(p, <<>>, R) /\ Excused(p, R)
<1> DEFINE p == BlankPage(width)
<1>1. Good(p) /\ p.ledger = <<>> /\ p.start = 0 /\ p.base = 0 /\ p.width = width
  BY BlankIs
<1> HIDE DEF p
<1>2. Len(p.ledger) = 0 /\ LedgerCap \in Nat
  BY <1>1, ViewerAssumption
<1>3. Told(p, <<>>, R, 0)
  BY <1>1, <1>2 DEF Told
<1>4. Shown(p, <<>>, R)
  <2>1. 0 \in Nat /\ Len(<<>>) <= 0
    OBVIOUS
  <2> QED
    BY <1>3, <2>1 DEF Shown
<1>5. Excused(p, R)
  <2>1. (p.start + 1)..Len(p.ledger) = {}
    BY <1>1, <1>2
  <2> QED
    BY <2>1 DEF Excused
<1>6. Len(p.ledger) <= LedgerCap /\ Settled(p)
  BY <1>1, <1>2 DEF Settled
<1> QED
  BY <1>1, <1>4, <1>5, <1>6 DEF p

LEMMA ScreenInit == Init => ScreenInv /\ SaidInv
<1> SUFFICES ASSUME Init PROVE ScreenInv /\ SaidInv
  OBVIOUS
<1>1. PICK width \in Widths : page = BlankPage(width)
  BY DEF Init
<1>2. width \in Nat \ {0}
  BY WidthsAre
<1>3. said = <<>> /\ resized = FALSE
  BY DEF Init
<1>4. /\ Good(page) /\ Len(page.ledger) <= LedgerCap /\ Settled(page)
      /\ Shown(page, said, resized) /\ Excused(page, resized)
  BY <1>1, <1>2, <1>3, BlankShown
<1>5. said \in Seq(Words)
  BY <1>3
<1>6. resized \in BOOLEAN
  BY <1>3, Zenon
<1>7. layouts \in Nat
  BY DEF Init
<1> QED
  BY <1>4, <1>5, <1>6, <1>7 DEF ScreenInv, SaidInv

LEMMA ScreenNext == ScreenInv /\ [Next]_vars => ScreenInv'
<1> SUFFICES ASSUME ScreenInv, [Next]_vars PROVE ScreenInv'
  OBVIOUS
<1>0. /\ Good(page) /\ Len(page.ledger) <= LedgerCap /\ Settled(page)
      /\ said \in Seq(Words) /\ resized \in BOOLEAN /\ layouts \in Nat
  BY DEF ScreenInv
<1>1. ASSUME NEW text \in Texts, NEW final \in BOOLEAN, Apply(text, final), layouts' = layouts
      PROVE  ScreenInv'
  <2>1. page' = ApplyUtterance(page, text, final, TRUE) /\ said' = text
        /\ resized' = (resized /\ page.base = page.start)
    BY <1>1 DEF Apply
  <2>2. text \in Seq(Words)
    BY TextsAre
  <2>3. Good(page') /\ Len(page'.ledger) <= LedgerCap /\ Settled(page')
    BY <1>0, <2>1, <2>2, ApplyGood
  <2>4. resized' \in BOOLEAN
    BY <2>1, Zenon
  <2> QED
    BY <1>0, <1>1, <2>1, <2>2, <2>3, <2>4 DEF ScreenInv
<1>2. ASSUME NEW line \in Texts, NEW pending \in Texts \cup {<<>>}, Snapshot(line, pending)
      PROVE  ScreenInv'
  <2> DEFINE b == BlankPage(page.width)
             settled == ApplyUtterance(b, line, TRUE, FALSE)
  <2>1. page' = ApplyUtterance(settled, pending, FALSE, FALSE) /\ said' = pending /\ resized' = FALSE
    BY <1>2 DEF Snapshot
  <2>2. line \in Seq(Words) /\ pending \in Seq(Words) /\ page.width \in Nat \ {0}
    BY <1>0, TextsAre, PageParts DEF Good
  <2>3. Good(b) /\ Len(b.ledger) <= LedgerCap
    BY <2>2, BlankShown
  <2> HIDE DEF b
  <2>4. Good(settled) /\ Len(settled.ledger) <= LedgerCap
    BY <2>2, <2>3, ApplyGood
  <2> HIDE DEF settled
  <2>5. Good(page') /\ Len(page'.ledger) <= LedgerCap /\ Settled(page')
    BY <2>1, <2>2, <2>4, ApplyGood
  <2>6. layouts' \in Nat
    BY <1>0, <1>2 DEF Snapshot
  <2> QED
    BY <2>1, <2>2, <2>5, <2>6 DEF ScreenInv
<1>3. ASSUME NEW width \in Widths, Retypeset(width) PROVE ScreenInv'
  <2> DEFINE q == [page EXCEPT !.width = width]
  <2>1. page' = Rebuild(q) /\ said' = said /\ resized' = TRUE
    BY <1>3 DEF Retypeset
  <2>2. width \in Nat \ {0} /\ page \in Pages /\ page.start <= Len(page.ledger) /\ page.base <= page.start
    BY <1>0, WidthsAre DEF Good
  <2>3. q \in Pages /\ q.ledger = page.ledger /\ q.start = page.start /\ q.base = page.base
    BY <2>2 DEF Pages
  <2> HIDE DEF q
  <2>4. /\ Good(page') /\ page'.start = q.start /\ page'.base = q.base
        /\ Len(page'.ledger) = Len(q.ledger)
    BY <2>1, <2>2, <2>3, RebuildIs DEF SameWords
  <2>5. Settled(page')
    BY <1>0, <2>3, <2>4 DEF Settled
  <2>6. layouts' \in Nat
    BY <1>0, <1>3 DEF Retypeset
  <2> QED
    BY <1>0, <2>1, <2>3, <2>4, <2>5, <2>6 DEF ScreenInv
<1>4. CASE GlideEnds
  <2>1. page' = [page EXCEPT !.rows = TrimRows(@), !.gliding = FALSE] /\ said' = said
        /\ resized' = resized /\ layouts' = layouts
    BY <1>4 DEF GlideEnds
  <2>2. /\ Good(page') /\ page'.ledger = page.ledger /\ page'.start = page.start
        /\ page'.base = page.base
    BY <1>0, <2>1, GlideIs
  <2>3. Settled(page')
    BY <1>0, <2>2 DEF Settled
  <2> QED
    BY <1>0, <2>1, <2>2, <2>3 DEF ScreenInv
<1>5. CASE UNCHANGED vars
  <2>1. page' = page /\ said' = said /\ resized' = resized /\ layouts' = layouts
    BY <1>5 DEF vars
  <2> QED
    BY <1>0, <2>1 DEF ScreenInv
<1>6. ASSUME NEW text \in Texts, Interim(text) PROVE ScreenInv'
  BY <1>1, <1>6 DEF Interim
<1>7. ASSUME NEW text \in Texts, Final(text) PROVE ScreenInv'
  BY <1>1, <1>7 DEF Final
<1> QED
  BY <1>2, <1>3, <1>4, <1>5, <1>6, <1>7 DEF Next

LEMMA SaidNext == TextsFit /\ SaidInv /\ [Next]_vars => SaidInv'
<1> SUFFICES ASSUME TextsFit, SaidInv, [Next]_vars PROVE SaidInv'
  OBVIOUS
<1>0. /\ Good(page) /\ Len(page.ledger) <= LedgerCap /\ Settled(page)
      /\ said \in Seq(Words) /\ resized \in BOOLEAN
      /\ Shown(page, said, resized) /\ Excused(page, resized)
  BY DEF SaidInv, ScreenInv
<1>9. ScreenInv'
  BY ScreenNext DEF SaidInv
<1>1. ASSUME NEW text \in Texts, NEW final \in BOOLEAN, Apply(text, final) PROVE SaidInv'
  <2>1. page' = ApplyUtterance(page, text, final, TRUE) /\ said' = text
        /\ resized' = (resized /\ page.base = page.start)
    BY <1>1 DEF Apply
  <2>2. text \in Seq(Words) /\ Len(text) <= LedgerCap
    BY TextsAre DEF TextsFit
  <2>3. Shown(page', text, resized') /\ Excused(page', resized')
    <3> DEFINE X == resized /\ page.base = page.start
    <3>1. Shown(ApplyUtterance(page, text, final, TRUE), text, X)
          /\ Excused(ApplyUtterance(page, text, final, TRUE), X)
      BY <1>0, <2>2, ApplyShown
    <3>2. resized' = X
      BY <2>1
    <3> HIDE DEF X
    <3> QED
      BY <2>1, <3>1, <3>2
  <2> QED
    BY <1>9, <2>1, <2>3 DEF SaidInv
<1>2. ASSUME NEW line \in Texts, NEW pending \in Texts \cup {<<>>}, Snapshot(line, pending)
      PROVE  SaidInv'
  <2> DEFINE b == BlankPage(page.width)
             settled == ApplyUtterance(b, line, TRUE, FALSE)
             X == FALSE /\ b.base = b.start
             Y == FALSE /\ settled.base = settled.start
  <2>1. page' = ApplyUtterance(settled, pending, FALSE, FALSE) /\ said' = pending /\ resized' = FALSE
    BY <1>2 DEF Snapshot
  <2>2. line \in Seq(Words) /\ pending \in Seq(Words) /\ page.width \in Nat \ {0}
        /\ Len(line) <= LedgerCap /\ Len(pending) <= LedgerCap
    <3>1. Len(line) <= LedgerCap /\ (pending \in Texts => Len(pending) <= LedgerCap)
      BY DEF TextsFit
    <3>2. Len(<<>>) <= LedgerCap
      BY ViewerAssumption
    <3> QED
      BY <1>0, <3>1, <3>2, TextsAre, PageParts DEF Good
  <2>3. Good(b) /\ Len(b.ledger) <= LedgerCap /\ Settled(b) /\ Excused(b, FALSE)
    BY <2>2, BlankShown
  <2> HIDE DEF b
  <2>4. Good(settled) /\ Len(settled.ledger) <= LedgerCap /\ Settled(settled)
    BY <2>2, <2>3, ApplyGood
  <2>5. Excused(settled, FALSE)
    <3>1. Excused(settled, X)
      BY <2>2, <2>3, ApplyShown
    <3>2. X = FALSE
      OBVIOUS
    <3> HIDE DEF X
    <3> QED
      BY <3>1, <3>2
  <2> HIDE DEF settled
  <2>6. Shown(page', pending, FALSE) /\ Excused(page', FALSE)
    <3>1. Shown(ApplyUtterance(settled, pending, FALSE, FALSE), pending, Y)
          /\ Excused(ApplyUtterance(settled, pending, FALSE, FALSE), Y)
      BY <2>2, <2>4, <2>5, ApplyShown
    <3>2. Y = FALSE
      OBVIOUS
    <3> HIDE DEF Y
    <3> QED
      BY <2>1, <3>1, <3>2
  <2> QED
    BY <1>9, <2>1, <2>6 DEF SaidInv
<1>3. ASSUME NEW width \in Widths, Retypeset(width) PROVE SaidInv'
  <2> DEFINE q == [page EXCEPT !.width = width]
  <2>1. page' = Rebuild(q) /\ said' = said /\ resized' = TRUE
    BY <1>3 DEF Retypeset
  <2>2. width \in Nat \ {0} /\ page \in Pages /\ page.start <= Len(page.ledger) /\ page.base <= page.start
    BY <1>0, WidthsAre DEF Good
  <2>3. /\ q \in Pages /\ q.ledger = page.ledger /\ q.start = page.start /\ q.base = page.base
        /\ q.split = page.split
    BY <2>2 DEF Pages
  <2> HIDE DEF q
  <2>4. /\ page'.base = page.base /\ page'.split = page.split
        /\ Len(page'.ledger) = Len(page.ledger)
        /\ \A i \in 1..Len(page.ledger) : /\ page'.ledger[i].text = page.ledger[i].text
                                          /\ page'.ledger[i].stale = page.ledger[i].stale
    BY <2>1, <2>2, <2>3, RebuildIs DEF SameWords
  <2>5. Excused(page', TRUE)
    BY DEF Excused
  <2>6. ASSUME NEW m \in Nat, Told(page, said, resized, m) PROVE Told(page', said, TRUE, m)
    <3>1. Len(page'.ledger) = page'.base + m /\ Len(page.ledger) = page.base + m /\ page.base \in Nat
      BY <1>0, <2>4, <2>6, PageParts DEF Told, Good
    <3>2. ASSUME NEW i \in 1..m PROVE ToldAt(page', said, TRUE, i)
      <4>1. page.base + i \in 1..Len(page.ledger)
        BY <3>1
      <4>2. /\ page'.ledger[page'.base + i].text = page.ledger[page.base + i].text
            /\ page'.ledger[page'.base + i].stale = page.ledger[page.base + i].stale
        BY <2>4, <4>1
      <4>3. ~page.ledger[page.base + i].stale => Agrees(page, said, i)
        BY <2>6 DEF Told, ToldAt
      <4>4. Agrees(page, said, i) => Agrees(page', said, i)
        BY <4>2 DEF Agrees
      <4> QED
        BY <4>2, <4>3, <4>4, Zenon DEF ToldAt
    <3> QED
      BY <3>1, <3>2 DEF Told
  <2>7. Shown(page', said, TRUE)
    BY <1>0, <2>4, <2>6 DEF Shown
  <2> QED
    BY <1>9, <2>1, <2>5, <2>7 DEF SaidInv
<1>4. CASE GlideEnds
  <2>1. page' = [page EXCEPT !.rows = TrimRows(@), !.gliding = FALSE] /\ said' = said /\ resized' = resized
    BY <1>4 DEF GlideEnds
  <2>2. /\ page'.ledger = page.ledger /\ page'.start = page.start
        /\ page'.base = page.base /\ page'.split = page.split
    BY <1>0, <2>1, GlideIs
  <2>3. Shown(page', said, resized)
    BY <1>0, <2>2 DEF Shown, Told, ToldAt, Agrees
  <2>4. Excused(page', resized)
    BY <1>0, <2>2 DEF Excused
  <2> QED
    BY <1>9, <2>1, <2>3, <2>4 DEF SaidInv
<1>5. CASE UNCHANGED vars
  <2>1. page' = page /\ said' = said /\ resized' = resized
    BY <1>5 DEF vars
  <2> QED
    BY <1>0, <1>9, <2>1 DEF SaidInv
<1>6. ASSUME NEW text \in Texts, Interim(text) PROVE SaidInv'
  BY <1>1, <1>6 DEF Interim
<1>7. ASSUME NEW text \in Texts, Final(text) PROVE SaidInv'
  BY <1>1, <1>7 DEF Final
<1> QED
  BY <1>2, <1>3, <1>4, <1>5, <1>6, <1>7 DEF Next

LEMMA ScreenShown == ScreenInv => ScreenIsTheLedger
<1> SUFFICES ASSUME ScreenInv PROVE ScreenIsTheLedger
  OBVIOUS
<1> DEFINE texts == TextsOf(page.ledger)
           F == FlattenSeq(page.rows)
           L == page.ledger
<1>1. /\ L \in Seq(Entries) /\ page.rows \in Rows /\ Meets(F, L)
      /\ Marked(L, Len(Last(page.rows)))
      /\ \A i \in 1..Len(page.rows) : RowFits(page.rows[i], page.width)
  BY DEF ScreenInv, Good, Sound
<1>2. texts \in Seq(Words) /\ Len(texts) = Len(L) /\ \A i \in 1..Len(L) : texts[i] = L[i].text
  BY <1>1, TextsOfIs
<1>3. F \in Seq(Words)
  BY <1>1, FlattenRows
<1>4. DOMAIN L = 1..Len(L) /\ DOMAIN page.rows = 1..Len(page.rows)
  BY <1>1 DEF Rows
<1> HIDE DEF F, texts, L
<1>5. ASSUME NEW k \in Nat, k < Len(F), k < Len(texts)
      PROVE  F[Len(F) - k] = texts[Len(texts) - k]
  <2>1. k < Len(L) /\ Len(texts) - k \in 1..Len(L) /\ Len(texts) - k = Len(L) - k
    BY <1>1, <1>2, <1>5
  <2> QED
    BY <1>1, <1>2, <1>5, <2>1 DEF Meets
<1>6. IsSuffix(F, texts) \/ IsSuffix(texts, F)
  <2>1. Len(F) \in Nat /\ Len(texts) \in Nat
    BY <1>2, <1>3
  <2>2. CASE Len(F) <= Len(texts)
    <3>1. \A k \in Nat : k < Len(F) => F[Len(F) - k] = texts[Len(texts) - k]
      BY <1>5, <2>1, <2>2
    <3> QED
      BY <1>2, <1>3, <2>2, <3>1, SuffixIs
  <2>3. CASE ~(Len(F) <= Len(texts))
    <3>1. Len(texts) <= Len(F)
      BY <2>1, <2>3
    <3>2. \A k \in Nat : k < Len(texts) => texts[Len(texts) - k] = F[Len(F) - k]
      BY <1>5, <2>1, <2>3
    <3> QED
      BY <1>2, <1>3, <3>1, <3>2, SuffixIs
  <2> QED
    BY <2>2, <2>3
<1>7. \A i \in DOMAIN L : L[i].frozen <=> i <= Len(L) - Len(Last(page.rows))
  BY <1>1, <1>4 DEF Marked
<1>8. \A i \in DOMAIN page.rows : RowWidth(page.rows[i]) <= page.width \/ Len(page.rows[i]) = 1
  BY <1>1, <1>4 DEF RowFits
<1> QED
  BY <1>6, <1>7, <1>8 DEF ScreenIsTheLedger, F, texts, L

LEMMA SaidShown == SaidInv => HypothesisShown
<1> SUFFICES ASSUME SaidInv PROVE HypothesisShown
  OBVIOUS
<1> DEFINE b == page.base
           shown == SubSeq(page.ledger, b + 1, Len(page.ledger))
           agree(i) == i <= Len(said) /\ shown[i].text = said[i]
<1> SUFFICES ASSUME ~page.split
             PROVE  /\ Len(shown) >= Len(said)
                    /\ \A i \in DOMAIN shown :
                         IF shown[i].stale THEN resized \/ \E j \in 1..i : ~agree(j) ELSE agree(i)
  BY Zenon DEF HypothesisShown
<1>0. page.ledger \in Seq(Entries) /\ b \in Nat /\ Len(page.ledger) \in Nat /\ said \in Seq(Words)
  BY PageParts DEF SaidInv, ScreenInv, Good
<1>1. PICK m \in Nat : Len(said) <= m /\ Told(page, said, resized, m)
  BY DEF SaidInv, Shown
<1>2. Len(page.ledger) = b + m /\ \A i \in 1..m : ToldAt(page, said, resized, i)
  BY <1>1 DEF Told
<1>3. b \in 0..Len(page.ledger) /\ Len(page.ledger) - b = m
  BY <1>0, <1>2
<1>4. shown \in Seq(Entries) /\ Len(shown) = m /\ \A i \in 1..m : shown[i] = page.ledger[i + b]
  BY <1>0, <1>3, Dropped
<1> HIDE DEF shown, b
<1>5. DOMAIN shown = 1..m /\ Len(shown) >= Len(said)
  BY <1>0, <1>1, <1>4
<1>6. \A i \in 1..m : shown[i] = page.ledger[page.base + i] /\ (agree(i) <=> Agrees(page, said, i))
  <2> SUFFICES ASSUME NEW i \in 1..m
               PROVE  shown[i] = page.ledger[page.base + i] /\ (agree(i) <=> Agrees(page, said, i))
    OBVIOUS
  <2>1. i + b = page.base + i
    BY <1>0 DEF b
  <2>2. shown[i] = page.ledger[page.base + i]
    BY <1>4, <2>1
  <2> QED
    BY <2>2 DEF Agrees
<1> HIDE DEF agree
<1>7. ASSUME NEW i \in 1..m
      PROVE  IF shown[i].stale THEN resized \/ \E j \in 1..i : ~agree(j) ELSE agree(i)
  <2>1. ToldAt(page, said, resized, i)
    BY <1>2
  <2>2. \A j \in 1..i : j \in 1..m
    BY <1>1
  <2>3. \A j \in 1..i : agree(j) <=> Agrees(page, said, j)
    BY <1>6, <2>2
  <2>4. shown[i] = page.ledger[page.base + i] /\ (agree(i) <=> Agrees(page, said, i))
    BY <1>6
  <2> HIDE DEF Agrees
  <2> QED
    BY <2>1, <2>3, <2>4, Zenon DEF ToldAt
<1> QED
  BY <1>5, <1>7, Zenon

\* Rows and ledger agree from their ends, just the open row's words can still be
\* revised and no row is too wide, for all texts, widths and bounds
\* (ScreenIsTheLedger).
THEOREM ScreenMatchesLedger == Spec => []ScreenIsTheLedger
<1>1. Init => ScreenInv
  BY ScreenInit
<1> QED
  BY <1>1, ScreenNext, ScreenShown, PTL DEF Spec

\* The page shows the last text and marks what contradicts it, when no text
\* has more words than the ledger holds (HypothesisShown; LEDGER_CAP is 4000
\* words, far more than one utterance).
THEOREM LastTextIsShown ==
  ASSUME \A text \in Texts : Len(text) <= LedgerCap
  PROVE  Spec => []HypothesisShown
<1>1. Init => SaidInv
  BY ScreenInit
<1>2. SaidInv /\ [Next]_vars => SaidInv'
  BY SaidNext DEF TextsFit
<1> QED
  BY <1>1, <1>2, SaidShown, PTL DEF Spec

\* Words of the open row that the text confirms.
Kept(p, text) ==
  Max({Len(Last(p.rows)) - (Len(Old(p)) - Len(LongestCommonPrefix({TextsOf(Old(p)), text}))), 0})

\* What PaintedStays asks of rows before and after, when kept words of the
\* open row stay.
Stay(rows, kept, new) ==
  \E k \in 0..Len(Front(rows)) :
    /\ IsPrefix(SubSeq(Front(rows), k + 1, Len(Front(rows))), new)
    /\ Len(new) > Len(Front(rows)) - k
    /\ IsPrefix(SubSeq(Last(rows), 1, kept), new[Len(Front(rows)) - k + 1])
    /\ k = 0 \/ Len(new) = MaxRows + 1

LEMMA KeptIs ==
  ASSUME NEW p, Good(p), NEW text \in Seq(Words)
  PROVE  Kept(p, text) \in 0..Len(Last(p.rows))
         /\ Kept(p, text) <= Len(Last(p.rows)) - (Len(Old(p)) - Keep(p, text))
<1> DEFINE o == Len(Last(p.rows))
           N == Len(Old(p))
           c == Common(p, text)
           m == Keep(p, text)
<1>1. /\ Old(p) \in Seq(Entries) /\ c \in 0..N /\ c <= m /\ m \in 0..N /\ N - m \in 0..o
  BY KeepIs
<1>2. o \in Nat /\ N \in Nat
  <2>1. Last(p.rows) \in Seq(Words)
    BY OpenRow DEF Good, Sound
  <2> QED
    BY <1>1, <2>1
<1>3. Kept(p, text) = Max({o - (N - c), 0})
  BY DEF Kept, Common
<1> HIDE DEF o, N, c, m
<1>4. Max({o - (N - c), 0}) = IF o - (N - c) >= 0 THEN o - (N - c) ELSE 0
  <2>1. o - (N - c) \in Int
    BY <1>1, <1>2
  <2> QED
    BY <2>1, MaxTwo
<1>5. Kept(p, text) \in 0..o /\ Kept(p, text) <= o - (N - m)
  BY <1>1, <1>2, <1>3, <1>4
<1> QED
  BY <1>5 DEF o, N, m

\* The first words of a row are a beginning of any row that grew from it.
LEMMA StaysBegun ==
  ASSUME NEW row \in Seq(Words), NEW n \in 0..Len(row), NEW new \in Seq(Words),
         n <= Len(new), \A i \in 1..n : new[i] = row[i]
  PROVE  IsPrefix(SubSeq(row, 1, n), new)
<1> DEFINE s == SubSeq(row, 1, n)
<1>1. s \in Seq(Words) /\ Len(s) = n /\ \A i \in 1..n : s[i] = row[i]
  BY Taken
<1> HIDE DEF s
<1>2. IsPrefix(s, new)
  BY <1>1, PrefixIs
<1> QED
  BY <1>2 DEF s

\* The rows extended after the open one was cut to n words.
LEMMA StayExtended ==
  ASSUME NEW rows \in Rows, rows # <<>>, NEW n \in 0..Len(Last(rows)), NEW kept \in 0..n,
         NEW new \in Rows, new # <<>>, Extends(WithOpen(rows, SubSeq(Last(rows), 1, n)), new)
  PROVE  Stay(rows, kept, new)
<1> DEFINE f == Front(rows)
           open == Last(rows)
           cut == SubSeq(open, 1, n)
           mid == WithOpen(rows, cut)
           N == Len(rows)
<1>1. /\ open \in Seq(Words) /\ f \in Rows /\ Len(f) = N - 1 /\ N \in Nat \ {0}
      /\ \A i \in 1..(N - 1) : f[i] = rows[i]
  BY OpenRow
<1>2. cut \in Seq(Words) /\ Len(cut) = n /\ \A i \in 1..n : cut[i] = open[i]
  BY <1>1, Taken
<1> HIDE DEF cut
<1>3. /\ mid \in Rows /\ Len(mid) = N /\ Last(mid) = cut
      /\ \A i \in 1..(N - 1) : mid[i] = rows[i]
  BY <1>2, OpenRowIs
<1> HIDE DEF mid
<1>4. /\ N <= Len(new) /\ \A i \in 1..(N - 1) : new[i] = mid[i]
      /\ n <= Len(new[N]) /\ \A i \in 1..n : new[N][i] = cut[i]
  <2>1. Extends(mid, new)
    BY DEF mid, cut
  <2> QED
    BY <1>2, <1>3, <2>1 DEF Extends
<1> HIDE DEF f, open, N
<1>5. IsPrefix(SubSeq(f, 1, Len(f)), new)
  <2>1. f \in Seq(Seq(Words)) /\ new \in Seq(Seq(Words))
    BY <1>1 DEF Rows
  <2>2. SubSeq(f, 1, Len(f)) = f
    BY <2>1, SubSeqFull
  <2>3. Len(f) <= Len(new) /\ \A i \in 1..Len(f) : f[i] = new[i]
    <3>1. Len(new) \in Nat
      BY <2>1
    <3> QED
      BY <1>1, <1>3, <1>4, <3>1
  <2> QED
    BY <2>1, <2>2, <2>3, PrefixIs
<1>6. new[N] \in Seq(Words)
  <2>1. N \in 1..Len(new)
    BY <1>1, <1>4 DEF Rows
  <2> QED
    BY <2>1 DEF Rows
<1>7. IsPrefix(SubSeq(open, 1, kept), new[N])
  <2>1. kept \in 0..Len(open)
    BY <1>1 DEF open
  <2>2. kept <= Len(new[N])
    BY <1>4, <1>6
  <2>3. \A i \in 1..kept : i \in 1..n
    OBVIOUS
  <2>4. \A i \in 1..kept : new[N][i] = open[i]
    BY <1>2, <1>4, <2>3
  <2> QED
    BY <1>1, <1>6, <2>1, <2>2, <2>4, StaysBegun
<1>8. 0 \in 0..Len(f) /\ 0 + 1 = 1 /\ Len(new) > Len(f) - 0 /\ Len(f) - 0 + 1 = N
  <2>1. Len(new) \in Nat
    BY DEF Rows
  <2> QED
    BY <1>1, <1>4, <2>1
<1>9. /\ IsPrefix(SubSeq(f, 0 + 1, Len(f)), new)
      /\ IsPrefix(SubSeq(open, 1, kept), new[Len(f) - 0 + 1])
  BY <1>5, <1>7, <1>8
<1>10. \E k \in 0..Len(f) :
         /\ IsPrefix(SubSeq(f, k + 1, Len(f)), new)
         /\ Len(new) > Len(f) - k
         /\ IsPrefix(SubSeq(open, 1, kept), new[Len(f) - k + 1])
         /\ k = 0 \/ Len(new) = MaxRows + 1
  BY <1>8, <1>9
<1> QED
  BY <1>10 DEF Stay, f, open

\* The rows at the end of a glide.
LEMMA StayTrimmed ==
  ASSUME NEW rows \in Rows, rows # <<>>, NEW kept \in 0..Len(Last(rows))
  PROVE  Stay(rows, kept, TrimRows(rows))
<1> DEFINE f == Front(rows)
           open == Last(rows)
           new == TrimRows(rows)
           N == Len(rows)
<1>1. /\ open \in Seq(Words) /\ f \in Rows /\ Len(f) = N - 1 /\ N \in Nat \ {0}
      /\ \A i \in 1..(N - 1) : f[i] = rows[i]
  BY OpenRow
<1>2. PICK j \in 1..N :
        /\ new \in Rows /\ new # <<>> /\ Len(new) = N - j + 1
        /\ \A i \in 1..Len(new) : new[i] = rows[j + i - 1]
        /\ Last(new) = open
        /\ j = 1 \/ Len(new) = MaxRows + 1
  BY TrimRowsIs
<1> DEFINE k == j - 1
           g == SubSeq(f, k + 1, Len(f))
<1> HIDE DEF f, open, new, N
<1>3. k \in 0..Len(f) /\ Len(f) - k + 1 = Len(new) /\ Len(new) > Len(f) - k
      /\ (k = 0 \/ Len(new) = MaxRows + 1)
  BY <1>1, <1>2
<1>4. g \in Seq(Seq(Words)) /\ Len(g) = Len(f) - k /\ \A i \in 1..(Len(f) - k) : g[i] = f[i + k]
  <2>1. f \in Seq(Seq(Words))
    BY <1>1 DEF Rows
  <2> HIDE DEF k
  <2> QED
    BY <1>3, <2>1, Dropped
<1>5. IsPrefix(g, new)
  <2>1. new \in Seq(Seq(Words))
    BY <1>2 DEF Rows
  <2>2. ASSUME NEW i \in 1..Len(g) PROVE g[i] = new[i]
    <3>1. /\ i \in 1..(Len(f) - k) /\ i + k \in 1..(N - 1) /\ i \in 1..Len(new)
          /\ i + k = j + i - 1
      BY <1>1, <1>2, <1>3, <1>4
    <3> QED
      BY <1>1, <1>2, <1>4, <3>1
  <2>3. Len(g) <= Len(new)
    BY <1>1, <1>2, <1>4
  <2> HIDE DEF g
  <2> QED
    BY <1>4, <2>1, <2>2, <2>3, PrefixIs
<1>6. new[Len(new)] = open
  BY <1>2 DEF Last
<1>7. IsPrefix(SubSeq(open, 1, kept), open)
  <2>1. kept \in 0..Len(open) /\ kept <= Len(open)
    BY <1>1 DEF open
  <2> QED
    BY <1>1, <2>1, StaysBegun
<1>8. IsPrefix(SubSeq(open, 1, kept), new[Len(f) - k + 1])
  BY <1>3, <1>6, <1>7
<1> HIDE DEF k
<1>9. \E x \in 0..Len(f) :
        /\ IsPrefix(SubSeq(f, x + 1, Len(f)), new)
        /\ Len(new) > Len(f) - x
        /\ IsPrefix(SubSeq(open, 1, kept), new[Len(f) - x + 1])
        /\ x = 0 \/ Len(new) = MaxRows + 1
  BY <1>3, <1>5, <1>8
<1> QED
  BY <1>9 DEF Stay, f, open, new

LEMMA StaySelf ==
  ASSUME NEW rows \in Rows, rows # <<>>, NEW kept \in 0..Len(Last(rows))
  PROVE  Stay(rows, kept, rows)
<1>1. Last(rows) \in Seq(Words) /\ Len(Last(rows)) \in Nat
  BY OpenRow
<1>2. SubSeq(Last(rows), 1, Len(Last(rows))) = Last(rows)
  BY <1>1, SubSeqFull
<1>3. WithOpen(rows, Last(rows)) = rows
  BY OpenRow
<1>4. Extends(rows, rows)
  BY ExtendsSelf
<1>5. Len(Last(rows)) \in 0..Len(Last(rows))
  BY <1>1
<1> QED
  BY <1>2, <1>3, <1>4, <1>5, StayExtended

LEMMA StayNext ==
  ScreenInv /\ [Next]_vars /\ layouts' = layouts =>
    Stay(page.rows, Kept(page, said'), page'.rows)
<1> SUFFICES ASSUME ScreenInv, [Next]_vars, layouts' = layouts
             PROVE  Stay(page.rows, Kept(page, said'), page'.rows)
  OBVIOUS
<1>6. layouts' # layouts + 1
  BY DEF ScreenInv
<1>0. /\ Good(page) /\ Len(page.ledger) <= LedgerCap /\ page.rows \in Rows /\ page.rows # <<>>
      /\ said \in Seq(Words)
  BY DEF ScreenInv, Good, Sound
<1>1. ASSUME NEW text \in Texts, NEW final \in BOOLEAN, Apply(text, final)
      PROVE  Stay(page.rows, Kept(page, said'), page'.rows)
  <2> DEFINE n == Len(Last(page.rows)) - (Len(Old(page)) - Keep(page, text))
             q == Revised(page, text)
             kept == Kept(page, text)
  <2>1. page' = ApplyUtterance(page, text, final, TRUE) /\ said' = text
    BY <1>1 DEF Apply
  <2>2. text \in Seq(Words)
    BY TextsAre
  <2>3. Good(page') /\ Extends(q.rows, page'.rows)
    BY <1>0, <2>1, <2>2, ApplyGood
  <2>4. q.rows = WithOpen(page.rows, SubSeq(Last(page.rows), 1, n))
    BY <1>0, <2>2, RevisedIs
  <2>5. Len(Old(page)) - Keep(page, text) \in 0..Len(Last(page.rows))
    BY <1>0, <2>2, KeepIs
  <2>6. Len(Last(page.rows)) \in Nat
    <3>1. Last(page.rows) \in Seq(Words)
      BY <1>0, OpenRow
    <3> QED
      BY <3>1
  <2>7. n \in 0..Len(Last(page.rows))
    BY <2>5, <2>6
  <2>8. kept \in 0..Len(Last(page.rows)) /\ kept <= n
    BY <1>0, <2>2, KeptIs
  <2> HIDE DEF n, q, kept
  <2>9. kept \in 0..n
    BY <2>6, <2>7, <2>8
  <2>10. page'.rows \in Rows /\ page'.rows # <<>>
    BY <2>3 DEF Good, Sound
  <2>11. Stay(page.rows, kept, page'.rows)
    BY <1>0, <2>3, <2>4, <2>7, <2>9, <2>10, StayExtended
  <2> QED
    BY <2>1, <2>11 DEF kept
<1>2. CASE GlideEnds
  <2>1. page' = [page EXCEPT !.rows = TrimRows(@), !.gliding = FALSE] /\ said' = said
    BY <1>2 DEF GlideEnds
  <2>2. page'.rows = TrimRows(page.rows)
    BY <1>0, <2>1, GlideIs
  <2>3. Kept(page, said) \in 0..Len(Last(page.rows))
    BY <1>0, KeptIs
  <2> QED
    BY <1>0, <2>1, <2>2, <2>3, StayTrimmed
<1>3. CASE UNCHANGED vars
  <2>1. page' = page /\ said' = said
    BY <1>3 DEF vars
  <2>2. Kept(page, said) \in 0..Len(Last(page.rows))
    BY <1>0, KeptIs
  <2> QED
    BY <1>0, <2>1, <2>2, StaySelf
<1>4. ASSUME NEW text \in Texts, Interim(text)
      PROVE  Stay(page.rows, Kept(page, said'), page'.rows)
  BY <1>1, <1>4 DEF Interim
<1>5. ASSUME NEW text \in Texts, Final(text)
      PROVE  Stay(page.rows, Kept(page, said'), page'.rows)
  BY <1>1, <1>5 DEF Final
<1> QED
  BY <1>2, <1>3, <1>4, <1>5, <1>6 DEF Next, Snapshot, Retypeset

\* No event moves a painted word: closed rows only go off at the top, and words
\* of the open row that the text confirms stay, for all texts, widths and bounds
\* (PaintedStays).
THEOREM PaintIsDry == Spec => PaintedStays
<1>1. Init => ScreenInv
  BY ScreenInit
<1>2. ScreenInv /\ [Next]_vars /\ layouts' = layouts =>
        LET closed    == Front(page.rows)
            open      == Last(page.rows)
            old       == SubSeq(page.ledger, page.start + 1, Len(page.ledger))
            confirmed == Len(LongestCommonPrefix({TextsOf(old), said'}))
            kept      == Max({Len(open) - (Len(old) - confirmed), 0})
        IN  \E k \in 0..Len(closed) :
              /\ IsPrefix(SubSeq(closed, k + 1, Len(closed)), page'.rows)
              /\ Len(page'.rows) > Len(closed) - k
              /\ IsPrefix(SubSeq(open, 1, kept), page'.rows[Len(closed) - k + 1])
              /\ k = 0 \/ Len(page'.rows) = MaxRows + 1
  BY StayNext, Zenon DEF Stay, Kept, Old
<1> QED
  BY <1>1, <1>2, ScreenNext, PTL DEF Spec, PaintedStays
=============================================================================
