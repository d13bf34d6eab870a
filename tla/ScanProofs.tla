----------------------------- MODULE ScanProofs -----------------------------
(***************************************************************************)
(* Proofs about Scan, for every limit on running filters, any number of    *)
(* failures to open the demux device, and whatever is on the air.          *)
(***************************************************************************)
EXTENDS Scan, SequenceTheorems, WellFoundedInduction, TLAPS

-----------------------------------------------------------------------------
(* Induction over the places of a list.                                    *)

\* A set of numbers that is not empty has a least one.
LEMMA MinIsIn ==
    ASSUME NEW S \in SUBSET Nat, S # {}
    PROVE  Min(S) \in S /\ \A x \in S : Min(S) <= x
  <1>1. PICK x \in S : \A y \in S : ~(<<y, x>> \in OpToRel(<, Nat))
    BY NatLessThanWellFounded, WFMin
  <1>2. \A y \in S : x =< y
    <2> TAKE y \in S
    <2>1. ~(y < x)
      <3> SUFFICES ASSUME y < x PROVE FALSE
        OBVIOUS
      <3>1. <<y, x>> \in {p \in Nat \X Nat : p[1] < p[2]}
        OBVIOUS
      <3>2. OpToRel(<, Nat) = {p \in Nat \X Nat : p[1] < p[2]}
        BY DEF OpToRel
      <3> QED BY <1>1, <3>1, <3>2
    <2> QED BY <2>1
  <1> QED BY <1>2 DEF Min

\* What holds at 0 and goes on from each number to the next one holds up to n.
LEMMA CountingUp ==
    ASSUME NEW n \in Nat, NEW S, 0 \in S, \A k \in 0 .. n : k \in S /\ k < n => k + 1 \in S
    PROVE  \A k \in 0 .. n : k \in S
  <1> SUFFICES ASSUME NEW j \in 0 .. n, j \notin S PROVE FALSE
    OBVIOUS
  <1> DEFINE T == {k \in 0 .. n : k \notin S}
             m == Min(T)
  <1>1. m \in T /\ \A x \in T : m <= x
    BY MinIsIn
  <1> HIDE DEF m
  <1>2. m \in 1 .. n /\ m - 1 \in 0 .. n /\ m - 1 \notin T
    BY <1>1
  <1>3. m - 1 \in S /\ m - 1 < n /\ (m - 1) + 1 = m
    BY <1>2
  <1> QED BY <1>1, <1>2, <1>3

\* f goes through a list of n elements: it begins with b, and D leads from one value to
\* the next.
IsFold(f, n, B, b, D) ==
    f \in [0 .. n -> B] /\ f[0] = b /\ \A k \in 1 .. n : f[k] = D[<<k, f[k - 1]>>]

\* There is such a function.
LEMMA FoldExists ==
    ASSUME NEW n \in Nat, NEW B, NEW b \in B, NEW D \in [(1 .. n) \X B -> B]
    PROVE  \E f : IsFold(f, n, B, b, D)
  <1> USE DEF IsFold
  <1> DEFINE Upto(m, f) == IsFold(f, m, B, b, D)
             S == {m \in 0 .. n : \E f : Upto(m, f)}
  <1>1. 0 \in S
    <2>1. Upto(0, [k \in 0 .. 0 |-> b])
      OBVIOUS
    <2> HIDE DEF Upto, IsFold
    <2>2. \E f : Upto(0, f)
      BY <2>1
    <2> QED BY <2>2
  <1>2. ASSUME NEW m \in 0 .. n, m \in S, m < n PROVE m + 1 \in S
    <2>1. PICK f : Upto(m, f)
      BY <1>2
    <2> DEFINE g == [k \in 0 .. m + 1 |-> IF k = m + 1 THEN D[<<m + 1, f[m]>>] ELSE f[k]]
    <2>2. D[<<m + 1, f[m]>>] \in B
      BY <1>2, <2>1
    <2>3. g \in [0 .. m + 1 -> B] /\ g[0] = b
      BY <2>1, <2>2
    <2>4. ASSUME NEW k \in 1 .. m + 1 PROVE g[k] = D[<<k, g[k - 1]>>]
      <3>1. CASE k = m + 1
        <4>1. g[k] = D[<<m + 1, f[m]>>] /\ k - 1 = m
          BY <3>1
        <4>2. g[m] = f[m]
          OBVIOUS
        <4> HIDE DEF g
        <4> QED BY <3>1, <4>1, <4>2
      <3>2. CASE k \in 1 .. m
        <4>1. g[k] = f[k] /\ g[k - 1] = f[k - 1]
          BY <3>2
        <4> HIDE DEF g
        <4> QED BY <2>1, <3>2, <4>1
      <3> QED BY <3>1, <3>2
    <2> HIDE DEF g
    <2>5. Upto(m + 1, g)
      BY <2>3, <2>4
    <2> HIDE DEF Upto, IsFold
    <2>6. \E f1 : Upto(m + 1, f1)
      BY <2>5
    <2> QED BY <1>2, <2>6
  <1>3. n \in S
    <2> HIDE DEF S
    <2> QED BY <1>1, <1>2, CountingUp
  <1> HIDE DEF IsFold
  <1> QED BY <1>3

-----------------------------------------------------------------------------
(* The lists of filters.                                                   *)

Queue(F) == [r : Seq(F), w : Seq(F), left : Nat]

\* The filters on the lists.
In(q) == Range(q.r) \cup Range(q.w)

\* Each filter is on one list once, and no more of them run than may.
Sound(q) ==
    /\ Len(q.r) <= MaxRunning
    /\ IsInjective(q.r) /\ IsInjective(q.w)
    /\ Range(q.r) \cap Range(q.w) = {}

LEMMA RangeIs ==
    ASSUME NEW F, NEW s \in Seq(F)
    PROVE  Range(s) = {s[i] : i \in 1 .. Len(s)} /\ Range(s) \subseteq F
  BY DEF Range

LEMMA InRange ==
    ASSUME NEW F, NEW s \in Seq(F), NEW i \in 1 .. Len(s)
    PROVE  s[i] \in Range(s)
  BY DEF Range

LEMMA InjectiveIs ==
    ASSUME NEW F, NEW s \in Seq(F)
    PROVE  IsInjective(s) <=> \A i, j \in 1 .. Len(s) : s[i] = s[j] => i = j
  BY DEF IsInjective

\* A list in front of another one.
LEMMA JoinLists ==
    ASSUME NEW F, NEW s \in Seq(F), NEW t \in Seq(F)
    PROVE  /\ s \o t \in Seq(F) /\ Len(s \o t) = Len(s) + Len(t)
           /\ Range(s \o t) = Range(s) \cup Range(t)
           /\ IsInjective(s) /\ IsInjective(t) /\ Range(s) \cap Range(t) = {}
              => IsInjective(s \o t)
  <1> DEFINE u == s \o t
  <1>1. /\ u \in Seq(F) /\ Len(u) = Len(s) + Len(t)
        /\ \A i \in 1 .. Len(u) : u[i] = IF i <= Len(s) THEN s[i] ELSE t[i - Len(s)]
    BY ConcatProperties
  <1> HIDE DEF u
  <1>2. Len(s) \in Nat /\ Len(t) \in Nat
    BY LenProperties
  <1>3. Range(u) = Range(s) \cup Range(t)
    <2>1. ASSUME NEW i \in 1 .. Len(u) PROVE u[i] \in Range(s) \cup Range(t)
      <3>1. CASE i <= Len(s)
        BY <1>1, <1>2, <3>1, RangeIs
      <3>2. CASE i > Len(s)
        <4>1. i - Len(s) \in 1 .. Len(t) /\ u[i] = t[i - Len(s)]
          BY <1>1, <1>2, <3>2
        <4> QED BY <4>1, RangeIs
      <3> QED BY <1>2, <3>1, <3>2
    <2>2. ASSUME NEW i \in 1 .. Len(s) PROVE s[i] \in Range(u)
      <3>1. i \in 1 .. Len(u) /\ u[i] = s[i]
        BY <1>1, <1>2
      <3> QED BY <1>1, <3>1, RangeIs
    <2>3. ASSUME NEW i \in 1 .. Len(t) PROVE t[i] \in Range(u)
      <3> DEFINE k == i + Len(s)
      <3>1. k \in 1 .. Len(u) /\ k - Len(s) = i /\ ~(k <= Len(s))
        BY <1>1, <1>2
      <3> HIDE DEF k
      <3>2. u[k] = t[i]
        BY <1>1, <3>1
      <3> QED BY <1>1, <3>1, <3>2, InRange
    <2>4. /\ Range(u) = {u[i] : i \in 1 .. Len(u)} /\ Range(s) = {s[i] : i \in 1 .. Len(s)}
          /\ Range(t) = {t[i] : i \in 1 .. Len(t)}
      BY <1>1, RangeIs
    <2> QED BY <2>1, <2>2, <2>3, <2>4
  <1>4. ASSUME IsInjective(s), IsInjective(t), Range(s) \cap Range(t) = {}
        PROVE  IsInjective(u)
    <2> SUFFICES ASSUME NEW i \in 1 .. Len(u), NEW j \in 1 .. Len(u), u[i] = u[j], i < j
                 PROVE  FALSE
      <3> HIDE <1>4
      <3>1. \A i, j \in 1 .. Len(u) : u[i] = u[j] => i = j
        BY <1>1, <1>2
      <3> QED BY <1>1, <3>1, InjectiveIs
    <2>1. /\ \A k, l \in 1 .. Len(s) : s[k] = s[l] => k = l
          /\ \A k, l \in 1 .. Len(t) : t[k] = t[l] => k = l
      BY <1>4, InjectiveIs
    <2>2. CASE j <= Len(s)
      <3>1. i \in 1 .. Len(s) /\ j \in 1 .. Len(s) /\ u[i] = s[i] /\ u[j] = s[j]
        BY <1>1, <1>2, <2>2
      <3>2. i = j
        BY <2>1, <3>1
      <3> QED BY <1>1, <1>2, <3>2
    <2>3. CASE i > Len(s)
      <3>1. /\ i - Len(s) \in 1 .. Len(t) /\ j - Len(s) \in 1 .. Len(t)
            /\ u[i] = t[i - Len(s)] /\ u[j] = t[j - Len(s)]
        BY <1>1, <1>2, <2>3
      <3>2. i - Len(s) = j - Len(s)
        BY <2>1, <3>1
      <3> QED BY <1>2, <3>2
    <2>4. CASE i <= Len(s) /\ j > Len(s)
      <3>1. /\ i \in 1 .. Len(s) /\ j - Len(s) \in 1 .. Len(t)
            /\ u[i] = s[i] /\ u[j] = t[j - Len(s)]
        BY <1>1, <1>2, <2>4
      <3>2. u[i] \in Range(s)
        BY <3>1, RangeIs
      <3>3. u[j] \in Range(t)
        BY <3>1, InRange
      <3> QED BY <1>4, <3>2, <3>3
    <2> QED BY <1>1, <1>2, <2>2, <2>3, <2>4
  <1> QED BY <1>1, <1>3, <1>4 DEF u

LEMMA AppendList ==
    ASSUME NEW F, NEW s \in Seq(F), NEW e \in F
    PROVE  /\ Append(s, e) \in Seq(F) /\ Len(Append(s, e)) = Len(s) + 1
           /\ Range(Append(s, e)) = Range(s) \cup {e}
           /\ IsInjective(s) /\ e \notin Range(s) => IsInjective(Append(s, e))
  <1>1. <<e>> \in Seq(F) /\ Len(<<e>>) = 1 /\ <<e>>[1] = e
    OBVIOUS
  <1>2. Range(<<e>>) = {e} /\ IsInjective(<<e>>)
    BY <1>1 DEF Range, IsInjective
  <1>3. Append(s, e) = s \o <<e>>
    BY AppendIsConcat
  <1> DEFINE o == <<e>>
  <1> HIDE DEF o
  <1>4. o \in Seq(F) /\ Len(o) = 1 /\ Range(o) = {e} /\ IsInjective(o) /\ Append(s, e) = s \o o
    BY <1>1, <1>2, <1>3 DEF o
  <1>5. /\ s \o o \in Seq(F) /\ Len(s \o o) = Len(s) + Len(o)
        /\ Range(s \o o) = Range(s) \cup Range(o)
        /\ IsInjective(s) /\ IsInjective(o) /\ Range(s) \cap Range(o) = {}
           => IsInjective(s \o o)
    BY <1>4, JoinLists
  <1> QED BY <1>4, <1>5

LEMMA PartOfList ==
    ASSUME NEW F, NEW s \in Seq(F), NEW n \in 0 .. Len(s)
    PROVE  LET a == SubSeq(s, 1, n)  b == SubSeq(s, n + 1, Len(s))
           IN  /\ a \in Seq(F) /\ Len(a) = n /\ \A i \in 1 .. n : a[i] = s[i]
               /\ b \in Seq(F) /\ Len(b) = Len(s) - n
               /\ \A i \in 1 .. Len(s) - n : b[i] = s[n + i]
               /\ Range(a) \cup Range(b) = Range(s)
               /\ IsInjective(s) => /\ IsInjective(a) /\ IsInjective(b)
                                    /\ Range(a) \cap Range(b) = {}
  <1> DEFINE a == SubSeq(s, 1, n)
             b == SubSeq(s, n + 1, Len(s))
  <1>1. Len(s) \in Nat /\ \A i \in 1 .. Len(s) : s[i] \in F
    BY LenProperties, ElementOfSeq
  <1>2. a \in Seq(F) /\ Len(a) = n /\ \A i \in 1 .. n : a[i] = s[i]
    BY <1>1, SubSeqProperties
  <1>3. b \in Seq(F) /\ Len(b) = Len(s) - n /\ \A i \in 1 .. Len(s) - n : b[i] = s[n + i]
    BY <1>1, SubSeqProperties
  <1> HIDE DEF a, b
  <1>4. /\ Range(a) = {a[i] : i \in 1 .. n} /\ Range(b) = {b[i] : i \in 1 .. Len(s) - n}
        /\ Range(s) = {s[i] : i \in 1 .. Len(s)}
    BY <1>2, <1>3, RangeIs
  <1>5. \A i \in 1 .. Len(s) : s[i] \in Range(a) \cup Range(b)
    <2> TAKE i \in 1 .. Len(s)
    <2>1. CASE i <= n
      BY <1>2, <1>4, <2>1
    <2>2. CASE i > n
      <3>1. i - n \in 1 .. Len(s) - n /\ b[i - n] = s[i]
        BY <1>1, <1>3, <2>2
      <3> QED BY <1>4, <3>1
    <2> QED BY <2>1, <2>2
  <1>6. \A i \in 1 .. n : a[i] \in Range(s)
    BY <1>1, <1>2, <1>4
  <1>7. \A i \in 1 .. Len(s) - n : b[i] \in Range(s)
    <2> TAKE i \in 1 .. Len(s) - n
    <2>1. n + i \in 1 .. Len(s) /\ b[i] = s[n + i]
      BY <1>1, <1>3
    <2> QED BY <1>4, <2>1
  <1>8. Range(a) \cup Range(b) = Range(s)
    BY <1>4, <1>5, <1>6, <1>7
  <1>9. ASSUME IsInjective(s)
        PROVE  IsInjective(a) /\ IsInjective(b) /\ Range(a) \cap Range(b) = {}
    <2>1. \A i, j \in 1 .. Len(s) : s[i] = s[j] => i = j
      BY <1>9, InjectiveIs
    <2>2. \A i, j \in 1 .. n : a[i] = a[j] => i = j
      BY <1>1, <1>2, <2>1
    <2>3. \A i, j \in 1 .. Len(s) - n : b[i] = b[j] => i = j
      <3> TAKE i, j \in 1 .. Len(s) - n
      <3>1. n + i \in 1 .. Len(s) /\ n + j \in 1 .. Len(s)
        BY <1>1
      <3> QED BY <1>3, <2>1, <3>1
    <2>4. \A i \in 1 .. n, j \in 1 .. Len(s) - n : a[i] # b[j]
      <3> TAKE i \in 1 .. n, j \in 1 .. Len(s) - n
      <3>1. n + j \in 1 .. Len(s) /\ i \in 1 .. Len(s) /\ i # n + j
        BY <1>1
      <3> QED BY <1>2, <1>3, <2>1, <3>1
    <2>5. IsInjective(a) /\ IsInjective(b)
      BY <1>2, <1>3, <2>2, <2>3, InjectiveIs
    <2> QED BY <1>4, <2>4, <2>5
  <1> QED BY <1>2, <1>3, <1>8, <1>9 DEF a, b

LEMMA ReverseList ==
    ASSUME NEW F, NEW s \in Seq(F)
    PROVE  /\ Reverse(s) \in Seq(F) /\ Len(Reverse(s)) = Len(s)
           /\ Range(Reverse(s)) = Range(s)
           /\ IsInjective(s) => IsInjective(Reverse(s))
  <1> DEFINE t == Reverse(s)
  <1>1. Len(s) \in Nat /\ \A i \in 1 .. Len(s) : (Len(s) - i) + 1 \in 1 .. Len(s)
    BY LenProperties
  <1>2. \A i \in 1 .. Len(s) : t[i] = s[(Len(s) - i) + 1] /\ t[i] \in F
    BY <1>1, ElementOfSeq DEF Reverse
  <1>3. t \in Seq(F) /\ Len(t) = Len(s)
    <2>1. t = [i \in 1 .. Len(s) |-> s[(Len(s) - i) + 1]]
      BY DEF Reverse
    <2>2. t \in [1 .. Len(s) -> F]
      BY <1>2, <2>1
    <2> QED BY <1>1, <2>2, IsASeq, LenProperties
  <1> HIDE DEF t
  <1>4. /\ Range(t) = {t[i] : i \in 1 .. Len(s)} /\ Range(s) = {s[i] : i \in 1 .. Len(s)}
    BY <1>3, RangeIs
  <1>5. \A i \in 1 .. Len(s) : s[i] \in Range(t)
    <2> TAKE i \in 1 .. Len(s)
    <2>1. (Len(s) - i) + 1 \in 1 .. Len(s) /\ t[(Len(s) - i) + 1] = s[i]
      BY <1>1, <1>2
    <2> QED BY <1>4, <2>1
  <1>6. Range(t) = Range(s)
    BY <1>1, <1>2, <1>4, <1>5
  <1>7. ASSUME IsInjective(s) PROVE IsInjective(t)
    <2>1. \A i, j \in 1 .. Len(s) : s[i] = s[j] => i = j
      BY <1>7, InjectiveIs
    <2>2. \A i, j \in 1 .. Len(s) : t[i] = t[j] => i = j
      <3> TAKE i, j \in 1 .. Len(s)
      <3> HAVE t[i] = t[j]
      <3>1. (Len(s) - i) + 1 = (Len(s) - j) + 1
        BY <1>1, <1>2, <2>1
      <3> QED BY <1>1, <3>1
    <2> QED BY <1>3, <2>2, InjectiveIs
  <1> QED BY <1>3, <1>6, <1>7 DEF t

\* list_del() of a filter or a transponder that is on the list once.
LEMMA TakenOut ==
    ASSUME NEW F, NEW s \in Seq(F), NEW e \in Range(s), IsInjective(s)
    PROVE  /\ RemoveFirst(s, e) \in Seq(F) /\ Len(RemoveFirst(s, e)) = Len(s) - 1
           /\ Range(RemoveFirst(s, e)) = Range(s) \ {e}
           /\ IsInjective(RemoveFirst(s, e))
  <1> DEFINE k == SelectInSeq(s, LAMBDA v : v = e)
             I == {i \in 1 .. Len(s) : s[i] = e}
             a == SubSeq(s, 1, k - 1)
             b == SubSeq(s, k + 1, Len(s))
             c == SubSeq(s, k, Len(s))
  <1>1. Len(s) \in Nat /\ \E i \in 1 .. Len(s) : s[i] = e
    BY LenProperties, RangeIs
  <1>2. k \in 1 .. Len(s) /\ s[k] = e
    <2>1. k = IF I # {} THEN Min(I) ELSE 0
      BY DEF SelectInSeq
    <2>2. I \in SUBSET Nat /\ I # {}
      BY <1>1
    <2> QED BY <2>1, <2>2, MinIsIn
  <1>3. RemoveFirst(s, e) = a \o b
    BY <1>1 DEF RemoveFirst, RemoveAt
  <1> HIDE DEF k
  <1>4. k \in 0 .. Len(s) /\ k - 1 \in 0 .. Len(s) /\ (k - 1) + 1 = k
    BY <1>1, <1>2
  <1>5. /\ a \in Seq(F) /\ Len(a) = k - 1 /\ \A i \in 1 .. k - 1 : a[i] = s[i]
        /\ IsInjective(a)
    BY <1>4, PartOfList
  <1>6. /\ b \in Seq(F) /\ Len(b) = Len(s) - k /\ IsInjective(b)
        /\ \A i \in 1 .. Len(s) - k : b[i] = s[k + i]
    BY <1>4, PartOfList
  <1> HIDE DEF a, b
  <1>7. \A i, j \in 1 .. Len(s) : s[i] = s[j] => i = j
    BY InjectiveIs
  <1>8. /\ Range(a) = {a[i] : i \in 1 .. k - 1} /\ Range(b) = {b[i] : i \in 1 .. Len(s) - k}
        /\ Range(s) = {s[i] : i \in 1 .. Len(s)}
    BY <1>5, <1>6, RangeIs
  <1>9. \A i \in 1 .. k - 1 : a[i] \in Range(s) \ {e}
    <2> TAKE i \in 1 .. k - 1
    <2>1. i \in 1 .. Len(s) /\ i # k
      BY <1>1, <1>2
    <2> QED BY <1>2, <1>5, <1>7, <1>8, <2>1
  <1>10. \A i \in 1 .. Len(s) - k : b[i] \in Range(s) \ {e}
    <2> TAKE i \in 1 .. Len(s) - k
    <2>1. k + i \in 1 .. Len(s) /\ k + i # k
      BY <1>1, <1>2
    <2> QED BY <1>2, <1>6, <1>7, <1>8, <2>1
  <1>11. \A i \in 1 .. Len(s) : s[i] # e => s[i] \in Range(a) \cup Range(b)
    <2> TAKE i \in 1 .. Len(s)
    <2>1. CASE i < k
      <3>1. i \in 1 .. k - 1
        BY <1>2, <2>1
      <3> QED BY <1>5, <1>8, <3>1
    <2>2. CASE i = k
      BY <1>2, <2>2
    <2>3. CASE i > k
      <3>1. i - k \in 1 .. Len(s) - k /\ b[i - k] = s[i]
        BY <1>1, <1>2, <1>6, <2>3
      <3> QED BY <1>8, <3>1
    <2> QED BY <1>2, <2>1, <2>2, <2>3
  <1>12. Range(a) \cup Range(b) = Range(s) \ {e}
    BY <1>8, <1>9, <1>10, <1>11
  <1>13. Range(a) \cap Range(b) = {}
    <2> SUFFICES ASSUME NEW i \in 1 .. k - 1, NEW j \in 1 .. Len(s) - k PROVE a[i] # b[j]
      BY <1>8
    <2>1. i \in 1 .. Len(s) /\ k + j \in 1 .. Len(s) /\ i # k + j
      BY <1>1, <1>2
    <2> QED BY <1>5, <1>6, <1>7, <2>1
  <1>14. Len(a) + Len(b) = Len(s) - 1
    BY <1>1, <1>2, <1>5, <1>6
  <1> QED BY <1>3, <1>5, <1>6, <1>12, <1>13, <1>14, JoinLists

\* What becomes of the lists q when the filters new are added: they are p.
Grown(F, q, p, more) ==
    /\ p \in Queue(F) /\ Sound(p) /\ p.left <= q.left
    /\ In(p) = In(q) \cup more
    /\ Range(q.r) \subseteq Range(p.r)

\* add_filter() puts the filter on one of the lists.
LEMMA AddFilter ==
    ASSUME NEW F, NEW q \in Queue(F), Sound(q), NEW f \in F, f \notin In(q),
           NEW p \in add_filter(q, f)
    PROVE  Grown(F, q, p, {f})
  <1>1. /\ q.r \in Seq(F) /\ q.w \in Seq(F) /\ q.left \in Nat
        /\ q = [r |-> q.r, w |-> q.w, left |-> q.left]
    BY DEF Queue
  <1>2. f \notin Range(q.r) /\ f \notin Range(q.w)
    BY DEF In
  <1>3. CASE p = [q EXCEPT !.r = <<f>> \o @] /\ Len(q.r) < MaxRunning
    <2> DEFINE o == <<f>>
    <2>1. o \in Seq(F) /\ Len(o) = 1 /\ Range(o) = {f} /\ IsInjective(o)
      BY DEF Range, IsInjective
    <2>2. p.r = o \o q.r /\ p.w = q.w /\ p.left = q.left
      BY <1>1, <1>3
    <2>3. p = [r |-> p.r, w |-> p.w, left |-> p.left]
      BY <1>1, <1>3
    <2> HIDE DEF o
    <2>4. /\ o \o q.r \in Seq(F) /\ Len(o \o q.r) = Len(o) + Len(q.r)
          /\ Range(o \o q.r) = Range(o) \cup Range(q.r)
          /\ IsInjective(o) /\ IsInjective(q.r) /\ Range(o) \cap Range(q.r) = {}
             => IsInjective(o \o q.r)
      BY <1>1, <2>1, JoinLists
    <2>5. p.r \in Seq(F) /\ Range(p.r) = Range(q.r) \cup {f} /\ IsInjective(p.r)
      BY <1>2, <2>1, <2>2, <2>4 DEF Sound
    <2>6. Len(p.r) <= MaxRunning
      BY <1>1, <1>3, <2>1, <2>2, <2>4, LenProperties, ScanAssumption
    <2>7. p \in Queue(F)
      BY <1>1, <2>2, <2>3, <2>5 DEF Queue
    <2>8. Sound(p)
      BY <1>2, <2>2, <2>5, <2>6 DEF Sound
    <2> QED BY <1>1, <2>2, <2>5, <2>7, <2>8 DEF Grown, In
  <1>4. CASE p \in Queue(F) /\ p.r = q.r /\ p.w = Append(q.w, f) /\ p.left <= q.left
    <2>1. Range(p.w) = Range(q.w) \cup {f} /\ IsInjective(p.w)
      BY <1>1, <1>2, <1>4, AppendList DEF Sound
    <2> QED BY <1>2, <1>4, <2>1 DEF Grown, In, Sound
  <1>5. ASSUME p = [q EXCEPT !.w = Append(@, f)]
        PROVE  p \in Queue(F) /\ p.r = q.r /\ p.w = Append(q.w, f) /\ p.left <= q.left
    <2>1. Append(q.w, f) \in Seq(F)
      BY <1>1, AppendList
    <2>2. p = [r |-> q.r, w |-> Append(q.w, f), left |-> q.left]
      BY <1>1, <1>5
    <2>3. p \in Queue(F)
      BY <1>1, <2>1, <2>2 DEF Queue
    <2> QED BY <1>1, <2>2, <2>3
  <1>6. ASSUME p = [q EXCEPT !.w = Append(@, f), !.left = @ - 1], q.left > 0
        PROVE  p \in Queue(F) /\ p.r = q.r /\ p.w = Append(q.w, f) /\ p.left <= q.left
    <2>1. Append(q.w, f) \in Seq(F)
      BY <1>1, AppendList
    <2>2. q.left - 1 \in Nat /\ q.left - 1 <= q.left
      BY <1>1, <1>6
    <2> QED BY <1>1, <1>6, <2>1, <2>2 DEF Queue
  <1> QED BY <1>3, <1>4, <1>5, <1>6 DEF add_filter

\* add_filters is the function it is defined by.
IsAdding(g, q, fs) ==
    g = [k \in 0 .. Len(fs) |->
            IF k = 0 THEN {q} ELSE UNION {add_filter(p, fs[k]) : p \in g[k - 1]}]

LEMMA AddingExists ==
    ASSUME NEW F, NEW q \in Queue(F), NEW fs \in Seq(F)
    PROVE  \E g : IsAdding(g, q, fs) /\ add_filters(q, fs) = g[Len(fs)]
  <1>1. PICK n \in Nat : n = Len(fs)
    BY LenProperties
  <1> DEFINE B == SUBSET Queue(F)
             step(k, Q) == UNION {add_filter(p, fs[k]) : p \in Q}
             D == [x \in (1 .. n) \X B |-> step(x[1], x[2])]
  <1>2. ASSUME NEW p \in Queue(F), NEW f \in F PROVE add_filter(p, f) \in B
    <2>1. /\ p.r \in Seq(F) /\ p.w \in Seq(F) /\ p.left \in Nat
          /\ p = [r |-> p.r, w |-> p.w, left |-> p.left]
      BY DEF Queue
    <2>2. <<f>> \o p.r \in Seq(F) /\ Append(p.w, f) \in Seq(F)
      <3> DEFINE o == <<f>>
      <3>1. o \in Seq(F)
        OBVIOUS
      <3> HIDE DEF o
      <3>2. o \o p.r \in Seq(F)
        BY <2>1, <3>1, JoinLists
      <3>3. Append(p.w, f) \in Seq(F)
        BY <2>1, AppendList
      <3> QED BY <3>2, <3>3 DEF o
    <2>3. [p EXCEPT !.r = <<f>> \o @] \in Queue(F)
      BY <2>1, <2>2 DEF Queue
    <2>4. [p EXCEPT !.w = Append(@, f)] \in Queue(F)
      BY <2>1, <2>2 DEF Queue
    <2>5. ASSUME p.left > 0 PROVE [p EXCEPT !.w = Append(@, f), !.left = @ - 1] \in Queue(F)
      <3>1. p.left - 1 \in Nat
        BY <2>1, <2>5
      <3> QED BY <2>1, <2>2, <3>1 DEF Queue
    <2> QED BY <2>3, <2>4, <2>5 DEF add_filter
  <1>3. ASSUME NEW k \in 1 .. n, NEW Q \in B PROVE step(k, Q) \in B
    <2>1. fs[k] \in F
      BY <1>1, ElementOfSeq
    <2> QED BY <1>2, <2>1
  <1>4. {q} \in B
    OBVIOUS
  <1> HIDE DEF B, step
  <1>5. PICK f : IsFold(f, n, B, {q}, D)
    <2>1. D \in [(1 .. n) \X B -> B]
      BY <1>3
    <2> HIDE DEF D
    <2> QED BY <1>4, <2>1, FoldExists
  <1>6. \A k \in 1 .. n : f[k] = step(k, f[k - 1])
    <2> TAKE k \in 1 .. n
    <2>1. <<k, f[k - 1]>> \in (1 .. n) \X B
      BY <1>5 DEF IsFold
    <2>2. D[<<k, f[k - 1]>>] = step(k, f[k - 1])
      BY <2>1
    <2> HIDE DEF D
    <2> QED BY <1>5, <2>2 DEF IsFold
  <1>7. IsAdding(f, q, fs)
    BY <1>1, <1>5, <1>6 DEF IsAdding, IsFold, step
  <1> DEFINE G == CHOOSE g : IsAdding(g, q, fs)
  <1>8. add_filters(q, fs) = G[Len(fs)]
    BY DEF add_filters, IsAdding
  <1>9. IsAdding(G, q, fs)
    BY <1>7
  <1> QED BY <1>8, <1>9

\* Adding filters that are not there yet, one after the other.
LEMMA AddFilters ==
    ASSUME NEW F, NEW q \in Queue(F), Sound(q), NEW fs \in Seq(F), IsInjective(fs),
           Range(fs) \cap In(q) = {}, NEW p \in add_filters(q, fs)
    PROVE  Grown(F, q, p, Range(fs)) /\ (fs = << >> => p = q)
  <1>1. PICK g : IsAdding(g, q, fs) /\ add_filters(q, fs) = g[Len(fs)]
    BY AddingExists
  <1> DEFINE First(k) == {fs[i] : i \in 1 .. k}
             S == {k \in 0 .. Len(fs) : \A x \in g[k] : Grown(F, q, x, First(k))}
  <1>2. /\ Len(fs) \in Nat /\ \A k \in 1 .. Len(fs) : fs[k] \in F
        /\ \A i, j \in 1 .. Len(fs) : fs[i] = fs[j] => i = j
        /\ Range(fs) = First(Len(fs))
    BY LenProperties, ElementOfSeq, RangeIs, InjectiveIs
  <1>3. /\ g[0] = {q}
        /\ \A k \in 1 .. Len(fs) : g[k] = UNION {add_filter(x, fs[k]) : x \in g[k - 1]}
    <2> DEFINE next(k) == UNION {add_filter(x, fs[k]) : x \in g[k - 1]}
    <2>1. g = [k \in 0 .. Len(fs) |-> IF k = 0 THEN {q} ELSE next(k)]
      BY <1>1 DEF IsAdding
    <2> HIDE DEF next
    <2>2. g[0] = {q} /\ \A k \in 1 .. Len(fs) : g[k] = next(k)
      BY <1>2, <2>1
    <2> QED BY <2>2 DEF next
  <1>4. 0 \in S
    <2>1. First(0) = {}
      OBVIOUS
    <2>2. q.left \in Nat
      BY DEF Queue
    <2>3. Grown(F, q, q, First(0))
      BY <2>1, <2>2 DEF Grown
    <2> HIDE DEF First
    <2> QED BY <1>2, <1>3, <2>3
  <1>5. ASSUME NEW k \in 0 .. Len(fs), k \in S, k < Len(fs) PROVE k + 1 \in S
    <2>1. k + 1 \in 1 .. Len(fs) /\ (k + 1) - 1 = k
      BY <1>2, <1>5
    <2>2. fs[k + 1] \notin First(k) /\ First(k + 1) = First(k) \cup {fs[k + 1]}
      BY <1>2, <2>1
    <2>3. fs[k + 1] \in Range(fs) /\ fs[k + 1] \in F
      BY <1>2, <2>1
    <2>4. ASSUME NEW x \in g[k], NEW y \in add_filter(x, fs[k + 1])
          PROVE  Grown(F, q, y, First(k + 1))
      <3>1. Grown(F, q, x, First(k))
        BY <1>5
      <3> HIDE DEF First
      <3>2. x \in Queue(F) /\ Sound(x) /\ fs[k + 1] \notin In(x)
        BY <2>2, <2>3, <3>1 DEF Grown
      <3>3. Grown(F, x, y, {fs[k + 1]})
        BY <2>3, <2>4, <3>2, AddFilter
      <3>4. x.left \in Nat /\ y.left \in Nat /\ q.left \in Nat
        BY <3>2, <3>3 DEF Grown, Queue
      <3>5. y.left <= q.left
        BY <3>1, <3>3, <3>4 DEF Grown
      <3> QED BY <2>2, <3>1, <3>3, <3>5 DEF Grown
    <2> HIDE DEF First
    <2> QED BY <1>2, <1>3, <2>1, <2>4
  <1>6. Len(fs) \in S
    <2> HIDE DEF S
    <2>1. PICK n \in Nat : n = Len(fs)
      BY <1>2
    <2>2. \A k \in 0 .. n : k \in S /\ k < n => k + 1 \in S
      BY <1>5, <2>1
    <2>3. \A k \in 0 .. n : k \in S
      BY <1>4, <2>2, CountingUp
    <2> QED BY <2>1, <2>3
  <1>7. ASSUME fs = << >> PROVE p = q
    BY <1>1, <1>3, <1>7
  <1> QED BY <1>1, <1>2, <1>6, <1>7

\* What becomes of the lists when filter f is stopped.
Shrunk(F, q, p, f) ==
    /\ p \in Queue(F) /\ Sound(p) /\ p.left <= q.left
    /\ In(p) = In(q) \ {f}

LEMMA StopFilter ==
    ASSUME NEW F, NEW q \in Queue(F), Sound(q), NEW f \in Range(q.r)
    PROVE  /\ Shrunk(F, q, stop_filter(q, f), f)
           /\ stop_filter(q, f).left = q.left
           /\ Len(stop_filter(q, f).r) < MaxRunning
  <1> DEFINE p == stop_filter(q, f)
  <1>1. /\ q.r \in Seq(F) /\ q.w \in Seq(F) /\ q.left \in Nat
        /\ q = [r |-> q.r, w |-> q.w, left |-> q.left]
    BY DEF Queue
  <1>2. /\ RemoveFirst(q.r, f) \in Seq(F) /\ Len(RemoveFirst(q.r, f)) = Len(q.r) - 1
        /\ Range(RemoveFirst(q.r, f)) = Range(q.r) \ {f} /\ IsInjective(RemoveFirst(q.r, f))
    BY <1>1, TakenOut DEF Sound
  <1>3. /\ p.r = RemoveFirst(q.r, f) /\ p.w = q.w /\ p.left = q.left
        /\ p = [r |-> p.r, w |-> p.w, left |-> p.left]
    BY <1>1 DEF stop_filter
  <1> HIDE DEF p
  <1>4. p \in Queue(F)
    BY <1>1, <1>2, <1>3 DEF Queue
  <1>5. Len(p.r) <= MaxRunning /\ Len(p.r) < MaxRunning
    <2>1. Len(q.r) \in Nat /\ Len(q.r) <= MaxRunning
      BY <1>1, LenProperties DEF Sound
    <2> QED BY <1>2, <1>3, <2>1, ScanAssumption
  <1>6. Sound(p)
    BY <1>2, <1>3, <1>5 DEF Sound
  <1>7. In(p) = In(q) \ {f}
    BY <1>2, <1>3 DEF In, Sound
  <1> QED BY <1>1, <1>3, <1>4, <1>5, <1>6, <1>7 DEF Shrunk, p

\* remove_filter() stops the filter, and moves others from one list to the other.
LEMMA RemoveFilter ==
    ASSUME NEW F, NEW q \in Queue(F), Sound(q), NEW f \in Range(q.r),
           NEW z \in remove_filter(q, f)
    PROVE  Shrunk(F, q, z, f)
  <1> DEFINE p == stop_filter(q, f)
             most == Min({MaxRunning - Len(p.r), Len(p.w)})
  <1>1. Shrunk(F, q, p, f) /\ p.left = q.left /\ Len(p.r) < MaxRunning
    BY StopFilter
  <1>2. PICK n \in {k \in 0 .. most : k = most \/ p.left > 0} :
           z = [r |-> Reverse(SubSeq(p.w, 1, n)) \o p.r,
                w |-> SubSeq(p.w, n + 1, Len(p.w)),
                left |-> IF n < most THEN p.left - 1 ELSE p.left]
    BY DEF remove_filter
  <1> HIDE DEF p
  <1>3. /\ p.r \in Seq(F) /\ p.w \in Seq(F) /\ p.left \in Nat
        /\ Len(p.r) \in Nat /\ Len(p.w) \in Nat
    BY <1>1, LenProperties DEF Shrunk, Queue
  <1>4. most \in Nat /\ most <= MaxRunning - Len(p.r) /\ most <= Len(p.w)
    <2>1. {MaxRunning - Len(p.r), Len(p.w)} \in SUBSET Nat
      BY <1>1, <1>3, ScanAssumption
    <2> QED BY <2>1, MinIsIn
  <1> HIDE DEF most
  <1>5. n \in 0 .. Len(p.w) /\ n + Len(p.r) <= MaxRunning
    BY <1>2, <1>3, <1>4, ScanAssumption
  <1> DEFINE a == SubSeq(p.w, 1, n)
             b == SubSeq(p.w, n + 1, Len(p.w))
             c == Reverse(a)
  <1>6. /\ a \in Seq(F) /\ Len(a) = n /\ b \in Seq(F) /\ Range(a) \cup Range(b) = Range(p.w)
        /\ IsInjective(a) /\ IsInjective(b) /\ Range(a) \cap Range(b) = {}
    BY <1>1, <1>3, <1>5, PartOfList DEF Shrunk, Sound
  <1>7. z.r = c \o p.r /\ z.w = b /\ z = [r |-> z.r, w |-> z.w, left |-> z.left]
    BY <1>2
  <1>8. z.left \in Nat /\ z.left <= q.left
    BY <1>1, <1>2, <1>3, <1>4
  <1> HIDE DEF a, b
  <1>9. c \in Seq(F) /\ Len(c) = n /\ Range(c) = Range(a) /\ IsInjective(c)
    BY <1>6, ReverseList
  <1> HIDE DEF c
  <1>10. /\ c \o p.r \in Seq(F) /\ Len(c \o p.r) = Len(c) + Len(p.r)
         /\ Range(c \o p.r) = Range(c) \cup Range(p.r)
         /\ IsInjective(c) /\ IsInjective(p.r) /\ Range(c) \cap Range(p.r) = {}
            => IsInjective(c \o p.r)
    BY <1>3, <1>9, JoinLists
  <1>11. IsInjective(p.r) /\ Range(p.r) \cap Range(p.w) = {}
    BY <1>1 DEF Shrunk, Sound
  <1>12. z \in Queue(F)
    BY <1>6, <1>7, <1>8, <1>10 DEF Queue
  <1>13. Len(z.r) <= MaxRunning
    BY <1>5, <1>7, <1>9, <1>10
  <1>14. IsInjective(z.r) /\ Range(z.r) \cap Range(z.w) = {}
    BY <1>6, <1>7, <1>9, <1>10, <1>11
  <1>15. Sound(z)
    BY <1>6, <1>7, <1>13, <1>14 DEF Sound
  <1>16. In(z) = In(p)
    BY <1>6, <1>7, <1>9, <1>10 DEF In
  <1> QED BY <1>1, <1>8, <1>12, <1>15, <1>16 DEF Shrunk

-----------------------------------------------------------------------------
(* The filters for the services of a PAT.                                  *)

Kinds == {"PAT", "SDT", "NIT", "NITother", "VCT", "CVCT", "PMT"}
FilterSet == Kinds \X Nat \X Nat

PmtFilter(s) == <<"PMT", cur, s>>

\* The filters parse_pat may add.
Lacking(sids) == {PmtFilter(s) : s \in {x \in Range(sids) : <<cur, x>> \notin priv}}

\* One service of the PAT: fs are the filters added for those before it.
pat_entry(fs, s) ==
    IF <<cur, s>> \in priv \/ PmtFilter(s) \in Range(fs) THEN fs ELSE Append(fs, PmtFilter(s))

NoFilters == << >>

IsParsing(g, sids) ==
    g = [k \in 0 .. Len(sids) |-> IF k = 0 THEN NoFilters ELSE pat_entry(g[k - 1], sids[k])]

LEMMA ParsingExists ==
    ASSUME cur \in Nat, NEW sids \in Seq(Nat)
    PROVE  \E g : IsParsing(g, sids) /\ parse_pat(sids) = g[Len(sids)]
  <1>1. PICK n \in Nat : n = Len(sids)
    BY LenProperties
  <1> DEFINE B == Seq(FilterSet)
             D == [x \in (1 .. n) \X B |-> pat_entry(x[2], sids[x[1]])]
  <1>2. ASSUME NEW k \in 1 .. n, NEW fs \in B PROVE pat_entry(fs, sids[k]) \in B
    <2>1. PmtFilter(sids[k]) \in FilterSet
      BY <1>1, ElementOfSeq DEF PmtFilter, FilterSet, Kinds
    <2> QED BY <2>1, AppendList DEF pat_entry
  <1>3. NoFilters \in B
    BY DEF NoFilters
  <1> HIDE DEF B
  <1>4. PICK f : IsFold(f, n, B, NoFilters, D)
    <2>1. D \in [(1 .. n) \X B -> B]
      BY <1>2
    <2> HIDE DEF D
    <2> QED BY <1>3, <2>1, FoldExists
  <1>5. \A k \in 1 .. n : f[k] = pat_entry(f[k - 1], sids[k])
    <2> TAKE k \in 1 .. n
    <2>1. <<k, f[k - 1]>> \in (1 .. n) \X B
      BY <1>4 DEF IsFold
    <2>2. D[<<k, f[k - 1]>>] = pat_entry(f[k - 1], sids[k])
      BY <2>1
    <2> HIDE DEF D
    <2> QED BY <1>4, <2>2 DEF IsFold
  <1>6. IsParsing(f, sids)
    BY <1>1, <1>4, <1>5 DEF IsParsing, IsFold
  <1> DEFINE G == CHOOSE g : IsParsing(g, sids)
  <1>7. parse_pat(sids) = G[Len(sids)]
    BY DEF parse_pat, IsParsing, NoFilters, pat_entry, PmtFilter
  <1>8. IsParsing(G, sids)
    BY <1>6
  <1> QED BY <1>7, <1>8

\* parse_pat() adds one filter for a service, and none for a service that has one.
LEMMA ParsePat ==
    ASSUME cur \in Nat, NEW sids \in Seq(Nat)
    PROVE  /\ parse_pat(sids) \in Seq(FilterSet) /\ IsInjective(parse_pat(sids))
           /\ Range(parse_pat(sids)) \subseteq Lacking(sids)
  <1>1. PICK g : IsParsing(g, sids) /\ parse_pat(sids) = g[Len(sids)]
    BY ParsingExists
  <1>2. PICK n \in Nat : n = Len(sids)
    BY LenProperties
  <1> DEFINE Fine(fs) == /\ fs \in Seq(FilterSet) /\ IsInjective(fs)
                         /\ Range(fs) \subseteq Lacking(sids)
             S == {k \in 0 .. n : Fine(g[k])}
  <1>3. g[0] = NoFilters /\ \A k \in 1 .. n : g[k] = pat_entry(g[k - 1], sids[k])
    <2> DEFINE next(k) == pat_entry(g[k - 1], sids[k])
    <2>1. g = [k \in 0 .. n |-> IF k = 0 THEN NoFilters ELSE next(k)]
      BY <1>1, <1>2 DEF IsParsing
    <2> HIDE DEF next
    <2>2. g[0] = NoFilters /\ \A k \in 1 .. n : g[k] = next(k)
      BY <2>1
    <2> QED BY <2>2 DEF next
  <1>4. 0 \in S
    <2>1. NoFilters \in Seq(FilterSet) /\ IsInjective(NoFilters) /\ Range(NoFilters) = {}
      BY DEF NoFilters, IsInjective, Range
    <2> QED BY <1>3, <2>1
  <1>5. ASSUME NEW k \in 0 .. n, k \in S, k < n PROVE k + 1 \in S
    <2>1. k + 1 \in 1 .. n /\ (k + 1) - 1 = k /\ k + 1 \in 0 .. n
      BY <1>5
    <2>2. Fine(g[k]) /\ g[k + 1] = pat_entry(g[k], sids[k + 1])
      BY <1>3, <1>5, <2>1
    <2> DEFINE e == PmtFilter(sids[k + 1])
    <2>3. CASE <<cur, sids[k + 1]>> \in priv \/ e \in Range(g[k])
      BY <2>1, <2>2, <2>3 DEF pat_entry
    <2>4. CASE ~(<<cur, sids[k + 1]>> \in priv \/ e \in Range(g[k]))
      <3>1. g[k + 1] = Append(g[k], e)
        BY <2>2, <2>4 DEF pat_entry
      <3>2. sids[k + 1] \in Nat /\ sids[k + 1] \in Range(sids)
        BY <1>2, <2>1, ElementOfSeq, InRange
      <3>3. e \in FilterSet /\ e \in Lacking(sids)
        BY <2>4, <3>2 DEF PmtFilter, FilterSet, Kinds, Lacking
      <3> HIDE DEF e
      <3>4. Fine(g[k + 1])
        BY <2>2, <2>4, <3>1, <3>3, AppendList
      <3> QED BY <2>1, <3>4
    <2> QED BY <2>3, <2>4
  <1>6. n \in S
    <2> HIDE DEF S
    <2>1. \A k \in 0 .. n : k \in S /\ k < n => k + 1 \in S
      BY <1>5
    <2>2. \A k \in 0 .. n : k \in S
      BY <1>4, <2>1, CountingUp
    <2> QED BY <2>2
  <1> QED BY <1>1, <1>2, <1>6

-----------------------------------------------------------------------------
(* The lists of transponders.                                              *)

Tp == [freq : Frequencies, others : Seq(Frequencies), wrong : BOOLEAN]
TpLists == [tps : Seq(Tp), new : Seq(Nat), scanned : Seq(Nat)]
Entry == [freq : Frequencies, others : Seq(Frequencies)]

\* Every transponder is on one of the two lists, once.
Listed(l) ==
    /\ IsInjective(l.new) /\ IsInjective(l.scanned)
    /\ Range(l.new) \cap Range(l.scanned) = {}
    /\ Range(l.new) \cup Range(l.scanned) = 1 .. Len(l.tps)

\* No two entries are the same transponder.
Once(l) ==
    \A t, u \in 1 .. Len(l.tps) : t # u => ~is_same_transponder(l.tps[t].freq, l.tps[u].freq)

\* There is an entry for the transponder at that frequency.
Knows(l, f) == \E t \in 1 .. Len(l.tps) : is_same_transponder(l.tps[t].freq, f)

\* The frequencies that are named belong to transponders in one way only: there is no
\* chain of frequencies, each close to the next, whose ends are apart.
Apart ==
    \A f, g, h \in Frequencies :
        is_same_transponder(f, g) /\ is_same_transponder(g, h) => is_same_transponder(f, h)

\* What parse_nit makes of the lists l.
Extended(l, m) ==
    /\ m \in TpLists /\ Listed(m)
    /\ m.scanned = l.scanned /\ Len(l.tps) <= Len(m.tps)
    /\ Apart /\ Once(l) => Once(m)
    /\ Apart => \A f \in Frequencies : Knows(l, f) => Knows(m, f)

LEMMA SameIs ==
    ASSUME NEW f \in Frequencies, NEW g \in Frequencies
    PROVE  /\ is_same_transponder(f, f)
           /\ is_same_transponder(f, g) <=> is_same_transponder(g, f)
  BY ScanAssumption DEF is_same_transponder

LEMMA ListsParts ==
    ASSUME NEW l \in TpLists
    PROVE  /\ l.tps \in Seq(Tp) /\ l.new \in Seq(Nat) /\ l.scanned \in Seq(Nat)
           /\ Len(l.tps) \in Nat
           /\ \A t \in 1 .. Len(l.tps) : l.tps[t] \in Tp /\ l.tps[t].freq \in Frequencies
           /\ l = [tps |-> l.tps, new |-> l.new, scanned |-> l.scanned]
  <1>1. /\ l.tps \in Seq(Tp) /\ l.new \in Seq(Nat) /\ l.scanned \in Seq(Nat)
        /\ l = [tps |-> l.tps, new |-> l.new, scanned |-> l.scanned]
    BY DEF TpLists
  <1>2. Len(l.tps) \in Nat /\ \A t \in 1 .. Len(l.tps) : l.tps[t] \in Tp
    BY <1>1, LenProperties, ElementOfSeq
  <1>3. \A t \in 1 .. Len(l.tps) : l.tps[t].freq \in Frequencies
    BY <1>2 DEF Tp
  <1> QED BY <1>1, <1>2, <1>3

\* find_transponder() finds one of the entries for the frequency if there is any.
LEMMA FindTransponder ==
    ASSUME NEW l \in TpLists, Listed(l), NEW f
    PROVE  LET t == find_transponder(l, f)
           IN  \/ t = 0 /\ ~Knows(l, f)
               \/ t \in 1 .. Len(l.tps) /\ is_same_transponder(l.tps[t].freq, f)
  <1> DEFINE all == l.scanned \o l.new
             Same(t) == is_same_transponder(l.tps[t].freq, f)
             I == {i \in 1 .. Len(all) : Same(all[i])}
  <1>1. all \in Seq(Nat) /\ Range(all) = 1 .. Len(l.tps)
    <2>1. l.new \in Seq(Nat) /\ l.scanned \in Seq(Nat)
      BY ListsParts
    <2>2. all \in Seq(Nat) /\ Range(all) = Range(l.scanned) \cup Range(l.new)
      BY <2>1, JoinLists
    <2> QED BY <2>2 DEF Listed
  <1>2. find_transponder(l, f) = LET k == IF I # {} THEN Min(I) ELSE 0
                                 IN  IF k = 0 THEN 0 ELSE all[k]
    BY DEF find_transponder, SelectInSeq
  <1> HIDE DEF all
  <1>3. Len(all) \in Nat /\ Range(all) = {all[i] : i \in 1 .. Len(all)}
    BY <1>1, LenProperties, RangeIs
  <1>4. CASE I = {}
    <2>1. find_transponder(l, f) = 0
      BY <1>2, <1>4
    <2>2. \A i \in 1 .. Len(all) : ~Same(all[i])
      BY <1>4
    <2> HIDE DEF Same
    <2>3. \A t \in 1 .. Len(l.tps) : ~Same(t)
      BY <1>1, <1>3, <2>2
    <2> QED BY <2>1, <2>3 DEF Knows, Same
  <1>5. CASE I # {}
    <2>1. I \in SUBSET Nat
      BY <1>3
    <2>2. PICK k : k = Min(I)
      OBVIOUS
    <2>3. k \in I
      BY <1>5, <2>1, <2>2, MinIsIn
    <2> HIDE DEF Same
    <2>4. k \in 1 .. Len(all) /\ Same(all[k]) /\ k # 0
      BY <1>3, <2>3
    <2>5. find_transponder(l, f) = all[k]
      BY <1>2, <1>5, <2>2, <2>4
    <2>6. all[k] \in 1 .. Len(l.tps)
      BY <1>1, <1>3, <2>4
    <2> QED BY <2>4, <2>5, <2>6 DEF Same
  <1> QED BY <1>4, <1>5

\* An entry that is written over by another one of the same transponder.
LEMMA CopyOver ==
    ASSUME NEW l \in TpLists, Listed(l), NEW a \in Entry, NEW t \in 1 .. Len(l.tps),
           is_same_transponder(l.tps[t].freq, a.freq)
    PROVE  LET m == copy_transponder(l, t, Transponder(a.freq, a.others))
           IN  Extended(l, m) /\ Knows(m, a.freq)
  <1> DEFINE e == [freq |-> a.freq, others |-> a.others, wrong |-> l.tps[t].wrong]
             m == copy_transponder(l, t, Transponder(a.freq, a.others))
  <1>1. /\ l.tps \in Seq(Tp) /\ l.new \in Seq(Nat) /\ l.scanned \in Seq(Nat)
        /\ Len(l.tps) \in Nat
        /\ \A u \in 1 .. Len(l.tps) : l.tps[u] \in Tp /\ l.tps[u].freq \in Frequencies
        /\ l = [tps |-> l.tps, new |-> l.new, scanned |-> l.scanned]
    BY ListsParts
  <1>2. a.freq \in Frequencies /\ a.others \in Seq(Frequencies)
    BY DEF Entry
  <1>3. e \in Tp /\ e.freq = a.freq
    <2>1. l.tps[t].wrong \in BOOLEAN
      BY <1>1 DEF Tp
    <2> QED BY <1>2, <2>1 DEF Tp
  <1>4. /\ m.tps = [l.tps EXCEPT ![t] = e] /\ m.new = l.new /\ m.scanned = l.scanned
        /\ m = [tps |-> m.tps, new |-> m.new, scanned |-> m.scanned]
    <2>1. [Transponder(a.freq, a.others) EXCEPT !.wrong = l.tps[t].wrong] = e
      BY DEF Transponder
    <2>2. m = [l EXCEPT !.tps[t] = e]
      BY <2>1 DEF copy_transponder
    <2> HIDE DEF e, m
    <2> QED BY <1>1, <2>2
  <1> HIDE DEF e, m
  <1>5. /\ m.tps \in Seq(Tp) /\ Len(m.tps) = Len(l.tps) /\ m.tps[t].freq = a.freq
        /\ \A u \in 1 .. Len(l.tps) : u # t => m.tps[u] = l.tps[u]
    BY <1>1, <1>3, <1>4, ExceptSeq
  <1>6. m \in TpLists /\ Listed(m)
    <2>1. m \in TpLists
      BY <1>1, <1>4, <1>5 DEF TpLists
    <2> QED BY <1>4, <1>5, <2>1 DEF Listed
  <1>7. ASSUME Apart, Once(l) PROVE Once(m)
    <2> SUFFICES ASSUME NEW u \in 1 .. Len(l.tps), NEW v \in 1 .. Len(l.tps), u # v,
                        is_same_transponder(m.tps[u].freq, m.tps[v].freq)
                 PROVE  FALSE
      BY <1>5 DEF Once
    <2>1. CASE u # t /\ v # t
      BY <1>5, <1>7, <2>1 DEF Once
    <2>2. CASE u = t
      <3>1. is_same_transponder(l.tps[t].freq, l.tps[v].freq)
        BY <1>1, <1>2, <1>5, <1>7, <2>2 DEF Apart
      <3> QED BY <1>7, <2>2, <3>1 DEF Once
    <2>3. CASE v = t
      <3>1. is_same_transponder(a.freq, l.tps[t].freq)
        BY <1>1, <1>2, SameIs
      <3>2. is_same_transponder(l.tps[u].freq, l.tps[t].freq)
        BY <1>1, <1>2, <1>5, <1>7, <2>3, <3>1 DEF Apart
      <3> QED BY <1>7, <2>3, <3>2 DEF Once
    <2> QED BY <2>1, <2>2, <2>3
  <1>8. ASSUME Apart, NEW f \in Frequencies, Knows(l, f) PROVE Knows(m, f)
    <2>1. PICK u \in 1 .. Len(l.tps) : is_same_transponder(l.tps[u].freq, f)
      BY <1>8 DEF Knows
    <2>2. CASE u # t
      BY <1>5, <2>1, <2>2 DEF Knows
    <2>3. CASE u = t
      <3>1. is_same_transponder(a.freq, l.tps[t].freq)
        BY <1>1, <1>2, SameIs
      <3>2. is_same_transponder(a.freq, f)
        BY <1>1, <1>2, <1>8, <2>1, <2>3, <3>1 DEF Apart
      <3> QED BY <1>5, <3>2 DEF Knows
    <2> QED BY <2>2, <2>3
  <1>9. Knows(m, a.freq)
    BY <1>2, <1>5, SameIs DEF Knows
  <1>10. Len(l.tps) <= Len(m.tps)
    BY <1>1, <1>5
  <1> QED BY <1>4, <1>6, <1>7, <1>8, <1>9, <1>10 DEF Extended, m

\* The list l with one more transponder behind the others, e, which is new, or scanned
\* if old is TRUE.
Lengthened(l, e, old) ==
    [tps |-> Append(l.tps, e),
     new |-> IF old THEN l.new ELSE Append(l.new, Len(l.tps) + 1),
     scanned |-> IF old THEN Append(l.scanned, Len(l.tps) + 1) ELSE l.scanned]

LEMMA LengthenedLists ==
    ASSUME NEW l \in TpLists, Listed(l), NEW e \in Tp, NEW old \in BOOLEAN
    PROVE  LET m == Lengthened(l, e, old)
           IN  /\ m \in TpLists /\ Listed(m) /\ Len(m.tps) = Len(l.tps) + 1
               /\ \A u \in 1 .. Len(l.tps) : m.tps[u] = l.tps[u]
               /\ m.tps[Len(l.tps) + 1] = e
               /\ \A f : Knows(m, f) <=> Knows(l, f) \/ is_same_transponder(e.freq, f)
               /\ Once(l) /\ ~Knows(l, e.freq) => Once(m)
  <1> DEFINE m == Lengthened(l, e, old)
  <1>1. /\ l.tps \in Seq(Tp) /\ l.new \in Seq(Nat) /\ l.scanned \in Seq(Nat)
        /\ Len(l.tps) \in Nat
        /\ \A u \in 1 .. Len(l.tps) : l.tps[u] \in Tp /\ l.tps[u].freq \in Frequencies
    BY ListsParts
  <1>2. PICK n \in Nat : n = Len(l.tps)
    BY <1>1
  <1>3. /\ m.tps = Append(l.tps, e)
        /\ m.new = IF old THEN l.new ELSE Append(l.new, n + 1)
        /\ m.scanned = IF old THEN Append(l.scanned, n + 1) ELSE l.scanned
        /\ m = [tps |-> m.tps, new |-> m.new, scanned |-> m.scanned]
    BY <1>2 DEF Lengthened
  <1> HIDE DEF m
  <1>4. /\ m.tps \in Seq(Tp) /\ Len(m.tps) = n + 1 /\ m.tps[n + 1] = e
        /\ \A u \in 1 .. n : m.tps[u] = l.tps[u]
    BY <1>1, <1>2, <1>3, AppendProperties
  <1>5. n + 1 \notin Range(l.new) /\ n + 1 \notin Range(l.scanned)
    BY <1>2 DEF Listed
  <1>6. /\ Append(l.new, n + 1) \in Seq(Nat) /\ Append(l.scanned, n + 1) \in Seq(Nat)
        /\ Range(Append(l.new, n + 1)) = Range(l.new) \cup {n + 1}
        /\ Range(Append(l.scanned, n + 1)) = Range(l.scanned) \cup {n + 1}
        /\ IsInjective(Append(l.new, n + 1)) /\ IsInjective(Append(l.scanned, n + 1))
    BY <1>1, <1>5, AppendList DEF Listed
  <1>7. /\ m.new \in Seq(Nat) /\ m.scanned \in Seq(Nat)
        /\ IsInjective(m.new) /\ IsInjective(m.scanned)
        /\ Range(m.new) \cap Range(m.scanned) = {}
        /\ Range(m.new) \cup Range(m.scanned) = (1 .. n) \cup {n + 1}
    <2>1. CASE old
      BY <1>1, <1>2, <1>3, <1>5, <1>6, <2>1 DEF Listed
    <2>2. CASE ~old
      BY <1>1, <1>2, <1>3, <1>5, <1>6, <2>2 DEF Listed
    <2> QED BY <2>1, <2>2
  <1>8. (1 .. n) \cup {n + 1} = 1 .. n + 1
    OBVIOUS
  <1>9. m \in TpLists /\ Listed(m)
    <2>1. m \in TpLists
      BY <1>3, <1>4, <1>7 DEF TpLists
    <2> QED BY <1>4, <1>7, <1>8, <2>1 DEF Listed
  <1>10. \A f : Knows(m, f) <=> Knows(l, f) \/ is_same_transponder(e.freq, f)
    <2> TAKE f
    <2> DEFINE Same(x) == is_same_transponder(x.freq, f)
    <2>1. Knows(m, f) <=> \E t \in (1 .. n) \cup {n + 1} : Same(m.tps[t])
      BY <1>4, <1>8 DEF Knows
    <2>2. Knows(l, f) <=> \E t \in 1 .. n : Same(l.tps[t])
      BY <1>2 DEF Knows
    <2> HIDE DEF Same
    <2>3. (\E t \in (1 .. n) \cup {n + 1} : Same(m.tps[t]))
             <=> (\E t \in 1 .. n : Same(l.tps[t])) \/ Same(e)
      BY <1>4
    <2> QED BY <2>1, <2>2, <2>3 DEF Same
  <1>11. ASSUME Once(l), ~Knows(l, e.freq) PROVE Once(m)
    <2>1. e.freq \in Frequencies
      BY DEF Tp
    <2>2. \A u \in 1 .. n : /\ ~is_same_transponder(l.tps[u].freq, e.freq)
                            /\ ~is_same_transponder(e.freq, l.tps[u].freq)
      BY <1>1, <1>2, <1>11, <2>1, SameIs DEF Knows
    <2> SUFFICES ASSUME NEW u \in (1 .. n) \cup {n + 1}, NEW v \in (1 .. n) \cup {n + 1}, u # v
                 PROVE  ~is_same_transponder(m.tps[u].freq, m.tps[v].freq)
      BY <1>4, <1>8 DEF Once
    <2>3. CASE u \in 1 .. n /\ v \in 1 .. n
      BY <1>2, <1>4, <1>11, <2>3 DEF Once
    <2>4. CASE u = n + 1 /\ v \in 1 .. n
      BY <1>4, <2>2, <2>4
    <2>5. CASE v = n + 1 /\ u \in 1 .. n
      BY <1>4, <2>2, <2>5
    <2> QED BY <2>3, <2>4, <2>5
  <1> QED BY <1>2, <1>4, <1>9, <1>10, <1>11 DEF m

\* One entry of a NIT.
LEMMA ParseEntry ==
    ASSUME NEW l \in TpLists, Listed(l), NEW a \in Entry
    PROVE  LET m == parse_nit_entry(l, a)
           IN  Extended(l, m) /\ (TypeOf(a.freq) = feType => Knows(m, a.freq))
  <1> DEFINE t == find_transponder(l, a.freq)
             m == parse_nit_entry(l, a)
  <1>1. \/ t = 0 /\ ~Knows(l, a.freq)
        \/ t \in 1 .. Len(l.tps) /\ is_same_transponder(l.tps[t].freq, a.freq)
    BY FindTransponder
  <1>2. CASE TypeOf(a.freq) # feType
    <2>1. m = l /\ Len(l.tps) \in Nat
      BY <1>2, ListsParts DEF parse_nit_entry
    <2> QED BY <1>2, <2>1 DEF Extended
  <1>3. CASE TypeOf(a.freq) = feType /\ t # 0
    <2>1. m = copy_transponder(l, t, Transponder(a.freq, a.others))
      BY <1>3 DEF parse_nit_entry
    <2> HIDE DEF t
    <2> QED BY <1>1, <1>3, <2>1, CopyOver
  <1>4. CASE TypeOf(a.freq) = feType /\ t = 0
    <2> DEFINE e == Transponder(a.freq, a.others)
               z == Transponder(a.freq, << >>)
               c == Lengthened(l, z, FALSE)
    <2>1. /\ l.tps \in Seq(Tp) /\ Len(l.tps) \in Nat
          /\ l = [tps |-> l.tps, new |-> l.new, scanned |-> l.scanned]
      BY ListsParts
    <2>2. a.freq \in Frequencies /\ a.others \in Seq(Frequencies)
      BY DEF Entry
    <2>3. e \in Tp /\ z \in Tp /\ e.freq = a.freq
      BY <2>2 DEF Transponder, Tp
    <2>4. alloc_transponder(l, a.freq) = c
      BY DEF alloc_transponder, Lengthened
    <2>5. m = copy_transponder(c, Len(l.tps) + 1, e)
      BY <1>4, <2>4 DEF parse_nit_entry
    <2>6. m = Lengthened(l, e, FALSE)
      <3>1. PICK n \in Nat : n = Len(l.tps)
        BY <2>1
      <3>2. c.tps = Append(l.tps, z) /\ c.tps[n + 1] = z
        BY <2>1, <2>3, <3>1, AppendProperties DEF Lengthened
      <3>3. [e EXCEPT !.wrong = c.tps[n + 1].wrong] = e
        <4>1. z.wrong = FALSE
          BY Zenon DEF Transponder
        <4>2. c.tps[n + 1].wrong = FALSE
          BY <3>2, <4>1
        <4> HIDE DEF c
        <4>3. \A b : [e EXCEPT !.wrong = b] = [freq |-> a.freq, others |-> a.others, wrong |-> b]
          BY DEF Transponder
        <4>4. e = [freq |-> a.freq, others |-> a.others, wrong |-> FALSE]
          BY Zenon DEF Transponder
        <4> HIDE DEF e
        <4> QED BY <4>2, <4>3, <4>4, Zenon
      <3>4. m = [c EXCEPT !.tps[n + 1] = e]
        BY <2>5, <3>1, <3>3 DEF copy_transponder
      <3>5. [Append(l.tps, z) EXCEPT ![n + 1] = e] = Append(l.tps, e)
        <4>1. /\ Append(l.tps, z) \in Seq(Tp) /\ Len(Append(l.tps, z)) = n + 1
              /\ \A i \in 1 .. n : Append(l.tps, z)[i] = l.tps[i]
          BY <2>1, <2>3, <3>1, AppendProperties
        <4>2. /\ Append(l.tps, e) \in Seq(Tp) /\ Len(Append(l.tps, e)) = n + 1
              /\ \A i \in 1 .. n : Append(l.tps, e)[i] = l.tps[i]
              /\ Append(l.tps, e)[n + 1] = e
          BY <2>1, <2>3, <3>1, AppendProperties
        <4> DEFINE x == Append(l.tps, z)
                   y == Append(l.tps, e)
        <4> HIDE DEF x, y, e, z
        <4>3. [x EXCEPT ![n + 1] = e] \in Seq(Tp) /\ Len([x EXCEPT ![n + 1] = e]) = n + 1
          BY <2>3, <4>1, ExceptSeq DEF x
        <4>4. \A i \in 1 .. n + 1 : [x EXCEPT ![n + 1] = e][i] = y[i]
          <5>1. DOMAIN x = 1 .. n + 1
            BY <4>1, LenProperties DEF x
          <5>2. \A i \in 1 .. n : x[i] = y[i]
            BY <4>1, <4>2 DEF x, y
          <5>3. y[n + 1] = e
            BY <4>2 DEF y
          <5> HIDE DEF x, y
          <5> TAKE i \in 1 .. n + 1
          <5>4. CASE i = n + 1
            BY <5>1, <5>3, <5>4
          <5>5. CASE i \in 1 .. n
            BY <5>1, <5>2, <5>5
          <5> QED BY <5>4, <5>5
        <4>5. [x EXCEPT ![n + 1] = e] = y
          BY <4>2, <4>3, <4>4, SeqEqual DEF y
        <4> QED BY <4>5 DEF x, y
      <3> HIDE DEF e, z
      <3>6. c = [tps |-> Append(l.tps, z), new |-> c.new, scanned |-> c.scanned]
        BY DEF Lengthened
      <3>7. m = [tps |-> Append(l.tps, e), new |-> c.new, scanned |-> c.scanned]
        <4> DEFINE x == Append(l.tps, z)
                   y == Append(l.tps, e)
        <4> HIDE DEF c, m
        <4>1. c.tps = x
          BY <3>6
        <4> HIDE DEF x, y
        <4>2. PICK N, C : c = [tps |-> x, new |-> N, scanned |-> C]
          BY <3>6 DEF x
        <4>3. c.new = N /\ c.scanned = C
          BY <4>2
        <4>4. [x EXCEPT ![n + 1] = e] = y
          BY <3>5 DEF x, y
        <4>5. m = [tps |-> [x EXCEPT ![n + 1] = e], new |-> N, scanned |-> C]
          BY <3>4, <4>2
        <4> QED BY <4>3, <4>4, <4>5 DEF y
      <3> QED BY <3>7 DEF Lengthened
    <2> HIDE DEF e, m
    <2>7. /\ m \in TpLists /\ Listed(m) /\ Len(m.tps) = Len(l.tps) + 1
          /\ \A f : Knows(m, f) <=> Knows(l, f) \/ is_same_transponder(e.freq, f)
          /\ Once(l) /\ ~Knows(l, e.freq) => Once(m)
      BY <2>3, <2>6, LengthenedLists
    <2>8. Knows(m, a.freq)
      BY <2>2, <2>3, <2>7, SameIs
    <2>9. m.scanned = l.scanned
      BY <2>6 DEF Lengthened
    <2>10. Len(l.tps) <= Len(m.tps)
      BY <2>1, <2>7
    <2> QED BY <1>1, <1>4, <2>3, <2>7, <2>8, <2>9, <2>10 DEF Extended, m
  <1> QED BY <1>2, <1>3, <1>4

IsHearing(g, l, heard) ==
    g = [k \in 0 .. Len(heard) |-> IF k = 0 THEN l ELSE parse_nit_entry(g[k - 1], heard[k])]

LEMMA HearingExists ==
    ASSUME NEW l \in TpLists, Listed(l), NEW heard \in Seq(Entry)
    PROVE  \E g : IsHearing(g, l, heard) /\ parse_nit(l, heard) = g[Len(heard)]
  <1>1. PICK n \in Nat : n = Len(heard)
    BY LenProperties
  <1> DEFINE B == {x \in TpLists : Listed(x)}
             D == [x \in (1 .. n) \X B |-> parse_nit_entry(x[2], heard[x[1]])]
  <1>2. ASSUME NEW k \in 1 .. n, NEW m \in B PROVE parse_nit_entry(m, heard[k]) \in B
    <2>1. heard[k] \in Entry
      BY <1>1, ElementOfSeq
    <2>2. Extended(m, parse_nit_entry(m, heard[k]))
      BY <2>1, ParseEntry
    <2> QED BY <2>2 DEF Extended
  <1>3. l \in B
    OBVIOUS
  <1> HIDE DEF B
  <1>4. PICK f : IsFold(f, n, B, l, D)
    <2>1. D \in [(1 .. n) \X B -> B]
      BY <1>2
    <2> HIDE DEF D
    <2> QED BY <1>3, <2>1, FoldExists
  <1>5. \A k \in 1 .. n : f[k] = parse_nit_entry(f[k - 1], heard[k])
    <2> TAKE k \in 1 .. n
    <2>1. <<k, f[k - 1]>> \in (1 .. n) \X B
      BY <1>4 DEF IsFold
    <2>2. D[<<k, f[k - 1]>>] = parse_nit_entry(f[k - 1], heard[k])
      BY <2>1
    <2> HIDE DEF D
    <2> QED BY <1>4, <2>2 DEF IsFold
  <1>6. IsHearing(f, l, heard)
    BY <1>1, <1>4, <1>5 DEF IsHearing, IsFold
  <1> DEFINE G == CHOOSE g : IsHearing(g, l, heard)
  <1>7. parse_nit(l, heard) = G[Len(heard)]
    BY DEF parse_nit, IsHearing
  <1>8. IsHearing(G, l, heard)
    BY <1>6
  <1> QED BY <1>7, <1>8

\* parse_nit() loses no transponder, and knows all it has heard of.
LEMMA ParseNit ==
    ASSUME NEW l \in TpLists, Listed(l), NEW heard \in Seq(Entry)
    PROVE  LET m == parse_nit(l, heard)
           IN  /\ Extended(l, m)
               /\ Apart => \A i \in 1 .. Len(heard) :
                              TypeOf(heard[i].freq) = feType => Knows(m, heard[i].freq)
  <1>1. PICK g : IsHearing(g, l, heard) /\ parse_nit(l, heard) = g[Len(heard)]
    BY HearingExists
  <1>2. PICK n \in Nat : n = Len(heard)
    BY LenProperties
  <1> DEFINE All(m, k) == Apart => \A i \in 1 .. k :
                             TypeOf(heard[i].freq) = feType => Knows(m, heard[i].freq)
             S == {k \in 0 .. n : Extended(l, g[k]) /\ All(g[k], k)}
  <1>3. g[0] = l /\ \A k \in 1 .. n : g[k] = parse_nit_entry(g[k - 1], heard[k])
    <2> DEFINE next(k) == parse_nit_entry(g[k - 1], heard[k])
    <2>1. g = [k \in 0 .. n |-> IF k = 0 THEN l ELSE next(k)]
      BY <1>1, <1>2 DEF IsHearing
    <2> HIDE DEF next
    <2>2. g[0] = l /\ \A k \in 1 .. n : g[k] = next(k)
      BY <2>1
    <2> QED BY <2>2 DEF next
  <1>4. 0 \in S
    <2>1. Len(l.tps) \in Nat
      BY ListsParts
    <2>2. Extended(l, l)
      BY <2>1 DEF Extended
    <2> QED BY <1>3, <2>2
  <1>5. ASSUME NEW k \in 0 .. n, k \in S, k < n PROVE k + 1 \in S
    <2>1. k + 1 \in 1 .. n /\ (k + 1) - 1 = k /\ k + 1 \in 0 .. n
      BY <1>5
    <2>2. Extended(l, g[k]) /\ All(g[k], k) /\ g[k + 1] = parse_nit_entry(g[k], heard[k + 1])
      BY <1>3, <1>5, <2>1
    <2>3. \A i \in 1 .. n : heard[i] \in Entry /\ heard[i].freq \in Frequencies
      <3>1. \A i \in 1 .. n : heard[i] \in Entry
        BY <1>2, ElementOfSeq
      <3> QED BY <3>1 DEF Entry
    <2> DEFINE a == heard[k + 1]
               m == g[k]
               o == g[k + 1]
    <2>4. m \in TpLists /\ Listed(m) /\ a \in Entry
      BY <2>1, <2>2, <2>3 DEF Extended
    <2>5. Extended(m, o) /\ (TypeOf(a.freq) = feType => Knows(o, a.freq))
      BY <2>2, <2>4, ParseEntry
    <2>6. Extended(l, o)
      <3>1. Len(l.tps) \in Nat /\ Len(m.tps) \in Nat /\ Len(o.tps) \in Nat
        BY <2>4, <2>5, ListsParts DEF Extended
      <3> HIDE DEF o, m
      <3>2. Extended(l, m)
        BY <2>2 DEF m
      <3>3. Len(l.tps) <= Len(o.tps)
        BY <2>5, <3>1, <3>2 DEF Extended
      <3> QED BY <2>5, <3>2, <3>3 DEF Extended
    <2>7. All(o, k + 1)
      <3> SUFFICES ASSUME Apart, NEW i \in 1 .. k + 1, TypeOf(heard[i].freq) = feType
                   PROVE  Knows(o, heard[i].freq)
        OBVIOUS
      <3>1. CASE i = k + 1
        BY <2>5, <3>1
      <3>2. CASE i \in 1 .. k
        <4>1. Knows(m, heard[i].freq) /\ i \in 1 .. n
          BY <2>1, <2>2, <3>2
        <4> QED BY <2>3, <2>5, <4>1 DEF Extended
      <3> QED BY <3>1, <3>2
    <2> HIDE DEF All
    <2> QED BY <2>1, <2>6, <2>7
  <1>6. n \in S
    <2> HIDE DEF S
    <2>1. \A k \in 0 .. n : k \in S /\ k < n => k + 1 \in S
      BY <1>5
    <2>2. \A k \in 0 .. n : k \in S
      BY <1>4, <2>1, CountingUp
    <2> QED BY <2>2
  <1> QED BY <1>1, <1>2, <1>6

-----------------------------------------------------------------------------
(* The inductive invariants.                                               *)

Reading == pc \in {"poll", "pass"}
Tuned == pc \in {"retry", "next", "setup", "poll", "pass"}

\* Filters are on the lists only while their transponder is read, and poll_section_bufs
\* is the list of those that run.  A PMT filter belongs to a service that has one.
FilterInv ==
    /\ Queues \in Queue(FilterSet) /\ Sound(Queues)
    /\ failures \in 0 .. OpenFailures
    /\ DOMAIN state = Filters
    /\ polled = running
    /\ ~Reading => running = << >> /\ waiting = << >>
    /\ place \in Nat \ {0}
    /\ \A f \in Filters : f[2] = cur /\ (f[1] = "PMT" => <<cur, f[3]>> \in priv)

\* Every transponder is on one list, the one that is tuned is on that of the scanned
\* ones, and services belong to transponders.
ListInv ==
    /\ pc \in {"tune", "retry", "next", "setup", "poll", "pass", "end"}
    /\ Lists \in TpLists /\ Listed(Lists)
    /\ Tuned => cur \in Range(scanned)
    /\ services \subseteq (1 .. Len(tps)) \X Nat
    /\ priv \subseteq services

\* The transponders of the initial file are different ones.
InitialApart ==
    \A i, j \in 1 .. Len(Initial) : i # j => ~is_same_transponder(Initial[i], Initial[j])

LEMMA InitFilters == Init => FilterInv
  <1> SUFFICES ASSUME Init PROVE FilterInv
    OBVIOUS
  <1>1. Queues = [r |-> << >>, w |-> << >>, left |-> OpenFailures]
    BY ScanAssumption DEF Init, Queues
  <1>2. Queues \in Queue(FilterSet)
    BY <1>1, ScanAssumption DEF Queue
  <1>3. Range(<< >>) = {} /\ IsInjective(<< >>) /\ Len(<< >>) = 0
    BY DEF Range, IsInjective
  <1>4. Sound(Queues)
    BY <1>1, <1>3, ScanAssumption DEF Sound
  <1>5. Filters = {} /\ DOMAIN state = {}
    BY <1>3 DEF Init, Filters
  <1>6. failures \in 0 .. OpenFailures /\ place \in Nat \ {0}
    BY ScanAssumption DEF Init
  <1> QED BY <1>2, <1>4, <1>5, <1>6 DEF Init, FilterInv, Reading

\* The lists after an operation on them.
LEMMA ListsAre ==
    ASSUME NEW q \in Queue(FilterSet), q.left <= OpenFailures, SetQueues(q)
    PROVE  Queues' = q /\ Filters' = In(q) /\ failures' \in 0 .. OpenFailures
  <1>1. q.left \in Nat /\ q = [r |-> q.r, w |-> q.w, left |-> q.left]
    BY DEF Queue
  <1>2. OpenFailures - failures' = q.left /\ failures' \in 0 .. OpenFailures
    BY <1>1, ScanAssumption DEF SetQueues
  <1>3. Queues' = [r |-> q.r, w |-> q.w, left |-> q.left]
    BY <1>2 DEF Queues, SetQueues
  <1> QED BY <1>1, <1>2, <1>3 DEF Filters, In, SetQueues

LEMMA QueuesParts ==
    ASSUME FilterInv
    PROVE  /\ Queues.r = running /\ Queues.w = waiting /\ Queues.left = OpenFailures - failures
           /\ In(Queues) = Filters /\ Queues.left \in Nat /\ Queues.left <= OpenFailures
           /\ running \in Seq(FilterSet)
  BY ScanAssumption DEF Queues, In, Filters, FilterInv, Queue

\* Whatever changes the list of running filters makes the arrays for poll() anew.
LEMMA ArraysFollow ==
    ASSUME FilterInv, PollFds
    PROVE  polled' = running'
  BY DEF FilterInv, PollFds, update_poll_fds

\* A filter that is stopped leaves what was true of the others.
LEMMA Removed ==
    ASSUME FilterInv, pc = "pass", pc' = pc, cur' = cur, priv \subseteq priv',
           NEW q \in Queue(FilterSet), q.left <= OpenFailures, Sound(q), NEW f \in Range(q.r),
           \A g \in In(q) : g[2] = cur /\ (g[1] = "PMT" => <<cur, g[3]>> \in priv'),
           \E z \in remove_filter(q, f) : SetQueues(z),
           DOMAIN state' = In(q) \ {f}, PollFds, place' = place + 1
    PROVE  FilterInv'
  <1>1. PICK z \in remove_filter(q, f) : SetQueues(z)
    OBVIOUS
  <1>2. Shrunk(FilterSet, q, z, f)
    BY RemoveFilter
  <1>3. z \in Queue(FilterSet) /\ Sound(z) /\ z.left <= OpenFailures
    <2>1. z.left \in Nat /\ q.left \in Nat /\ z.left <= q.left
      BY <1>2 DEF Shrunk, Queue
    <2> QED BY <1>2, <2>1, ScanAssumption DEF Shrunk
  <1>4. Queues' = z /\ Filters' = In(z) /\ failures' \in 0 .. OpenFailures
    BY <1>1, <1>3, ListsAre
  <1>5. Filters' = In(q) \ {f}
    BY <1>2, <1>4 DEF Shrunk
  <1>6. polled' = running' /\ place' \in Nat \ {0} /\ Reading'
    BY ArraysFollow DEF FilterInv, Reading
  <1>7. \A g \in Filters' : g[2] = cur' /\ (g[1] = "PMT" => <<cur', g[3]>> \in priv')
    BY <1>5
  <1>8. Sound(Queues)' /\ Queues' \in Queue(FilterSet)
    <2>1. Sound(Queues)' <=> Sound(z)
      BY <1>4 DEF Sound
    <2> QED BY <1>3, <1>4, <2>1
  <1> QED BY <1>4, <1>5, <1>6, <1>7, <1>8 DEF FilterInv

\* Filters that are added to the others.
LEMMA Added ==
    ASSUME FilterInv, Reading', polled' = running',
           NEW q \in Queue(FilterSet), NEW more, Grown(FilterSet, Queues, q, more), SetQueues(q),
           \A g \in In(Queues) \cup more :
              g[2] = cur' /\ (g[1] = "PMT" => <<cur', g[3]>> \in priv'),
           DOMAIN state' = Filters \cup more, place' \in Nat \ {0}
    PROVE  FilterInv'
  <1>1. q.left <= OpenFailures /\ In(Queues) = Filters /\ Sound(q)
    <2>1. q.left \in Nat /\ Queues.left \in Nat /\ q.left <= Queues.left
      BY QueuesParts DEF Grown, Queue
    <2> QED BY <2>1, QueuesParts, ScanAssumption DEF Grown
  <1>2. Queues' = q /\ Filters' = In(q) /\ failures' \in 0 .. OpenFailures
    BY <1>1, ListsAre
  <1>3. Filters' = Filters \cup more
    BY <1>1, <1>2 DEF Grown
  <1>4. Sound(Queues)' /\ Queues' \in Queue(FilterSet)
    <2>1. Sound(Queues)' <=> Sound(q)
      BY <1>2 DEF Sound
    <2> QED BY <1>1, <1>2, <2>1
  <1>5. \A g \in Filters' : g[2] = cur' /\ (g[1] = "PMT" => <<cur', g[3]>> \in priv')
    BY <1>1, <1>3
  <1> QED BY <1>2, <1>3, <1>4, <1>5 DEF FilterInv

\* The filters a transponder begins with are different ones, and none is for a PMT.
LEMMA FirstFilters ==
    ASSUME NEW kinds \in Seq(Kinds \ {"PMT"}), IsInjective(kinds), cur \in Nat
    PROVE  LET fs == [k \in DOMAIN kinds |-> Filter(kinds[k])]
           IN  /\ fs \in Seq(FilterSet) /\ IsInjective(fs)
               /\ \A f \in Range(fs) : f[2] = cur /\ f[1] # "PMT"
  <1> DEFINE fs == [k \in DOMAIN kinds |-> Filter(kinds[k])]
  <1>1. PICK n \in Nat : n = Len(kinds) /\ DOMAIN kinds = 1 .. n
    BY LenProperties
  <1>2. \A k \in 1 .. n : kinds[k] \in Kinds /\ kinds[k] # "PMT"
    BY <1>1, ElementOfSeq
  <1>3. \A k \in 1 .. n : /\ fs[k] = <<kinds[k], cur, 0>> /\ fs[k] \in FilterSet
                          /\ fs[k][1] = kinds[k] /\ fs[k][2] = cur
    BY <1>1, <1>2 DEF Filter, FilterSet
  <1>4. DOMAIN fs = 1 .. n /\ fs \in [1 .. n -> FilterSet]
    BY <1>1, <1>3
  <1> HIDE DEF fs
  <1>5. fs \in Seq(FilterSet)
    BY <1>4, IsASeq
  <1>6. IsInjective(fs)
    BY <1>1, <1>3, <1>4 DEF IsInjective
  <1>7. \A f \in Range(fs) : f[2] = cur /\ f[1] # "PMT"
    BY <1>2, <1>3, <1>4 DEF Range
  <1> QED BY <1>5, <1>6, <1>7 DEF fs

LEMMA ScanTpFilters ==
    ASSUME FilterInv, ListInv, ScanTp
    PROVE  FilterInv'
  <1> DEFINE kinds == IF feType = "atsc" THEN scan_tp_atsc ELSE scan_tp_dvb
             fs == [k \in DOMAIN kinds |-> Filter(kinds[k])]
  <1>1. kinds \in Seq(Kinds \ {"PMT"}) /\ IsInjective(kinds)
    <2>1. CASE feType = "atsc"
      <3>1. scan_tp_atsc \in Seq(Kinds \ {"PMT"}) /\ IsInjective(scan_tp_atsc)
        <4>1. /\ <<"VCT", "PAT">> \in Seq(Kinds \ {"PMT"})
              /\ IsInjective(<<"VCT", "PAT">>)
          BY DEF Kinds, IsInjective
        <4>2. /\ <<"CVCT", "PAT">> \in Seq(Kinds \ {"PMT"})
              /\ IsInjective(<<"CVCT", "PAT">>)
          BY DEF Kinds, IsInjective
        <4>3. /\ <<"VCT", "CVCT", "PAT">> \in Seq(Kinds \ {"PMT"})
              /\ IsInjective(<<"VCT", "CVCT", "PAT">>)
          BY DEF Kinds, IsInjective
        <4>4. <<"PAT">> \in Seq(Kinds \ {"PMT"}) /\ IsInjective(<<"PAT">>)
          BY DEF Kinds, IsInjective
        <4>5. scan_tp_atsc \in {<<"VCT", "PAT">>, <<"CVCT", "PAT">>, <<"VCT", "CVCT", "PAT">>,
                                <<"PAT">>}
          BY Zenon DEF scan_tp_atsc
        <4> QED BY <4>1, <4>2, <4>3, <4>4, <4>5, Zenon
      <3> QED BY <2>1, <3>1, Zenon
    <2>2. CASE feType # "atsc"
      <3> DEFINE a == <<"PAT", "SDT", "NIT">>
                 b == IF Networks = {} THEN << >> ELSE <<"NITother">>
      <3>1. a \in Seq(Kinds \ {"PMT"}) /\ IsInjective(a)
        BY DEF Kinds, IsInjective
      <3>2. Range(a) \subseteq {"PAT", "SDT", "NIT"}
        BY DEF Range
      <3>3. b \in Seq(Kinds \ {"PMT"}) /\ IsInjective(b) /\ Range(b) \subseteq {"NITother"}
        <4>1. CASE Networks = {}
          BY <4>1 DEF Range, IsInjective
        <4>2. CASE Networks # {}
          <5> DEFINE o == <<"NITother">>
          <5>1. o \in Seq(Kinds \ {"PMT"}) /\ IsInjective(o) /\ Range(o) \subseteq {"NITother"}
            BY DEF Kinds, Range, IsInjective
          <5>2. b = o
            BY <4>2
          <5> HIDE DEF o, b
          <5> QED BY <5>1, <5>2
        <4> QED BY <4>1, <4>2
      <3>4. kinds = a \o b
        BY <2>2 DEF scan_tp_dvb
      <3> HIDE DEF a, b, kinds
      <3>5. Range(a) \cap Range(b) = {}
        BY <3>2, <3>3
      <3> QED BY <3>1, <3>3, <3>4, <3>5, JoinLists
    <2> QED BY <2>1, <2>2
  <1>2. pc = "setup" /\ pc' = "poll" /\ UNCHANGED <<cur, priv, place>> /\ PollFds
    BY DEF ScanTp, tuning
  <1>3. PICK q \in add_filters(Queues, fs) : SetQueues(q)
    BY DEF ScanTp
  <1>4. DOMAIN state' = Range(fs)
    BY DEF ScanTp
  <1>5. cur \in Nat
    BY <1>2, ListsParts, RangeIs DEF ListInv, Tuned, Lists
  <1> HIDE DEF kinds
  <1>6. /\ fs \in Seq(FilterSet) /\ IsInjective(fs)
        /\ \A f \in Range(fs) : f[2] = cur /\ f[1] # "PMT"
    BY <1>1, <1>5, FirstFilters
  <1> HIDE DEF fs
  <1>7. Filters = {} /\ In(Queues) = {} /\ Queues \in Queue(FilterSet) /\ Sound(Queues)
    <2>1. running = << >> /\ waiting = << >>
      BY <1>2 DEF FilterInv, Reading
    <2>2. Filters = {}
      BY <2>1 DEF Filters, Range
    <2> QED BY <2>2, QueuesParts DEF FilterInv
  <1>8. Grown(FilterSet, Queues, q, Range(fs))
    BY <1>3, <1>6, <1>7, AddFilters
  <1>9. q \in Queue(FilterSet) /\ Reading' /\ polled' = running' /\ place' \in Nat \ {0}
    BY <1>2, <1>8, ArraysFollow DEF Grown, Reading, FilterInv
  <1>10. /\ DOMAIN state' = Filters \cup Range(fs)
         /\ \A g \in In(Queues) \cup Range(fs) :
               g[2] = cur' /\ (g[1] = "PMT" => <<cur', g[3]>> \in priv')
    BY <1>2, <1>4, <1>6, <1>7
  <1> QED BY <1>3, <1>8, <1>9, <1>10, Added

\* The filter the loop is at runs.
LEMMA AtPlace ==
    ASSUME FilterInv, pc = "pass", place <= Len(running)
    PROVE  polled[place] \in Range(running) /\ polled[place] \in Filters
  <1>1. polled = running /\ running \in Seq(FilterSet) /\ place \in 1 .. Len(running)
    BY QueuesParts, LenProperties DEF FilterInv, Reading
  <1> QED BY <1>1, InRange DEF Filters

LEMMA PassOverFilters ==
    ASSUME FilterInv, ListInv, PassOver
    PROVE  FilterInv'
  <1> DEFINE f == polled[place]
  <1>1. f \in Range(running) /\ pc = "pass"
    BY AtPlace DEF PassOver
  <1>2. UNCHANGED <<pc, cur, priv>> /\ place' = place + 1
    BY DEF PassOver, tuning
  <1>3. CASE state[f].expired
    <2>1. \E z \in remove_filter(Queues, f) : SetQueues(z)
      BY <1>3 DEF PassOver
    <2>2. PollFds /\ DOMAIN state' = (DOMAIN state) \ {f}
      BY <1>3 DEF PassOver, Without
    <2> HIDE DEF f
    <2>3. /\ Queues \in Queue(FilterSet) /\ Sound(Queues) /\ Queues.left <= OpenFailures
          /\ f \in Range(Queues.r) /\ In(Queues) = Filters
      BY <1>1, QueuesParts DEF FilterInv
    <2>4. /\ DOMAIN state' = In(Queues) \ {f}
          /\ \A g \in In(Queues) : g[2] = cur /\ (g[1] = "PMT" => <<cur, g[3]>> \in priv')
      BY <1>2, <2>2, <2>3 DEF FilterInv
    <2>5. PICK q : q = Queues
      OBVIOUS
    <2>6. PICK x : x = f
      OBVIOUS
    <2> QED BY <1>1, <1>2, <2>1, <2>2, <2>3, <2>4, <2>5, <2>6, Removed
  <1>4. CASE ~state[f].expired
    <2>1. UNCHANGED <<running, waiting, polled, failures>> /\ DOMAIN state' = DOMAIN state
      BY <1>4 DEF PassOver
    <2>2. Queues' = Queues /\ Filters' = Filters /\ place' \in Nat \ {0}
      BY <1>2, <2>1 DEF Queues, Filters, FilterInv
    <2>3. Sound(Queues)' <=> Sound(Queues)
      BY <2>2 DEF Sound
    <2> QED BY <1>2, <2>1, <2>2, <2>3 DEF FilterInv, Reading
  <1> QED BY <1>3, <1>4

LEMMA TunedTransponder ==
    ASSUME ListInv, Tuned
    PROVE  cur \in 1 .. Len(tps) /\ cur \in Nat /\ tps[cur].freq \in Frequencies
  <1>1. Lists.tps = tps /\ Lists.scanned = scanned
    BY DEF Lists
  <1>2. cur \in 1 .. Len(tps)
    BY <1>1 DEF ListInv, Listed
  <1>3. /\ Len(Lists.tps) \in Nat
        /\ \A t \in 1 .. Len(Lists.tps) : Lists.tps[t].freq \in Frequencies
    BY ListsParts DEF ListInv
  <1> QED BY <1>1, <1>2, <1>3

\* The filters parse_pat adds are new ones.
LEMMA WantedFilters ==
    ASSUME FilterInv, ListInv, pc = "pass", NEW kind \in Kinds, NEW n \in 0 .. LastSection(kind)
    PROVE  /\ Wanted(kind, n) \in Seq(FilterSet) /\ IsInjective(Wanted(kind, n))
           /\ Range(Wanted(kind, n)) \cap Filters = {}
           /\ \A g \in Range(Wanted(kind, n)) :
                 /\ g[2] = cur
                 /\ kind = "PAT" /\ g[3] \in Range(Pat(tps[cur].freq, n))
  <1>1. CASE kind = "PAT"
    <2> DEFINE s == Pat(tps[cur].freq, n)
               w == Wanted(kind, n)
    <2>1. cur \in Nat /\ s \in Seq(Nat)
      BY <1>1, TunedTransponder, ScanAssumption DEF Tuned
    <2>2. w = parse_pat(s)
      BY <1>1 DEF Wanted
    <2> HIDE DEF s, w
    <2>3. w \in Seq(FilterSet) /\ IsInjective(w) /\ Range(w) \subseteq Lacking(s)
      BY <2>1, <2>2, ParsePat
    <2>4. \A g \in Range(w) : /\ g[1] = "PMT" /\ g[2] = cur
                              /\ g[3] \in Range(s) /\ <<cur, g[3]>> \notin priv
      <3> TAKE g \in Range(w)
      <3>1. PICK x \in {y \in Range(s) : <<cur, y>> \notin priv} : g = PmtFilter(x)
        BY <2>3 DEF Lacking
      <3>2. g[1] = "PMT" /\ g[2] = cur /\ g[3] = x
        BY <3>1 DEF PmtFilter
      <3> QED BY <3>1, <3>2
    <2>5. Range(w) \cap Filters = {}
      BY <2>4 DEF FilterInv
    <2> QED BY <1>1, <2>3, <2>4, <2>5 DEF s, w
  <1>2. CASE kind # "PAT"
    <2>1. Wanted(kind, n) = << >>
      BY <1>2 DEF Wanted
    <2>2. Range(<< >>) = {} /\ IsInjective(<< >>) /\ << >> \in Seq(FilterSet)
      BY DEF Range, IsInjective
    <2> QED BY <2>1, <2>2
  <1> QED BY <1>1, <1>2

LEMMA ReadSectionFilters ==
    ASSUME FilterInv, ListInv, ReadSection
    PROVE  FilterInv'
  <1>1. PICK f : f = polled[place]
    OBVIOUS
  <1>2. /\ f \in Range(running) /\ f \in Filters /\ pc = "pass"
        /\ UNCHANGED <<pc, cur>> /\ place' = place + 1
    BY <1>1, AtPlace DEF ReadSection
  <1>3. f \in FilterSet /\ f[1] \in Kinds
    <2>1. f \in FilterSet
      BY <1>2, QueuesParts, RangeIs
    <2> QED BY <2>1 DEF FilterSet
  <1>4. PICK n \in 0 .. LastSection(f[1]) : \E p : SectionTaken(f, n, p)
    BY <1>1 DEF ReadSection
  <1>5. PICK p : SectionTaken(f, n, p)
    BY <1>4
  <1> DEFINE want == IF p.fresh THEN Wanted(f[1], n) ELSE << >>
             done == (p.state.complete /\ ~Segmented(f)) \/ p.state.expired
             old == [state EXCEPT ![f] = p.state]
             all == [g \in DOMAIN old \cup Range(want) |->
                        IF g \in DOMAIN old THEN old[g] ELSE setup_filter]
  <1>6. /\ IF p.fresh THEN Parse(f[1], n)
           ELSE UNCHANGED <<services, priv, tps, new, scanned, announced>>
        /\ state' = IF done THEN Without(all, f) ELSE all
        /\ PollFds
    BY <1>5 DEF SectionTaken
  <1>7. PICK q \in add_filters(Queues, want) :
           IF done THEN \E r \in remove_filter(q, f) : SetQueues(r) ELSE SetQueues(q)
    BY <1>5 DEF SectionTaken
  <1>8. /\ want \in Seq(FilterSet) /\ IsInjective(want) /\ Range(want) \cap Filters = {}
        /\ \A g \in Range(want) : /\ g[2] = cur /\ f[1] = "PAT" /\ p.fresh
                                  /\ g[3] \in Range(Pat(tps[cur].freq, n))
    <2>1. CASE p.fresh
      <3>1. want = Wanted(f[1], n)
        BY <2>1
      <3> HIDE DEF want
      <3> QED BY <1>2, <1>3, <2>1, <3>1, WantedFilters
    <2>2. CASE ~p.fresh
      <3>1. Range(<< >>) = {} /\ IsInjective(<< >>) /\ << >> \in Seq(FilterSet)
        BY DEF Range, IsInjective
      <3> QED BY <2>2, <3>1
    <2> QED BY <2>1, <2>2
  <1>9. DOMAIN state' = IF done THEN (Filters \cup Range(want)) \ {f}
                        ELSE Filters \cup Range(want)
    <2>1. DOMAIN all = Filters \cup Range(want)
      BY DEF FilterInv
    <2> HIDE DEF all, done, want
    <2> QED BY <1>6, <2>1 DEF Without
  <1>10. /\ priv \subseteq priv'
         /\ \A g \in Range(want) : <<cur, g[3]>> \in priv'
    <2>1. CASE p.fresh
      <3>1. Parse(f[1], n)
        BY <1>6, <2>1
      <3>2. priv \subseteq priv'
        BY <3>1 DEF Parse
      <3>3. f[1] = "PAT" => \A s \in Range(Pat(tps[cur].freq, n)) : <<cur, s>> \in priv'
        BY <3>1 DEF Parse
      <3> HIDE DEF want
      <3> QED BY <1>8, <3>2, <3>3
    <2>2. CASE ~p.fresh
      <3>1. priv' = priv
        BY <1>6, <2>2
      <3> HIDE DEF want
      <3> QED BY <1>8, <2>2, <3>1
    <2> QED BY <2>1, <2>2
  <1> HIDE DEF want, done, old, all
  <1>11. /\ Queues \in Queue(FilterSet) /\ Sound(Queues) /\ In(Queues) = Filters
         /\ Queues.r = running /\ Queues.left \in Nat /\ Queues.left <= OpenFailures
    BY QueuesParts DEF FilterInv
  <1>12. Grown(FilterSet, Queues, q, Range(want))
    BY <1>7, <1>8, <1>11, AddFilters
  <1>13. /\ q \in Queue(FilterSet) /\ Sound(q) /\ f \in Range(q.r) /\ q.left <= OpenFailures
         /\ In(q) = Filters \cup Range(want)
    <2>1. q.left \in Nat /\ q.left <= Queues.left
      BY <1>12 DEF Grown, Queue
    <2> QED BY <1>2, <1>11, <1>12, <2>1, ScanAssumption DEF Grown
  <1>14. \A g \in Filters \cup Range(want) :
            g[2] = cur /\ (g[1] = "PMT" => <<cur, g[3]>> \in priv')
    BY <1>8, <1>10 DEF FilterInv
  <1>15. CASE done
    <2>1. /\ \E z \in remove_filter(q, f) : SetQueues(z)
          /\ PollFds /\ DOMAIN state' = In(q) \ {f}
      BY <1>6, <1>7, <1>9, <1>13, <1>15
    <2>2. \A g \in In(q) : g[2] = cur /\ (g[1] = "PMT" => <<cur, g[3]>> \in priv')
      BY <1>13, <1>14
    <2> QED BY <1>2, <1>10, <1>13, <2>1, <2>2, Removed
  <1>16. CASE ~done
    <2>1. SetQueues(q) /\ DOMAIN state' = Filters \cup Range(want)
      BY <1>7, <1>9, <1>16
    <2>2. polled' = running'
      BY <1>6, ArraysFollow
    <2>3. Reading' /\ place' \in Nat \ {0} /\ cur' = cur
      BY <1>2 DEF Reading, FilterInv
    <2>4. PICK more : more = Range(want)
      OBVIOUS
    <2>5. \A g \in In(Queues) \cup more :
             g[2] = cur' /\ (g[1] = "PMT" => <<cur', g[3]>> \in priv')
      BY <1>11, <1>14, <2>3, <2>4
    <2> QED BY <1>12, <1>13, <2>1, <2>2, <2>3, <2>4, <2>5, Added
  <1> QED BY <1>15, <1>16

LEMMA FilterStep ==
    ASSUME FilterInv, ListInv, Next
    PROVE  FilterInv'
  <1>1. ASSUME UNCHANGED <<running, waiting, failures>>, Reading' <=> Reading,
               polled' = polled, Reading => UNCHANGED <<cur, priv>>,
               DOMAIN state' = DOMAIN state, place' \in Nat \ {0}
        PROVE  FilterInv'
    <2>1. Queues' = Queues /\ Filters' = Filters
      BY <1>1 DEF Queues, Filters
    <2>2. Sound(Queues)' <=> Sound(Queues)
      BY <2>1 DEF Sound
    <2>3. \A f \in Filters' : f[2] = cur' /\ (f[1] = "PMT" => <<cur', f[3]>> \in priv')
      <3>1. CASE Reading
        BY <1>1, <2>1, <3>1 DEF FilterInv
      <3>2. CASE ~Reading
        <4>1. Filters = {}
          BY <3>2 DEF FilterInv, Filters, Range
        <4> QED BY <2>1, <4>1
      <3> QED BY <3>1, <3>2
    <2> QED BY <1>1, <2>1, <2>2, <2>3 DEF FilterInv
  <1>2. CASE TuneNext \/ Retry \/ GiveUp \/ OtherFrequency \/ Finish
    <2>1. ~Reading /\ UNCHANGED <<filters, place>>
      BY <1>2 DEF TuneNext, Retry, GiveUp, OtherFrequency, Finish, Reading
    <2>2. ~Reading'
      BY <1>2 DEF TuneNext, Retry, GiveUp, OtherFrequency, Finish, Reading, TuneTo
    <2> QED BY <1>1, <2>1, <2>2 DEF filters, FilterInv
  <1>3. CASE ScanTp
    BY <1>3, ScanTpFilters
  <1>4. CASE Poll
    BY <1>1, <1>4 DEF Poll, tuning, Reading
  <1>5. CASE PassOver
    BY <1>5, PassOverFilters
  <1>6. CASE ReadSection
    BY <1>6, ReadSectionFilters
  <1>7. CASE EndPass
    <2>1. Reading /\ UNCHANGED <<filters, cur, priv>> /\ place' = 1
      BY <1>7 DEF EndPass, tuning, Reading
    <2>2. CASE Reading'
      BY <1>1, <2>1, <2>2 DEF filters
    <2>3. CASE ~Reading'
      <3>1. running = << >> /\ waiting = << >>
        BY <1>7, <2>3 DEF EndPass, Reading
      <3>2. Queues' = Queues /\ Filters' = Filters /\ Filters = {}
        BY <2>1, <3>1 DEF filters, Queues, Filters, Range
      <3>3. Sound(Queues)' <=> Sound(Queues)
        BY <3>2 DEF Sound
      <3> QED BY <2>1, <2>3, <3>1, <3>2, <3>3 DEF FilterInv, filters
    <2> QED BY <2>2, <2>3
  <1>8. CASE SomeExpire
    <2>1. PICK f : Expire(f)
      BY <1>8 DEF SomeExpire
    <2> QED BY <1>1, <2>1 DEF Expire, tuning, Reading, FilterInv
  <1> QED BY <1>2, <1>3, <1>4, <1>5, <1>6, <1>7, <1>8 DEF Next, Thread

-----------------------------------------------------------------------------
(* The lists of transponders, step by step.                                *)

LEMMA InitLists == Init => ListInv
  <1> SUFFICES ASSUME Init PROVE ListInv
    OBVIOUS
  <1>1. PICK n \in Nat : n = Len(Initial)
    BY LenProperties, ScanAssumption
  <1>2. \A k \in 1 .. n : Initial[k] \in Frequencies
    BY <1>1, ElementOfSeq, ScanAssumption
  <1>3. /\ tps = [k \in 1 .. n |-> Transponder(Initial[k], << >>)]
        /\ new = [k \in 1 .. n |-> k] /\ scanned = << >>
    BY <1>1 DEF Init
  <1>4. \A k \in 1 .. n : Transponder(Initial[k], << >>) \in Tp
    BY <1>2 DEF Transponder, Tp
  <1>5. tps \in Seq(Tp) /\ Len(tps) = n
    <2>1. tps \in [1 .. n -> Tp]
      BY <1>3, <1>4
    <2> QED BY <2>1, IsASeq, LenProperties
  <1>6. new \in Seq(Nat) /\ IsInjective(new) /\ Range(new) = 1 .. n
    <2>1. new \in [1 .. n -> Nat]
      BY <1>3
    <2>2. new \in Seq(Nat)
      BY <2>1, IsASeq
    <2> QED BY <1>3, <2>2 DEF IsInjective, Range
  <1>7. scanned \in Seq(Nat) /\ IsInjective(scanned) /\ Range(scanned) = {}
    BY <1>3 DEF IsInjective, Range
  <1>8. Lists \in TpLists
    BY <1>5, <1>6, <1>7 DEF Lists, TpLists
  <1>9. Listed(Lists)
    BY <1>5, <1>6, <1>7 DEF Listed, Lists
  <1> QED BY <1>8, <1>9 DEF Init, ListInv, Tuned

LEMMA InitOnce ==
    ASSUME Init
    PROVE  (InitialApart => Once(Lists)) /\ announced = {}
  <1>1. /\ Lists.tps = [k \in 1 .. Len(Initial) |-> Transponder(Initial[k], << >>)]
        /\ announced = {}
    BY DEF Init, Lists
  <1>2. PICK n \in Nat : n = Len(Initial)
    BY LenProperties, ScanAssumption
  <1>3. Len(Lists.tps) = n /\ \A k \in 1 .. n : Lists.tps[k].freq = Initial[k]
    <2>1. Lists.tps = [k \in 1 .. n |-> Transponder(Initial[k], << >>)]
      BY <1>1, <1>2
    <2>2. \A k \in 1 .. n : Lists.tps[k].freq = Initial[k]
      BY <2>1 DEF Transponder
    <2>3. Lists.tps \in Seq(Tp)
      BY InitLists, ListsParts DEF ListInv
    <2>4. DOMAIN Lists.tps = 1 .. n
      BY <2>1
    <2> QED BY <2>2, <2>3, <2>4, LenProperties
  <1> QED BY <1>1, <1>2, <1>3 DEF InitialApart, Once

LEMMA TailOfList ==
    ASSUME NEW F, NEW s \in Seq(F), s # << >>, IsInjective(s)
    PROVE  /\ Tail(s) \in Seq(F) /\ Head(s) \in Range(s)
           /\ Range(Tail(s)) = Range(s) \ {Head(s)} /\ IsInjective(Tail(s))
  <1>1. Len(s) \in Nat /\ Len(s) # 0 /\ Head(s) = s[1]
    BY HeadTailProperties, LenProperties
  <1>2. /\ Tail(s) \in Seq(F) /\ Len(Tail(s)) = Len(s) - 1
        /\ \A i \in 1 .. Len(s) - 1 : Tail(s)[i] = s[i + 1]
    BY <1>1, HeadTailProperties
  <1>3. \A i, j \in 1 .. Len(s) : s[i] = s[j] => i = j
    BY InjectiveIs
  <1>4. \A i, j \in 1 .. Len(s) - 1 : Tail(s)[i] = Tail(s)[j] => i = j
    <2> TAKE i, j \in 1 .. Len(s) - 1
    <2>1. i + 1 \in 1 .. Len(s) /\ j + 1 \in 1 .. Len(s) /\ (i + 1 = j + 1 => i = j)
      BY <1>1
    <2> QED BY <1>2, <1>3, <2>1
  <1>5. IsInjective(Tail(s))
    BY <1>2, <1>4, InjectiveIs
  <1>6. /\ Range(s) = {s[i] : i \in 1 .. Len(s)}
        /\ Range(Tail(s)) = {Tail(s)[i] : i \in 1 .. Len(s) - 1}
    BY <1>2, RangeIs
  <1>7. \A i \in 1 .. Len(s) - 1 : Tail(s)[i] \in Range(s) /\ Tail(s)[i] # s[1]
    <2> TAKE i \in 1 .. Len(s) - 1
    <2>1. i + 1 \in 1 .. Len(s) /\ i + 1 # 1 /\ 1 \in 1 .. Len(s)
      BY <1>1
    <2> QED BY <1>2, <1>3, <1>6, <2>1
  <1>8. \A i \in 1 .. Len(s) : s[i] # s[1] => s[i] \in Range(Tail(s))
    <2> TAKE i \in 1 .. Len(s)
    <2> HAVE s[i] # s[1]
    <2>1. i - 1 \in 1 .. Len(s) - 1 /\ (i - 1) + 1 = i
      BY <1>1
    <2> QED BY <1>2, <1>6, <2>1
  <1>9. Head(s) \in Range(s)
    BY <1>1, <1>6
  <1> QED BY <1>1, <1>2, <1>5, <1>6, <1>7, <1>8, <1>9

\* What a step makes of the lists l.
Follows(l, m) ==
    /\ m \in TpLists /\ Listed(m) /\ Len(l.tps) <= Len(m.tps)
    /\ Apart /\ Once(l) => Once(m)
    /\ Apart => \A f \in Frequencies : Knows(l, f) => Knows(m, f)

\* The same entries on other lists.
LEMMA Moved ==
    ASSUME NEW l \in TpLists, NEW m \in TpLists, Listed(m), m.tps = l.tps
    PROVE  Follows(l, m)
  <1>1. Len(l.tps) \in Nat
    BY ListsParts
  <1> QED BY <1>1 DEF Follows, Once, Knows

\* One entry is written over.
LEMMA Rewritten ==
    ASSUME NEW l \in TpLists, Listed(l), NEW c \in 1 .. Len(l.tps), NEW e \in Tp
    PROVE  LET m == [tps |-> [l.tps EXCEPT ![c] = e], new |-> l.new, scanned |-> l.scanned]
           IN  /\ m \in TpLists /\ Listed(m) /\ Len(m.tps) = Len(l.tps) /\ m.tps[c] = e
               /\ \A u \in 1 .. Len(l.tps) : u # c => m.tps[u] = l.tps[u]
  <1> DEFINE m == [tps |-> [l.tps EXCEPT ![c] = e], new |-> l.new, scanned |-> l.scanned]
  <1>1. l.tps \in Seq(Tp) /\ l.new \in Seq(Nat) /\ l.scanned \in Seq(Nat)
    BY ListsParts
  <1>2. /\ m.tps \in Seq(Tp) /\ Len(m.tps) = Len(l.tps) /\ m.tps[c] = e
        /\ \A u \in 1 .. Len(l.tps) : u # c => m.tps[u] = l.tps[u]
    BY <1>1, ExceptSeq
  <1>3. m.new = l.new /\ m.scanned = l.scanned
    OBVIOUS
  <1>4. m \in TpLists
    BY <1>1, <1>2 DEF TpLists
  <1> HIDE DEF m
  <1>5. Listed(m)
    BY <1>2, <1>3 DEF Listed
  <1> QED BY <1>2, <1>4, <1>5 DEF m

\* An entry loses one of its other frequencies.
LEMMA OthersTried ==
    ASSUME NEW l \in TpLists, Listed(l), NEW c \in 1 .. Len(l.tps), NEW e \in Tp,
           e.freq = l.tps[c].freq
    PROVE  Follows(l, [tps |-> [l.tps EXCEPT ![c] = e], new |-> l.new, scanned |-> l.scanned])
  <1> DEFINE m == [tps |-> [l.tps EXCEPT ![c] = e], new |-> l.new, scanned |-> l.scanned]
  <1>1. /\ m \in TpLists /\ Listed(m) /\ Len(m.tps) = Len(l.tps) /\ m.tps[c] = e
        /\ \A u \in 1 .. Len(l.tps) : u # c => m.tps[u] = l.tps[u]
    BY Rewritten
  <1> HIDE DEF m
  <1>2. \A u \in 1 .. Len(l.tps) : m.tps[u].freq = l.tps[u].freq
    BY <1>1
  <1>3. Len(l.tps) \in Nat
    BY ListsParts
  <1>4. Once(l) => Once(m)
    BY <1>1, <1>2 DEF Once
  <1>5. \A f : Knows(l, f) => Knows(m, f)
    BY <1>1, <1>2 DEF Knows
  <1>6. Len(l.tps) <= Len(m.tps)
    BY <1>1, <1>3
  <1>7. Follows(l, m)
    BY <1>1, <1>4, <1>5, <1>6 DEF Follows
  <1> QED BY <1>7 DEF m

\* An entry gets a frequency that is not known, and another one keeps the old frequency.
LEMMA Retuned ==
    ASSUME NEW l \in TpLists, Listed(l), NEW c \in 1 .. Len(l.tps), NEW e \in Tp, NEW o \in Tp,
           ~Knows(l, e.freq), o.freq = l.tps[c].freq
    PROVE  LET k == [tps |-> [l.tps EXCEPT ![c] = e], new |-> l.new, scanned |-> l.scanned]
           IN  Follows(l, Lengthened(k, o, TRUE))
  <1> DEFINE k == [tps |-> [l.tps EXCEPT ![c] = e], new |-> l.new, scanned |-> l.scanned]
             m == Lengthened(k, o, TRUE)
  <1>1. /\ k \in TpLists /\ Listed(k) /\ Len(k.tps) = Len(l.tps) /\ k.tps[c] = e
        /\ \A u \in 1 .. Len(l.tps) : u # c => k.tps[u] = l.tps[u]
    BY Rewritten
  <1> HIDE DEF k
  <1>2. /\ m \in TpLists /\ Listed(m) /\ Len(m.tps) = Len(k.tps) + 1
        /\ \A f : Knows(m, f) <=> Knows(k, f) \/ is_same_transponder(o.freq, f)
        /\ Once(k) /\ ~Knows(k, o.freq) => Once(m)
    BY <1>1, LengthenedLists
  <1> HIDE DEF m
  <1>3. /\ Len(l.tps) \in Nat /\ e.freq \in Frequencies
        /\ \A u \in 1 .. Len(l.tps) : l.tps[u].freq \in Frequencies
    BY ListsParts DEF Tp
  <1>4. \A u \in 1 .. Len(l.tps) : /\ ~is_same_transponder(l.tps[u].freq, e.freq)
                                   /\ ~is_same_transponder(e.freq, l.tps[u].freq)
    BY <1>3, SameIs DEF Knows
  <1>5. ASSUME Once(l) PROVE Once(m)
    <2>1. Once(k)
      <3> SUFFICES ASSUME NEW u \in 1 .. Len(l.tps), NEW v \in 1 .. Len(l.tps), u # v
                   PROVE  ~is_same_transponder(k.tps[u].freq, k.tps[v].freq)
        BY <1>1 DEF Once
      <3>1. CASE u # c /\ v # c
        BY <1>1, <1>5, <3>1 DEF Once
      <3>2. CASE u = c
        BY <1>1, <1>4, <3>2
      <3>3. CASE v = c
        BY <1>1, <1>4, <3>3
      <3> QED BY <3>1, <3>2, <3>3
    <2>2. ~Knows(k, o.freq)
      <3> SUFFICES ASSUME NEW u \in 1 .. Len(l.tps)
                   PROVE  ~is_same_transponder(k.tps[u].freq, l.tps[c].freq)
        BY <1>1 DEF Knows
      <3>1. CASE u # c
        BY <1>1, <1>5, <3>1 DEF Once
      <3>2. CASE u = c
        BY <1>1, <1>4, <3>2
      <3> QED BY <3>1, <3>2
    <2> QED BY <1>2, <2>1, <2>2
  <1>6. ASSUME NEW f, Knows(l, f) PROVE Knows(m, f)
    <2>1. PICK u \in 1 .. Len(l.tps) : is_same_transponder(l.tps[u].freq, f)
      BY <1>6 DEF Knows
    <2>2. CASE u = c
      BY <1>2, <2>1, <2>2
    <2>3. CASE u # c
      <3>1. Knows(k, f)
        BY <1>1, <2>1, <2>3 DEF Knows
      <3> QED BY <1>2, <3>1
    <2> QED BY <2>2, <2>3
  <1>7. Len(l.tps) <= Len(m.tps)
    BY <1>1, <1>2, <1>3
  <1>8. Follows(l, m)
    BY <1>2, <1>5, <1>6, <1>7 DEF Follows
  <1> QED BY <1>8 DEF m, k

LEMMA ListVariables ==
    ASSUME ListInv
    PROVE  /\ Lists.tps = tps /\ Lists.new = new /\ Lists.scanned = scanned
           /\ tps \in Seq(Tp) /\ new \in Seq(Nat) /\ scanned \in Seq(Nat)
           /\ IsInjective(new) /\ IsInjective(scanned)
           /\ Range(new) \cap Range(scanned) = {}
           /\ Range(new) \cup Range(scanned) = 1 .. Len(tps)
  <1>1. Lists.tps = tps /\ Lists.new = new /\ Lists.scanned = scanned
    BY DEF Lists
  <1>2. Lists.tps \in Seq(Tp) /\ Lists.new \in Seq(Nat) /\ Lists.scanned \in Seq(Nat)
    BY ListsParts DEF ListInv
  <1> QED BY <1>1, <1>2 DEF ListInv, Listed

LEMMA TuneNextLists ==
    ASSUME ListInv, TuneNext
    PROVE  Follows(Lists, Lists') /\ cur' \in Range(scanned')
  <1>1. PICK n, s, h : n = Tail(new) /\ s = Append(scanned, Head(new)) /\ h = Head(new)
    OBVIOUS
  <1>2. /\ new \in Seq(Nat) /\ scanned \in Seq(Nat) /\ new # << >>
        /\ IsInjective(new) /\ IsInjective(scanned)
        /\ Range(new) \cap Range(scanned) = {}
        /\ Range(new) \cup Range(scanned) = 1 .. Len(tps)
    BY ListVariables DEF TuneNext
  <1>3. n \in Seq(Nat) /\ h \in Range(new) /\ Range(n) = Range(new) \ {h} /\ IsInjective(n)
    BY <1>1, <1>2, TailOfList
  <1>4. h \in Nat /\ h \notin Range(scanned)
    BY <1>2, <1>3, RangeIs
  <1>5. s \in Seq(Nat) /\ Range(s) = Range(scanned) \cup {h} /\ IsInjective(s)
    BY <1>1, <1>2, <1>4, AppendList
  <1>6. PICK m : m = [tps |-> tps, new |-> n, scanned |-> s]
    OBVIOUS
  <1>7. m \in TpLists /\ m.tps = Lists.tps
    BY <1>3, <1>5, <1>6, ListVariables DEF TpLists
  <1>8. Listed(m)
    BY <1>2, <1>3, <1>4, <1>5, <1>6 DEF Listed
  <1>9. Follows(Lists, m)
    BY <1>7, <1>8, Moved DEF ListInv
  <1>10. Lists' = m
    BY <1>1, <1>6 DEF Lists, TuneNext
  <1>11. cur' = h /\ scanned' = s
    BY <1>1 DEF TuneNext, TuneTo
  <1> QED BY <1>5, <1>9, <1>10, <1>11

LEMMA RetryLists ==
    ASSUME ListInv, Retry
    PROVE  Follows(Lists, Lists') /\ cur' \in Range(scanned')
  <1>1. PICK r, s : r = RemoveFirst(scanned, cur) /\ s = Append(r, cur)
    OBVIOUS
  <1>2. /\ new \in Seq(Nat) /\ scanned \in Seq(Nat) /\ cur \in Range(scanned)
        /\ IsInjective(new) /\ IsInjective(scanned)
        /\ Range(new) \cap Range(scanned) = {}
        /\ Range(new) \cup Range(scanned) = 1 .. Len(tps)
    BY ListVariables DEF Retry, ListInv, Tuned
  <1>3. r \in Seq(Nat) /\ Range(r) = Range(scanned) \ {cur} /\ IsInjective(r)
    BY <1>1, <1>2, TakenOut
  <1>4. cur \in Nat /\ cur \notin Range(r)
    BY <1>2, <1>3, RangeIs
  <1>5. s \in Seq(Nat) /\ Range(s) = Range(r) \cup {cur} /\ IsInjective(s)
    BY <1>1, <1>3, <1>4, AppendList
  <1>6. PICK m : m = [tps |-> tps, new |-> new, scanned |-> s]
    OBVIOUS
  <1>7. m \in TpLists /\ m.tps = Lists.tps
    BY <1>2, <1>5, <1>6, ListVariables DEF TpLists
  <1>8. Listed(m)
    BY <1>2, <1>3, <1>5, <1>6 DEF Listed
  <1>9. Follows(Lists, m)
    BY <1>7, <1>8, Moved DEF ListInv
  <1>10. Lists' = m
    BY <1>1, <1>6 DEF Lists, Retry
  <1>11. cur' = cur /\ scanned' = s
    BY <1>1 DEF Retry, TuneTo
  <1> QED BY <1>5, <1>9, <1>10, <1>11

LEMMA OthersReplaced ==
    ASSUME NEW F, NEW O, NEW W, NEW t \in [freq : F, others : O, wrong : W], NEW rest
    PROVE  [t EXCEPT !.others = rest] = [freq |-> t.freq, others |-> rest, wrong |-> t.wrong]
  OBVIOUS

LEMMA OtherFrequencyLists ==
    ASSUME ListInv, OtherFrequency
    PROVE  Follows(Lists, Lists') /\ cur' \in Range(scanned')
  <1>1. PICK c, f, rest : c = cur /\ f = Last(tps[cur].others) /\ rest = Front(tps[cur].others)
    OBVIOUS
  <1>2. /\ c \in 1 .. Len(tps) /\ c \in Range(scanned) /\ tps[c] \in Tp
        /\ new \in Seq(Nat) /\ scanned \in Seq(Nat) /\ tps \in Seq(Tp) /\ Len(tps) \in Nat
        /\ Lists.tps = tps /\ Lists.new = new /\ Lists.scanned = scanned
        /\ Lists \in TpLists /\ Listed(Lists)
    <2>1. Tuned
      BY DEF OtherFrequency, Tuned
    <2>2. c \in 1 .. Len(tps) /\ c \in Range(scanned)
      BY <1>1, <2>1, TunedTransponder DEF ListInv
    <2>3. tps \in Seq(Tp)
      BY ListVariables
    <2>4. Len(tps) \in Nat /\ tps[c] \in Tp
      BY <2>2, <2>3, LenProperties, ElementOfSeq
    <2> QED BY <2>2, <2>3, <2>4, ListVariables DEF ListInv
  <1>3. /\ tps[c].freq \in Frequencies /\ tps[c].others \in Seq(Frequencies)
        /\ tps[c].wrong \in BOOLEAN
    BY <1>2 DEF Tp
  <1>4. f \in Frequencies /\ rest \in Seq(Frequencies)
    <2>1. PICK s \in Seq(Frequencies) : s = tps[c].others
      BY <1>3
    <2>2. s # << >> /\ f = Last(s) /\ rest = Front(s)
      BY <1>1, <2>1 DEF OtherFrequency
    <2>3. Len(s) \in Nat /\ Len(s) # 0
      BY <2>2, EmptySeq, LenProperties
    <2>4. f = s[Len(s)] /\ Len(s) \in 1 .. Len(s)
      BY <2>2, <2>3 DEF Last
    <2>5. f \in Frequencies
      BY <2>4, ElementOfSeq
    <2>6. rest = SubSeq(s, 1, Len(s) - 1)
      BY <2>2 DEF Front
    <2>7. rest \in Seq(Frequencies)
      BY <2>3, <2>6, PartOfList
    <2> QED BY <2>5, <2>7
  <1>5. PICK e, o, p : /\ e = [freq |-> f, others |-> rest, wrong |-> tps[c].wrong]
                       /\ o = [freq |-> tps[c].freq, others |-> rest, wrong |-> TRUE]
                       /\ p = [freq |-> tps[c].freq, others |-> rest, wrong |-> tps[c].wrong]
    OBVIOUS
  <1>6. e \in Tp /\ o \in Tp /\ p \in Tp
    BY <1>3, <1>4, <1>5 DEF Tp
  <1>7. e.freq = f /\ o.freq = tps[c].freq /\ p.freq = tps[c].freq
    BY <1>5
  <1>8. UNCHANGED <<new, cur>>
    BY DEF OtherFrequency
  <1>9. CASE find_transponder(Lists, f) # 0
    <2>1. PICK m : m = [tps |-> [Lists.tps EXCEPT ![c] = p], new |-> Lists.new,
                        scanned |-> Lists.scanned]
      OBVIOUS
    <2>2. Follows(Lists, m)
      BY <1>2, <1>6, <1>7, <2>1, OthersTried
    <2>3. tps' = [tps EXCEPT ![cur].others = rest] /\ scanned' = scanned
      BY <1>1, <1>9 DEF OtherFrequency
    <2>4. [tps[c] EXCEPT !.others = rest] = p
      <3>1. tps[c] \in [freq : Frequencies, others : Seq(Frequencies), wrong : BOOLEAN]
        BY <1>2 DEF Tp
      <3> QED BY <1>5, <3>1, OthersReplaced
    <2>5. tps' = [tps EXCEPT ![c] = p]
      BY <1>1, <2>3, <2>4
    <2>6. Lists' = m
      BY <1>2, <1>8, <2>1, <2>3, <2>5 DEF Lists
    <2> QED BY <1>1, <1>2, <1>8, <2>2, <2>3, <2>6
  <1>10. CASE find_transponder(Lists, f) = 0
    <2>1. PICK k, m : /\ k = [tps |-> [Lists.tps EXCEPT ![c] = e], new |-> Lists.new,
                              scanned |-> Lists.scanned]
                      /\ m = Lengthened(k, o, TRUE)
      OBVIOUS
    <2>2. ~Knows(Lists, f)
      BY <1>2, <1>10, FindTransponder
    <2>3. Follows(Lists, m)
      BY <1>2, <1>6, <1>7, <2>1, <2>2, Retuned
    <2>4. /\ tps' = Append([tps EXCEPT ![c] = e], o)
          /\ scanned' = Append(scanned, Len(tps) + 1)
      BY <1>1, <1>5, <1>10 DEF OtherFrequency
    <2>5. k.tps = [tps EXCEPT ![c] = e] /\ k.new = new /\ k.scanned = scanned
      BY <1>2, <2>1
    <2>6. Len(k.tps) = Len(tps)
      BY <1>2, <1>6, <2>5, ExceptSeq
    <2>7. m = [tps |-> Append(k.tps, o), new |-> k.new,
               scanned |-> Append(k.scanned, Len(k.tps) + 1)]
      BY <2>1 DEF Lengthened
    <2>8. Lists' = m
      BY <1>8, <2>4, <2>5, <2>6, <2>7 DEF Lists
    <2>9. PICK n \in Nat : n = Len(tps) + 1
      BY <1>2
    <2>10. Range(Append(scanned, n)) = Range(scanned) \cup {n}
      BY <1>2, AppendList
    <2> QED BY <1>1, <1>2, <1>8, <2>3, <2>4, <2>8, <2>9, <2>10
  <1> QED BY <1>9, <1>10

\* The services a section names are numbers.
LEMMA ChannelsAreNumbers ==
    ASSUME NEW channels \in Seq([type : {"tv", "radio", "data"}, program : Nat])
    PROVE  parse_psip_vct(channels) \subseteq Nat
  <1> DEFINE I == {i \in 1 .. Len(channels) : channels[i].type = "data"}
             k == IF I # {} THEN Min(I) ELSE 0
  <1>1. parse_psip_vct(channels) =
           {channels[j].program : j \in 1 .. IF k = 0 THEN Len(channels) ELSE k - 1}
    BY DEF parse_psip_vct, SelectInSeq
  <1>2. Len(channels) \in Nat /\ \A j \in 1 .. Len(channels) : channels[j].program \in Nat
    <2>1. \A j \in 1 .. Len(channels) :
             channels[j] \in [type : {"tv", "radio", "data"}, program : Nat]
      BY ElementOfSeq
    <2> QED BY <2>1, LenProperties
  <1>3. k \in 0 .. Len(channels)
    <2>1. CASE I = {}
      BY <1>2, <2>1
    <2>2. CASE I # {}
      <3>1. I \in SUBSET Nat
        BY <1>2
      <3>2. Min(I) \in I
        BY <2>2, <3>1, MinIsIn
      <3> QED BY <1>2, <2>2, <3>2
    <2> QED BY <2>1, <2>2
  <1> HIDE DEF k
  <1>4. (1 .. IF k = 0 THEN Len(channels) ELSE k - 1) \subseteq 1 .. Len(channels)
    BY <1>2, <1>3
  <1> QED BY <1>1, <1>2, <1>4

\* The frequencies of the entries of a NIT that are for the frontend.
Named(heard) == {a.freq : a \in {b \in Range(heard) : TypeOf(b.freq) = feType}}

\* What a section says is taken into the lists.
LEMMA ParseLists ==
    ASSUME ListInv, pc = "pass", NEW kind \in Kinds, NEW n \in 0 .. LastSection(kind),
           Parse(kind, n), cur' = cur
    PROVE  /\ Follows(Lists, Lists') /\ scanned' = scanned
           /\ services' \subseteq (1 .. Len(tps')) \X Nat /\ priv' \subseteq services'
           /\ announced \subseteq announced' /\ announced' \ announced \subseteq Frequencies
           /\ Apart => \A g \in announced' \ announced : Knows(Lists', g)
  <1>1. PICK f : f = tps[cur].freq
    OBVIOUS
  <1>2. cur \in 1 .. Len(tps) /\ f \in Frequencies
    BY <1>1, TunedTransponder DEF Tuned
  <1>3. PICK sids : sids = IF kind = "PAT" THEN Range(Pat(f, n))
                           ELSE IF kind = "SDT"
                           THEN UNION {Range(Pat(f, k)) : k \in 0 .. LastSection("PAT")}
                           ELSE IF kind \in {"VCT", "CVCT"} THEN parse_psip_vct(Vct(f))
                           ELSE {}
    OBVIOUS
  <1>4. PICK heard : heard = IF kind \in {"NIT", "NITother"} THEN Nit(f, n) ELSE << >>
    OBVIOUS
  <1>5. PICK m : m = parse_nit(Lists, heard)
    OBVIOUS
  <1>6. /\ services' = services \cup {<<cur, s>> : s \in sids}
        /\ priv' = IF kind = "PAT" THEN priv \cup {<<cur, s>> : s \in sids} ELSE priv
        /\ tps' = m.tps /\ new' = m.new /\ scanned' = m.scanned
        /\ announced' = announced \cup Named(heard)
    BY <1>1, <1>3, <1>4, <1>5 DEF Parse, Named
  <1>7. sids \subseteq Nat
    <2>1. \A k \in 0 .. LastSection("PAT") : Range(Pat(f, k)) \subseteq Nat
      BY <1>2, RangeIs, ScanAssumption
    <2>2. parse_psip_vct(Vct(f)) \subseteq Nat
      BY <1>2, ChannelsAreNumbers, ScanAssumption
    <2> QED BY <1>3, <2>1, <2>2
  <1>8. heard \in Seq(Entry)
    <2>1. CASE kind \in {"NIT", "NITother"}
      <3>1. Nit(f, n) \in Seq(Entry)
        BY <1>2, <2>1, ScanAssumption DEF Entry
      <3> QED BY <1>4, <2>1, <3>1
    <2>2. CASE kind \notin {"NIT", "NITother"}
      <3>1. << >> \in Seq(Entry)
        OBVIOUS
      <3> QED BY <1>4, <2>2, <3>1
    <2> QED BY <2>1, <2>2
  <1>9. /\ Extended(Lists, m)
        /\ Apart => \A i \in 1 .. Len(heard) :
                       TypeOf(heard[i].freq) = feType => Knows(m, heard[i].freq)
    BY <1>5, <1>8, ParseNit DEF ListInv
  <1>10. Lists' = m
    <2>1. m = [tps |-> m.tps, new |-> m.new, scanned |-> m.scanned]
      BY <1>9, ListsParts DEF Extended
    <2> QED BY <1>6, <2>1 DEF Lists
  <1>11. Follows(Lists, m)
    BY <1>9 DEF Extended, Follows
  <1>12. scanned' = scanned /\ Len(tps) <= Len(tps')
    BY <1>6, <1>9 DEF Extended, Lists
  <1>13. services' \subseteq (1 .. Len(tps')) \X Nat
    <2>1. PICK a, b \in Nat : a = Len(tps) /\ b = Len(tps')
      <3>1. Len(Lists.tps) \in Nat /\ Len(m.tps) \in Nat
        BY <1>9, ListsParts DEF Extended, ListInv
      <3> QED BY <1>6, <3>1 DEF Lists
    <2>2. 1 .. a \subseteq 1 .. b
      BY <1>12, <2>1
    <2>3. services \subseteq (1 .. a) \X Nat
      BY <2>1 DEF ListInv
    <2> QED BY <1>2, <1>6, <1>7, <2>1, <2>2, <2>3
  <1>14. priv' \subseteq services'
    BY <1>6 DEF ListInv
  <1>15. ASSUME NEW g \in Named(heard)
         PROVE  g \in Frequencies /\ (Apart => Knows(m, g))
    <2>1. PICK b \in Range(heard) : TypeOf(b.freq) = feType /\ g = b.freq
      BY DEF Named
    <2>2. PICK i \in 1 .. Len(heard) : b = heard[i]
      BY <1>8, RangeIs
    <2>3. b \in Entry
      BY <1>8, <2>2, ElementOfSeq
    <2> QED BY <1>9, <2>1, <2>2, <2>3 DEF Entry
  <1> QED BY <1>6, <1>10, <1>11, <1>12, <1>13, <1>14, <1>15

LEMMA ReadSectionLists ==
    ASSUME FilterInv, ListInv, ReadSection
    PROVE  /\ Follows(Lists, Lists') /\ scanned' = scanned
           /\ services' \subseteq (1 .. Len(tps')) \X Nat /\ priv' \subseteq services'
           /\ announced \subseteq announced' /\ announced' \ announced \subseteq Frequencies
           /\ Apart => \A g \in announced' \ announced : Knows(Lists', g)
  <1>1. PICK f : f = polled[place]
    OBVIOUS
  <1>2. f \in Range(running) /\ pc = "pass" /\ cur' = cur
    BY <1>1, AtPlace DEF ReadSection
  <1>3. f[1] \in Kinds
    <2>1. f \in FilterSet
      BY <1>2, QueuesParts, RangeIs
    <2> QED BY <2>1 DEF FilterSet
  <1>4. PICK n \in 0 .. LastSection(f[1]) : \E p : SectionTaken(f, n, p)
    BY <1>1 DEF ReadSection
  <1>5. Parse(f[1], n) \/ UNCHANGED <<services, priv, tps, new, scanned, announced>>
    BY <1>4 DEF SectionTaken
  <1>6. CASE Parse(f[1], n)
    BY <1>2, <1>3, <1>6, ParseLists
  <1>7. CASE UNCHANGED <<services, priv, tps, new, scanned, announced>>
    <2>1. Follows(Lists, Lists)
      BY Moved DEF ListInv
    <2>2. Lists' = Lists
      BY <1>7 DEF Lists
    <2> QED BY <1>7, <2>1, <2>2 DEF ListInv
  <1> QED BY <1>5, <1>6, <1>7

\* A step keeps the lists sound, and what they know.
LEMMA ListStep ==
    ASSUME FilterInv, ListInv, Next
    PROVE  /\ ListInv' /\ Follows(Lists, Lists')
           /\ announced \subseteq announced' /\ announced' \ announced \subseteq Frequencies
           /\ Apart => \A g \in announced' \ announced : Knows(Lists', g)
  <1>1. ASSUME Follows(Lists, Lists'), Tuned' => cur' \in Range(scanned'),
               pc' \in {"tune", "retry", "next", "setup", "poll", "pass", "end"},
               services' \subseteq (1 .. Len(tps')) \X Nat, priv' \subseteq services'
        PROVE  ListInv'
    BY <1>1 DEF ListInv, Follows, Listed, TpLists
  <1>2. ASSUME UNCHANGED <<services, priv>>, Follows(Lists, Lists')
        PROVE  services' \subseteq (1 .. Len(tps')) \X Nat /\ priv' \subseteq services'
    <2>1. PICK m : m = Lists'
      OBVIOUS
    <2>2. Len(Lists.tps) \in Nat /\ Len(m.tps) \in Nat
      BY <1>2, <2>1, ListsParts DEF Follows, ListInv
    <2>3. m.tps = tps' /\ Lists.tps = tps
      BY <2>1 DEF Lists
    <2>4. PICK a, b \in Nat : a = Len(tps) /\ b = Len(tps')
      BY <2>2, <2>3
    <2>5. a <= b
      BY <1>2, <2>1, <2>3, <2>4 DEF Follows
    <2>6. (1 .. a) \subseteq (1 .. b)
      BY <2>5
    <2> QED BY <1>2, <2>4, <2>6 DEF ListInv
  <1>3. CASE TuneNext \/ Retry \/ OtherFrequency
    <2>1. Follows(Lists, Lists') /\ cur' \in Range(scanned')
      BY <1>3, TuneNextLists, RetryLists, OtherFrequencyLists
    <2>2. UNCHANGED <<services, priv, announced>>
      BY <1>3 DEF TuneNext, Retry, OtherFrequency
    <2>3. pc' \in {"tune", "retry", "next", "setup", "poll", "pass", "end"}
      BY <1>3 DEF TuneNext, Retry, OtherFrequency, TuneTo
    <2> QED BY <1>1, <1>2, <2>1, <2>2, <2>3
  <1>4. CASE ReadSection
    <2>1. /\ Follows(Lists, Lists') /\ scanned' = scanned
          /\ services' \subseteq (1 .. Len(tps')) \X Nat /\ priv' \subseteq services'
          /\ announced \subseteq announced' /\ announced' \ announced \subseteq Frequencies
          /\ Apart => \A g \in announced' \ announced : Knows(Lists', g)
      BY <1>4, ReadSectionLists
    <2>2. pc = "pass" /\ pc' = pc /\ cur' = cur
      BY <1>4 DEF ReadSection
    <2>3. cur' \in Range(scanned')
      BY <2>1, <2>2 DEF ListInv, Tuned
    <2> QED BY <1>1, <2>1, <2>2, <2>3
  <1>5. CASE GiveUp \/ ScanTp \/ Poll \/ PassOver \/ EndPass \/ Finish \/ SomeExpire
    <2>1. UNCHANGED <<tuning, services, priv, announced>>
      BY <1>5 DEF GiveUp, ScanTp, Poll, PassOver, EndPass, Finish, SomeExpire, Expire
    <2>2. /\ pc' \in {"tune", "retry", "next", "setup", "poll", "pass", "end"}
          /\ Tuned' => Tuned
      BY <1>5 DEF GiveUp, ScanTp, Poll, PassOver, EndPass, Finish, SomeExpire, Expire, Tuned
    <2>3. Lists' = Lists
      BY <2>1 DEF Lists, tuning
    <2>4. Follows(Lists, Lists)
      BY Moved DEF ListInv
    <2>5. Tuned' => cur' \in Range(scanned')
      BY <2>1, <2>2 DEF ListInv, tuning
    <2> QED BY <1>1, <1>2, <2>1, <2>2, <2>3, <2>4, <2>5
  <1> QED BY <1>3, <1>4, <1>5 DEF Next, Thread

-----------------------------------------------------------------------------
(* The theorems.                                                           *)

\* What the NITs have named is known, and no transponder is there twice.
KnownInv ==
    /\ announced \subseteq Frequencies
    /\ Apart => \A f \in announced : Knows(Lists, f)
    /\ Apart /\ InitialApart => Once(Lists)

Inv == FilterInv /\ ListInv /\ KnownInv

LEMMA KnownStep ==
    ASSUME FilterInv, ListInv, KnownInv, Next
    PROVE  KnownInv'
  <1>1. /\ Follows(Lists, Lists')
        /\ announced \subseteq announced' /\ announced' \ announced \subseteq Frequencies
        /\ Apart => \A g \in announced' \ announced : Knows(Lists', g)
    BY ListStep
  <1>2. PICK m : m = Lists'
    OBVIOUS
  <1>3. /\ Apart /\ Once(Lists) => Once(m)
        /\ Apart => \A f \in Frequencies : Knows(Lists, f) => Knows(m, f)
    BY <1>1, <1>2 DEF Follows
  <1>4. announced' \subseteq Frequencies
    BY <1>1 DEF KnownInv
  <1>5. ASSUME Apart, NEW f \in announced'
        PROVE  Knows(m, f)
    BY <1>1, <1>2, <1>3, <1>5 DEF KnownInv
  <1>6. Apart /\ InitialApart => Once(m)
    BY <1>3 DEF KnownInv
  <1>7. (Once(Lists))' <=> Once(m)
    BY <1>2 DEF Once
  <1>8. \A f : (Knows(Lists, f))' <=> Knows(m, f)
    BY <1>2 DEF Knows
  <1> QED BY <1>4, <1>5, <1>6, <1>7, <1>8 DEF KnownInv

LEMMA InvHolds == Spec => []Inv
  <1>1. Init => Inv
    BY InitFilters, InitLists, InitOnce DEF Inv, KnownInv
  <1>2. Inv /\ [Next]_vars => Inv'
    <2> SUFFICES ASSUME Inv, [Next]_vars PROVE Inv'
      OBVIOUS
    <2>1. CASE Next
      BY <2>1, FilterStep, ListStep, KnownStep DEF Inv
    <2>2. CASE UNCHANGED vars
      <3>1. UNCHANGED <<pc, tps, new, scanned, cur, feType, services, priv, running, waiting,
                        polled, ready, place, state, announced, failures>>
        BY <2>2 DEF vars
      <3>2. Lists' = Lists /\ Queues' = Queues /\ Filters' = Filters
        BY <3>1 DEF Lists, Queues, Filters
      <3>3. FilterInv'
        BY <3>1, <3>2 DEF Inv, FilterInv, Reading, Sound
      <3>4. ListInv'
        BY <3>1, <3>2 DEF Inv, ListInv, Tuned, Listed
      <3>5. KnownInv'
        BY <3>1, <3>2 DEF Inv, KnownInv, Knows, Once
      <3> QED BY <3>3, <3>4, <3>5 DEF Inv
    <2> QED BY <2>1, <2>2
  <1> QED BY <1>1, <1>2, PTL DEF Spec

\* The lists and the state of the filters fit: every transponder is on one of the two lists
\* of scan.c and once, every filter on one of running_filters and waiting_filters and once,
\* and services belong to transponders there are.
THEOREM TypeCorrect == Spec => []TypeOK
  <1>1. Inv => TypeOK
    <2> SUFFICES ASSUME Inv PROVE TypeOK
      OBVIOUS
    <2>1. /\ tps \in Seq(Tp) /\ IsInjective(new) /\ IsInjective(scanned)
          /\ Range(new) \cap Range(scanned) = {}
          /\ Range(new) \cup Range(scanned) = 1 .. Len(tps)
      BY ListVariables DEF Inv
    <2>2. DOMAIN tps = 1 .. Len(tps)
      BY <2>1, LenProperties
    <2>3. /\ Range(running) \cap Range(waiting) = {}
          /\ IsInjective(running) /\ IsInjective(waiting)
      BY QueuesParts DEF Inv, FilterInv, Sound
    <2> QED BY <2>1, <2>2, <2>3 DEF TypeOK, Inv, FilterInv, ListInv
  <1> QED BY <1>1, InvHolds, PTL

\* None of the fatal() checks of read_filters and update_poll_fds can fail:
\* poll_section_bufs holds the running filters in their order, and there are never more of
\* them than MAX_RUNNING.
THEOREM PollsRunning == Spec => []PollsWhatRuns
  <1>1. Inv => PollsWhatRuns
    BY QueuesParts DEF Inv, FilterInv, Sound, Reading, PollsWhatRuns
  <1> QED BY <1>1, InvHolds, PTL

\* No filter outlives its transponder: all are filters of current_tp, and those for PMTs
\* are for services that are known.
THEOREM NoStrayFilters == Spec => []FiltersOfCurrent
  <1>1. Inv => FiltersOfCurrent
    BY DEF Inv, FilterInv, ListInv, FiltersOfCurrent
  <1> QED BY <1>1, InvHolds, PTL

\* What a NIT has named stays on the lists of transponders, though entries are tuned to
\* other frequencies and written over by later NITs, if the frequencies fall into
\* transponders in one way.  Without that, copy_transponder() moves an entry along a chain
\* of frequencies, each close to the next, away from the one that was named first.
THEOREM StayKnown ==
    ASSUME Apart
    PROVE  Spec => []KnownStaysKnown
  <1>1. Inv => KnownStaysKnown
    <2> SUFFICES ASSUME Inv, NEW f \in announced
                 PROVE  \E t \in Range(new) \cup Range(scanned) :
                           is_same_transponder(tps[t].freq, f)
      BY DEF KnownStaysKnown
    <2>1. Knows(Lists, f)
      BY DEF Inv, KnownInv
    <2>2. Lists.tps = tps /\ Range(new) \cup Range(scanned) = 1 .. Len(tps)
      BY ListVariables DEF Inv
    <2> QED BY <2>1, <2>2 DEF Knows
  <1> QED BY <1>1, InvHolds, PTL

\* No transponder is scanned twice, if moreover the initial tuning data names each one
\* once: scan.c looks for a transponder among those it knows before it adds one that a NIT
\* or a list of other frequencies names, and not when it reads the initial file.
THEOREM NoneTwice ==
    ASSUME Apart, InitialApart
    PROVE  Spec => []EachScannedOnce
  <1>1. Inv => EachScannedOnce
    <2> SUFFICES ASSUME Inv PROVE EachScannedOnce
      OBVIOUS
    <2>1. Once(Lists)
      BY DEF Inv, KnownInv
    <2>2. Lists.tps = tps /\ tps \in Seq(Tp)
      BY ListVariables DEF Inv
    <2>3. DOMAIN tps = 1 .. Len(tps)
      BY <2>2, LenProperties
    <2> QED BY <2>1, <2>2, <2>3 DEF Once, EachScannedOnce
  <1> QED BY <1>1, InvHolds, PTL
=============================================================================
