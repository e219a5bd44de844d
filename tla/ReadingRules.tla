----------------------------- MODULE ReadingRules -----------------------------
(***************************************************************************)
(* What the rules that read a disc return, for lists of any length and any *)
(* playlists, lines, titles, words, streams and printed lines: a lemma for *)
(* each of Name, Select, ClassifyFailure, Filtered, Titles, Scan,          *)
(* ComputeFingerprint, Classify and Plan says what its outcome is without  *)
(* the sorts and loops that compute it.                                    *)
(*                                                                         *)
(* They rest on one fact about lists: every finite set can be listed in    *)
(* every strict total order of it, each member once (InOrderIs).  A filter,*)
(* a sort by keys and the best of a loop follow from it.  Where a lemma    *)
(* concludes something long, an operator names it, and those who cite the  *)
(* lemma expand the part they need.                                        *)
(***************************************************************************)
EXTENDS TitleLists, StreamChoice, Diagnosis, Identification, FiniteSetTheorems, TLAPS

-----------------------------------------------------------------------------
(* Orders, and the lists that are in one. *)

\* A strict total order of a set.
Orders(R, S) ==
    /\ \A x \in S : <<x, x>> \notin R
    /\ \A x, y \in S : x # y => <<x, y>> \in R \/ <<y, x>> \in R
    /\ \A x, y, z \in S : <<x, y>> \in R /\ <<y, z>> \in R => <<x, z>> \in R

\* p lists S in the order R, each member once.
Enumerates(p, S, R) ==
    /\ Cardinality(S) \in Nat
    /\ p \in [1..Cardinality(S) -> S]
    /\ \A m, n \in 1..Cardinality(S) : m < n => <<p[m], p[n]>> \in R
    /\ \A x \in S : \E n \in 1..Cardinality(S) : p[n] = x

\* A set of numbers that is not empty has a least element.
LEMMA LeastNumber ==
    ASSUME NEW T, T \subseteq Nat, T # {}
    PROVE  \E x \in T : \A y \in T : x <= y
<1> DEFINE R == OpToRel(<, Nat)
<1>1. \A x, y \in Nat : x > y => <<y, x>> \in R
  BY DEF OpToRel
<1>2. IsWellFoundedOn(R, Nat)
  BY NatLessThanWellFounded, Zenon
<1> HIDE DEF R
<1>3. PICK x \in T : \A y \in T : ~(<<y, x>> \in R)
  BY <1>2, WFMin, Zenon
<1>4. ASSUME NEW y \in T PROVE x <= y
  <2>1. x \in Nat /\ y \in Nat
    OBVIOUS
  <2>2. ~(x > y)
    BY <1>1, <1>3, <2>1, Zenon
  <2> QED BY <2>1, <2>2
<1> QED BY <1>4

\* Induction up to N: what holds at 0 and is passed on holds everywhere.
LEMMA PassedOn ==
    ASSUME NEW N \in Nat, NEW P, 0 \in P, \A k \in 1..N : k - 1 \in P => k \in P
    PROVE  \A k \in 0..N : k \in P
<1> DEFINE Wrong == {k \in 0..N : k \notin P}
<1>1. SUFFICES ASSUME Wrong # {} PROVE FALSE
  OBVIOUS
<1>2. PICK k \in Wrong : \A m \in Wrong : k <= m
  <2>1. Wrong \subseteq Nat
    OBVIOUS
  <2> HIDE DEF Wrong
  <2> QED BY <1>1, <2>1, LeastNumber, Zenon
<1>3. k \in 1..N /\ k \notin P
  OBVIOUS
<1>4. k - 1 \in P
  BY <1>2, <1>3
<1> QED BY <1>3, <1>4

\* q, up to k, rises in the order R.
Increasing(q, k, R) == \A i, j \in 1..k : i < j => <<q[i], q[j]>> \in R

\* A list in order with one more member put where it belongs.
LEMMA Inserted ==
    ASSUME NEW S, NEW R, Orders(R, S), NEW k \in Nat \ {0}, NEW q \in [1..(k - 1) -> S],
           Increasing(q, k - 1, R), NEW x \in S, \A i \in 1..(k - 1) : q[i] # x
    PROVE  \E r \in [1..k -> S] :
            /\ Increasing(r, k, R)
            /\ \A i \in 1..k : r[i] = x \/ \E j \in 1..(k - 1) : r[i] = q[j]
<1> DEFINE B == {i \in 1..k : i = k \/ <<x, q[i]>> \in R}
<1>1. PICK m \in B : \A i \in B : m <= i
  <2>1. B \subseteq Nat /\ k \in B
    OBVIOUS
  <2> HIDE DEF B
  <2> QED BY <2>1, LeastNumber, Zenon
<1>2. ASSUME NEW i \in 1..k, i < m PROVE i \in 1..(k - 1) /\ <<q[i], x>> \in R
  <2>1. i \notin B
    BY <1>1, <1>2
  <2>2. i \in 1..(k - 1) /\ <<x, q[i]>> \notin R
    BY <2>1
  <2>3. q[i] \in S /\ q[i] # x
    BY <2>2
  <2> HIDE DEF B
  <2> QED BY <2>2, <2>3 DEF Orders
<1>3. ASSUME NEW i \in 1..(k - 1), m <= i PROVE <<x, q[i]>> \in R
  <2>1. m \in 1..(k - 1) /\ <<x, q[m]>> \in R
    BY <1>3
  <2>2. CASE m = i
    BY <2>1, <2>2
  <2>3. CASE m < i
    <3>1. <<q[m], q[i]>> \in R
      BY <2>1, <2>3 DEF Increasing
    <3>2. q[m] \in S /\ q[i] \in S
      BY <2>1
    <3> HIDE DEF B
    <3> QED BY <2>1, <3>1, <3>2 DEF Orders
  <2> QED BY <1>3, <2>1, <2>2, <2>3
<1>4. m \in 1..k
  OBVIOUS
<1> HIDE DEF B
<1> DEFINE r == [i \in 1..k |-> IF i < m THEN q[i] ELSE IF i = m THEN x ELSE q[i - 1]]
<1>5. ASSUME NEW i \in 1..k
      PROVE  r[i] \in S /\ (r[i] = x \/ \E j \in 1..(k - 1) : r[i] = q[j])
  <2>1. CASE i < m
    BY <1>4, <2>1
  <2>2. CASE i = m
    BY <1>4, <2>2
  <2>3. CASE i > m
    <3>1. i - 1 \in 1..(k - 1) /\ r[i] = q[i - 1]
      BY <1>4, <2>3
    <3> QED BY <3>1
  <2> QED BY <1>4, <2>1, <2>2, <2>3
<1>6. ASSUME NEW i \in 1..k, NEW j \in 1..k, i < j PROVE <<r[i], r[j]>> \in R
  <2>1. CASE j < m
    <3>1. i \in 1..(k - 1) /\ j \in 1..(k - 1) /\ r[i] = q[i] /\ r[j] = q[j]
      BY <1>4, <1>6, <2>1
    <3> QED BY <1>6, <3>1 DEF Increasing
  <2>2. CASE j = m
    BY <1>2, <1>4, <1>6, <2>2
  <2>3. CASE i < m /\ m < j
    <3>1. i \in 1..(k - 1) /\ j - 1 \in 1..(k - 1) /\ i < j - 1 /\ r[i] = q[i] /\ r[j] = q[j - 1]
      BY <1>4, <2>3
    <3> QED BY <3>1 DEF Increasing
  <2>4. CASE i = m
    <3>1. j - 1 \in 1..(k - 1) /\ m <= j - 1 /\ r[i] = x /\ r[j] = q[j - 1]
      BY <1>4, <1>6, <2>4
    <3> HIDE DEF r
    <3> QED BY <1>3, <3>1
  <2>5. CASE i > m
    <3>1. i - 1 \in 1..(k - 1) /\ j - 1 \in 1..(k - 1) /\ i - 1 < j - 1
          /\ r[i] = q[i - 1] /\ r[j] = q[j - 1]
      BY <1>4, <1>6, <2>5
    <3> QED BY <3>1 DEF Increasing
  <2> QED BY <1>4, <1>6, <2>1, <2>2, <2>3, <2>4, <2>5
<1>7. r \in [1..k -> S]
  BY <1>5
<1>8. Increasing(r, k, R)
  <2> HIDE DEF r
  <2> QED BY <1>6 DEF Increasing
<1> HIDE DEF r
<1> QED BY <1>5, <1>7, <1>8, Zenon

\* Every finite set can be listed in every order of it, and InOrder does.
LEMMA InOrderIs ==
    ASSUME NEW S, NEW R, IsFiniteSet(S), Orders(R, S)
    PROVE  Enumerates(InOrder(S, R), S, R)
<1> DEFINE N == Cardinality(S)
<1>1. N \in Nat /\ ExistsBijection(1..N, S)
  BY FS_CardinalityType, Zenon
<1>2. PICK f \in Bijection(1..N, S) : TRUE
  BY <1>1, Zenon DEF ExistsBijection
<1> HIDE DEF N
<1>3. f \in [1..N -> S] /\ \A i, j \in 1..N : f[i] = f[j] => i = j
  BY <1>2 DEF Bijection, Injection, IsInjective
<1> DEFINE Good(q, k) == Increasing(q, k, R) /\ \A i \in 1..k : \E j \in 1..k : q[i] = f[j]
           P == {k \in 0..N : \E q \in [1..k -> S] : Good(q, k)}
<1>4. 0 \in P
  <2>1. << >> \in [1..0 -> S] /\ Good(<< >>, 0)
    BY DEF Increasing
  <2>2. 0 \in 0..N
    BY <1>1
  <2> HIDE DEF Good
  <2> QED BY <2>1, <2>2, Zenon
<1>5. ASSUME NEW k \in 1..N, k - 1 \in P PROVE k \in P
  <2>1. PICK q \in [1..(k - 1) -> S] : Good(q, k - 1)
    BY <1>5, Zenon
  <2>2. f[k] \in S /\ k \in Nat \ {0}
    BY <1>1, <1>3
  <2>3. ASSUME NEW i \in 1..(k - 1) PROVE q[i] # f[k]
    <3>1. PICK j \in 1..(k - 1) : q[i] = f[j]
      BY <2>1, Zenon
    <3>2. j \in 1..N /\ j # k
      BY <1>1
    <3> QED BY <1>3, <3>1, <3>2
  <2>4. PICK r \in [1..k -> S] :
            /\ Increasing(r, k, R)
            /\ \A i \in 1..k : r[i] = f[k] \/ \E j \in 1..(k - 1) : r[i] = q[j]
    <3>1. Increasing(q, k - 1, R)
      BY <2>1
    <3>2. \A i \in 1..(k - 1) : q[i] # f[k]
      BY <2>3
    <3> HIDE DEF Good, P
    <3> QED BY <2>2, <3>1, <3>2, Inserted
  <2>5. ASSUME NEW i \in 1..k PROVE \E j \in 1..k : r[i] = f[j]
    <3>1. CASE r[i] = f[k]
      BY <3>1
    <3>2. CASE \E j \in 1..(k - 1) : r[i] = q[j]
      <4>1. PICK j \in 1..(k - 1) : r[i] = q[j]
        BY <3>2
      <4>2. PICK l \in 1..(k - 1) : q[j] = f[l]
        BY <2>1, Zenon
      <4> QED BY <4>1, <4>2
    <3> QED BY <2>4, <3>1, <3>2
  <2>6. Good(r, k)
    BY <2>4, <2>5
  <2>7. k \in 0..N
    BY <1>1
  <2> HIDE DEF Good
  <2> QED BY <2>6, <2>7
<1>6. N \in P
  <2> HIDE DEF P
  <2>1. \A k \in 1..N : k - 1 \in P => k \in P
    BY <1>5
  <2>2. \A k \in 0..N : k \in P
    BY <1>1, <1>4, <2>1, PassedOn, Zenon
  <2>3. N \in 0..N
    BY <1>1
  <2> QED BY <2>2, <2>3
<1>7. \E q \in [1..N -> S] : \A m, n \in 1..N : m < n => <<q[m], q[n]>> \in R
  <2>1. PICK q \in [1..N -> S] : Good(q, N)
    <3> HIDE DEF Good
    <3> QED BY <1>6
  <2> QED BY <2>1, Zenon DEF Increasing
<1> DEFINE p == InOrder(S, R)
<1>8. p \in [1..N -> S] /\ \A m, n \in 1..N : m < n => <<p[m], p[n]>> \in R
  BY <1>7, Zenon DEF InOrder, N
<1> HIDE DEF p
<1>9. ASSUME NEW x \in S PROVE \E n \in 1..N : p[n] = x
  <2>1. ASSUME NEW m \in 1..N, NEW n \in 1..N, p[m] = p[n] PROVE m = n
    <3>1. p[m] \in S /\ <<p[m], p[m]>> \notin R
      BY <1>8 DEF Orders
    <3>2. ~(m < n) /\ ~(n < m)
      BY <1>8, <2>1, <3>1
    <3> QED BY <1>1, <3>2
  <2>2. p \in Injection(1..N, S)
    BY <1>8, <2>1 DEF Injection, IsInjective
  <2>3. IsFiniteSet(1..N) /\ Cardinality(1..N) = N
    BY <1>1, FS_Interval
  <2>4. p \in Surjection(1..N, S)
    BY <2>2, <2>3, FS_Injection, Zenon DEF N
  <2> QED BY <2>4 DEF Surjection
<1> QED BY <1>1, <1>8, <1>9 DEF Enumerates, N, p

\* First finds what is before all others.
LEMMA FirstIs ==
    ASSUME NEW S, NEW R, IsFiniteSet(S), Orders(R, S), S # {}
    PROVE  First(S, R) \in S /\ \A y \in S \ {First(S, R)} : <<First(S, R), y>> \in R
<1> DEFINE N == Cardinality(S)
           p == InOrder(S, R)
<1>1. Enumerates(p, S, R)
  BY InOrderIs, Zenon
<1> HIDE DEF p
<1>2. 1 \in 1..N
  BY <1>1 DEF Enumerates
<1>3. ASSUME NEW y \in S \ {p[1]} PROVE <<p[1], y>> \in R
  <2>1. PICK n \in 1..N : p[n] = y
    BY <1>1, Zenon DEF Enumerates
  <2>2. 1 < n
    BY <1>2, <2>1
  <2> QED BY <1>1, <1>2, <2>1, <2>2 DEF Enumerates
<1>4. p[1] \in S
  BY <1>1, <1>2 DEF Enumerates
<1>5. \E x \in S : \A y \in S \ {x} : <<x, y>> \in R
  BY <1>3, <1>4
<1> QED BY <1>5, Zenon DEF First

\* The order by size orders any integers.
LEMMA RisingOrders ==
    ASSUME NEW S, S \subseteq Int
    PROVE  Orders(Rising(S), S)
BY DEF Orders, Rising

\* The least of finitely many integers is one of them, and no other is smaller.
LEMMA LeastIs ==
    ASSUME NEW S, S \subseteq Int, IsFiniteSet(S), S # {}
    PROVE  Least(S) \in S /\ \A y \in S : Least(S) <= y
<1>1. /\ Least(S) \in S
      /\ \A y \in S \ {Least(S)} : <<Least(S), y>> \in Rising(S)
  BY RisingOrders, FirstIs, Zenon DEF Least
<1>2. \A x, y \in S : <<x, y>> \in Rising(S) => x <= y
  BY DEF Rising
<1>3. ASSUME NEW y \in S PROVE Least(S) <= y
  <2>1. CASE y = Least(S)
    BY <2>1
  <2>2. CASE y # Least(S)
    BY <1>1, <1>2, <2>2, Zenon
  <2> QED BY <2>1, <2>2
<1> QED BY <1>1, <1>3

\* The numbers of a set, rising, each once.
Rises(p, S) ==
    /\ Cardinality(S) \in Nat
    /\ p \in [1..Cardinality(S) -> S]
    /\ \A m, n \in 1..Cardinality(S) : m < n => p[m] < p[n]
    /\ \A x \in S : \E n \in 1..Cardinality(S) : p[n] = x

\* Listed lists finitely many integers, rising, each once.
LEMMA ListedIs ==
    ASSUME NEW S, S \subseteq Int, IsFiniteSet(S)
    PROVE  Rises(Listed(S), S)
<1>1. Enumerates(Listed(S), S, Rising(S))
  BY RisingOrders, InOrderIs, Zenon DEF Listed
<1> DEFINE p == Listed(S)
<1> HIDE DEF p
<1>2. ASSUME NEW m \in 1..Cardinality(S), NEW n \in 1..Cardinality(S), m < n
      PROVE  p[m] < p[n]
  <2>1. <<p[m], p[n]>> \in Rising(S)
    BY <1>1, <1>2 DEF Enumerates, p
  <2> QED BY <2>1 DEF Rising
<1> QED BY <1>1, <1>2 DEF Enumerates, Rises, p

\* Positions of a list are finitely many.
LEMMA SomePositions ==
    ASSUME NEW n \in Nat, NEW P, P \subseteq 1..n
    PROVE  /\ IsFiniteSet(P)
           /\ Cardinality(P) \in 0..n
           /\ P \subseteq Int
<1>1. IsFiniteSet(1..n) /\ Cardinality(1..n) = n
  BY FS_Interval
<1>2. IsFiniteSet(P) /\ Cardinality(P) <= n
  BY <1>1, FS_Subset, Zenon
<1>3. Cardinality(P) \in Nat
  BY <1>2, FS_CardinalityType, Zenon
<1> QED BY <1>2, <1>3

\* A filter keeps what is at its positions, in their order.
LEMMA AtIs ==
    ASSUME NEW T, NEW s \in Seq(T), NEW P, P \subseteq DOMAIN s
    PROVE  /\ IsFiniteSet(P) /\ Rises(Listed(P), P)
           /\ At(s, P) \in Seq(T) /\ Len(At(s, P)) = Cardinality(P)
           /\ \A n \in 1..Cardinality(P) : At(s, P)[n] = s[Listed(P)[n]]
           /\ Members(At(s, P)) = {s[i] : i \in P}
<1>1. DOMAIN s = 1..Len(s) /\ Len(s) \in Nat
  OBVIOUS
<1>2. IsFiniteSet(P) /\ Rises(Listed(P), P)
  BY <1>1, SomePositions, ListedIs, Zenon
<1> DEFINE p == Listed(P)
           k == Cardinality(P)
<1>3. At(s, P) = [n \in DOMAIN p |-> s[p[n]]]
  BY DEF At
<1> HIDE DEF p
<1>4. k \in Nat /\ p \in [1..k -> P] /\ DOMAIN p = 1..k
  BY <1>2 DEF Rises, p
<1>5. \A x \in P : \E n \in 1..k : p[n] = x
  BY <1>2, Zenon DEF Rises, p
<1> HIDE DEF k
<1>6. \A i \in P : s[i] \in T
  OBVIOUS
<1>7. At(s, P) = [n \in 1..k |-> s[p[n]]]
  BY <1>3, <1>4
<1>8. ASSUME NEW n \in 1..k PROVE p[n] \in P /\ s[p[n]] \in T
  BY <1>4, <1>6
<1>9. At(s, P) \in Seq(T) /\ Len(At(s, P)) = k
  BY <1>4, <1>7, <1>8
<1>10. Members(At(s, P)) = {s[i] : i \in P}
  <2>1. Members(At(s, P)) = {s[p[n]] : n \in 1..k}
    BY <1>7 DEF Members
  <2> QED BY <1>5, <1>8, <2>1
<1> QED BY <1>2, <1>7, <1>9, <1>10, Zenon DEF p, k

\* An order by two keys, and by position where they are equal.
ByKeys(D, a, b, R) ==
    \A i, j \in D :
        <<i, j>> \in R <=>
            \/ a[i] < a[j]
            \/ a[i] = a[j] /\ b[i] < b[j]
            \/ a[i] = a[j] /\ b[i] = b[j] /\ i < j

\* An order by two keys and then by position orders the positions.
LEMMA KeysOrder ==
    ASSUME NEW D, D \subseteq Int, NEW a \in [D -> Int], NEW b \in [D -> Int],
           NEW R, ByKeys(D, a, b, R)
    PROVE  Orders(R, D)
<1> USE DEF ByKeys
<1>1. ASSUME NEW x \in D PROVE <<x, x>> \notin R
  OBVIOUS
<1>2. ASSUME NEW x \in D, NEW y \in D, x # y PROVE <<x, y>> \in R \/ <<y, x>> \in R
  BY <1>2
<1>3. ASSUME NEW x \in D, NEW y \in D, NEW z \in D, <<x, y>> \in R, <<y, z>> \in R
      PROVE  <<x, z>> \in R
  BY <1>3
<1> QED BY <1>1, <1>2, <1>3 DEF Orders

-----------------------------------------------------------------------------
(* Sorting by two numbers, and then by position. *)

\* q lists the positions 1..k by what a and then b have there.
Arranges(q, k, a, b) ==
    /\ q \in [1..k -> 1..k]
    /\ \A x \in 1..k : \E n \in 1..k : q[n] = x
    /\ \A m, n \in 1..k : q[m] = q[n] => m = n
    /\ \A m, n \in 1..k : m < n =>
        \/ a[q[m]] < a[q[n]]
        \/ a[q[m]] = a[q[n]] /\ b[q[m]] < b[q[n]]
        \/ a[q[m]] = a[q[n]] /\ b[q[m]] = b[q[n]] /\ q[m] < q[n]

\* Positions put in that order are arranged by what the two lists have there.
LEMMA KeySort ==
    ASSUME NEW k \in Nat, NEW a \in [1..k -> Int], NEW b \in [1..k -> Int], NEW R,
           ByKeys(1..k, a, b, R)
    PROVE  Arranges(InOrder(1..k, R), k, a, b)
<1> DEFINE q == InOrder(1..k, R)
<1>1. Orders(R, 1..k)
  <2>1. 1..k \subseteq Int
    OBVIOUS
  <2> QED BY <2>1, KeysOrder
<1>2. IsFiniteSet(1..k) /\ Cardinality(1..k) = k
  BY FS_Interval
<1>3. Enumerates(q, 1..k, R)
  BY <1>1, <1>2, InOrderIs
<1> HIDE DEF q
<1>4. /\ q \in [1..k -> 1..k]
      /\ \A m, n \in 1..k : m < n => <<q[m], q[n]>> \in R
      /\ \A x \in 1..k : \E n \in 1..k : q[n] = x
  BY <1>2, <1>3, Zenon DEF Enumerates
<1>5. ASSUME NEW m \in 1..k, NEW n \in 1..k, q[m] = q[n] PROVE m = n
  <2>1. <<q[m], q[m]>> \notin R
    BY <1>1, <1>4 DEF Orders
  <2>2. ~(m < n) /\ ~(n < m)
    BY <1>4, <1>5, <2>1
  <2> QED BY <2>2
<1>6. ASSUME NEW m \in 1..k, NEW n \in 1..k, m < n
      PROVE  \/ a[q[m]] < a[q[n]]
             \/ a[q[m]] = a[q[n]] /\ b[q[m]] < b[q[n]]
             \/ a[q[m]] = a[q[n]] /\ b[q[m]] = b[q[n]] /\ q[m] < q[n]
  BY <1>4, <1>6, Zenon DEF ByKeys
<1>7. Arranges(q, k, a, b)
  BY <1>4, <1>5, <1>6, Zenon DEF Arranges
<1> QED BY <1>7 DEF q

-----------------------------------------------------------------------------
(* A sorted list is determined by how often it has each value. *)

\* The k pairs of a and b do not fall, by a and then by b.
NonFalling(k, a, b) ==
    /\ a \in [1..k -> Int] /\ b \in [1..k -> Int]
    /\ \A m, n \in 1..k : m < n => a[m] < a[n] \/ (a[m] = a[n] /\ b[m] <= b[n])

\* Where the pair u, v stands among them.
Places(k, a, b, u, v) == {m \in 1..k : a[m] = u /\ b[m] = v}

\* At the first place where two sorted lists differ, one has its value more often.
LEMMA FirstDifference ==
    ASSUME NEW k \in Nat, NEW l \in Nat, NEW a, NEW b, NEW c, NEW d,
           NonFalling(k, a, b), NonFalling(l, c, d),
           NEW n \in 1..k,
           \A m \in 1..(n - 1) : m <= l /\ a[m] = c[m] /\ b[m] = d[m],
           n > l \/ a[n] < c[n] \/ (a[n] = c[n] /\ b[n] < d[n])
    PROVE  Cardinality(Places(k, a, b, a[n], b[n])) # Cardinality(Places(l, c, d, a[n], b[n]))
<1> DEFINE A == Places(k, a, b, a[n], b[n])
           B == Places(l, c, d, a[n], b[n])
<1>1. /\ a \in [1..k -> Int] /\ b \in [1..k -> Int] /\ c \in [1..l -> Int] /\ d \in [1..l -> Int]
      /\ \A m, i \in 1..l : m < i => c[m] < c[i] \/ (c[m] = c[i] /\ d[m] <= d[i])
  BY Zenon DEF NonFalling
<1>2. ASSUME NEW m \in B PROVE m \in A /\ m # n
  <2>1. m \in 1..l /\ c[m] = a[n] /\ d[m] = b[n]
    BY DEF Places
  <2>2. ~(n <= m)
    <3>1. SUFFICES ASSUME n <= m PROVE FALSE
      OBVIOUS
    <3>2. n \in 1..l /\ n <= l
      BY <2>1, <3>1
    <3>3. CASE n = m
      BY <1>1, <2>1, <3>2, <3>3
    <3>4. CASE n < m
      <4>1. c[n] < c[m] \/ (c[n] = c[m] /\ d[n] <= d[m])
        BY <1>1, <2>1, <3>2, <3>4
      <4>2. a[n] \in Int /\ b[n] \in Int /\ c[n] \in Int /\ d[n] \in Int
        BY <1>1, <3>2
      <4> QED BY <2>1, <3>2, <4>1, <4>2
    <3> QED BY <2>1, <3>1, <3>3, <3>4
  <2>3. m \in 1..(n - 1) /\ m \in 1..k /\ m # n
    BY <2>1, <2>2
  <2>4. a[m] = c[m] /\ b[m] = d[m]
    BY <2>3
  <2> QED BY <2>1, <2>3, <2>4 DEF Places
<1>3. n \in A
  BY DEF Places
<1>4. A \subseteq 1..k
  BY DEF Places
<1> HIDE DEF A, B
<1>5. IsFiniteSet(A)
  BY <1>4, SomePositions, Zenon
<1>6. B \in SUBSET A /\ A # B
  BY <1>2, <1>3
<1>7. Cardinality(A) # Cardinality(B)
  BY <1>5, <1>6, FS_Subset
<1> QED BY <1>7 DEF A, B

\* The pairs of the first list are as often in the second.
AsOften(k, a, b, l, c, d) ==
    \A n \in 1..k : Cardinality(Places(k, a, b, a[n], b[n])) =
                    Cardinality(Places(l, c, d, a[n], b[n]))

\* Two sorted lists that have each of their values equally often are the same list.
LEMMA SameLists ==
    ASSUME NEW k \in Nat, NEW l \in Nat, NEW a, NEW b, NEW c, NEW d,
           NonFalling(k, a, b), NonFalling(l, c, d),
           AsOften(k, a, b, l, c, d), AsOften(l, c, d, k, a, b)
    PROVE  k = l /\ \A n \in 1..k : a[n] = c[n] /\ b[n] = d[n]
<1> DEFINE Same(n) == n \in 1..k /\ n \in 1..l /\ a[n] = c[n] /\ b[n] = d[n]
           D == {n \in (1..k) \cup (1..l) : ~Same(n)}
<1>1. ASSUME D # {} PROVE FALSE
  <2>1. D \subseteq Nat
    OBVIOUS
  <2>2. PICK n \in D : \A m \in D : n <= m
    <3> HIDE DEF D
    <3> QED BY <1>1, <2>1, LeastNumber, Zenon
  <2>3. n \in (1..k) \cup (1..l) /\ ~Same(n)
    OBVIOUS
  <2>4. \A m \in 1..(n - 1) : m \in (1..k) \cup (1..l) /\ ~(n <= m)
    BY <2>3
  <2>5. \A m \in 1..(n - 1) : Same(m)
    BY <2>2, <2>4
  <2>6. \A m \in 1..(n - 1) : m <= l /\ m <= k /\ a[m] = c[m] /\ b[m] = d[m]
    BY <2>5
  <2>7. /\ n \in 1..k => a[n] \in Int /\ b[n] \in Int
        /\ n \in 1..l => c[n] \in Int /\ d[n] \in Int
    BY DEF NonFalling
  <2>8. \/ n \in 1..k /\ (n > l \/ a[n] < c[n] \/ (a[n] = c[n] /\ b[n] < d[n]))
        \/ n \in 1..l /\ (n > k \/ c[n] < a[n] \/ (c[n] = a[n] /\ d[n] < b[n]))
    BY <2>3, <2>7
  <2>9. CASE n \in 1..k /\ (n > l \/ a[n] < c[n] \/ (a[n] = c[n] /\ b[n] < d[n]))
    <3>1. Cardinality(Places(k, a, b, a[n], b[n])) # Cardinality(Places(l, c, d, a[n], b[n]))
      BY <2>6, <2>9, FirstDifference
    <3> QED BY <2>9, <3>1 DEF AsOften
  <2>10. CASE n \in 1..l /\ (n > k \/ c[n] < a[n] \/ (c[n] = a[n] /\ d[n] < b[n]))
    <3>1. Cardinality(Places(l, c, d, c[n], d[n])) # Cardinality(Places(k, a, b, c[n], d[n]))
      BY <2>6, <2>10, FirstDifference
    <3> QED BY <2>10, <3>1 DEF AsOften
  <2> QED BY <2>8, <2>9, <2>10
<1>2. \A n \in (1..k) \cup (1..l) : Same(n)
  BY <1>1
<1>3. k = l
  <2>1. k >= 1 => k \in 1..l
    BY <1>2
  <2>2. l >= 1 => l \in 1..k
    BY <1>2
  <2> QED BY <2>1, <2>2
<1> QED BY <1>2, <1>3

-----------------------------------------------------------------------------
(* Name. *)

\* The name has every word that tells, in the order of the label.
NamedBy(words, name) ==
    /\ name # <<>>
    /\ \A n \in 2..Len(name) : name[n - 1] < name[n]
    /\ \A i \in DOMAIN words :
            (words[i] = "word" \/ (words[i] = "number" /\ (i = 1 \/ words[i - 1] # "disc")))
                => \E n \in DOMAIN name : name[n] = i

\* A name is never empty, keeps the label's order and loses markers only.
LEMMA NameRule ==
    ASSUME NEW T, NEW words \in Seq(T), words # <<>>, NEW name, name = Name(words)
    PROVE  NamedBy(words, name)
<1> USE DEF NamedBy
<1> DEFINE Dropped(i) == \/ words[i] \in {"format", "disc"}
                         \/ words[i] = "number" /\ i > 1 /\ words[i - 1] = "disc"
           kept == {i \in DOMAIN words : ~Dropped(i)}
           K == IF kept = {} THEN DOMAIN words ELSE kept
           k == Cardinality(K)
<1>1. name = Listed(K)
  BY DEF Name
<1>2. DOMAIN words = 1..Len(words) /\ Len(words) \in Nat \ {0}
  OBVIOUS
<1>3. K \subseteq 1..Len(words) /\ K # {}
  <2>1. 1 \in DOMAIN words
    BY <1>2
  <2>2. kept \subseteq DOMAIN words
    OBVIOUS
  <2> HIDE DEF kept
  <2> QED BY <1>2, <2>1, <2>2
<1>4. ASSUME NEW i \in DOMAIN words, ~Dropped(i) PROVE i \in K
  BY <1>4
<1>5. ASSUME NEW i \in DOMAIN words,
             words[i] = "word" \/ (words[i] = "number" /\ (i = 1 \/ words[i - 1] # "disc"))
      PROVE  i \in K
  <2>1. ~Dropped(i)
    BY <1>2, <1>5
  <2> QED BY <1>4, <2>1
<1> HIDE DEF K
<1>6. IsFiniteSet(K) /\ Rises(name, K)
  BY <1>1, <1>2, <1>3, SomePositions, ListedIs, Zenon
<1>7. k # 0
  BY <1>3, <1>6, FS_EmptySet, Zenon
<1>8. k \in Nat /\ name \in [1..k -> K] /\ Len(name) = k /\ DOMAIN name = 1..k
  BY <1>6 DEF Rises
<1> HIDE DEF k
<1>9. name # <<>>
  BY <1>7, <1>8
<1>10. ASSUME NEW n \in 2..Len(name) PROVE name[n - 1] < name[n]
  <2>1. n - 1 \in 1..k /\ n \in 1..k /\ n - 1 < n
    BY <1>8
  <2> QED BY <1>6, <2>1 DEF Rises, k
<1>11. \A x \in K : \E n \in DOMAIN name : name[n] = x
  BY <1>6, <1>8 DEF Rises, k
<1> HIDE DEF Dropped
<1> QED BY <1>5, <1>9, <1>10, <1>11, Zenon

-----------------------------------------------------------------------------
(* Select. *)

\* What is in two sequences joined is what is in either.
LEMMA JoinedMembers ==
    ASSUME NEW T, NEW s \in Seq(T), NEW t \in Seq(T)
    PROVE  s \o t \in Seq(T) /\ Members(s \o t) = Members(s) \cup Members(t)
<1>1. s \o t \in Seq(T) /\ Len(s \o t) = Len(s) + Len(t)
  OBVIOUS
<1>2. ASSUME NEW n \in 1..Len(s) PROVE n \in 1..Len(s \o t) /\ (s \o t)[n] = s[n]
  OBVIOUS
<1>3. ASSUME NEW n \in 1..Len(t)
      PROVE  Len(s) + n \in 1..Len(s \o t) /\ (s \o t)[Len(s) + n] = t[n]
  OBVIOUS
<1>4. ASSUME NEW n \in 1..Len(s \o t)
      PROVE  n \in 1..Len(s) \/ (n - Len(s) \in 1..Len(t) /\ (s \o t)[n] = t[n - Len(s)])
  OBVIOUS
<1>5. /\ DOMAIN s = 1..Len(s) /\ DOMAIN t = 1..Len(t)
      /\ DOMAIN (s \o t) = 1..Len(s \o t)
  BY <1>1
<1>6. ASSUME NEW x \in Members(s) \cup Members(t) PROVE x \in Members(s \o t)
  BY <1>2, <1>3, <1>5, Zenon DEF Members
<1>7. ASSUME NEW x \in Members(s \o t) PROVE x \in Members(s) \cup Members(t)
  BY <1>2, <1>4, <1>5 DEF Members
<1> QED BY <1>1, <1>6, <1>7

\* What is in a list of numbers is the numbers listed.
LEMMA ListedMembers ==
    ASSUME NEW n \in Nat, NEW P, P \subseteq 1..n
    PROVE  Listed(P) \in Seq(Nat) /\ Members(Listed(P)) = P
<1>1. Rises(Listed(P), P)
  BY SomePositions, ListedIs, Zenon
<1> DEFINE p == Listed(P)
<1> HIDE DEF p
<1>2. /\ Cardinality(P) \in Nat
      /\ p \in [1..Cardinality(P) -> P]
      /\ \A x \in P : \E m \in 1..Cardinality(P) : p[m] = x
  BY <1>1 DEF Rises, p
<1>3. Members(p) = P
  BY <1>2, Zenon DEF Members
<1>4. p \in Seq(Nat)
  <2>1. P \subseteq Nat
    OBVIOUS
  <2>2. p \in [1..Cardinality(P) -> Nat]
    BY <1>2, <2>1, Zenon
  <2> QED BY <1>2, <2>2
<1> QED BY <1>3, <1>4 DEF p

\* The same of three sequences joined, which is how Select joins the kinds of stream.
LEMMA JoinedThree ==
    ASSUME NEW s \in Seq(Nat), NEW t \in Seq(Nat), NEW u \in Seq(Nat)
    PROVE  Members(s \o t \o u) = Members(s) \cup Members(t) \cup Members(u)
<1> DEFINE v == s \o t
<1>1. v \in Seq(Nat) /\ Members(v) = Members(s) \cup Members(t)
  BY JoinedMembers
<1> HIDE DEF v
<1>2. Members(v \o u) = Members(v) \cup Members(u)
  BY <1>1, JoinedMembers
<1> QED BY <1>1, <1>2 DEF v

\* The order that pickAudio's loop follows.
LEMMA WiderOrders ==
    ASSUME NEW streams \in Seq(Stream), NEW P, P \subseteq DOMAIN streams
    PROVE  Orders(Stable(streams, Wider), P)
<1> DEFINE a == [i \in P |-> 0 - streams[i].channels]
           b == [i \in P |-> IF streams[i].default THEN 0 ELSE 1]
<1>1. P \subseteq 1..Len(streams) /\ Len(streams) \in Nat
  OBVIOUS
<1>2. \A i \in P : streams[i] \in Stream
  OBVIOUS
<1>3. \A i \in P : streams[i].channels \in Nat /\ streams[i].default \in BOOLEAN
  BY <1>2, StreamConstants
<1>4. a \in [P -> Int] /\ b \in [P -> Int] /\ P \subseteq Int
  BY <1>1, <1>3
<1> DEFINE R == Stable(streams, Wider)
<1>5. ASSUME NEW i \in P, NEW j \in P
      PROVE  <<i, j>> \in R <=>
                \/ a[i] < a[j]
                \/ a[i] = a[j] /\ b[i] < b[j]
                \/ a[i] = a[j] /\ b[i] = b[j] /\ i < j
  <2>1. <<i, j>> \in R <=>
            \/ Wider(streams[i], streams[j])
            \/ ~Wider(streams[j], streams[i]) /\ i < j
    BY DEF Stable
  <2>2. /\ a[i] = 0 - streams[i].channels /\ a[j] = 0 - streams[j].channels
        /\ b[i] = (IF streams[i].default THEN 0 ELSE 1)
        /\ b[j] = (IF streams[j].default THEN 0 ELSE 1)
    OBVIOUS
  <2> HIDE DEF a, b, R
  <2>3. CASE streams[i].default
    BY <1>3, <2>1, <2>2, <2>3 DEF Wider
  <2>4. CASE ~streams[i].default
    BY <1>3, <2>1, <2>2, <2>4 DEF Wider
  <2> QED BY <2>3, <2>4
<1> HIDE DEF a, b, R
<1>6. ByKeys(P, a, b, R)
  BY <1>5, Zenon DEF ByKeys
<1>7. Orders(R, P)
  BY <1>4, <1>6, KeysOrder
<1> QED BY <1>7 DEF R

\* No audio stream is better than the one that is picked.
Preferred(streams, language, i, j) ==
    LET InLanguage(n) == <<streams[n].language, language>> \in Alike
    IN IF streams[i].commentary # streams[j].commentary THEN streams[j].commentary
       ELSE IF InLanguage(i) # InLanguage(j) THEN InLanguage(i)
       ELSE \/ streams[i].channels > streams[j].channels
            \/ streams[i].channels = streams[j].channels /\ streams[i].default /\ ~streams[j].default

\* pickAudio returns an audio stream that no other is preferred to.
LEMMA PickRule ==
    ASSUME NEW streams \in Seq(Stream), NEW audio, audio \subseteq DOMAIN streams, audio # {},
           NEW language, NEW i, i = pickAudio(streams, audio, language)
    PROVE  i \in audio /\ \A j \in audio : ~Preferred(streams, language, j, i)
<1> DEFINE W == WithoutCommentary(streams, audio)
           L == filterByLanguage(streams, W, language)
<1>1. W \subseteq audio /\ W # {}
  BY DEF WithoutCommentary
<1>2. L \subseteq W /\ L # {}
  BY <1>1, Zenon DEF filterByLanguage, matching
<1>3. i = First(L, Stable(streams, Wider))
  BY DEF pickAudio
<1>4. \A j \in audio : j \in W <=> ~streams[j].commentary \/ \A n \in audio : streams[n].commentary
  BY DEF WithoutCommentary
<1> HIDE DEF W
<1> DEFINE InLanguage(n) == <<streams[n].language, language>> \in Alike
<1>5. language = "" => \A n : ~InLanguage(n)
  BY Zenon DEF Alike
<1>6. \A j \in W : j \in L <=> InLanguage(j) \/ \A n \in W : ~InLanguage(n)
  BY <1>5, Zenon DEF filterByLanguage, matching
<1> HIDE DEF L
<1>7. IsFiniteSet(L) /\ Orders(Stable(streams, Wider), L)
  <2>1. L \subseteq DOMAIN streams
    BY <1>1, <1>2
  <2>2. DOMAIN streams = 1..Len(streams) /\ Len(streams) \in Nat
    OBVIOUS
  <2> QED BY <2>1, <2>2, SomePositions, WiderOrders, Zenon
<1>8. i \in L /\ \A j \in L \ {i} : <<i, j>> \in Stable(streams, Wider)
  <2> DEFINE R == Stable(streams, Wider)
  <2>1. i = First(L, R) /\ Orders(R, L) /\ IsFiniteSet(L)
    BY <1>3, <1>7
  <2> HIDE DEF R
  <2>2. First(L, R) \in L /\ \A j \in L \ {First(L, R)} : <<First(L, R), j>> \in R
    BY <1>2, <2>1, FirstIs, Zenon
  <2>3. i \in L /\ \A j \in L \ {i} : <<i, j>> \in R
    BY <2>1, <2>2, Zenon
  <2> QED BY <2>3 DEF R
<1>9. \A j \in audio : streams[j] \in Stream
  OBVIOUS
<1>10. \A j \in audio : /\ streams[j].channels \in Nat
                        /\ streams[j].commentary \in BOOLEAN /\ streams[j].default \in BOOLEAN
  BY <1>9, StreamConstants
<1>11. ASSUME NEW j \in L PROVE ~Wider(streams[j], streams[i])
  <2>1. i \in audio /\ j \in audio
    BY <1>1, <1>2, <1>8
  <2>2. CASE j = i
    BY <1>10, <2>1, <2>2 DEF Wider
  <2>3. CASE j # i
    <3>1. <<i, j>> \in Stable(streams, Wider)
      BY <1>8, <2>3
    <3>2. Wider(streams[i], streams[j]) \/ ~Wider(streams[j], streams[i])
      BY <3>1 DEF Stable
    <3> QED BY <1>10, <2>1, <3>2 DEF Wider
  <2> QED BY <2>2, <2>3
<1>12. ASSUME NEW j \in audio, Preferred(streams, language, j, i) PROVE FALSE
  <2>1. i \in W /\ i \in audio
    BY <1>1, <1>2, <1>8
  <2>2. streams[j].commentary = streams[i].commentary
    <3>1. SUFFICES ASSUME streams[j].commentary # streams[i].commentary PROVE FALSE
      OBVIOUS
    <3>2. streams[i].commentary
      BY <1>12, <3>1 DEF Preferred
    <3>3. ~streams[j].commentary
      BY <1>10, <2>1, <3>1, <3>2, Zenon
    <3> QED BY <1>4, <2>1, <3>2, <3>3
  <2>3. j \in W
    BY <1>4, <2>1, <2>2
  <2>4. InLanguage(j) = InLanguage(i)
    <3>1. SUFFICES ASSUME InLanguage(j) # InLanguage(i) PROVE FALSE
      OBVIOUS
    <3>2. InLanguage(j)
      BY <1>12, <2>2, <3>1 DEF Preferred
    <3>3. ~InLanguage(i)
      BY <3>1, <3>2
    <3> HIDE DEF InLanguage
    <3> QED BY <1>6, <1>8, <2>1, <2>3, <3>2, <3>3
  <2>5. j \in L
    <3> HIDE DEF InLanguage
    <3> QED BY <1>6, <1>8, <2>1, <2>3, <2>4
  <2>6. Wider(streams[j], streams[i])
    BY <1>12, <2>2, <2>4 DEF Preferred, Wider
  <2> QED BY <1>11, <2>5, <2>6
<1> QED BY <1>1, <1>2, <1>8, <1>12

\* Of the video V, the audio A and the subtitles B: every stream is kept or dropped,
\* one audio stream is kept and none is preferred to it, and some subtitle is kept if
\* there is one.
Keeps(streams, language, V, A, B, kept, dropped) ==
    /\ kept \cup dropped = V \cup A \cup B
    /\ kept \cap dropped = {}
    /\ Cardinality(A \cap kept) = (IF A = {} THEN 0 ELSE 1)
    /\ \A i \in A \cap kept, j \in A : ~Preferred(streams, language, j, i)
    /\ B # {} => B \cap kept # {}

\* What Select keeps and what it drops.
LEMMA SelectRule ==
    ASSUME NEW streams \in Seq(Stream), NEW language, NEW sel, sel = Select(streams, language),
           NEW V, V = OfKind(streams, "video"), NEW A, A = OfKind(streams, "audio"),
           NEW B, B = OfKind(streams, "subtitle"),
           NEW kept, kept = Members(sel.maps)
    PROVE  Keeps(streams, language, V, A, B, kept, Members(sel.dropped))
<1> USE DEF Keeps
<1> DEFINE n == Len(streams)
           first == IF V = {} THEN {} ELSE {Least(V)}
           chosen == IF A = {} THEN {} ELSE {pickAudio(streams, A, language)}
           subs == filterByLanguage(streams, B, language)
<1>1. n \in Nat /\ DOMAIN streams = 1..n
  OBVIOUS
<1>2. /\ sel.maps = Listed(first) \o Listed(chosen) \o Listed(subs)
      /\ sel.dropped = Listed(V \ first) \o Listed(A \ chosen) \o Listed(B \ subs)
  BY Zenon DEF Select
<1>3. /\ V \subseteq DOMAIN streams /\ A \subseteq DOMAIN streams /\ B \subseteq DOMAIN streams
      /\ V \cap A = {} /\ V \cap B = {} /\ A \cap B = {}
  BY DEF OfKind
<1>4. first \subseteq V
  BY <1>1, <1>3, SomePositions, LeastIs
<1>5. chosen \subseteq A /\ \A i \in chosen : \A j \in A : ~Preferred(streams, language, j, i)
  BY <1>3, PickRule, Zenon
<1>6. subs \subseteq B /\ (B # {} => subs # {})
  BY Zenon DEF filterByLanguage, matching
<1>7. Cardinality(chosen) = IF A = {} THEN 0 ELSE 1
  BY FS_EmptySet, FS_Singleton, Zenon
<1> HIDE DEF first, chosen, subs, n
<1>8. ASSUME NEW P, P \subseteq DOMAIN streams
      PROVE  Listed(P) \in Seq(Nat) /\ Members(Listed(P)) = P
  BY <1>1, <1>8, ListedMembers, Zenon
<1>9. ASSUME NEW P, P \subseteq V, NEW Q, Q \subseteq A, NEW R, R \subseteq B
      PROVE  Members(Listed(P) \o Listed(Q) \o Listed(R)) = P \cup Q \cup R
  <2>1. /\ Listed(P) \in Seq(Nat) /\ Members(Listed(P)) = P
        /\ Listed(Q) \in Seq(Nat) /\ Members(Listed(Q)) = Q
        /\ Listed(R) \in Seq(Nat) /\ Members(Listed(R)) = R
    <3>1. P \subseteq DOMAIN streams /\ Q \subseteq DOMAIN streams /\ R \subseteq DOMAIN streams
      BY <1>3, <1>9
    <3> QED BY <1>8, <3>1
  <2> QED BY <2>1, JoinedThree
<1>10. kept = first \cup chosen \cup subs
  BY <1>2, <1>4, <1>5, <1>6, <1>9
<1>11. Members(sel.dropped) = (V \ first) \cup (A \ chosen) \cup (B \ subs)
  <2> DEFINE v == V \ first
             a == A \ chosen
             b == B \ subs
  <2>1. /\ v \subseteq V /\ a \subseteq A /\ b \subseteq B
        /\ sel.dropped = Listed(v) \o Listed(a) \o Listed(b)
    BY <1>2
  <2> HIDE DEF v, a, b
  <2>2. Members(sel.dropped) = v \cup a \cup b
    BY <1>9, <2>1
  <2> QED BY <2>2 DEF v, a, b
<1>12. A \cap kept = chosen /\ B \cap kept = subs
  BY <1>3, <1>4, <1>5, <1>6, <1>10
<1>13. kept \cup Members(sel.dropped) = V \cup A \cup B
  BY <1>4, <1>5, <1>6, <1>10, <1>11
<1>14. kept \cap Members(sel.dropped) = {}
  BY <1>3, <1>4, <1>5, <1>6, <1>10, <1>11
<1> QED BY <1>5, <1>6, <1>7, <1>12, <1>13, <1>14, Zenon

-----------------------------------------------------------------------------
(* ClassifyFailure. *)

\* A group is only found in a line that is no noise.
LEMMA ClassifyRule ==
    ASSUME NEW m, NEW g, g = ClassifyFailure(<<m>>), g # "other"
    PROVE  ~m.benign /\ g \in m.says
<1> DEFINE P == {i \in DOMAIN <<m>> : ~<<m>>[i].benign}
           kept == At(<<m>>, P)
           said == UNION {kept[i].says : i \in DOMAIN kept}
           at == {i \in DOMAIN failurePatterns : failurePatterns[i] \in said}
<1>1. g = IF at = {} THEN "other" ELSE failurePatterns[Least(at)]
  BY DEF ClassifyFailure, StripBenign, Where
<1>2. <<m>> \in Seq({m}) /\ P \subseteq DOMAIN <<m>> /\ \A i \in P : <<m>>[i] = m /\ ~m.benign
  OBVIOUS
<1> HIDE DEF P
<1>3. Members(kept) = {<<m>>[i] : i \in P}
  BY <1>2, AtIs, Zenon
<1> HIDE DEF kept
<1>4. ASSUME NEW i \in DOMAIN kept PROVE kept[i] = m /\ ~m.benign
  BY <1>2, <1>3 DEF Members
<1>5. DOMAIN failurePatterns = 1..9
  BY DEF failurePatterns
<1>6. at \subseteq 1..9 /\ at # {}
  BY <1>1, <1>5
<1>7. Least(at) \in at
  <2> HIDE DEF at
  <2> QED BY <1>6, SomePositions, LeastIs, Zenon
<1>8. g \in said
  <2>1. g = failurePatterns[Least(at)]
    BY <1>1, <1>6
  <2>2. failurePatterns[Least(at)] \in said
    BY <1>7
  <2> QED BY <2>1, <2>2
<1> QED BY <1>4, <1>8

\* Lines joined into one say what one of them says.
LEMMA JoinedRule ==
    ASSUME NEW lines, NEW g, g \in Joined(lines).says, ~Joined(lines).benign
    PROVE  \E i \in DOMAIN lines : ~lines[i].benign /\ lines[i].says = g
BY Zenon DEF Joined

\* Some line that is not benign says g.
SaidIn(lines, g) ==
    \E i \in DOMAIN lines : ~lines[i].benign /\ lines[i].says = g

\* The class of a failure, but for the ones that are given when nothing was said, is
\* one that a line that is not benign says: the last lines of ffmpeg, or the summary
\* of what makemkvcon printed.
LEMMA FailureRule ==
    ASSUME NEW T, NEW lines \in Seq(T), NEW g
    PROVE  /\ g = ClassifyFailure(<<lastLines(lines, 3)>>) /\ g # "other" => SaidIn(lines, g)
           /\ g = ClassifyFailure(<<NoTitlesFound(summarise(lines))>>)
                => g \in {"other", "unreadable"} \/ SaidIn(lines, g)
<1> USE DEF SaidIn
<1> DEFINE Said == \E i \in DOMAIN lines : ~lines[i].benign /\ lines[i].says = g
           Part(L) == \A i \in DOMAIN L : \E j \in DOMAIN lines : L[i] = lines[j]
<1>1. ASSUME NEW L, Part(L), g \in Joined(L).says, ~Joined(L).benign PROVE Said
  <2>1. PICK i \in DOMAIN L : ~L[i].benign /\ L[i].says = g
    BY <1>1, JoinedRule
  <2>2. PICK j \in DOMAIN lines : L[i] = lines[j]
    BY <1>1
  <2> QED BY <2>1, <2>2
<1>2. ASSUME g = ClassifyFailure(<<lastLines(lines, 3)>>), g # "other" PROVE Said
  <2> DEFINE L == IF Len(lines) > 3 THEN SubSeq(lines, Len(lines) - 3 + 1, Len(lines)) ELSE lines
  <2>1. lastLines(lines, 3) = Joined(L)
    BY DEF lastLines
  <2>2. Part(L)
    <3>1. CASE Len(lines) > 3
      <4>1. ASSUME NEW i \in DOMAIN L PROVE \E j \in DOMAIN lines : L[i] = lines[j]
        <5>1. L = SubSeq(lines, Len(lines) - 2, Len(lines)) /\ Len(lines) \in Nat
          BY <3>1
        <5>2. i \in 1..3 /\ L[i] = lines[Len(lines) - 3 + i]
          BY <3>1, <5>1
        <5>3. Len(lines) - 3 + i \in DOMAIN lines
          BY <3>1, <5>2
        <5> QED BY <5>2, <5>3
      <4> QED BY <4>1
    <3>2. CASE ~(Len(lines) > 3)
      BY <3>2
    <3> QED BY <3>1, <3>2
  <2> HIDE DEF L, Part
  <2>3. ~Joined(L).benign /\ g \in Joined(L).says
    BY <1>2, <2>1, ClassifyRule
  <2> QED BY <1>1, <2>2, <2>3
<1>3. ASSUME g = ClassifyFailure(<<NoTitlesFound(summarise(lines))>>), g \notin {"other", "unreadable"}
      PROVE  Said
  <2> DEFINE P == {i \in DOMAIN lines : lines[i].telling}
             told == At(lines, P)
             short == IF Len(told) > 4 THEN SubSeq(told, 1, 4) ELSE told
             latest == [n \in 1..(IF Len(lines) < 2 THEN Len(lines) ELSE 2) |->
                            lines[Len(lines) + 1 - n]]
             L == IF told = <<>> THEN latest ELSE short
  <2>1. summarise(lines) = Joined(L)
    BY DEF summarise, Where
  <2>2. Part(latest)
    <3>1. ASSUME NEW n \in 1..(IF Len(lines) < 2 THEN Len(lines) ELSE 2)
          PROVE  latest[n] = lines[Len(lines) + 1 - n] /\ Len(lines) + 1 - n \in DOMAIN lines
      OBVIOUS
    <3> QED BY <3>1
  <2>3. told \in Seq(T) /\ Members(told) = {lines[i] : i \in P}
    BY AtIs
  <2>4. Part(told)
    <3> HIDE DEF told
    <3> QED BY <2>3, Zenon DEF Members
  <2> HIDE DEF told, latest
  <2>5. Part(short)
    <3>1. CASE Len(told) > 4
      <4>1. ASSUME NEW i \in DOMAIN short PROVE i \in DOMAIN told /\ short[i] = told[i]
        BY <2>3, <3>1
      <4> QED BY <2>4, <4>1
    <3>2. CASE ~(Len(told) > 4)
      BY <2>4, <3>2
    <3> QED BY <3>1, <3>2, Zenon
  <2> HIDE DEF short
  <2>6. Part(L)
    BY <2>2, <2>5
  <2> HIDE DEF L, Part
  <2> DEFINE j == Joined(L)
  <2>7. NoTitlesFound(j).benign = j.benign /\ NoTitlesFound(j).says = j.says \cup {"unreadable"}
    BY DEF NoTitlesFound, Joined
  <2>8. ~NoTitlesFound(j).benign /\ g \in NoTitlesFound(j).says
    BY <1>3, <2>1, ClassifyRule
  <2>9. ~j.benign /\ g \in j.says
    BY <1>3, <2>7, <2>8
  <2> HIDE DEF j
  <2> QED BY <1>1, <2>6, <2>9 DEF j
<1> QED BY <1>2, <1>3

-----------------------------------------------------------------------------
(* Filtered. *)

\* A filter changes nothing of what it keeps.
LEMMA FilteredRule ==
    ASSUME NEW T, NEW titles \in Seq(T), NEW least, NEW n \in DOMAIN Filtered(titles, least)
    PROVE  \E i \in DOMAIN titles : Filtered(titles, least)[n] = titles[i]
<1> DEFINE P == {i \in DOMAIN titles : titles[i].secs >= (IF least <= 0 THEN 60 ELSE least)}
           kept == At(titles, P)
<1>1. Filtered(titles, least) = kept
  BY DEF Filtered, Where
<1>2. Members(kept) = {titles[i] : i \in P}
  BY AtIs
<1>3. n \in DOMAIN kept
  BY <1>1
<1> HIDE DEF kept
<1> QED BY <1>1, <1>2, <1>3, Zenon DEF Members

-----------------------------------------------------------------------------
(* Content, dedupe and Titles. *)

\* A value k times over is a sequence of length k.
LEMMA Repeated ==
    ASSUME NEW T, NEW x \in T, NEW k \in Nat
    PROVE  [n \in 1..k |-> x] \in Seq(T) /\ Len([n \in 1..k |-> x]) = k
OBVIOUS

\* A playlist gets one placeholder for each of its streams.
LEMMA StreamsCounted ==
    ASSUME NEW p \in Playlist
    PROVE  Len(placeholderStreams(p)) = p.video + p.audio + p.subtitles
<1>1. p.video \in Nat /\ p.audio \in Nat /\ p.subtitles \in Nat
  BY TitleConstants
<1> DEFINE Kind == {"video", "audio", "subtitle"}
           v == [n \in 1..p.video |-> "video"]
           a == [n \in 1..p.audio |-> "audio"]
           s == [n \in 1..p.subtitles |-> "subtitle"]
<1>2. v \in Seq(Kind) /\ Len(v) = p.video
  BY <1>1, Repeated
<1>3. a \in Seq(Kind) /\ Len(a) = p.audio
  BY <1>1, Repeated
<1>4. s \in Seq(Kind) /\ Len(s) = p.subtitles
  BY <1>1, Repeated
<1>5. placeholderStreams(p) = v \o a \o s
  BY DEF placeholderStreams
<1> HIDE DEF v, a, s, Kind
<1>6. v \o a \in Seq(Kind) /\ Len(v \o a) = p.video + p.audio
  BY <1>2, <1>3
<1> DEFINE va == v \o a
<1> HIDE DEF va
<1>7. Len(va \o s) = Len(va) + Len(s)
  BY <1>4, <1>6 DEF va
<1> QED BY <1>4, <1>5, <1>6, <1>7 DEF va

\* t is what s has at the positions W, by rising file: f says where each is from.
RunsThrough(t, s, W, f) ==
    /\ Cardinality(W) \in Nat
    /\ f \in [1..Cardinality(W) -> W]
    /\ t = [n \in 1..Cardinality(W) |-> s[f[n]]]
    /\ \A m, n \in 1..Cardinality(W) : m < n => s[f[m]].file < s[f[n]].file
    /\ \A i \in W : \E n \in 1..Cardinality(W) : f[n] = i

\* The playlists by the number of their file, the way Titles sorts them.
ByFile(s) == Sorted(s, LAMBDA p, q : p.file < q.file)

\* Playlists sorted by file, each of some positions of the list once.
LEMMA SortedByFile ==
    ASSUME NEW s \in Seq(Playlist), NEW W, W \subseteq DOMAIN s,
           \A i, j \in DOMAIN s : s[i].file = s[j].file => i = j
    PROVE  \E f : RunsThrough(ByFile(At(s, W)), s, W, f)
<1> DEFINE k == Cardinality(W)
           p == Listed(W)
           w == At(s, W)
<1>1. /\ Rises(p, W) /\ w \in Seq(Playlist) /\ Len(w) = k
      /\ \A n \in 1..k : w[n] = s[p[n]]
  BY AtIs
<1>2. /\ k \in Nat /\ p \in [1..k -> W]
      /\ \A x \in W : \E n \in 1..k : p[n] = x
      /\ \A m, n \in 1..k : m < n => p[m] < p[n]
  BY <1>1 DEF Rises
<1>3. DOMAIN w = 1..k
  BY <1>1, <1>2
<1> DEFINE R == {e \in (DOMAIN w) \X (DOMAIN w) :
                    \/ w[e[1]].file < w[e[2]].file
                    \/ ~(w[e[2]].file < w[e[1]].file) /\ e[1] < e[2]}
           q == InOrder(DOMAIN w, R)
<1>4. ByFile(w) = [n \in DOMAIN w |-> w[q[n]]]
  BY DEF ByFile, Sorted, Stable
<1> HIDE DEF k, p, w
<1>5. \A n \in 1..k : w[n] \in Playlist /\ w[n].file \in Nat
  <2>1. \A n \in 1..k : w[n] \in Playlist
    BY <1>1, <1>3
  <2> QED BY <2>1, TitleConstants
<1>6. ASSUME NEW m \in 1..k, NEW n \in 1..k
      PROVE  <<m, n>> \in R <=> w[m].file < w[n].file \/ (~(w[n].file < w[m].file) /\ m < n)
  BY <1>3
<1>7. Orders(R, 1..k)
  <2> DEFINE a == [n \in 1..k |-> w[n].file]
             b == [n \in 1..k |-> 0]
  <2>1. a \in [1..k -> Int] /\ b \in [1..k -> Int] /\ 1..k \subseteq Int
    BY <1>2, <1>5
  <2>2. ByKeys(1..k, a, b, R)
    <3>1. \A n \in 1..k : a[n] = w[n].file /\ a[n] \in Nat /\ b[n] = 0
      BY <1>5
    <3> HIDE DEF R, a, b
    <3>2. ASSUME NEW m \in 1..k, NEW n \in 1..k
          PROVE  <<m, n>> \in R <=>
                    \/ a[m] < a[n]
                    \/ a[m] = a[n] /\ b[m] < b[n]
                    \/ a[m] = a[n] /\ b[m] = b[n] /\ m < n
      BY <1>6, <3>1
    <3> QED BY <3>2, Zenon DEF ByKeys
  <2> HIDE DEF a, b, R
  <2> QED BY <2>1, <2>2, KeysOrder, Zenon
<1>8. IsFiniteSet(1..k) /\ Cardinality(1..k) = k
  BY <1>2, FS_Interval
<1>9. Enumerates(q, 1..k, R)
  <2> HIDE DEF R
  <2> QED BY <1>3, <1>7, <1>8, InOrderIs
<1> HIDE DEF R, q
<1>10. /\ q \in [1..k -> 1..k]
       /\ \A m, n \in 1..k : m < n => <<q[m], q[n]>> \in R
       /\ \A x \in 1..k : \E n \in 1..k : q[n] = x
  BY <1>8, <1>9 DEF Enumerates
<1> DEFINE f == [n \in 1..k |-> p[q[n]]]
<1>11. f \in [1..k -> W]
  BY <1>2, <1>10
<1>12. ASSUME NEW n \in 1..k PROVE w[q[n]] = s[f[n]]
  BY <1>1, <1>10, Zenon
<1>13. ASSUME NEW m \in 1..k, NEW n \in 1..k, m < n PROVE s[f[m]].file < s[f[n]].file
  <2>1. q[m] \in 1..k /\ q[n] \in 1..k /\ <<q[m], q[n]>> \in R
    BY <1>10, <1>13, Zenon
  <2>2. ~(w[q[n]].file < w[q[m]].file) /\ q[m] # q[n]
    <3>1. <<q[m], q[m]>> \notin R
      BY <1>7, <2>1 DEF Orders
    <3>2. w[q[m]].file \in Nat /\ w[q[n]].file \in Nat
      BY <1>5, <2>1
    <3>3. w[q[m]].file < w[q[n]].file \/ ~(w[q[n]].file < w[q[m]].file)
      BY <1>6, <2>1
    <3> QED BY <2>1, <3>1, <3>2, <3>3
  <2>3. f[m] # f[n] /\ f[m] \in W /\ f[n] \in W
    <3>1. p[q[m]] # p[q[n]]
      <4>1. q[m] < q[n] \/ q[n] < q[m]
        BY <1>2, <2>1, <2>2
      <4>2. p[q[m]] \in W /\ p[q[n]] \in W
        BY <1>2, <2>1
      <4>3. p[q[m]] \in Int /\ p[q[n]] \in Int
        BY <4>2
      <4>4. p[q[m]] < p[q[n]] \/ p[q[n]] < p[q[m]]
        BY <1>2, <2>1, <4>1, Zenon
      <4> QED BY <4>3, <4>4
    <3> QED BY <1>11, <3>1
  <2>4. s[f[m]].file # s[f[n]].file
    BY <2>3
  <2>5. s[f[m]].file \in Nat /\ s[f[n]].file \in Nat
    BY <1>5, <1>12, <2>1
  <2>6. ~(s[f[n]].file < s[f[m]].file)
    BY <1>12, <2>2
  <2> HIDE DEF f
  <2> QED BY <2>4, <2>5, <2>6
<1>14. ASSUME NEW i \in W PROVE \E n \in 1..k : f[n] = i
  <2>1. PICK m \in 1..k : p[m] = i
    BY <1>2
  <2>2. PICK n \in 1..k : q[n] = m
    BY <1>10
  <2> QED BY <2>1, <2>2
<1>15. [n \in DOMAIN w |-> w[q[n]]] = [n \in 1..k |-> s[f[n]]]
  <2> HIDE DEF f
  <2> QED BY <1>3, <1>12
<1> HIDE DEF f
<1>16. ByFile(w) = [n \in 1..k |-> s[f[n]]]
  BY <1>4, <1>15
<1>17. RunsThrough(ByFile(w), s, W, f)
  BY <1>2, <1>11, <1>13, <1>14, <1>16 DEF RunsThrough, k
<1> QED BY <1>17 DEF w

\* A bijection counts: as many positions as members.
LEMMA Counted ==
    ASSUME NEW k \in Nat, NEW S, NEW h \in [1..k -> S],
           \A m, n \in 1..k : h[m] = h[n] => m = n,
           \A x \in S : \E n \in 1..k : h[n] = x
    PROVE  IsFiniteSet(S) /\ Cardinality(S) = k
<1>1. h \in Bijection(1..k, S)
  BY DEF Bijection, Injection, Surjection, IsInjective
<1>2. ExistsBijection(1..k, S)
  BY <1>1, Zenon DEF ExistsBijection
<1>3. IsFiniteSet(S)
  BY <1>2, FS_NatBijection
<1> QED BY <1>2, <1>3, FS_CountingElements, Zenon

\* Where the playlists that are worth a title are.
WorthAt(s, least) == {i \in DOMAIN s : Worth(s[i], least)}

\* Of those at W, the one with the lowest file of each layout.
KeptAt(s, W) ==
    {i \in W : \A j \in W : Layout(s[i]) = Layout(s[j]) => s[i].file <= s[j].file}

\* Content keeps the lowest-numbered playlist of each layout, by rising number.
LEMMA ContentRule ==
    ASSUME NEW s \in Seq(Playlist), NEW least \in Int,
           \A i, j \in DOMAIN s : s[i].file = s[j].file => i = j,
           NEW W, W = WorthAt(s, least), NEW kept, kept = KeptAt(s, W)
    PROVE  \E h : RunsThrough(Content(s, least), s, kept, h)
<1> USE DEF WorthAt, KeptAt
<1> DEFINE k == Cardinality(W)
<1>1. DOMAIN s = 1..Len(s) /\ Len(s) \in Nat /\ W \subseteq DOMAIN s
  OBVIOUS
<1>2. PICK f : RunsThrough(ByFile(At(s, W)), s, W, f)
  BY <1>1, SortedByFile, Zenon
<1>3. /\ k \in Nat /\ f \in [1..k -> W]
      /\ ByFile(At(s, W)) = [n \in 1..k |-> s[f[n]]]
      /\ \A m, n \in 1..k : m < n => s[f[m]].file < s[f[n]].file
      /\ \A i \in W : \E n \in 1..k : f[n] = i
  BY <1>2, Zenon DEF RunsThrough
<1> DEFINE t == [n \in 1..k |-> s[f[n]]]
           D == {n \in 1..k : \A j \in 1..(n - 1) : Layout(t[j]) # Layout(t[n])}
           c == Cardinality(D)
           g == Listed(D)
           h == [n \in 1..c |-> f[g[n]]]
<1>4. Content(s, least) = dedupe(t)
  <2>1. Content(s, least) = dedupe(ByFile(At(s, W)))
    BY DEF Content, Where, ByFile
  <2> QED BY <1>3, <2>1
<1> HIDE DEF k
<1>5. \A n \in 1..k : f[n] \in W /\ s[f[n]] \in Playlist /\ s[f[n]].file \in Nat /\ t[n] = s[f[n]]
  <2>1. \A n \in 1..k : f[n] \in W /\ s[f[n]] \in Playlist
    <3>1. \A n \in 1..k : f[n] \in W
      BY <1>3, Zenon
    <3> QED BY <1>1, <3>1
  <2> QED BY <2>1, TitleConstants
<1>6. t \in Seq(Playlist) /\ Len(t) = k /\ DOMAIN t = 1..k
  BY <1>3, <1>5
<1>7. dedupe(t) = At(t, D)
  BY <1>6 DEF dedupe
<1> HIDE DEF t
<1>8. /\ Rises(g, D) /\ Len(At(t, D)) = c /\ At(t, D) \in Seq(Playlist)
      /\ \A n \in 1..c : At(t, D)[n] = t[g[n]]
  <2>1. D \subseteq DOMAIN t
    BY <1>6
  <2> HIDE DEF D
  <2> QED BY <1>6, <2>1, AtIs
<1>9. ASSUME NEW n \in D PROVE f[n] \in kept
  <2>1. n \in 1..k /\ f[n] \in W
    BY <1>5
  <2>2. ASSUME NEW j \in W, Layout(s[f[n]]) = Layout(s[j]) PROVE s[f[n]].file <= s[j].file
    <3>1. PICK m \in 1..k : f[m] = j
      BY <1>3
    <3>2. ~(m < n)
      <4>1. SUFFICES ASSUME m < n PROVE FALSE
        OBVIOUS
      <4>2. m \in 1..(n - 1)
        BY <1>3, <2>1, <4>1
      <4>3. Layout(t[m]) = Layout(t[n])
        BY <1>5, <2>1, <2>2, <3>1
      <4> QED BY <4>2, <4>3
    <3> HIDE DEF D
    <3>3. CASE m = n
      BY <1>5, <2>1, <3>1, <3>3
    <3>4. CASE n < m
      <4>1. n \in 1..k /\ m \in 1..k /\ n < m
        BY <2>1, <3>4
      <4>2. s[f[n]].file < s[f[m]].file
        BY <1>3, <4>1, Zenon
      <4> QED BY <1>5, <3>1, <4>1, <4>2
    <3> QED BY <1>3, <2>1, <3>2, <3>3, <3>4
  <2> QED BY <2>1, <2>2
<1>10. ASSUME NEW i \in kept PROVE \E n \in D : f[n] = i
  <2>1. PICK n \in 1..k : f[n] = i
    BY <1>3
  <2>2. ASSUME NEW m \in 1..(n - 1), Layout(t[m]) = Layout(t[n]) PROVE FALSE
    <3>1. m \in 1..k /\ m < n
      BY <1>3
    <3>2. s[f[m]].file < s[f[n]].file
      BY <1>3, <3>1
    <3>3. Layout(s[i]) = Layout(s[f[m]]) /\ f[m] \in W
      BY <1>5, <2>1, <2>2, <3>1
    <3>4. s[i].file <= s[f[m]].file
      BY <3>3
    <3> QED BY <1>5, <2>1, <3>1, <3>2, <3>4
  <2>3. n \in D
    BY <2>2
  <2> QED BY <2>1, <2>3
<1>11. /\ c \in Nat /\ g \in [1..c -> D]
       /\ \A m, n \in 1..c : m < n => g[m] < g[n]
       /\ \A x \in D : \E n \in 1..c : g[n] = x
  BY <1>8, Zenon DEF Rises
<1>12. D \subseteq 1..k
  OBVIOUS
<1> HIDE DEF D, c, g
<1>13. h \in [1..c -> kept]
  BY <1>9, <1>11
<1>14. ASSUME NEW m \in 1..c, NEW n \in 1..c, m < n PROVE s[h[m]].file < s[h[n]].file
  <2>1. g[m] \in 1..k /\ g[n] \in 1..k /\ g[m] < g[n]
    BY <1>11, <1>12, <1>14, Zenon
  <2> QED BY <1>3, <2>1
<1>15. ASSUME NEW i \in kept PROVE \E n \in 1..c : h[n] = i
  <2>1. PICK x \in D : f[x] = i
    BY <1>10
  <2>2. PICK n \in 1..c : g[n] = x
    BY <1>11
  <2> QED BY <2>1, <2>2
<1>16. ASSUME NEW n \in 1..c PROVE At(t, D)[n] = s[h[n]]
  <2>1. g[n] \in 1..k
    BY <1>11, <1>12, Zenon
  <2> QED BY <1>5, <1>8, <2>1
<1>17. \A n \in 1..c : s[h[n]].file \in Nat
  BY <1>5, <1>11, <1>12, Zenon
<1> HIDE DEF h
<1>18. ASSUME NEW m \in 1..c, NEW n \in 1..c, h[m] = h[n] PROVE m = n
  <2>1. ~(m < n) /\ ~(n < m)
    BY <1>14, <1>17, <1>18
  <2> QED BY <1>11, <2>1
<1>19. Cardinality(kept) = c
  BY <1>11, <1>13, <1>15, <1>18, Counted, Zenon
<1>30. At(t, D) = [n \in 1..c |-> s[h[n]]]
  BY <1>8, <1>11, <1>16
<1>31. \A m, n \in 1..c : m < n => s[h[m]].file < s[h[n]].file
  BY <1>14, Zenon
<1>32. \A i \in kept : \E n \in 1..c : h[n] = i
  BY <1>15, Zenon
<1>33. Content(s, least) = [n \in 1..c |-> s[h[n]]]
  BY <1>4, <1>7, <1>30, Zenon
<1>34. RunsThrough(Content(s, least), s, kept, h)
  BY <1>11, <1>13, <1>19, <1>31, <1>32, <1>33, Zenon DEF RunsThrough
<1> QED BY <1>34, Zenon

\* Where the playlists that are long enough and have audio are.
LongEnough(s, least) == {i \in DOMAIN s : s[i].secs >= least /\ s[i].audio > 0}

\* Of those at W, the one with the lowest file among those alike in every count.
LowestOf(s, W) ==
    {i \in W : \A j \in W :
        (\A k \in {"secs", "chapters", "video", "audio", "subtitles"} : s[i][k] = s[j][k])
            => s[i].file <= s[j].file}

\* A title for each playlist that is kept, in the order of their numbers.
TitlesMadeOf(s, kept, titles) ==
    /\ Len(titles) = Cardinality(kept)
    /\ \A n \in DOMAIN titles :
        /\ titles[n].index = n - 1
        /\ \E i \in kept : /\ s[i].file = titles[n].source
                           /\ s[i].secs = titles[n].secs
                           /\ Len(titles[n].streams) = s[i].video + s[i].audio + s[i].subtitles
        /\ n > 1 => titles[n - 1].source < titles[n].source

\* Of the playlists worth offering one title for each layout.
LEMMA PlaylistRule ==
    ASSUME NEW s \in Seq(Playlist), NEW minSecs \in Int,
           \A i, j \in DOMAIN s : s[i].file = s[j].file => i = j,
           NEW least, least = IF minSecs <= 0 THEN 60 ELSE minSecs,
           NEW W, W = LongEnough(s, least),
           NEW kept, kept = LowestOf(s, W),
           NEW titles, titles = Titles(s, minSecs)
    PROVE  TitlesMadeOf(s, kept, titles)
<1> USE DEF TitlesMadeOf, LongEnough, LowestOf
<1>1. \A i \in DOMAIN s : s[i] \in Playlist
  OBVIOUS
<1>2. \A i \in DOMAIN s : s[i].audio \in Nat /\ s[i].secs \in Nat
  BY <1>1, TitleConstants
<1>3. W = WorthAt(s, minSecs)
  BY <1>2 DEF WorthAt, Worth, minRealSecs
<1>4. kept = KeptAt(s, W)
  <2>1. ASSUME NEW i, NEW j
        PROVE  Layout(s[i]) = Layout(s[j]) <=>
                \A k \in {"secs", "chapters", "video", "audio", "subtitles"} : s[i][k] = s[j][k]
    BY DEF Layout
  <2> QED BY <2>1 DEF KeptAt
<1> DEFINE c == Cardinality(kept)
<1>13. PICK h : RunsThrough(Content(s, minSecs), s, kept, h)
  BY <1>3, <1>4, ContentRule, Zenon
<1>5. /\ c \in Nat /\ h \in [1..c -> kept]
      /\ Content(s, minSecs) = [n \in 1..c |-> s[h[n]]]
      /\ \A m, n \in 1..c : m < n => s[h[m]].file < s[h[n]].file
      /\ \A i \in kept : \E n \in 1..c : h[n] = i
  BY <1>13, Zenon DEF RunsThrough
<1> HIDE DEF c
<1>6. DOMAIN Content(s, minSecs) = 1..c /\ \A n \in 1..c : Content(s, minSecs)[n] = s[h[n]]
  BY <1>5
<1>7. titles = [n \in 1..c |->
                    [index |-> n - 1, secs |-> s[h[n]].secs, size |-> 0,
                     source |-> s[h[n]].file, streams |-> placeholderStreams(s[h[n]])]]
  BY <1>6 DEF Titles
<1>8. Len(titles) = c /\ DOMAIN titles = 1..c
  BY <1>5, <1>7
<1>9. ASSUME NEW n \in 1..c
      PROVE  /\ titles[n].index = n - 1 /\ titles[n].secs = s[h[n]].secs
             /\ titles[n].source = s[h[n]].file
             /\ titles[n].streams = placeholderStreams(s[h[n]])
  BY <1>7
<1>10. \A n \in 1..c : h[n] \in kept /\ h[n] \in DOMAIN s
  BY <1>3, <1>4, <1>5
<1>11. ASSUME NEW n \in 1..c
       PROVE  \E i \in kept :
                /\ s[i].file = titles[n].source
                /\ s[i].secs = titles[n].secs
                /\ Len(titles[n].streams) = s[i].video + s[i].audio + s[i].subtitles
  <2>1. Len(placeholderStreams(s[h[n]])) = s[h[n]].video + s[h[n]].audio + s[h[n]].subtitles
    BY <1>1, <1>10, StreamsCounted
  <2> QED BY <1>9, <1>10, <2>1, Zenon
<1>12. ASSUME NEW n \in 1..c, n > 1 PROVE titles[n - 1].source < titles[n].source
  <2>1. n - 1 \in 1..c /\ n - 1 < n
    BY <1>5, <1>12
  <2> QED BY <1>5, <1>9, <2>1
<1> QED BY <1>8, <1>9, <1>11, <1>12, Zenon DEF c

\* g gives every member of S.
Gives(g, P, S) == g \in [P -> S] /\ \A x \in S : \E i \in P : g[i] = x

\* What some of finitely many positions give is finite.
LEMMA Given ==
    ASSUME NEW n \in Nat, NEW P, P \subseteq 1..n, NEW S, NEW g, Gives(g, P, S)
    PROVE  IsFiniteSet(S) /\ Cardinality(S) \in Nat
<1>1. IsFiniteSet(P)
  BY SomePositions, Zenon
<1>2. g \in Surjection(P, S)
  BY DEF Gives, Surjection
<1>3. IsFiniteSet(S)
  BY <1>1, <1>2, FS_Surjection, Zenon
<1> QED BY <1>3, FS_CardinalityType, Zenon

-----------------------------------------------------------------------------
(* What Scan's callback keeps of the lines. *)

\* l sets the entry x of the map that lines of this kind fill.
Tells(l, kind, x) == l.kind = kind /\ x = <<l.title, l.key>>

\* A map holds what the lines of a kind said last.
Mapped(map, r, kind) ==
    /\ \A x : x \in DOMAIN map <=> \E i \in DOMAIN r : Tells(r[i], kind, x)
    /\ \A x \in DOMAIN map : \E i \in DOMAIN r :
        /\ Tells(r[i], kind, x) /\ map[x] = r[i].value
        /\ \A j \in DOMAIN r : Tells(r[j], kind, x) => j <= i

\* One more line.
LEMMA OneMore ==
    ASSUME NEW T, NEW r \in Seq(T), NEW l \in T
    PROVE  /\ Append(r, l) \in Seq(T)
           /\ Len(r) \in Nat /\ DOMAIN r = 1..Len(r) /\ Len(Append(r, l)) = Len(r) + 1
           /\ DOMAIN Append(r, l) = DOMAIN r \cup {Len(r) + 1}
           /\ \A i \in DOMAIN r : i <= Len(r) /\ i \in Nat /\ Append(r, l)[i] = r[i]
           /\ Append(r, l)[Len(r) + 1] = l
  OBVIOUS

\* A line of the kind that fills the map puts its value there.
LEMMA PutKeeps ==
    ASSUME NEW r \in Seq(RobotLine), NEW map, NEW kind, Mapped(map, r, kind),
           NEW l \in RobotLine, l.kind = kind
    PROVE  Mapped(Put(map, <<l.title, l.key>>, l.value), Append(r, l), kind)
<1> DEFINE key == <<l.title, l.key>>
           m == Put(map, key, l.value)
           s == Append(r, l)
           N == Len(r)
<1>1. /\ N \in Nat /\ DOMAIN r = 1..N /\ DOMAIN s = DOMAIN r \cup {N + 1}
      /\ \A i \in DOMAIN r : i <= N /\ i \in Nat /\ s[i] = r[i]
      /\ s[N + 1] = l
  BY OneMore
<1>2. DOMAIN m = DOMAIN map \cup {key}
  BY DEF Put
<1>3. \A x \in DOMAIN m : m[x] = IF x = key THEN l.value ELSE map[x]
  BY DEF Put
<1>4. Tells(l, kind, key) /\ \A x : Tells(l, kind, x) => x = key
  BY DEF Tells
<1> HIDE DEF key, m, s, N
<1>5. ASSUME NEW x PROVE x \in DOMAIN m <=> \E i \in DOMAIN s : Tells(s[i], kind, x)
  <2>1. CASE x = key
    BY <1>1, <1>2, <1>4, <2>1
  <2>2. CASE x # key
    BY <1>1, <1>2, <1>4, <2>2 DEF Mapped
  <2> QED BY <2>1, <2>2
<1>6. ASSUME NEW x \in DOMAIN m
      PROVE  \E i \in DOMAIN s : /\ Tells(s[i], kind, x) /\ m[x] = s[i].value
                                 /\ \A j \in DOMAIN s : Tells(s[j], kind, x) => j <= i
  <2>1. CASE x = key
    <3>1. N + 1 \in DOMAIN s /\ Tells(s[N + 1], kind, x) /\ m[x] = s[N + 1].value
      BY <1>1, <1>3, <1>4, <2>1
    <3>2. \A j \in DOMAIN s : j <= N + 1
      BY <1>1
    <3> QED BY <3>1, <3>2
  <2>2. CASE x # key
    <3>1. x \in DOMAIN map /\ m[x] = map[x] /\ ~Tells(l, kind, x)
      BY <1>2, <1>3, <1>4, <2>2
    <3>2. PICK i \in DOMAIN r : /\ Tells(r[i], kind, x) /\ map[x] = r[i].value
                                /\ \A j \in DOMAIN r : Tells(r[j], kind, x) => j <= i
      BY <3>1, Zenon DEF Mapped
    <3>3. i \in DOMAIN s /\ Tells(s[i], kind, x) /\ m[x] = s[i].value
      BY <1>1, <3>1, <3>2
    <3>4. \A j \in DOMAIN s : Tells(s[j], kind, x) => j <= i
      BY <1>1, <3>1, <3>2
    <3> QED BY <3>3, <3>4
  <2> QED BY <2>1, <2>2
<1>7. Mapped(m, s, kind)
  BY <1>5, <1>6, Zenon DEF Mapped
<1> QED BY <1>7 DEF m, s, key

\* A line of another kind leaves the map as it is.
LEMMA OtherKeeps ==
    ASSUME NEW r \in Seq(RobotLine), NEW map, NEW kind, Mapped(map, r, kind),
           NEW l \in RobotLine, l.kind # kind
    PROVE  Mapped(map, Append(r, l), kind)
<1> DEFINE s == Append(r, l)
           N == Len(r)
<1>1. /\ N \in Nat /\ DOMAIN r = 1..N /\ DOMAIN s = DOMAIN r \cup {N + 1}
      /\ \A i \in DOMAIN r : i <= N /\ i \in Nat /\ s[i] = r[i]
      /\ s[N + 1] = l
  BY OneMore
<1>2. \A x : ~Tells(l, kind, x)
  BY DEF Tells
<1> HIDE DEF s, N
<1>3. ASSUME NEW x PROVE x \in DOMAIN map <=> \E i \in DOMAIN s : Tells(s[i], kind, x)
  BY <1>1, <1>2 DEF Mapped
<1>4. ASSUME NEW x \in DOMAIN map
      PROVE  \E i \in DOMAIN s : /\ Tells(s[i], kind, x) /\ map[x] = s[i].value
                                 /\ \A j \in DOMAIN s : Tells(s[j], kind, x) => j <= i
  <2>1. PICK i \in DOMAIN r : /\ Tells(r[i], kind, x) /\ map[x] = r[i].value
                              /\ \A j \in DOMAIN r : Tells(r[j], kind, x) => j <= i
    BY Zenon DEF Mapped
  <2>2. i \in DOMAIN s /\ Tells(s[i], kind, x) /\ map[x] = s[i].value
    BY <1>1, <2>1
  <2>3. \A j \in DOMAIN s : Tells(s[j], kind, x) => j <= i
    BY <1>1, <1>2, <2>1
  <2> QED BY <2>2, <2>3
<1>5. Mapped(map, s, kind)
  BY <1>3, <1>4, Zenon DEF Mapped
<1> QED BY <1>5 DEF s

\* What Scan's callback has kept is what the lines said.
ScanKeeps(s, r) ==
    /\ r \in Seq(RobotLine)
    /\ DOMAIN s = {"attrs", "streams", "announced", "count"}
    /\ Mapped(s.attrs, r, "TINFO")
    /\ Mapped(s.streams, r, "SINFO")
    /\ s.announced = Cardinality({i \in DOMAIN r : r[i].kind = "MSG"})

\* Before any line the maps are empty.
LEMMA ScanInit == ScanKeeps(NothingScanned, <<>>)
<1>1. <<>> \in Seq(RobotLine) /\ DOMAIN <<>> = {}
  OBVIOUS
<1>2. /\ DOMAIN NothingScanned = {"attrs", "streams", "announced", "count"}
      /\ NothingScanned.attrs = <<>> /\ NothingScanned.streams = <<>>
      /\ NothingScanned.announced = 0
  BY DEF NothingScanned
<1>3. \A kind : Mapped(<<>>, <<>>, kind)
  BY <1>1 DEF Mapped
<1>4. Cardinality({}) = 0
  BY FS_EmptySet
<1>5. {i \in DOMAIN <<>> : <<>>[i].kind = "MSG"} = {}
  BY <1>1
<1> QED BY <1>1, <1>2, <1>3, <1>4, <1>5 DEF ScanKeeps

\* Each line read keeps the maps what the lines said last.
LEMMA ScanStep ==
    ASSUME NEW s, NEW r, ScanKeeps(s, r), NEW l \in RobotLine
    PROVE  ScanKeeps(ScanLine(s, l), Append(r, l))
<1> DEFINE z == ScanLine(s, l)
           q == Append(r, l)
           key == <<l.title, l.key>>
           Msg(t) == {i \in DOMAIN t : t[i].kind = "MSG"}
<1>1. /\ r \in Seq(RobotLine) /\ Mapped(s.attrs, r, "TINFO") /\ Mapped(s.streams, r, "SINFO")
      /\ DOMAIN s = {"attrs", "streams", "announced", "count"}
      /\ s.announced = Cardinality(Msg(r))
  BY DEF ScanKeeps
<1>2. q \in Seq(RobotLine)
  BY <1>1
<1>3. /\ DOMAIN z = DOMAIN s
      /\ z.attrs = IF l.kind = "TINFO" THEN Put(s.attrs, key, l.value) ELSE s.attrs
      /\ z.streams = IF l.kind = "SINFO" THEN Put(s.streams, key, l.value) ELSE s.streams
      /\ z.announced = IF l.kind = "MSG" THEN s.announced + 1 ELSE s.announced
  <2>1. CASE l.kind = "TINFO"
    BY <1>1, <2>1 DEF ScanLine
  <2>2. CASE l.kind = "SINFO"
    BY <1>1, <2>2 DEF ScanLine
  <2>3. CASE l.kind = "MSG"
    BY <1>1, <2>3 DEF ScanLine
  <2>4. CASE l.kind = "TCOUNT"
    BY <1>1, <2>4 DEF ScanLine
  <2>5. CASE l.kind \notin {"TINFO", "SINFO", "MSG", "TCOUNT"}
    BY <1>1, <2>5 DEF ScanLine
  <2> QED BY <2>1, <2>2, <2>3, <2>4, <2>5
<1>4. Mapped(z.attrs, q, "TINFO")
  BY <1>1, <1>3, PutKeeps, OtherKeeps
<1>5. Mapped(z.streams, q, "SINFO")
  BY <1>1, <1>3, PutKeeps, OtherKeeps
<1>6. z.announced = Cardinality(Msg(q))
  <2> DEFINE N == Len(r)
  <2>1. /\ N \in Nat /\ DOMAIN r = 1..N /\ DOMAIN q = DOMAIN r \cup {N + 1}
        /\ \A i \in DOMAIN r : i <= N /\ i \in Nat /\ q[i] = r[i]
        /\ q[N + 1] = l
    BY <1>1, OneMore
  <2> HIDE DEF q, N, z
  <2>2. IsFiniteSet(Msg(r)) /\ N + 1 \notin Msg(r)
    BY <2>1, SomePositions
  <2>3. CASE l.kind = "MSG"
    <3>1. Msg(q) = Msg(r) \cup {N + 1}
      BY <2>1, <2>3
    <3> HIDE DEF Msg
    <3>2. Cardinality(Msg(r) \cup {N + 1}) = Cardinality(Msg(r)) + 1
      BY <2>2, FS_AddElement
    <3> QED BY <1>1, <1>3, <2>3, <3>1, <3>2
  <2>4. CASE l.kind # "MSG"
    <3>1. Msg(q) = Msg(r)
      BY <2>1, <2>4
    <3> QED BY <1>1, <1>3, <2>4, <3>1, Zenon
  <2> QED BY <2>3, <2>4
<1> HIDE DEF z, q
<1>7. ScanKeeps(z, q)
  BY <1>1, <1>2, <1>3, <1>4, <1>5, <1>6 DEF ScanKeeps
<1> QED BY <1>7 DEF z, q

\* The lines that say attribute k of title t.
SaidOf(r, t, k) ==
    {i \in DOMAIN r : r[i].kind = "TINFO" /\ r[i].title = t /\ r[i].key = k}

\* An attribute is what was said of it last, and 0 when nothing was.
LEMMA AttrRule ==
    ASSUME NEW s, NEW r, ScanKeeps(s, r), NEW t, NEW k
    PROVE  \/ SaidOf(r, t, k) = {} /\ Attr(s, t, k) = 0
           \/ \E i \in SaidOf(r, t, k) :
                Attr(s, t, k) = r[i].value /\ \A j \in SaidOf(r, t, k) : j <= i
<1>1. Mapped(s.attrs, r, "TINFO")
  BY DEF ScanKeeps
<1>2. \A i \in DOMAIN r : Tells(r[i], "TINFO", <<t, k>>) <=> i \in SaidOf(r, t, k)
  BY DEF Tells, SaidOf
<1>3. SaidOf(r, t, k) \subseteq DOMAIN r
  BY DEF SaidOf
<1>4. CASE <<t, k>> \in DOMAIN s.attrs
  <2>1. Attr(s, t, k) = s.attrs[<<t, k>>]
    BY <1>4 DEF Attr
  <2>2. PICK i \in DOMAIN r :
            /\ Tells(r[i], "TINFO", <<t, k>>) /\ s.attrs[<<t, k>>] = r[i].value
            /\ \A j \in DOMAIN r : Tells(r[j], "TINFO", <<t, k>>) => j <= i
    BY <1>1, <1>4, Zenon DEF Mapped
  <2>3. i \in SaidOf(r, t, k) /\ \A j \in SaidOf(r, t, k) : j <= i
    BY <1>2, <1>3, <2>2
  <2> QED BY <2>1, <2>2, <2>3
<1>5. CASE <<t, k>> \notin DOMAIN s.attrs
  <2>1. Attr(s, t, k) = 0
    BY <1>5 DEF Attr
  <2>2. \A i \in DOMAIN r : ~Tells(r[i], "TINFO", <<t, k>>)
    BY <1>1, <1>5, Zenon DEF Mapped
  <2>3. SaidOf(r, t, k) = {}
    BY <1>2, <1>3, <2>2
  <2> QED BY <2>1, <2>3
<1> QED BY <1>4, <1>5

\* The numbers of a title's streams.
NumbersOf(s, t) == {k[2] : k \in {key \in DOMAIN s.streams : key[1] = t}}

\* The streams of a title are those its SINFO lines named, each once, rising.
LEMMA StreamNumbers ==
    ASSUME NEW s, NEW r, ScanKeeps(s, r), NEW t
    PROVE  /\ NumbersOf(s, t) =
                {r[i].key : i \in {j \in DOMAIN r : r[j].kind = "SINFO" /\ r[j].title = t}}
           /\ Rises(Listed(NumbersOf(s, t)), NumbersOf(s, t))
<1> DEFINE P == {j \in DOMAIN r : r[j].kind = "SINFO" /\ r[j].title = t}
           S == NumbersOf(s, t)
<1>1. /\ r \in Seq(RobotLine) /\ Mapped(s.streams, r, "SINFO")
      /\ Len(r) \in Nat /\ DOMAIN r = 1..Len(r)
  BY DEF ScanKeeps
<1>2. ASSUME NEW x PROVE x \in DOMAIN s.streams <=>
                            \E i \in DOMAIN r : r[i].kind = "SINFO" /\ x = <<r[i].title, r[i].key>>
  BY <1>1, Zenon DEF Mapped, Tells
<1>3. S = {r[i].key : i \in P}
  <2>1. ASSUME NEW n \in S PROVE \E i \in P : n = r[i].key
    <3>1. PICK x \in DOMAIN s.streams : x[1] = t /\ n = x[2]
      BY DEF NumbersOf
    <3>2. PICK i \in DOMAIN r : r[i].kind = "SINFO" /\ x = <<r[i].title, r[i].key>>
      BY <1>2
    <3> QED BY <3>1, <3>2
  <2>2. ASSUME NEW i \in P PROVE r[i].key \in S
    <3>1. <<r[i].title, r[i].key>> \in DOMAIN s.streams
      BY <1>2
    <3> QED BY <3>1 DEF NumbersOf
  <2> HIDE DEF S, P
  <2> QED BY <2>1, <2>2
<1>4. \A i \in P : r[i].key \in Nat
  <2>1. \A i \in P : r[i] \in RobotLine
    BY <1>1
  <2> HIDE DEF P
  <2> QED BY <2>1, TitleConstants
<1>5. P \subseteq 1..Len(r)
  BY <1>1
<1> HIDE DEF P, S
<1>6. IsFiniteSet(S)
  <2> DEFINE g == [i \in P |-> r[i].key]
  <2>1. Gives(g, P, S)
    BY <1>3 DEF Gives
  <2>2. Len(r) \in Nat
    BY <1>1
  <2> HIDE DEF g
  <2> QED BY <1>5, <2>1, <2>2, Given
<1>7. S \subseteq Int
  BY <1>3, <1>4
<1>8. Rises(Listed(S), S)
  BY <1>6, <1>7, ListedIs, Zenon
<1> QED BY <1>3, <1>8 DEF P, S

\* k is the title t as the attributes and the stream lines have it.
TitleAsSaid(s, r, t, k) ==
    /\ k.index = t
    /\ k.secs = Attr(s, t, attrDuration)
    /\ k.size = Attr(s, t, attrDiskSizeBytes)
    /\ k.source = Attr(s, t, attrSourceFileName)
    /\ {k.streams[n][1] : n \in DOMAIN k.streams} =
            {r[i].key : i \in {j \in DOMAIN r : r[j].kind = "SINFO" /\ r[j].title = t}}
    /\ \A n \in 2..Len(k.streams) : k.streams[n - 1][1] < k.streams[n][1]

\* A title of the scan.
LEMMA ScanTitleRule ==
    ASSUME NEW s, NEW r, ScanKeeps(s, r), NEW t, NEW k, k = ScanTitle(s, t)
    PROVE  TitleAsSaid(s, r, t, k)
<1> USE DEF TitleAsSaid
<1> DEFINE S == NumbersOf(s, t)
           p == Listed(S)
           c == Cardinality(S)
<1>1. k = [index |-> t, secs |-> Attr(s, t, attrDuration), size |-> Attr(s, t, attrDiskSizeBytes),
           source |-> Attr(s, t, attrSourceFileName),
           streams |-> [n \in DOMAIN p |-> <<p[n], s.streams[<<t, p[n]>>]>>]]
  BY DEF ScanTitle, NumbersOf
<1>2. /\ c \in Nat /\ p \in [1..c -> S]
      /\ \A m, n \in 1..c : m < n => p[m] < p[n]
      /\ \A x \in S : \E n \in 1..c : p[n] = x
  BY StreamNumbers DEF Rises
<1>3. S = {r[i].key : i \in {j \in DOMAIN r : r[j].kind = "SINFO" /\ r[j].title = t}}
  BY StreamNumbers
<1> HIDE DEF S, p, c
<1>4. k.streams = [n \in 1..c |-> <<p[n], s.streams[<<t, p[n]>>]>>]
  BY <1>1, <1>2
<1>5. Len(k.streams) = c /\ DOMAIN k.streams = 1..c
  BY <1>2, <1>4
<1>6. \A n \in 1..c : k.streams[n][1] = p[n]
  BY <1>4
<1>7. {k.streams[n][1] : n \in DOMAIN k.streams} = S
  BY <1>2, <1>5, <1>6
<1>8. \A n \in 2..c : n - 1 \in 1..c /\ n \in 1..c /\ n - 1 < n
  BY <1>2
<1>9. \A n \in 2..Len(k.streams) : k.streams[n - 1][1] < k.streams[n][1]
  BY <1>2, <1>5, <1>6, <1>8
<1>10. /\ k.index = t
       /\ k.secs = Attr(s, t, attrDuration)
       /\ k.size = Attr(s, t, attrDiskSizeBytes)
       /\ k.source = Attr(s, t, attrSourceFileName)
  BY <1>1
<1> QED BY <1>3, <1>7, <1>9, <1>10, Zenon

\* titles are the titles that TINFO lines named, each once, rising.
ListsTitles(s, r, titles) ==
    /\ {titles[n].index : n \in DOMAIN titles} =
            {r[i].title : i \in {j \in DOMAIN r : r[j].kind = "TINFO"}}
    /\ Len(titles) \in Nat /\ DOMAIN titles = 1..Len(titles)
    /\ \A n \in DOMAIN titles : titles[n] = ScanTitle(s, titles[n].index)
    /\ \A n \in DOMAIN titles : n > 1 => titles[n - 1].index < titles[n].index

\* The titles of the scan.
LEMMA ScanTitles ==
    ASSUME NEW s, NEW r, ScanKeeps(s, r), NEW titles, titles = Scan(s).titles
    PROVE  ListsTitles(s, r, titles)
<1> USE DEF ListsTitles
<1> DEFINE P == {j \in DOMAIN r : r[j].kind = "TINFO"}
           S == TitleIndices(s)
           p == Listed(S)
           c == Cardinality(S)
<1>1. /\ r \in Seq(RobotLine) /\ Mapped(s.attrs, r, "TINFO")
      /\ Len(r) \in Nat /\ DOMAIN r = 1..Len(r)
  BY DEF ScanKeeps
<1>2. ASSUME NEW x PROVE x \in DOMAIN s.attrs <=>
                            \E i \in DOMAIN r : r[i].kind = "TINFO" /\ x = <<r[i].title, r[i].key>>
  BY <1>1, Zenon DEF Mapped, Tells
<1>3. S = {r[i].title : i \in P}
  <2>1. ASSUME NEW n \in S PROVE \E i \in P : n = r[i].title
    <3>1. PICK x \in DOMAIN s.attrs : n = x[1]
      BY DEF TitleIndices
    <3>2. PICK i \in DOMAIN r : r[i].kind = "TINFO" /\ x = <<r[i].title, r[i].key>>
      BY <1>2
    <3> QED BY <3>1, <3>2
  <2>2. ASSUME NEW i \in P PROVE r[i].title \in S
    <3>1. <<r[i].title, r[i].key>> \in DOMAIN s.attrs
      BY <1>2
    <3> QED BY <3>1 DEF TitleIndices
  <2> HIDE DEF S, P
  <2> QED BY <2>1, <2>2
<1>4. \A i \in P : r[i].title \in Nat
  <2>1. \A i \in P : r[i] \in RobotLine
    BY <1>1
  <2> HIDE DEF P
  <2> QED BY <2>1, TitleConstants
<1>5. P \subseteq 1..Len(r)
  BY <1>1
<1>6. titles = [n \in DOMAIN p |-> ScanTitle(s, p[n])]
  BY DEF Scan, Scanned
<1> HIDE DEF P, S
<1>7. IsFiniteSet(S)
  <2> DEFINE g == [i \in P |-> r[i].title]
  <2>1. Gives(g, P, S)
    BY <1>3 DEF Gives
  <2>2. Len(r) \in Nat
    BY <1>1
  <2> HIDE DEF g
  <2> QED BY <1>5, <2>1, <2>2, Given
<1>8. S \subseteq Int
  BY <1>3, <1>4
<1>9. Rises(p, S)
  BY <1>7, <1>8, ListedIs, Zenon
<1>10. /\ c \in Nat /\ p \in [1..c -> S]
       /\ \A m, n \in 1..c : m < n => p[m] < p[n]
       /\ \A x \in S : \E n \in 1..c : p[n] = x
  BY <1>9 DEF Rises
<1> HIDE DEF p, c
<1>11. titles = [n \in 1..c |-> ScanTitle(s, p[n])]
  BY <1>6, <1>10
<1>12. Len(titles) = c /\ DOMAIN titles = 1..c
  BY <1>10, <1>11
<1>13. \A n \in 1..c : titles[n] = ScanTitle(s, p[n]) /\ titles[n].index = p[n]
  <2>1. \A n \in 1..c : titles[n] = ScanTitle(s, p[n])
    BY <1>11, Zenon
  <2>2. \A t : ScanTitle(s, t).index = t
    BY DEF ScanTitle
  <2> QED BY <2>1, <2>2, Zenon
<1>14. {titles[n].index : n \in DOMAIN titles} = S
  <2>1. \A n \in 1..c : titles[n].index \in S
    BY <1>10, <1>13
  <2>2. ASSUME NEW x \in S PROVE \E n \in 1..c : titles[n].index = x
    BY <1>10, <1>13
  <2> QED BY <1>12, <2>1, <2>2, Zenon
<1>15. ASSUME NEW n \in 1..c, n > 1 PROVE titles[n - 1].index < titles[n].index
  <2>1. n - 1 \in 1..c /\ n - 1 < n
    BY <1>10, <1>15
  <2> QED BY <1>10, <1>13, <2>1
<1> QED BY <1>3, <1>10, <1>12, <1>13, <1>14, <1>15, Zenon DEF P

\* What was analysed and not offered is warned of.
LEMMA ScanWarns ==
    ASSUME NEW s, NEW r, ScanKeeps(s, r), NEW o, o = Scan(s),
           Cardinality({i \in DOMAIN r : r[i].kind = "MSG"}) > Len(o.titles)
    PROVE  o.warnings # {}
<1>1. s.announced > Len(o.titles)
  BY DEF ScanKeeps
<1>2. \E titles : o = Scanned(s, titles)
  BY DEF Scan
<1>3. PICK titles : o = Scanned(s, titles)
  BY <1>2
<1> DEFINE more == {w \in {"analysed more than offered"} : s.announced > Len(titles)}
           other == {w \in {"TCOUNT disagrees"} : s.count > 0 /\ s.count # Len(titles)}
<1>4. /\ o.titles = titles
      /\ o.warnings = more \cup other
  <2> DEFINE print == ComputeFingerprint("label", titles)
             type == inferType(titles)
             none == titles = <<>>
  <2>1. o = [titles |-> titles, type |-> type, fingerprint |-> print,
             warnings |-> more \cup other, failed |-> none]
    BY <1>3, Zenon DEF Scanned
  <2> HIDE DEF more, other, print, type, none
  <2> QED BY <2>1
<1>5. "analysed more than offered" \in more
  BY <1>1, <1>4, Zenon
<1> QED BY <1>4, <1>5, Zenon

-----------------------------------------------------------------------------
(* The fingerprint. *)

\* The durations of the titles, and their sizes.
SecsOf(t) == [i \in 1..Len(t) |-> t[i].secs]
SizesOf(t) == [i \in 1..Len(t) |-> t[i].size]

\* f is the fingerprint of titles that q lists by duration and size.
Printed(t, f, q) ==
    /\ Arranges(q, Len(t), SecsOf(t), SizesOf(t))
    /\ f = <<"label", Len(t), [n \in 1..Len(t) |-> <<t[q[n]].secs, t[q[n]].size>>]>>

\* The fingerprint is the titles sorted by duration and size, under some arrangement.
LEMMA PrintIs ==
    ASSUME NEW t \in Seq(Title)
    PROVE  \E q : Printed(t, ComputeFingerprint("label", t), q)
<1> DEFINE k == Len(t)
           e == [i \in DOMAIN t |-> <<t[i].secs, t[i].size>>]
           R == {x \in (DOMAIN e) \X (DOMAIN e) :
                    \/ e[x[1]][1] < e[x[2]][1] \/ (e[x[1]][1] = e[x[2]][1] /\ e[x[1]][2] < e[x[2]][2])
                    \/ ~(e[x[2]][1] < e[x[1]][1] \/ (e[x[2]][1] = e[x[1]][1] /\ e[x[2]][2] < e[x[1]][2]))
                       /\ x[1] < x[2]}
           q == InOrder(DOMAIN e, R)
<1>1. ComputeFingerprint("label", t) = <<"label", k, [n \in DOMAIN e |-> e[q[n]]]>>
  BY DEF ComputeFingerprint, Sorted, Stable
<1>2. k \in Nat /\ DOMAIN t = 1..k /\ DOMAIN e = 1..k
  OBVIOUS
<1>3. \A i \in 1..k : t[i].secs \in Nat /\ t[i].size \in Nat
  <2>1. \A i \in 1..k : t[i] \in Title
    OBVIOUS
  <2> QED BY <2>1, TitleConstants
<1>4. \A i \in 1..k : e[i][1] = t[i].secs /\ e[i][2] = t[i].size /\ e[i] = <<t[i].secs, t[i].size>>
  BY <1>2
<1>5. \A i \in 1..k : SecsOf(t)[i] = t[i].secs /\ SizesOf(t)[i] = t[i].size
  BY DEF SecsOf, SizesOf
<1>6. SecsOf(t) \in [1..k -> Int] /\ SizesOf(t) \in [1..k -> Int]
  BY <1>3 DEF SecsOf, SizesOf
<1> HIDE DEF e
<1>7. ASSUME NEW i \in 1..k, NEW j \in 1..k
      PROVE  <<i, j>> \in R <=>
                \/ SecsOf(t)[i] < SecsOf(t)[j]
                \/ SecsOf(t)[i] = SecsOf(t)[j] /\ SizesOf(t)[i] < SizesOf(t)[j]
                \/ SecsOf(t)[i] = SecsOf(t)[j] /\ SizesOf(t)[i] = SizesOf(t)[j] /\ i < j
  <2>1. <<i, j>> \in R <=>
            \/ e[i][1] < e[j][1] \/ (e[i][1] = e[j][1] /\ e[i][2] < e[j][2])
            \/ ~(e[j][1] < e[i][1] \/ (e[j][1] = e[i][1] /\ e[j][2] < e[i][2])) /\ i < j
    BY <1>2
  <2> HIDE DEF R
  <2> QED BY <1>3, <1>4, <1>5, <2>1
<1> HIDE DEF R
<1>8. Arranges(q, k, SecsOf(t), SizesOf(t))
  <2>1. ByKeys(1..k, SecsOf(t), SizesOf(t), R)
    BY <1>7, Zenon DEF ByKeys
  <2> HIDE DEF k
  <2> QED BY <1>2, <1>6, <2>1, KeySort, Zenon
<1> HIDE DEF q
<1>9. q \in [1..k -> 1..k]
  BY <1>8 DEF Arranges
<1>10. [n \in DOMAIN e |-> e[q[n]]] = [n \in 1..k |-> <<t[q[n]].secs, t[q[n]].size>>]
  BY <1>2, <1>4, <1>9
<1>11. Printed(t, ComputeFingerprint("label", t), q)
  BY <1>1, <1>8, <1>10, Zenon DEF Printed
<1> QED BY <1>11

\* How many of the titles have this duration and this size.
CountOf(t, secs, size) == Cardinality({i \in DOMAIN t : t[i].secs = secs /\ t[i].size = size})

\* The durations and the sizes, as q arranges them.
SortedSecs(t, q) == [n \in 1..Len(t) |-> t[q[n]].secs]
SortedSizes(t, q) == [n \in 1..Len(t) |-> t[q[n]].size]

\* The k pairs of a and b do not fall, and have each duration and size as often as
\* the titles t do.
Counts(t, k, a, b) ==
    /\ NonFalling(k, a, b)
    /\ \A u, v : Cardinality(Places(k, a, b, u, v)) = CountOf(t, u, v)
    /\ \A n \in 1..k : \E w \in Members(t) : w.secs = a[n] /\ w.size = b[n]
    /\ \A w \in Members(t) : \E n \in 1..k : w.secs = a[n] /\ w.size = b[n]

\* The list in a fingerprint has each value as often as the disc does.
LEMMA PrintCounts ==
    ASSUME NEW t \in Seq(Title), NEW f, NEW q, Printed(t, f, q), NEW k, k = Len(t),
           NEW a, a = SortedSecs(t, q), NEW b, b = SortedSizes(t, q)
    PROVE  Counts(t, k, a, b)
<1> USE DEF SortedSecs, SortedSizes
<1>1. k \in Nat /\ DOMAIN t = 1..k
  OBVIOUS
<1>2. /\ q \in [1..k -> 1..k]
      /\ \A x \in 1..k : \E n \in 1..k : q[n] = x
      /\ \A m, n \in 1..k : q[m] = q[n] => m = n
      /\ \A m, n \in 1..k : m < n =>
            \/ SecsOf(t)[q[m]] < SecsOf(t)[q[n]]
            \/ SecsOf(t)[q[m]] = SecsOf(t)[q[n]] /\ SizesOf(t)[q[m]] < SizesOf(t)[q[n]]
            \/ SecsOf(t)[q[m]] = SecsOf(t)[q[n]] /\ SizesOf(t)[q[m]] = SizesOf(t)[q[n]] /\ q[m] < q[n]
  BY DEF Printed, Arranges
<1>3. \A i \in 1..k : t[i].secs \in Nat /\ t[i].size \in Nat
  <2>1. \A i \in 1..k : t[i] \in Title
    OBVIOUS
  <2> QED BY <2>1, TitleConstants
<1>4. \A i \in 1..k : SecsOf(t)[i] = t[i].secs /\ SizesOf(t)[i] = t[i].size
  BY DEF SecsOf, SizesOf
<1>5. \A n \in 1..k : a[n] = t[q[n]].secs /\ b[n] = t[q[n]].size
  OBVIOUS
<1>6. a \in [1..k -> Int] /\ b \in [1..k -> Int]
  BY <1>2, <1>3
<1>7. ASSUME NEW m \in 1..k, NEW n \in 1..k, m < n
      PROVE  a[m] < a[n] \/ (a[m] = a[n] /\ b[m] <= b[n])
  <2>1. q[m] \in 1..k /\ q[n] \in 1..k
    BY <1>2, Zenon
  <2>2. /\ a[m] = SecsOf(t)[q[m]] /\ a[n] = SecsOf(t)[q[n]]
        /\ b[m] = SizesOf(t)[q[m]] /\ b[n] = SizesOf(t)[q[n]]
    BY <1>4, <1>5, <2>1
  <2>3. b[m] \in Int /\ b[n] \in Int
    BY <1>6
  <2>4. \/ SecsOf(t)[q[m]] < SecsOf(t)[q[n]]
        \/ SecsOf(t)[q[m]] = SecsOf(t)[q[n]] /\ SizesOf(t)[q[m]] < SizesOf(t)[q[n]]
        \/ SecsOf(t)[q[m]] = SecsOf(t)[q[n]] /\ SizesOf(t)[q[m]] = SizesOf(t)[q[n]] /\ q[m] < q[n]
    BY <1>2, <1>7, Zenon
  <2> QED BY <2>2, <2>3, <2>4
<1>8. NonFalling(k, a, b)
  BY <1>6, <1>7 DEF NonFalling
<1>9. ASSUME NEW u, NEW v PROVE Cardinality(Places(k, a, b, u, v)) = CountOf(t, u, v)
  <2> DEFINE S == Places(k, a, b, u, v)
             T == {i \in DOMAIN t : t[i].secs = u /\ t[i].size = v}
             g == [n \in S |-> q[n]]
  <2>1. S \subseteq 1..k /\ \A n \in 1..k : n \in S <=> t[q[n]].secs = u /\ t[q[n]].size = v
    BY <1>5 DEF Places
  <2>2. g \in [S -> T]
    BY <1>1, <1>2, <2>1, Zenon
  <2>3. \A m, n \in S : g[m] = g[n] => m = n
    BY <1>2, <2>1
  <2>4. ASSUME NEW i \in T PROVE \E n \in S : g[n] = i
    <3>1. PICK n \in 1..k : q[n] = i
      BY <1>1, <1>2
    <3>2. n \in S
      BY <2>1, <3>1
    <3> QED BY <3>1, <3>2, Zenon
  <2> HIDE DEF S, T, g
  <2>5. g \in Bijection(S, T)
    BY <2>2, <2>3, <2>4 DEF Bijection, Injection, Surjection, IsInjective
  <2>6. ExistsBijection(S, T)
    BY <2>5, Zenon DEF ExistsBijection
  <2>7. IsFiniteSet(S)
    BY <1>1, <2>1, SomePositions, Zenon
  <2>8. Cardinality(T) = Cardinality(S)
    BY <2>6, <2>7, FS_Bijection, Zenon
  <2> QED BY <2>8 DEF CountOf, S, T
<1>10. ASSUME NEW n \in 1..k PROVE \E w \in Members(t) : w.secs = a[n] /\ w.size = b[n]
  <2>1. t[q[n]] \in Members(t)
    BY <1>1, <1>2, Zenon DEF Members
  <2> QED BY <1>5, <2>1
<1>11. ASSUME NEW w \in Members(t) PROVE \E n \in 1..k : w.secs = a[n] /\ w.size = b[n]
  <2>1. PICK i \in 1..k : w = t[i]
    BY <1>1 DEF Members
  <2>2. PICK n \in 1..k : q[n] = i
    BY <1>2
  <2> QED BY <1>5, <2>1, <2>2
<1> QED BY <1>8, <1>9, <1>10, <1>11, Zenon DEF Counts

\* One fingerprint is the same titles, as often.
LEMMA FingerprintRule ==
    ASSUME NEW t \in Seq(Title), NEW u \in Seq(Title)
    PROVE  ComputeFingerprint("label", t) = ComputeFingerprint("label", u) <=>
             \A w \in Members(t) \cup Members(u) :
                CountOf(t, w.secs, w.size) = CountOf(u, w.secs, w.size)
<1> DEFINE k == Len(t)
           l == Len(u)
           f == ComputeFingerprint("label", t)
           g == ComputeFingerprint("label", u)
<1>1. PICK q : Printed(t, f, q)
  BY PrintIs
<1>2. PICK p : Printed(u, g, p)
  BY PrintIs
<1> HIDE DEF f, g
<1> DEFINE a == SortedSecs(t, q)
           b == SortedSizes(t, q)
           c == SortedSecs(u, p)
           d == SortedSizes(u, p)
<1>3. /\ NonFalling(k, a, b)
      /\ \A x, y : Cardinality(Places(k, a, b, x, y)) = CountOf(t, x, y)
      /\ \A n \in 1..k : \E w \in Members(t) : w.secs = a[n] /\ w.size = b[n]
      /\ \A w \in Members(t) : \E n \in 1..k : w.secs = a[n] /\ w.size = b[n]
  <2>1. Counts(t, k, a, b)
    BY <1>1, PrintCounts
  <2> QED BY <2>1, Zenon DEF Counts
<1>4. /\ NonFalling(l, c, d)
      /\ \A x, y : Cardinality(Places(l, c, d, x, y)) = CountOf(u, x, y)
      /\ \A n \in 1..l : \E w \in Members(u) : w.secs = c[n] /\ w.size = d[n]
      /\ \A w \in Members(u) : \E n \in 1..l : w.secs = c[n] /\ w.size = d[n]
  <2>1. Counts(u, l, c, d)
    BY <1>2, PrintCounts
  <2> QED BY <2>1, Zenon DEF Counts
<1> DEFINE x == [n \in 1..k |-> <<t[q[n]].secs, t[q[n]].size>>]
           y == [n \in 1..l |-> <<u[p[n]].secs, u[p[n]].size>>]
<1>5. f = <<"label", k, x>> /\ g = <<"label", l, y>>
  BY <1>1, <1>2 DEF Printed
<1>6. \A n \in 1..k : x[n] = <<a[n], b[n]>>
  BY DEF SortedSecs, SortedSizes
<1>7. \A n \in 1..l : y[n] = <<c[n], d[n]>>
  BY DEF SortedSecs, SortedSizes
<1>8. k \in Nat /\ l \in Nat
  OBVIOUS
<1>9. f = g <=> k = l /\ x = y
  BY <1>5
<1>10. x = y <=> k = l /\ \A n \in 1..k : x[n] = y[n]
  <2>1. DOMAIN x = 1..k /\ DOMAIN y = 1..l
    OBVIOUS
  <2>2. ASSUME x = y PROVE k = l
    <3>1. 1..k = 1..l
      BY <2>1, <2>2
    <3> HIDE DEF x, y
    <3> QED BY <1>8, <3>1
  <2>3. ASSUME k = l, \A n \in 1..k : x[n] = y[n] PROVE x = y
    BY <2>3, Zenon
  <2> HIDE DEF x, y
  <2> QED BY <2>2, <2>3
<1> HIDE DEF a, b, c, d, k, l, x, y
<1>11. ASSUME f = g, NEW w PROVE CountOf(t, w.secs, w.size) = CountOf(u, w.secs, w.size)
  <2>1. k = l /\ \A n \in 1..k : x[n] = y[n]
    BY <1>9, <1>10, <1>11
  <2>2. \A n \in 1..k : a[n] = c[n] /\ b[n] = d[n]
    BY <1>6, <1>7, <2>1
  <2>3. Places(k, a, b, w.secs, w.size) = Places(l, c, d, w.secs, w.size)
    BY <2>1, <2>2 DEF Places
  <2>4. CountOf(t, w.secs, w.size) = Cardinality(Places(k, a, b, w.secs, w.size))
    BY <1>3
  <2>5. CountOf(u, w.secs, w.size) = Cardinality(Places(l, c, d, w.secs, w.size))
    BY <1>4
  <2> QED BY <2>3, <2>4, <2>5
<1>12. ASSUME \A w \in Members(t) \cup Members(u) :
                CountOf(t, w.secs, w.size) = CountOf(u, w.secs, w.size)
       PROVE  f = g
  <2>1. AsOften(k, a, b, l, c, d)
    <3> SUFFICES ASSUME NEW n \in 1..k
                 PROVE  Cardinality(Places(k, a, b, a[n], b[n])) =
                        Cardinality(Places(l, c, d, a[n], b[n]))
      BY DEF AsOften
    <3>1. PICK w \in Members(t) : w.secs = a[n] /\ w.size = b[n]
      BY <1>3, Zenon
    <3>2. CountOf(t, a[n], b[n]) = CountOf(u, a[n], b[n])
      BY <1>12, <3>1
    <3> QED BY <1>3, <1>4, <3>2
  <2>2. AsOften(l, c, d, k, a, b)
    <3> SUFFICES ASSUME NEW n \in 1..l
                 PROVE  Cardinality(Places(l, c, d, c[n], d[n])) =
                        Cardinality(Places(k, a, b, c[n], d[n]))
      BY DEF AsOften
    <3>1. PICK w \in Members(u) : w.secs = c[n] /\ w.size = d[n]
      BY <1>4, Zenon
    <3>2. CountOf(t, c[n], d[n]) = CountOf(u, c[n], d[n])
      BY <1>12, <3>1
    <3> QED BY <1>3, <1>4, <3>2
  <2>3. k = l /\ \A n \in 1..k : a[n] = c[n] /\ b[n] = d[n]
    <3>1. NonFalling(k, a, b) /\ NonFalling(l, c, d)
      BY <1>3, <1>4
    <3> QED BY <1>8, <2>1, <2>2, <3>1, SameLists
  <2>4. \A n \in 1..k : x[n] = y[n]
    BY <1>6, <1>7, <2>3
  <2> QED BY <1>9, <1>10, <2>3, <2>4
<1> QED BY <1>11, <1>12 DEF f, g

-----------------------------------------------------------------------------
(* The middle of a set of titles is what a sorted list of them has there. *)

\* The median of the durations at I: half or fewer are longer, more than half as long.
MiddleIn(r, I) ==
    CHOOSE m \in {r[i].secs : i \in I} :
        /\ Cardinality({i \in I : r[i].secs > m}) <= Cardinality(I) \div 2
        /\ Cardinality({i \in I : r[i].secs >= m}) > Cardinality(I) \div 2

\* p lists the c titles I, the longest first.
Downward(p, c, r, I) ==
    /\ c \in Nat /\ p \in [1..c -> I]
    /\ \A i \in I : r[i].secs \in Nat
    /\ \A m, n \in 1..c : p[m] = p[n] => m = n
    /\ \A i \in I : \E n \in 1..c : p[n] = i
    /\ \A m, n \in 1..c : m < n => r[p[m]].secs >= r[p[n]].secs

\* Of the durations at I, h or fewer are longer than m and more than h at least m.
Half(r, I, m, h) ==
    /\ Cardinality({i \in I : r[i].secs > m}) <= h
    /\ Cardinality({i \in I : r[i].secs >= m}) > h

\* The median is the duration in the middle of a list from longest to shortest.
LEMMA MiddleIs ==
    ASSUME NEW c, NEW p, NEW r, NEW I, Downward(p, c, r, I), c >= 1
    PROVE  MiddleIn(r, I) = r[p[c \div 2 + 1]].secs
<1> DEFINE h == c \div 2
           v == r[p[h + 1]].secs
           Above(m) == {i \in I : r[i].secs > m}
           From(m) == {i \in I : r[i].secs >= m}
<1>1. /\ c \in Nat /\ p \in [1..c -> I]
      /\ \A i \in I : r[i].secs \in Nat
      /\ \A m, n \in 1..c : p[m] = p[n] => m = n
      /\ \A i \in I : \E n \in 1..c : p[n] = i
      /\ \A m, n \in 1..c : m < n => r[p[m]].secs >= r[p[n]].secs
  BY DEF Downward
<1>2. h \in Nat /\ h + 1 \in 1..c
  BY <1>1
<1>3. IsFiniteSet(I) /\ Cardinality(I) = c
  BY <1>1, Counted
<1> HIDE DEF h
<1>4. p[h + 1] \in I /\ v \in Nat
  BY <1>1, <1>2
<1>5. ASSUME NEW j \in 0..c
      PROVE  IsFiniteSet({p[n] : n \in 1..j}) /\ Cardinality({p[n] : n \in 1..j}) = j
  <2> DEFINE S == {p[n] : n \in 1..j}
             g == [n \in 1..j |-> p[n]]
  <2>1. j \in Nat /\ 1..j \subseteq 1..c
    BY <1>1
  <2>2. g \in [1..j -> S] /\ \A x \in S : \E n \in 1..j : g[n] = x
    OBVIOUS
  <2>3. \A m, n \in 1..j : g[m] = g[n] => m = n
    BY <1>1, <2>1
  <2> HIDE DEF g, S
  <2>4. IsFiniteSet(S) /\ Cardinality(S) = j
    BY <2>1, <2>2, <2>3, Counted, Zenon
  <2> QED BY <2>4 DEF S
<1>6. \A m : /\ IsFiniteSet(Above(m)) /\ Cardinality(Above(m)) \in Nat
             /\ IsFiniteSet(From(m)) /\ Cardinality(From(m)) \in Nat
  <2>1. \A m : Above(m) \subseteq I /\ From(m) \subseteq I
    OBVIOUS
  <2> HIDE DEF Above, From
  <2>2. \A m : IsFiniteSet(Above(m)) /\ IsFiniteSet(From(m))
    BY <1>3, <2>1, FS_Subset
  <2> QED BY <2>2, FS_CardinalityType
<1>7. Cardinality(Above(v)) <= h
  <2>1. Above(v) \subseteq {p[n] : n \in 1..h}
    <3>1. SUFFICES ASSUME NEW i \in Above(v) PROVE \E n \in 1..h : i = p[n]
      OBVIOUS
    <3>2. PICK n \in 1..c : p[n] = i
      BY <1>1
    <3>3. r[p[n]].secs > v
      BY <3>2
    <3>4. ~(h + 1 < n) /\ n # h + 1
      <4>1. r[p[n]].secs \in Nat
        BY <1>1
      <4> QED BY <1>1, <1>2, <1>4, <3>3, <4>1
    <3>5. n \in 1..h
      BY <1>2, <3>4
    <3> QED BY <3>2, <3>5
  <2>2. h \in 0..c
    BY <1>1, <1>2
  <2>3. IsFiniteSet({p[n] : n \in 1..h}) /\ Cardinality({p[n] : n \in 1..h}) = h
    BY <1>5, <2>2
  <2> HIDE DEF Above
  <2> QED BY <2>1, <2>3, FS_Subset
<1>8. Cardinality(From(v)) > h
  <2>1. {p[n] : n \in 1..(h + 1)} \subseteq From(v)
    <3>1. SUFFICES ASSUME NEW n \in 1..(h + 1) PROVE p[n] \in From(v)
      OBVIOUS
    <3>2. n \in 1..c /\ p[n] \in I /\ r[p[n]].secs \in Nat
      BY <1>1, <1>2
    <3>3. n = h + 1 \/ n < h + 1
      BY <1>2
    <3>4. r[p[n]].secs >= v
      BY <1>1, <1>2, <1>4, <3>2, <3>3
    <3> QED BY <3>2, <3>4
  <2>2. h + 1 \in 0..c
    BY <1>1, <1>2
  <2>3. Cardinality({p[n] : n \in 1..(h + 1)}) = h + 1
    BY <1>5, <2>2, Zenon
  <2> HIDE DEF From
  <2>4. Cardinality({p[n] : n \in 1..(h + 1)}) <= Cardinality(From(v))
    BY <1>6, <2>1, FS_Subset, Zenon
  <2>5. Cardinality(From(v)) \in Nat
    BY <1>6, Zenon
  <2> HIDE DEF v
  <2> QED BY <1>2, <2>3, <2>4, <2>5
<1>9. v \in {r[i].secs : i \in I} /\ Half(r, I, v, h)
  BY <1>4, <1>7, <1>8 DEF Half
<1>10. ASSUME NEW m \in {r[i].secs : i \in I}, Half(r, I, m, h) PROVE m = v
  <2>1. m \in Nat
    BY <1>1
  <2>2. Cardinality(Above(m)) <= h /\ Cardinality(From(m)) > h
    BY <1>10 DEF Half
  <2> HIDE DEF v
  <2>3. ASSUME m < v PROVE FALSE
    <3>1. From(v) \subseteq Above(m)
      BY <1>1, <1>4, <2>1, <2>3
    <3> HIDE DEF From, Above
    <3>2. Cardinality(From(v)) <= Cardinality(Above(m))
      BY <1>6, <3>1, FS_Subset
    <3> QED BY <1>2, <1>6, <1>8, <2>2, <3>2
  <2>4. ASSUME v < m PROVE FALSE
    <3>1. From(m) \subseteq Above(v)
      BY <1>1, <1>4, <2>1, <2>4
    <3> HIDE DEF From, Above
    <3>2. Cardinality(From(m)) <= Cardinality(Above(v))
      BY <1>6, <3>1, FS_Subset
    <3> QED BY <1>2, <1>6, <1>7, <2>2, <3>2
  <2> QED BY <1>4, <2>1, <2>3, <2>4
<1>11. MiddleIn(r, I) = CHOOSE m \in {r[i].secs : i \in I} : Half(r, I, m, h)
  BY <1>3 DEF MiddleIn, Half, h
<1> HIDE DEF v
<1>12. MiddleIn(r, I) \in {r[i].secs : i \in I} /\ Half(r, I, MiddleIn(r, I), h)
  BY <1>9, <1>11, Zenon
<1>13. MiddleIn(r, I) = v
  BY <1>10, <1>12, Zenon
<1> QED BY <1>13 DEF v, h

\* The titles at I look like episodes.
LevelIn(r, I) ==
    LET alike == {i \in I : /\ r[i].secs >= 600
                            /\ 4 * r[i].secs >= 3 * MiddleIn(r, I)
                            /\ 4 * r[i].secs <= 5 * MiddleIn(r, I)}
    IN /\ Cardinality(I) >= 2
       /\ MiddleIn(r, I) >= 600 /\ MiddleIn(r, I) <= 5400
       /\ Cardinality(alike) >= 2 /\ 2 * Cardinality(alike) >= Cardinality(I)

\* d is what p lists.
Durations(d, c, r, p) ==
    d \in Seq(Nat) /\ Len(d) = c /\ \A n \in 1..c : d[n] = r[p[n]].secs

\* looksLikeEpisodes says of a list of durations what LevelIn says of the titles.
LEMMA LooksRule ==
    ASSUME NEW c, NEW p, NEW r, NEW I, Downward(p, c, r, I), NEW d, Durations(d, c, r, p)
    PROVE  looksLikeEpisodes(d) <=> LevelIn(r, I)
<1>1. /\ c \in Nat /\ p \in [1..c -> I]
      /\ \A i \in I : r[i].secs \in Nat
      /\ \A m, n \in 1..c : p[m] = p[n] => m = n
      /\ \A i \in I : \E n \in 1..c : p[n] = i
  BY DEF Downward
<1>2. Cardinality(I) = c
  BY <1>1, Counted, Zenon
<1>6. c \in Nat
  BY <1>1
<1>5. Len(d) = c /\ DOMAIN d = 1..c /\ \A n \in 1..c : d[n] = r[p[n]].secs
  BY DEF Durations
<1>3. CASE c < 2
  <2>1. ~(c >= 2)
    BY <1>1, <1>3
  <2>2. ~looksLikeEpisodes(d)
    BY <1>5, <2>1, Zenon DEF looksLikeEpisodes
  <2>3. ~LevelIn(r, I)
    <3>1. LevelIn(r, I) => Cardinality(I) >= 2
      BY DEF LevelIn
    <3> QED BY <1>2, <2>1, <3>1
  <2> QED BY <2>2, <2>3
<1>4. CASE c >= 2
  <2> DEFINE mid == MiddleIn(r, I)
             Fits == mid >= 600 /\ mid <= 5400
             A == {n \in DOMAIN d : d[n] >= minEpisodeSecs /\ withinSpread(d[n], mid)}
             B == {i \in I : r[i].secs >= 600 /\ 4 * r[i].secs >= 3 * mid /\ 4 * r[i].secs <= 5 * mid}
  <2>1. Median(d) = mid
    <3>1. c \div 2 + 1 \in 1..c
      BY <1>1, <1>4
    <3>2. mid = r[p[c \div 2 + 1]].secs
      <4>1. c >= 1
        BY <1>4, <1>6
      <4> QED BY <4>1, MiddleIs
    <3> HIDE DEF mid
    <3> QED BY <1>5, <3>1, <3>2 DEF Median
  <2>7. mid \in Nat
    <3>1. c \div 2 + 1 \in 1..c
      BY <1>1, <1>4
    <3>2. mid = r[p[c \div 2 + 1]].secs
      <4>1. c >= 1
        BY <1>4, <1>6
      <4> QED BY <4>1, MiddleIs
    <3> HIDE DEF mid
    <3> QED BY <1>1, <3>1, <3>2
  <2>2. looksLikeEpisodes(d) <=>
            Fits /\ Cardinality(A) >= 2 /\ Cardinality(A) * 2 >= c
    <3>1. looksLikeEpisodes(d) <=>
            mid \in minEpisodeSecs..maxEpisodeSecs /\ Cardinality(A) >= 2 /\ Cardinality(A) * 2 >= c
      BY <1>4, <1>5, <2>1, Zenon DEF looksLikeEpisodes
    <3>2. minEpisodeSecs = 600 /\ maxEpisodeSecs = 5400
      BY DEF minEpisodeSecs, maxEpisodeSecs
    <3>3. \A lo, hi \in Nat : mid \in lo..hi <=> mid >= lo /\ mid <= hi
      <4> HIDE DEF mid
      <4> QED BY <2>7
    <3>4. mid \in minEpisodeSecs..maxEpisodeSecs <=> mid >= minEpisodeSecs /\ mid <= maxEpisodeSecs
      <4>1. minEpisodeSecs \in Nat /\ maxEpisodeSecs \in Nat
        BY <3>2
      <4> QED BY <3>3, <4>1
    <3>5. (mid >= minEpisodeSecs /\ mid <= maxEpisodeSecs) <=> Fits
      BY <3>2
    <3> HIDE DEF A, Fits, mid
    <3> QED BY <3>1, <3>4, <3>5, Zenon
  <2>3. LevelIn(r, I) <=>
            Fits /\ Cardinality(B) >= 2 /\ 2 * Cardinality(B) >= c
    <3>1. LevelIn(r, I) <=> /\ Cardinality(I) >= 2 /\ Fits
                            /\ Cardinality(B) >= 2 /\ 2 * Cardinality(B) >= Cardinality(I)
      BY DEF LevelIn
    <3> HIDE DEF B, Fits
    <3> QED BY <1>2, <1>4, <3>1
  <2>4. ASSUME Fits PROVE Cardinality(A) = Cardinality(B) /\ Cardinality(A) \in Nat
    <3> HIDE DEF mid
    <3> DEFINE g == [n \in A |-> p[n]]
    <3>1. \A n \in 1..c : n \in A <=> p[n] \in B
      <4>1. \A n \in 1..c : p[n] \in I /\ d[n] = r[p[n]].secs /\ r[p[n]].secs \in Nat
        BY <1>1, <1>5
      <4>2. \A w \in Nat : w >= minEpisodeSecs /\ withinSpread(w, mid) <=>
                            w >= 600 /\ 4 * w >= 3 * mid /\ 4 * w <= 5 * mid
        BY <2>4, <2>7 DEF minEpisodeSecs, withinSpread
      <4> QED BY <1>5, <4>1, <4>2
    <3>2. A \subseteq 1..c /\ B \subseteq I
      BY <1>5
    <3> HIDE DEF A, B
    <3>3. g \in [A -> B] /\ \A m, n \in A : g[m] = g[n] => m = n
      BY <1>1, <3>1, <3>2
    <3>4. ASSUME NEW i \in B PROVE \E n \in A : g[n] = i
      <4>1. PICK n \in 1..c : p[n] = i
        BY <1>1, <3>2
      <4> QED BY <3>1, <4>1
    <3> HIDE DEF g
    <3>5. g \in Bijection(A, B)
      BY <3>3, <3>4 DEF Bijection, Injection, Surjection, IsInjective
    <3>6. ExistsBijection(A, B)
      BY <3>5, Zenon DEF ExistsBijection
    <3>7. IsFiniteSet(A) /\ Cardinality(A) \in Nat
      <4>1. A \subseteq 1..c
        BY <3>2
      <4>2. IsFiniteSet(A)
        BY <1>6, <4>1, SomePositions, Zenon
      <4> QED BY <4>2, FS_CardinalityType
    <3>8. Cardinality(B) = Cardinality(A)
      BY <3>6, <3>7, FS_Bijection, Zenon
    <3> QED BY <3>7, <3>8
  <2> HIDE DEF Fits, A, B
  <2>5. CASE Fits
    <3>1. Cardinality(A) * 2 = 2 * Cardinality(B)
      BY <2>4, <2>5
    <3> QED BY <2>2, <2>3, <2>4, <2>5, <3>1, Zenon
  <2>6. CASE ~Fits
    BY <2>2, <2>3, <2>6, Zenon
  <2> QED BY <2>5, <2>6
<1> QED BY <1>1, <1>3, <1>4

\* The titles of a DVD: numbered from 0, each with its duration.
Swept(r) ==
    /\ r \in Seq([index : Nat, secs : Nat, size : {0}])
    /\ \A i \in DOMAIN r : r[i].index = i - 1

\* The longest title, and the first of those.
LongestOf(r) ==
    CHOOSE i \in DOMAIN r : \A j \in DOMAIN r :
        r[j].secs <= r[i].secs /\ (j < i => r[j].secs < r[i].secs)

\* The durations sorted down, and where they are from.
LEMMA DescendingIs ==
    ASSUME NEW r, Swept(r), NEW k, k = Len(r)
    PROVE  \E q : /\ Downward(q, k, r, DOMAIN r)
                  /\ Durations(Descending(r), k, r, q)
                  /\ k >= 1 => q[1] = LongestOf(r)
<1> DEFINE e == [i \in DOMAIN r |-> r[i].secs]
           R == {x \in (DOMAIN e) \X (DOMAIN e) :
                    \/ e[x[1]] > e[x[2]]
                    \/ ~(e[x[2]] > e[x[1]]) /\ x[1] < x[2]}
           q == InOrder(DOMAIN e, R)
           a == [i \in 1..k |-> -r[i].secs]
           b == [i \in 1..k |-> 0]
<1>1. Descending(r) = [n \in DOMAIN e |-> e[q[n]]]
  BY DEF Descending, Sorted, Stable
<1>2. k \in Nat /\ DOMAIN r = 1..k /\ DOMAIN e = 1..k /\ \A i \in 1..k : r[i].secs \in Nat
  <2>1. r \in Seq([index : Nat, secs : Nat, size : {0}])
    BY DEF Swept
  <2>2. k \in Nat /\ DOMAIN r = 1..k
    BY <2>1
  <2>3. \A i \in 1..k : r[i] \in [index : Nat, secs : Nat, size : {0}]
    <3> DEFINE T == [index : Nat, secs : Nat, size : {0}]
    <3>1. r \in Seq(T)
      BY <2>1
    <3> HIDE DEF T
    <3>2. \A i \in 1..k : r[i] \in T
      BY <2>2, <3>1
    <3> QED BY <3>2 DEF T
  <2> QED BY <2>2, <2>3
<1>3. \A i \in 1..k : e[i] = r[i].secs /\ a[i] = -r[i].secs /\ b[i] = 0
  BY <1>2
<1>4. a \in [1..k -> Int] /\ b \in [1..k -> Int]
  BY <1>2
<1> HIDE DEF e, a, b
<1>5. ASSUME NEW i \in 1..k, NEW j \in 1..k
      PROVE  <<i, j>> \in R <=> \/ a[i] < a[j]
                                \/ a[i] = a[j] /\ b[i] < b[j]
                                \/ a[i] = a[j] /\ b[i] = b[j] /\ i < j
  <2>1. <<i, j>> \in R <=> e[i] > e[j] \/ (~(e[j] > e[i]) /\ i < j)
    BY <1>2
  <2> HIDE DEF R
  <2> QED BY <1>2, <1>3, <2>1
<1> HIDE DEF R
<1>6. Arranges(q, k, a, b)
  <2>1. ByKeys(1..k, a, b, R)
    BY <1>5, Zenon DEF ByKeys
  <2> QED BY <1>2, <1>4, <2>1, KeySort, Zenon
<1> HIDE DEF q
<1>7. /\ q \in [1..k -> 1..k]
      /\ \A x \in 1..k : \E n \in 1..k : q[n] = x
      /\ \A m, n \in 1..k : q[m] = q[n] => m = n
  BY <1>6 DEF Arranges
<1>8. ASSUME NEW m \in 1..k, NEW n \in 1..k, m < n
      PROVE  /\ r[q[m]].secs >= r[q[n]].secs
             /\ r[q[m]].secs = r[q[n]].secs => q[m] < q[n]
  <2>1. q[m] \in 1..k /\ q[n] \in 1..k
    BY <1>7, Zenon
  <2>2. \/ a[q[m]] < a[q[n]]
        \/ a[q[m]] = a[q[n]] /\ b[q[m]] < b[q[n]]
        \/ a[q[m]] = a[q[n]] /\ b[q[m]] = b[q[n]] /\ q[m] < q[n]
    BY <1>6, <1>8, Zenon DEF Arranges
  <2>3. /\ a[q[m]] = -r[q[m]].secs /\ a[q[n]] = -r[q[n]].secs
        /\ b[q[m]] = 0 /\ b[q[n]] = 0
        /\ r[q[m]].secs \in Nat /\ r[q[n]].secs \in Nat
    BY <1>2, <1>3, <2>1
  <2> DEFINE x == r[q[m]].secs
             y == r[q[n]].secs
  <2>4. -x < -y \/ (-x = -y /\ q[m] < q[n])
    BY <2>2, <2>3
  <2>5. x \in Nat /\ y \in Nat
    BY <2>3
  <2> HIDE DEF x, y
  <2>6. x >= y /\ (x = y => q[m] < q[n])
    BY <2>4, <2>5
  <2> QED BY <2>6 DEF x, y
<1>9. Downward(q, k, r, DOMAIN r)
  BY <1>2, <1>7, <1>8 DEF Downward
<1>10. Descending(r) = [n \in 1..k |-> e[q[n]]]
  BY <1>1, <1>2
<1>11. \A n \in 1..k : e[q[n]] = r[q[n]].secs /\ r[q[n]].secs \in Nat
  BY <1>2, <1>3, <1>7
<1>12. /\ Descending(r) \in Seq(Nat) /\ Len(Descending(r)) = k
       /\ \A n \in 1..k : Descending(r)[n] = r[q[n]].secs
  BY <1>2, <1>10, <1>11
<1>13. ASSUME k >= 1 PROVE q[1] = LongestOf(r)
  <2> DEFINE Top(i) == \A j \in DOMAIN r :
                            r[j].secs <= r[i].secs /\ (j < i => r[j].secs < r[i].secs)
  <2>1. 1 \in 1..k /\ q[1] \in 1..k
    BY <1>2, <1>7, <1>13
  <2>2. ASSUME NEW j \in DOMAIN r
        PROVE  r[j].secs <= r[q[1]].secs /\ (j < q[1] => r[j].secs < r[q[1]].secs)
    <3>1. PICK n \in 1..k : q[n] = j
      BY <1>2, <1>7
    <3>2. CASE n = 1
      BY <1>2, <2>1, <3>1, <3>2
    <3>3. CASE 1 < n
      <4>1. r[q[1]].secs >= r[q[n]].secs /\ (r[q[1]].secs = r[q[n]].secs => q[1] < q[n])
        BY <1>8, <2>1, <3>3
      <4> QED BY <1>2, <2>1, <3>1, <4>1
    <3> QED BY <3>2, <3>3
  <2>3. q[1] \in DOMAIN r /\ Top(q[1])
    BY <1>2, <2>1, <2>2
  <2>4. ASSUME NEW i \in DOMAIN r, Top(i) PROVE i = q[1]
    <3>1. i \in 1..k /\ q[1] \in 1..k /\ r[i].secs \in Nat /\ r[q[1]].secs \in Nat
      BY <1>2, <2>1
    <3>2. r[q[1]].secs <= r[i].secs /\ (q[1] < i => r[q[1]].secs < r[i].secs)
      BY <2>3, <2>4
    <3>3. r[i].secs <= r[q[1]].secs /\ (i < q[1] => r[i].secs < r[q[1]].secs)
      BY <2>3
    <3> QED BY <3>1, <3>2, <3>3
  <2>5. LongestOf(r) = CHOOSE i \in DOMAIN r : Top(i)
    BY DEF LongestOf
  <2> HIDE DEF Top
  <2>6. LongestOf(r) \in DOMAIN r /\ Top(LongestOf(r))
    BY <2>3, <2>5, Zenon
  <2> QED BY <2>4, <2>6
<1>14. Durations(Descending(r), k, r, q)
  BY <1>12 DEF Durations
<1> QED BY <1>9, <1>13, <1>14

\* There are k numbers from 1 to k.
LEMMA UpTo ==
    ASSUME NEW k \in Nat
    PROVE  IsFiniteSet(1..k) /\ Cardinality(1..k) = k
  BY FS_Interval

\* Titles that were swept are numbered from 0, with a duration each.
LEMMA SweptIs ==
    ASSUME NEW r, Swept(r), NEW k, k = Len(r)
    PROVE  /\ k \in Nat /\ DOMAIN r = 1..k
           /\ \A i \in 1..k : r[i].secs \in Nat /\ r[i].index = i - 1
<1> DEFINE T == [index : Nat, secs : Nat, size : {0}]
<1>1. r \in Seq(T) /\ \A i \in DOMAIN r : r[i].index = i - 1
  BY DEF Swept
<1>2. \A t \in T : t.secs \in Nat
  OBVIOUS
<1> HIDE DEF T
<1>3. k \in Nat /\ DOMAIN r = 1..k /\ \A i \in 1..k : r[i] \in T
  BY <1>1
<1> QED BY <1>1, <1>2, <1>3

\* If there is a title, one is the longest.
LEMMA LongestIs ==
    ASSUME NEW r, Swept(r), NEW k, k = Len(r), k >= 1
    PROVE  /\ LongestOf(r) \in DOMAIN r
           /\ \A j \in DOMAIN r : r[j].secs <= r[LongestOf(r)].secs
<1>1. k \in Nat /\ DOMAIN r = 1..k /\ \A i \in 1..k : r[i].secs \in Nat
  BY SweptIs
<1>2. PICK q : Downward(q, k, r, DOMAIN r) /\ q[1] = LongestOf(r)
  BY DescendingIs
<1>3. /\ q \in [1..k -> DOMAIN r]
      /\ \A i \in DOMAIN r : \E n \in 1..k : q[n] = i
      /\ \A m, n \in 1..k : m < n => r[q[m]].secs >= r[q[n]].secs
  BY <1>2 DEF Downward
<1>4. 1 \in 1..k /\ q[1] \in DOMAIN r
  BY <1>1, <1>3
<1>5. ASSUME NEW j \in DOMAIN r PROVE r[j].secs <= r[q[1]].secs
  <2>1. PICK n \in 1..k : q[n] = j
    BY <1>3
  <2>2. r[j].secs \in Nat /\ r[q[1]].secs \in Nat
    BY <1>1, <1>4
  <2>3. CASE n = 1
    BY <2>1, <2>2, <2>3
  <2>4. CASE 1 < n
    <3>1. r[q[1]].secs >= r[q[n]].secs
      BY <1>3, <1>4, <2>4, Zenon
    <3> QED BY <2>1, <2>2, <3>1
  <2> QED BY <1>1, <2>3, <2>4
<1> QED BY <1>2, <1>4, <1>5

\* The list without its first.
LEMMA TailDown ==
    ASSUME NEW q, NEW k, NEW r, NEW I, Downward(q, k, r, I), k >= 2,
           NEW d, Durations(d, k, r, q)
    PROVE  looksLikeEpisodes(Tail(d)) <=> LevelIn(r, I \ {q[1]})
<1> DEFINE p == [n \in 1..(k - 1) |-> q[n + 1]]
           J == I \ {q[1]}
           e == Tail(d)
<1>1. /\ k \in Nat /\ q \in [1..k -> I]
      /\ \A i \in I : r[i].secs \in Nat
      /\ \A m, n \in 1..k : q[m] = q[n] => m = n
      /\ \A i \in I : \E n \in 1..k : q[n] = i
      /\ \A m, n \in 1..k : m < n => r[q[m]].secs >= r[q[n]].secs
  BY DEF Downward
<1>2. /\ k - 1 \in Nat /\ 1 \in 1..k
      /\ \A n \in 1..(k - 1) : n + 1 \in 1..k /\ n + 1 # 1 /\ p[n] = q[n + 1]
  <2>1. k \in Nat
    BY <1>1
  <2> QED BY <2>1
<1> HIDE DEF p
<1>3. ASSUME NEW n \in 1..(k - 1) PROVE p[n] \in J
  <2>1. n + 1 \in 1..k /\ n + 1 # 1 /\ p[n] = q[n + 1]
    BY <1>2
  <2>2. q[n + 1] \in I /\ q[n + 1] # q[1]
    BY <1>1, <1>2, <2>1, Zenon
  <2> QED BY <2>1, <2>2
<1>4. p \in [1..(k - 1) -> J]
  <2>1. p = [n \in 1..(k - 1) |-> p[n]]
    BY DEF p
  <2> HIDE DEF J
  <2> QED BY <1>3, <2>1
<1>5. ASSUME NEW m \in 1..(k - 1), NEW n \in 1..(k - 1), p[m] = p[n] PROVE m = n
  <2>1. m + 1 \in 1..k /\ n + 1 \in 1..k /\ q[m + 1] = q[n + 1]
    BY <1>2, <1>5
  <2>2. m + 1 = n + 1
    BY <1>1, <2>1, Zenon
  <2> QED BY <2>2
<1>6. ASSUME NEW i \in J PROVE \E n \in 1..(k - 1) : p[n] = i
  <2>1. PICK n \in 1..k : q[n] = i
    BY <1>1
  <2>2. n # 1
    BY <2>1
  <2>3. k \in Nat
    BY <1>1
  <2>4. n - 1 \in 1..(k - 1) /\ (n - 1) + 1 = n
    BY <2>2, <2>3
  <2>5. p[n - 1] = i
    BY <1>2, <2>1, <2>4
  <2> QED BY <2>4, <2>5
<1>7. ASSUME NEW m \in 1..(k - 1), NEW n \in 1..(k - 1), m < n
      PROVE  r[p[m]].secs >= r[p[n]].secs
  <2>1. /\ m + 1 \in 1..k /\ n + 1 \in 1..k /\ m + 1 < n + 1
        /\ p[m] = q[m + 1] /\ p[n] = q[n + 1]
    BY <1>2, <1>7
  <2>2. r[q[m + 1]].secs >= r[q[n + 1]].secs
    BY <1>1, <2>1, Zenon
  <2> QED BY <2>1, <2>2
<1>8. Downward(p, k - 1, r, J)
  <2>1. \A i \in J : r[i].secs \in Nat
    BY <1>1
  <2> HIDE DEF J
  <2> QED BY <1>2, <1>4, <1>5, <1>6, <1>7, <2>1 DEF Downward
<1>9. d \in Seq(Nat) /\ Len(d) = k /\ \A n \in 1..k : d[n] = r[q[n]].secs
  BY DEF Durations
<1>10. e \in Seq(Nat) /\ Len(e) = k - 1 /\ \A n \in 1..(k - 1) : e[n] = d[n + 1]
  <2>1. d # <<>>
    BY <1>9
  <2> QED BY <1>2, <1>9, <2>1
<1> HIDE DEF e
<1>11. \A n \in 1..(k - 1) : e[n] = r[p[n]].secs
  BY <1>2, <1>9, <1>10, Zenon
<1>12. Durations(e, k - 1, r, p)
  BY <1>10, <1>11 DEF Durations
<1> HIDE DEF J
<1>13. looksLikeEpisodes(e) <=> LevelIn(r, J)
  BY <1>8, <1>12, LooksRule
<1> QED BY <1>13 DEF e, J

\* The longest is as long as a film and, unless it is alone, at least twice the
\* median, with others that do not look like episodes.
FilmShape(r) ==
    /\ r[LongestOf(r)].secs >= 2700
    /\ Cardinality(DOMAIN r) > 1 =>
        /\ r[LongestOf(r)].secs >= 2 * MiddleIn(r, DOMAIN r)
        /\ ~LevelIn(r, DOMAIN r \ {LongestOf(r)})

\* Classify takes for a film what has the shape of one.
LEMMA ShapeRule ==
    ASSUME NEW r, Swept(r), NEW k, k = Len(r), k >= 1
    PROVE  Classify(r) = "movie" <=> FilmShape(r)
<1>1. k \in Nat /\ DOMAIN r = 1..k /\ \A i \in 1..k : r[i].secs \in Nat
  BY SweptIs
<1>2. PICK q : /\ Downward(q, k, r, DOMAIN r) /\ Durations(Descending(r), k, r, q)
               /\ q[1] = LongestOf(r)
  BY DescendingIs
<1> DEFINE d == Descending(r)
           top == r[LongestOf(r)].secs
           mid == MiddleIn(r, DOMAIN r)
<1>3. /\ d[1] = top /\ Len(d) = k /\ d[k \div 2 + 1] = mid
  <2>1. Len(d) = k /\ \A n \in 1..k : d[n] = r[q[n]].secs
    BY <1>2 DEF Durations
  <2>2. 1 \in 1..k /\ k \div 2 + 1 \in 1..k
    BY <1>1
  <2>3. mid = r[q[k \div 2 + 1]].secs
    BY <1>2, MiddleIs
  <2> HIDE DEF d, mid
  <2> QED BY <1>2, <2>1, <2>2, <2>3
<1>4. Median(d) = mid
  BY <1>3 DEF Median
<1>5. Cardinality(DOMAIN r) = k
  <2>1. k \in Nat /\ DOMAIN r = 1..k
    BY <1>1
  <2>2. Cardinality(1..k) = k
    BY <2>1, UpTo
  <2> QED BY <2>1, <2>2
<1>6. minFeatureSecs = 2700
  BY DEF minFeatureSecs
<1>7. r # <<>>
  BY <1>1
<1>8. CASE k = 1
  <2>1. Classify(r) = IF d[1] >= minFeatureSecs THEN "movie" ELSE "unknown"
    BY <1>7, <1>8 DEF Classify
  <2>2. FilmShape(r) <=> top >= 2700
    BY <1>5, <1>8 DEF FilmShape
  <2> QED BY <1>3, <1>6, <2>1, <2>2
<1>9. CASE k >= 2
  <2> DEFINE rest == looksLikeEpisodes(Tail(d))
             all == looksLikeEpisodes(d)
  <2>1. Classify(r) = IF rest THEN "tv"
                      ELSE IF d[1] >= minFeatureSecs /\ d[1] >= 2 * Median(d) THEN "movie"
                      ELSE IF all THEN "tv" ELSE "unknown"
    BY <1>7, <1>9 DEF Classify
  <2>2. rest <=> LevelIn(r, DOMAIN r \ {LongestOf(r)})
    BY <1>2, <1>9, TailDown
  <2>3. FilmShape(r) <=> top >= 2700 /\ top >= 2 * mid /\ ~LevelIn(r, DOMAIN r \ {LongestOf(r)})
    <3>1. Cardinality(DOMAIN r) > 1
      BY <1>1, <1>5, <1>9
    <3> QED BY <3>1 DEF FilmShape
  <2> HIDE DEF rest, all, top, mid, d
  <2>4. Classify(r) = "movie" <=> ~rest /\ d[1] >= minFeatureSecs /\ d[1] >= 2 * Median(d)
    BY <2>1
  <2> QED BY <1>3, <1>4, <1>6, <2>2, <2>3, <2>4
<1> QED BY <1>1, <1>8, <1>9

\* Plan, of the titles by index.
Planned(t, kind) ==
    [i \in DOMAIN t |->
        IF kind # "movie" THEN Episode("name", "short", t[i])
        ELSE IF t[i].index = longestTitle(t) THEN Feature("name", t[i]) ELSE Extra("name", t[i])]

\* The parts of a placement.
LEMMA PlacementIs ==
    ASSUME NEW t
    PROVE  /\ Episode("name", "short", t).index = t.index
           /\ Episode("name", "short", t).path = <<"TV", "name", "short", t.index>>
           /\ Episode("name", "short", t).feature = FALSE
           /\ Feature("name", t).index = t.index
           /\ Feature("name", t).path = <<"Movies", "name">>
           /\ Feature("name", t).feature = TRUE
           /\ Extra("name", t).index = t.index
           /\ Extra("name", t).path = <<"Movies", "name", "extras", t.index>>
           /\ Extra("name", t).feature = FALSE
  BY DEF Episode, Feature, Extra

\* A feature's path is no extra's.
LEMMA TwoOrFour == \A a, b, c, d, e, f : <<a, b>> # <<c, d, e, f>>
<1>1. SUFFICES ASSUME NEW a, NEW b, NEW c, NEW d, NEW e, NEW f PROVE <<a, b>> # <<c, d, e, f>>
  OBVIOUS
<1>2. Len(<<a, b>>) = 2 /\ Len(<<c, d, e, f>>) = 4
  OBVIOUS
<1> QED BY <1>2

\* The titles as q arranges them.
Reordered(r, q) == [n \in 1..Len(r) |-> r[q[n]]]

\* q lists the titles by index, each once.
IndexOrder(r, q, k) ==
    /\ q \in [1..k -> 1..k] /\ \A m, n \in 1..k : q[m] = q[n] => m = n
    /\ \A x \in 1..k : \E n \in 1..k : q[n] = x
    /\ \A kind : Plan("name", "short", r, kind) = Planned(Reordered(r, q), kind)

\* The titles sorted by index are the titles under some arrangement.
LEMMA ByIndexIs ==
    ASSUME NEW r, Swept(r), NEW k, k = Len(r)
    PROVE  \E q : IndexOrder(r, q, k)
<1> DEFINE R == {x \in (DOMAIN r) \X (DOMAIN r) :
                    \/ r[x[1]].index < r[x[2]].index
                    \/ ~(r[x[2]].index < r[x[1]].index) /\ x[1] < x[2]}
           q == InOrder(DOMAIN r, R)
           a == [i \in 1..k |-> i - 1]
           b == [i \in 1..k |-> 0]
<1>1. k \in Nat /\ DOMAIN r = 1..k /\ \A i \in 1..k : r[i].index = i - 1
  BY SweptIs
<1>2. \A kind : Plan("name", "short", r, kind) = Planned([n \in DOMAIN r |-> r[q[n]]], kind)
  BY Zenon DEF Plan, Planned, Sorted, Stable
<1>3. \A i \in 1..k : a[i] = i - 1 /\ b[i] = 0
  OBVIOUS
<1>4. a \in [1..k -> Int] /\ b \in [1..k -> Int]
  BY <1>1
<1> HIDE DEF a, b
<1>5. ASSUME NEW i \in 1..k, NEW j \in 1..k
      PROVE  <<i, j>> \in R <=> \/ a[i] < a[j]
                                \/ a[i] = a[j] /\ b[i] < b[j]
                                \/ a[i] = a[j] /\ b[i] = b[j] /\ i < j
  <2>1. <<i, j>> \in R <=> r[i].index < r[j].index \/ (~(r[j].index < r[i].index) /\ i < j)
    BY <1>1
  <2> HIDE DEF R
  <2> QED BY <1>1, <1>3, <2>1
<1> HIDE DEF R
<1>6. Arranges(q, k, a, b)
  <2>1. ByKeys(1..k, a, b, R)
    BY <1>5, Zenon DEF ByKeys
  <2>2. Arranges(InOrder(1..k, R), k, a, b)
    BY <1>1, <1>4, <2>1, KeySort, Zenon
  <2> QED BY <1>1, <2>2
<1> HIDE DEF q
<1>7. /\ q \in [1..k -> 1..k] /\ \A m, n \in 1..k : q[m] = q[n] => m = n
      /\ \A x \in 1..k : \E n \in 1..k : q[n] = x
  BY <1>6 DEF Arranges
<1>8. \A kind : Plan("name", "short", r, kind) = Planned(Reordered(r, q), kind)
  BY <1>1, <1>2 DEF Reordered
<1>9. IndexOrder(r, q, k)
  BY <1>7, <1>8, Zenon DEF IndexOrder
<1> QED BY <1>9

\* longestTitle is the index of a longest title.
LEMMA LongestTitleIs ==
    ASSUME NEW k \in Nat, k >= 1, NEW t, DOMAIN t = 1..k, t # <<>>,
           \A n \in 1..k : t[n].secs \in Nat
    PROVE  \E x \in 1..k : longestTitle(t) = t[x].index /\ \A n \in 1..k : t[n].secs <= t[x].secs
<1> DEFINE R == {e \in (DOMAIN t) \X (DOMAIN t) :
                    \/ t[e[1]].secs > t[e[2]].secs
                    \/ ~(t[e[2]].secs > t[e[1]].secs) /\ e[1] < e[2]}
           x == First(DOMAIN t, R)
           a == [i \in 1..k |-> -t[i].secs]
           b == [i \in 1..k |-> 0]
<1>1. longestTitle(t) = t[x].index
  BY DEF longestTitle, Stable
<1>2. \A i \in 1..k : a[i] = -t[i].secs /\ b[i] = 0
  OBVIOUS
<1>3. a \in [1..k -> Int] /\ b \in [1..k -> Int]
  OBVIOUS
<1> HIDE DEF a, b
<1>4. ASSUME NEW i \in 1..k, NEW j \in 1..k
      PROVE  <<i, j>> \in R <=> t[i].secs > t[j].secs \/ (~(t[j].secs > t[i].secs) /\ i < j)
  OBVIOUS
<1> HIDE DEF R
<1>5. ASSUME NEW i \in 1..k, NEW j \in 1..k
      PROVE  <<i, j>> \in R <=> \/ a[i] < a[j]
                                \/ a[i] = a[j] /\ b[i] < b[j]
                                \/ a[i] = a[j] /\ b[i] = b[j] /\ i < j
  <2> DEFINE u == t[i].secs
             v == t[j].secs
  <2>1. a[i] = -u /\ a[j] = -v /\ b[i] = 0 /\ b[j] = 0 /\ u \in Nat /\ v \in Nat
    BY <1>2
  <2>2. <<i, j>> \in R <=> u > v \/ (~(v > u) /\ i < j)
    BY <1>4
  <2> HIDE DEF u, v
  <2> QED BY <2>1, <2>2
<1>6. Orders(R, 1..k)
  <2>1. ByKeys(1..k, a, b, R)
    BY <1>5, Zenon DEF ByKeys
  <2>2. 1..k \subseteq Int
    OBVIOUS
  <2> QED BY <1>3, <2>1, <2>2, KeysOrder
<1>7. x \in 1..k /\ \A y \in (1..k) \ {x} : <<x, y>> \in R
  <2>1. IsFiniteSet(1..k) /\ 1 \in 1..k
    BY FS_Interval
  <2>2. /\ First(1..k, R) \in 1..k
        /\ \A y \in (1..k) \ {First(1..k, R)} : <<First(1..k, R), y>> \in R
    BY <1>6, <2>1, FirstIs, Zenon
  <2> QED BY <2>2
<1> HIDE DEF x
<1>8. ASSUME NEW n \in 1..k PROVE t[n].secs <= t[x].secs
  <2>1. CASE n = x
    BY <2>1
  <2>2. CASE n # x
    <3>1. <<x, n>> \in R
      BY <1>7, <2>2
    <3>2. t[x].secs > t[n].secs \/ ~(t[n].secs > t[x].secs)
      BY <1>4, <1>7, <3>1
    <3> QED BY <1>7, <3>2
  <2> QED BY <2>1, <2>2
<1> QED BY <1>1, <1>7, <1>8

\* The outputs that are the feature.
FeaturesOf(o) == {n \in DOMAIN o : o[n].feature}

\* A movie has one feature, which is as long as the longest title, anything else has
\* none, and no two outputs have the same path.
PlannedAs(r, kind, o, features) ==
    /\ kind = "movie" <=> features # {}
    /\ Cardinality(features) <= 1
    /\ \A n \in features : \E i \in DOMAIN r :
            r[i].index = o[n].index /\ r[i].secs = r[LongestOf(r)].secs
    /\ \A m, n \in DOMAIN o : m # n => o[m].path # o[n].path

\* A film has one feature, a longest title, and every title a path of its own.
LEMMA PlanRule ==
    ASSUME NEW r, Swept(r), NEW k, k = Len(r), k >= 1, NEW kind,
           NEW o, o = Plan("name", "short", r, kind),
           NEW features, features = FeaturesOf(o)
    PROVE  PlannedAs(r, kind, o, features)
<1> USE DEF PlannedAs, FeaturesOf
<1>1. k \in Nat /\ DOMAIN r = 1..k /\ \A i \in 1..k : r[i].secs \in Nat /\ r[i].index = i - 1
  BY SweptIs
<1>17. PICK q : IndexOrder(r, q, k)
  BY ByIndexIs
<1>2. /\ q \in [1..k -> 1..k] /\ \A m, n \in 1..k : q[m] = q[n] => m = n
      /\ \A y \in 1..k : \E n \in 1..k : q[n] = y
      /\ \A z : Plan("name", "short", r, z) = Planned(Reordered(r, q), z)
  BY <1>17, Zenon DEF IndexOrder
<1> DEFINE t == Reordered(r, q)
<1>3. DOMAIN t = 1..k /\ \A n \in 1..k : t[n] = r[q[n]]
  BY DEF Reordered
<1>4. o = Planned(t, kind)
  BY <1>2
<1>5. t # <<>>
  BY <1>1, <1>3
<1> HIDE DEF t
<1>6. \A n \in 1..k : q[n] \in 1..k /\ t[n].secs \in Nat /\ t[n].index = q[n] - 1
  <2>1. \A n \in 1..k : q[n] \in 1..k
    BY <1>2, Zenon
  <2> QED BY <1>1, <1>3, <2>1
<1>7. \A m, n \in 1..k : t[m].index = t[n].index => m = n
  <2>1. ASSUME NEW m \in 1..k, NEW n \in 1..k, t[m].index = t[n].index PROVE m = n
    <3>1. q[m] = q[n]
      BY <1>6, <2>1
    <3> QED BY <1>2, <3>1
  <2> QED BY <2>1
<1>8. PICK x \in 1..k : longestTitle(t) = t[x].index /\ \A n \in 1..k : t[n].secs <= t[x].secs
  BY <1>1, <1>3, <1>5, <1>6, LongestTitleIs, Zenon
<1>9. DOMAIN o = 1..k
  BY <1>3, <1>4 DEF Planned
<1>10. ASSUME NEW n \in 1..k
       PROVE  o[n] = IF kind # "movie" THEN Episode("name", "short", t[n])
                     ELSE IF n = x THEN Feature("name", t[n]) ELSE Extra("name", t[n])
  <2>1. t[n].index = longestTitle(t) <=> n = x
    BY <1>7, <1>8
  <2> QED BY <1>3, <1>4, <2>1 DEF Planned
<1>11. ASSUME NEW n \in 1..k PROVE o[n].feature <=> kind = "movie" /\ n = x
  BY <1>10, PlacementIs, Zenon
<1>12. ASSUME NEW n \in 1..k PROVE o[n].index = t[n].index
  BY <1>10, PlacementIs, Zenon
<1>13. features = IF kind = "movie" THEN {x} ELSE {}
  BY <1>9, <1>11
<1>14. Cardinality(features) <= 1
  <2>1. Cardinality({x}) = 1 /\ Cardinality({}) = 0
    BY FS_Singleton, FS_EmptySet, Zenon
  <2>2. CASE kind = "movie"
    <3>1. features = {x}
      BY <1>13, <2>2
    <3>2. Cardinality(features) = 1
      BY <2>1, <3>1, Zenon
    <3> QED BY <3>2
  <2>3. CASE kind # "movie"
    <3>1. features = {}
      BY <1>13, <2>3
    <3>2. Cardinality(features) = 0
      BY <2>1, <3>1, Zenon
    <3> QED BY <3>2
  <2> QED BY <2>2, <2>3
<1>15. ASSUME NEW n \in features
       PROVE  \E i \in DOMAIN r : r[i].index = o[n].index /\ r[i].secs = r[LongestOf(r)].secs
  <2>1. n = x
    BY <1>13
  <2>2. q[x] \in DOMAIN r /\ r[q[x]].index = o[n].index
    BY <1>1, <1>3, <1>6, <1>12, <2>1
  <2>3. LongestOf(r) \in DOMAIN r /\ \A j \in DOMAIN r : r[j].secs <= r[LongestOf(r)].secs
    BY LongestIs
  <2>4. PICK n0 \in 1..k : q[n0] = LongestOf(r)
    BY <1>1, <1>2, <2>3
  <2>5. r[LongestOf(r)].secs <= r[q[x]].secs
    BY <1>3, <1>8, <2>4
  <2>6. r[q[x]].secs <= r[LongestOf(r)].secs
    BY <2>2, <2>3
  <2>7. r[q[x]].secs = r[LongestOf(r)].secs
    BY <1>1, <2>2, <2>3, <2>5, <2>6
  <2> QED BY <2>2, <2>7
<1>16. ASSUME NEW m \in 1..k, NEW n \in 1..k, m # n PROVE o[m].path # o[n].path
  <2>1. t[m].index # t[n].index
    BY <1>7, <1>16
  <2>2. CASE kind # "movie"
    <3>1. /\ o[m].path = <<"TV", "name", "short", t[m].index>>
          /\ o[n].path = <<"TV", "name", "short", t[n].index>>
      BY <1>10, <2>2, PlacementIs, Zenon
    <3> QED BY <2>1, <3>1
  <2>3. CASE kind = "movie" /\ m = x
    <3>1. o[m].path = <<"Movies", "name">>
      <4>1. o[m] = Feature("name", t[m])
        BY <1>10, <2>3
      <4> QED BY <4>1, PlacementIs, Zenon
    <3>2. o[n].path = <<"Movies", "name", "extras", t[n].index>>
      BY <1>10, <1>16, <2>3, PlacementIs, Zenon
    <3> QED BY <3>1, <3>2, TwoOrFour, Zenon
  <2>4. CASE kind = "movie" /\ n = x
    <3>1. o[n].path = <<"Movies", "name">>
      <4>1. o[n] = Feature("name", t[n])
        BY <1>10, <2>4
      <4> QED BY <4>1, PlacementIs, Zenon
    <3>2. o[m].path = <<"Movies", "name", "extras", t[m].index>>
      BY <1>10, <1>16, <2>4, PlacementIs, Zenon
    <3> QED BY <3>1, <3>2, TwoOrFour
  <2>5. CASE kind = "movie" /\ m # x /\ n # x
    <3>1. /\ o[m].path = <<"Movies", "name", "extras", t[m].index>>
          /\ o[n].path = <<"Movies", "name", "extras", t[n].index>>
      BY <1>10, <2>5, PlacementIs, Zenon
    <3> QED BY <2>1, <3>1
  <2> QED BY <2>2, <2>3, <2>4, <2>5
<1> QED BY <1>9, <1>13, <1>14, <1>15, <1>16

=============================================================================
