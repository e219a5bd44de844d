--------------------------- MODULE DiscReadingProofs ---------------------------
(***************************************************************************)
(* What the daemon concludes of a disc is right for every reading: any     *)
(* number of items, of any kind the constants allow, and for the DVD any   *)
(* sweep, cut off, failed or retried wherever it may be.                   *)
(*                                                                         *)
(* The inductive invariant, ReadingInv, says what has been read and that   *)
(* what is returned is the rule's outcome for all of it; for the robot     *)
(* output, which is read line by line into maps, that the maps hold what   *)
(* the lines said last.  The properties then follow from the lemmas of     *)
(* ReadingRules, and of the first two sections here, about the rules.      *)
(***************************************************************************)
EXTENDS DiscReading, ReadingRules

-----------------------------------------------------------------------------
(* Candidates for a title. *)

\* q lists candidates by falling confidence.
Confident(s, g, q, k) ==
    /\ q \in [1..k -> 1..k]
    /\ \A x \in 1..k : \E n \in 1..k : q[n] = x
    /\ \A m, n \in 1..k : q[m] = q[n] => m = n
    /\ \A m, n \in 1..k : m < n => g[q[m]].confidence >= g[q[n]].confidence
    /\ DOMAIN s = 1..k /\ Len(s) = k
    /\ \A n \in 1..k : s[n] = g[q[n]]

\* MostConfidentFirst lists the candidates it is given by falling confidence.
LEMMA ConfidentIs ==
    ASSUME NEW k \in Nat, NEW g, DOMAIN g = 1..k, \A n \in 1..k : g[n].confidence \in Int
    PROVE  \E q : Confident(MostConfidentFirst(g), g, q, k)
<1> DEFINE R == {e \in (DOMAIN g) \X (DOMAIN g) :
                    \/ g[e[1]].confidence > g[e[2]].confidence
                    \/ ~(g[e[2]].confidence > g[e[1]].confidence) /\ e[1] < e[2]}
           q == InOrder(DOMAIN g, R)
           s == MostConfidentFirst(g)
           a == [i \in 1..k |-> -g[i].confidence]
           b == [i \in 1..k |-> 0]
<1>1. s = [n \in DOMAIN g |-> g[q[n]]]
  BY DEF MostConfidentFirst, Sorted, Stable
<1>2. \A i \in 1..k : a[i] = -g[i].confidence /\ b[i] = 0
  OBVIOUS
<1>3. a \in [1..k -> Int] /\ b \in [1..k -> Int]
  OBVIOUS
<1> HIDE DEF a, b, s
<1>4. ASSUME NEW i \in 1..k, NEW j \in 1..k
      PROVE  <<i, j>> \in R <=> \/ g[i].confidence > g[j].confidence
                                \/ ~(g[j].confidence > g[i].confidence) /\ i < j
  OBVIOUS
<1> HIDE DEF R
<1>5. ASSUME NEW i \in 1..k, NEW j \in 1..k
      PROVE  <<i, j>> \in R <=> \/ a[i] < a[j]
                                \/ a[i] = a[j] /\ b[i] < b[j]
                                \/ a[i] = a[j] /\ b[i] = b[j] /\ i < j
  <2> DEFINE u == g[i].confidence
             v == g[j].confidence
  <2>1. a[i] = -u /\ a[j] = -v /\ b[i] = 0 /\ b[j] = 0 /\ u \in Int /\ v \in Int
    BY <1>2
  <2>2. <<i, j>> \in R <=> u > v \/ (~(v > u) /\ i < j)
    BY <1>4
  <2> HIDE DEF u, v
  <2> QED BY <2>1, <2>2
<1>6. Arranges(q, k, a, b)
  <2>1. ByKeys(1..k, a, b, R)
    BY <1>5, Zenon DEF ByKeys
  <2>2. Arranges(InOrder(1..k, R), k, a, b)
    BY <1>3, <2>1, KeySort
  <2> QED BY <2>2
<1> HIDE DEF q
<1>7. /\ q \in [1..k -> 1..k]
      /\ \A x \in 1..k : \E n \in 1..k : q[n] = x
      /\ \A m, n \in 1..k : q[m] = q[n] => m = n
  BY <1>6 DEF Arranges
<1>8. ASSUME NEW m \in 1..k, NEW n \in 1..k, m < n
      PROVE  g[q[m]].confidence >= g[q[n]].confidence
  <2> DEFINE u == g[q[m]].confidence
             v == g[q[n]].confidence
  <2>1. q[m] \in 1..k /\ q[n] \in 1..k
    BY <1>7
  <2>2. \/ a[q[m]] < a[q[n]]
        \/ a[q[m]] = a[q[n]] /\ b[q[m]] < b[q[n]]
        \/ a[q[m]] = a[q[n]] /\ b[q[m]] = b[q[n]] /\ q[m] < q[n]
    BY <1>6, <1>8, Zenon DEF Arranges
  <2>3. a[q[m]] = -u /\ a[q[n]] = -v /\ b[q[m]] = 0 /\ b[q[n]] = 0 /\ u \in Int /\ v \in Int
    BY <1>2, <2>1
  <2> HIDE DEF u, v
  <2>4. u >= v
    BY <2>2, <2>3
  <2> QED BY <2>4 DEF u, v
<1>9. DOMAIN s = 1..k /\ \A n \in 1..k : s[n] = g[q[n]]
  BY <1>1
<1>10. Len(s) = k
  <2>1. s = [n \in 1..k |-> g[q[n]]]
    BY <1>1
  <2> QED BY <2>1
<1>11. Confident(s, g, q, k)
  BY <1>7, <1>8, <1>9, <1>10, Zenon DEF Confident
<1> QED BY <1>11 DEF s

\* What agreement makes of a confidence.
Raised(best, nets) ==
    IF nets > 1 /\ best + 15 * (nets - 1) > 95 THEN 95 ELSE best + 15 * (nets - 1)

\* A merged group has the title of its most confident candidate.
LEMMA MergeRule ==
    ASSUME NEW g \in Seq(Candidate), NEW k, k = Len(g), k >= 1,
           NEW nets, nets = Cardinality({g[i].net : i \in DOMAIN g}), nets \in Nat \ {0}
    PROVE  \E i \in DOMAIN g :
            /\ mergeGroup(g).title = g[i].title
            /\ mergeGroup(g).confidence = Raised(g[i].confidence, nets)
            /\ \A j \in DOMAIN g : g[j].confidence <= g[i].confidence
<1>1. k \in Nat /\ DOMAIN g = 1..k /\ \A n \in 1..k : g[n] \in Candidate
  OBVIOUS
<1>2. \A n \in 1..k : {"title", "year", "confidence"} \subseteq DOMAIN g[n] /\ g[n].confidence \in Int
  BY <1>1, CandidateConstants
<1> DEFINE s == MostConfidentFirst(g)
<1>3. PICK q : Confident(s, g, q, k)
  BY <1>1, <1>2, ConfidentIs
<1> HIDE DEF s
<1>4. /\ q \in [1..k -> 1..k]
      /\ \A x \in 1..k : \E n \in 1..k : q[n] = x
      /\ \A m, n \in 1..k : m < n => g[q[m]].confidence >= g[q[n]].confidence
      /\ \A n \in 1..k : s[n] = g[q[n]]
  BY <1>3, Zenon DEF Confident
<1>5. 1 \in 1..k /\ q[1] \in 1..k /\ s[1] = g[q[1]]
  BY <1>1, <1>4
<1> DEFINE best == s[1]
           raised == best.confidence + 15 * (nets - 1)
           dated == {n \in DOMAIN s : s[n].year # 0}
           year == IF dated = {} THEN 0 ELSE s[Least(dated)].year
           conf == IF nets <= 1 THEN best.confidence ELSE IF raised > 95 THEN 95 ELSE raised
<1>6. mergeGroup(g) = [best EXCEPT !.confidence = conf, !.year = year]
  BY DEF mergeGroup, s
<1>7. {"title", "year", "confidence"} \subseteq DOMAIN best /\ best.confidence \in Int
  BY <1>2, <1>5
<1>8. conf = Raised(best.confidence, nets)
  BY <1>7 DEF Raised
<1> HIDE DEF best, year, conf
<1>9. mergeGroup(g).title = best.title /\ mergeGroup(g).confidence = conf
  BY <1>6, <1>7
<1>10. ASSUME NEW j \in DOMAIN g PROVE g[j].confidence <= g[q[1]].confidence
  <2>1. PICK n \in 1..k : q[n] = j
    BY <1>1, <1>4
  <2>2. CASE n = 1
    BY <1>1, <1>2, <2>1, <2>2
  <2>3. CASE 1 < n
    <3>1. g[q[1]].confidence >= g[q[n]].confidence
      BY <1>4, <1>5, <2>3, Zenon
    <3> QED BY <1>1, <1>2, <1>5, <2>1, <3>1
  <2> QED BY <2>2, <2>3
<1>11. best = g[q[1]]
  BY <1>5 DEF best
<1> QED BY <1>1, <1>5, <1>8, <1>9, <1>10, <1>11, Zenon

\* The candidates that propose the title k.
MineIn(r, k) == {i \in DOMAIN r : r[i].title # "" /\ normaliseTitle(r[i].title) = k}

\* How many nets propose it.
NetsIn(r, k) == Cardinality({r[i].net : i \in MineIn(r, k)})

\* The confidence of the most confident of them.
BestIn(r, k) ==
    CHOOSE c \in {r[i].confidence : i \in MineIn(r, k)} :
        \A i \in MineIn(r, k) : r[i].confidence <= c

\* A candidate that none for the same title is more confident than has that confidence.
LEMMA BestIs ==
    ASSUME NEW r \in Seq(Candidate), NEW k, NEW i \in MineIn(r, k),
           \A j \in MineIn(r, k) : r[j].confidence <= r[i].confidence
    PROVE  BestIn(r, k) = r[i].confidence
<1> DEFINE M == MineIn(r, k)
           Top(c) == \A j \in M : r[j].confidence <= c
<1>1. \A j \in M : r[j] \in Candidate
  <2>1. \A j \in DOMAIN r : r[j] \in Candidate
    OBVIOUS
  <2>2. M \subseteq DOMAIN r
    BY Zenon DEF MineIn
  <2> HIDE DEF M
  <2> QED BY <2>1, <2>2
<1>2. \A j \in M : r[j].confidence \in Int
  BY <1>1, CandidateConstants
<1>3. BestIn(r, k) = CHOOSE c \in {r[j].confidence : j \in M} : Top(c)
  BY DEF BestIn
<1> HIDE DEF M
<1>4. r[i].confidence \in {r[j].confidence : j \in M} /\ Top(r[i].confidence)
  BY DEF M
<1>5. ASSUME NEW c \in {r[j].confidence : j \in M}, Top(c) PROVE c = r[i].confidence
  <2>1. PICK j \in M : c = r[j].confidence
    OBVIOUS
  <2>2. r[j].confidence <= r[i].confidence /\ r[i].confidence <= r[j].confidence
    BY <1>5, <2>1 DEF M
  <2>3. r[i].confidence \in Int /\ r[j].confidence \in Int
    BY <1>2 DEF M
  <2> QED BY <2>1, <2>2, <2>3
<1> HIDE DEF Top
<1>6. BestIn(r, k) \in {r[j].confidence : j \in M} /\ Top(BestIn(r, k))
  BY <1>3, <1>4, Zenon
<1> QED BY <1>5, <1>6

\* The confidence in the title k: that of its best candidate, raised for agreement.
SupportIn(r, k) == Raised(BestIn(r, k), NetsIn(r, k))

\* The candidates that propose a title at all.
TitledAt(r) == {i \in DOMAIN r : r[i].title # ""}

\* The ones of all that propose the title k.
KeyedAt(all, k) == {i \in DOMAIN all : normaliseTitle(all[i].title) = k}

\* all has the candidates with a title.
TitledList(r, all) ==
    /\ all \in Seq(Candidate)
    /\ \A n \in DOMAIN all : \E i \in TitledAt(r) : all[n] = r[i]
    /\ \A i \in TitledAt(r) : \E n \in DOMAIN all : all[n] = r[i]

\* The candidates that are left when those without a title are skipped.
LEMMA TitledIs ==
    ASSUME NEW r \in Seq(Candidate), NEW all, all = At(r, TitledAt(r))
    PROVE  TitledList(r, all)
<1>1. TitledAt(r) \subseteq DOMAIN r
  BY Zenon DEF TitledAt
<1>2. all \in Seq(Candidate) /\ Members(all) = {r[i] : i \in TitledAt(r)}
  BY <1>1, AtIs
<1>3. Members(all) = {all[n] : n \in DOMAIN all}
  BY DEF Members
<1> QED BY <1>2, <1>3, Zenon DEF TitledList

\* A group has the support of its title.
LEMMA GroupRule ==
    ASSUME NEW r \in Seq(Candidate), NEW all, all = At(r, TitledAt(r)), NEW k,
           MineIn(r, k) # {}, NEW m, m = mergeGroup(At(all, KeyedAt(all, k)))
    PROVE  /\ normaliseTitle(m.title) = k
           /\ m.confidence = SupportIn(r, k)
           /\ m.confidence \in Int
<1> DEFINE Q == KeyedAt(all, k)
           g == At(all, Q)
           M == MineIn(r, k)
<1>1. /\ all \in Seq(Candidate)
      /\ \A n \in DOMAIN all : \E i \in TitledAt(r) : all[n] = r[i]
      /\ \A i \in TitledAt(r) : \E n \in DOMAIN all : all[n] = r[i]
  <2>1. TitledList(r, all)
    BY TitledIs, Zenon
  <2> QED BY <2>1, Zenon DEF TitledList
<1>2. Q \subseteq DOMAIN all
  BY DEF KeyedAt
<1>3. g \in Seq(Candidate) /\ Members(g) = {all[n] : n \in Q}
  <2> HIDE DEF Q
  <2> QED BY <1>1, <1>2, AtIs
<1>4. Members(g) = {g[n] : n \in DOMAIN g}
  BY DEF Members
<1>5. {all[n] : n \in Q} = {r[i] : i \in M}
  <2>1. ASSUME NEW n \in Q PROVE \E i \in M : all[n] = r[i]
    <3>1. n \in DOMAIN all /\ normaliseTitle(all[n].title) = k
      BY DEF KeyedAt
    <3>2. PICK i \in TitledAt(r) : all[n] = r[i]
      BY <1>1, <3>1
    <3>3. i \in M
      BY <3>1, <3>2, Zenon DEF TitledAt, MineIn
    <3> QED BY <3>2, <3>3
  <2>2. ASSUME NEW i \in M PROVE \E n \in Q : all[n] = r[i]
    <3>1. i \in TitledAt(r) /\ normaliseTitle(r[i].title) = k
      BY Zenon DEF TitledAt, MineIn
    <3>2. PICK n \in DOMAIN all : all[n] = r[i]
      BY <1>1, <3>1
    <3>3. n \in Q
      BY <3>1, <3>2 DEF KeyedAt
    <3> QED BY <3>2, <3>3
  <2> HIDE DEF Q, M
  <2> QED BY <2>1, <2>2
<1>22. {g[n] : n \in DOMAIN g} = {r[i] : i \in M}
  BY <1>3, <1>4, <1>5, Zenon
<1>6. \A n \in DOMAIN g : \E i \in M : g[n] = r[i]
  <2> HIDE DEF g, M
  <2> QED BY <1>22
<1>7. \A i \in M : \E n \in DOMAIN g : g[n] = r[i]
  <2> HIDE DEF g, M
  <2> QED BY <1>22, Zenon
<1> HIDE DEF g, M, Q
<1>8. PICK i0 \in M : TRUE
  BY DEF M
<1>9. Len(g) \in Nat /\ DOMAIN g = 1..Len(g)
  BY <1>3
<1>10. Len(g) >= 1
  <2>1. PICK n \in DOMAIN g : g[n] = r[i0]
    BY <1>7
  <2> QED BY <1>9, <2>1
<1> DEFINE S == {g[n].net : n \in DOMAIN g}
           nets == Cardinality(S)
<1>11. S = {r[i].net : i \in M}
  BY <1>6, <1>7
<1>12. nets = NetsIn(r, k)
  BY <1>11, Zenon DEF NetsIn, M
<1>13. nets \in Nat \ {0}
  <2> DEFINE h == [n \in 1..Len(g) |-> g[n].net]
  <2>1. Gives(h, 1..Len(g), S)
    BY <1>9 DEF Gives
  <2>2. g[1].net \in S
    BY <1>9, <1>10
  <2> HIDE DEF S, h
  <2>3. 1..Len(g) \subseteq 1..Len(g) /\ Len(g) \in Nat
    BY <1>9
  <2>4. IsFiniteSet(S) /\ nets \in Nat
    BY <2>1, <2>3, Given, Zenon
  <2>5. nets # 0
    BY <2>2, <2>4, FS_EmptySet
  <2> QED BY <2>4, <2>5
<1>14. PICK n \in DOMAIN g :
            /\ mergeGroup(g).title = g[n].title
            /\ mergeGroup(g).confidence = Raised(g[n].confidence, nets)
            /\ \A j \in DOMAIN g : g[j].confidence <= g[n].confidence
  BY <1>3, <1>10, <1>13, MergeRule, Zenon
<1> HIDE DEF nets
<1>15. PICK i \in M : g[n] = r[i]
  BY <1>6
<1>16. \A j \in M : r[j].confidence <= r[i].confidence
  BY <1>7, <1>14, <1>15
<1>17. BestIn(r, k) = r[i].confidence
  BY <1>15, <1>16, BestIs DEF M
<1>18. m = mergeGroup(g)
  BY DEF g, Q
<1>19. m.confidence = SupportIn(r, k)
  BY <1>12, <1>14, <1>15, <1>17, <1>18 DEF SupportIn
<1>20. normaliseTitle(m.title) = k
  <2>1. normaliseTitle(r[i].title) = k
    BY Zenon DEF M, MineIn
  <2> QED BY <1>14, <1>15, <1>18, <2>1
<1>21. m.confidence \in Int
  <2>1. r[i].confidence \in Int
    <3>1. r[i] \in Candidate
      BY <1>3, <1>15
    <3> QED BY <3>1, CandidateConstants
  <2> QED BY <1>13, <1>14, <1>15, <1>18, <2>1 DEF Raised
<1> QED BY <1>19, <1>20, <1>21

\* The titles that are proposed, normalised.
ProposedIn(r) == {normaliseTitle(r[i].title) : i \in TitledAt(r)}

\* Order has each proposed title once.
LEMMA OrderRule ==
    ASSUME NEW r \in Seq(Candidate), NEW all, all = At(r, TitledAt(r)),
           NEW o, o = Order(all), NEW K, K = Cardinality(ProposedIn(r))
    PROVE  /\ K \in Nat /\ o \in [1..K -> ProposedIn(r)]
           /\ \A m, n \in 1..K : o[m] = o[n] => m = n
           /\ \A k \in ProposedIn(r) : \E n \in 1..K : o[n] = k
<1> DEFINE Key(i) == normaliseTitle(all[i].title)
           F == {i \in DOMAIN all : \A j \in 1..(i - 1) : Key(j) # Key(i)}
           c == Cardinality(F)
           p == Listed(F)
           P == ProposedIn(r)
<1>1. /\ all \in Seq(Candidate)
      /\ \A n \in DOMAIN all : \E i \in TitledAt(r) : all[n] = r[i]
      /\ \A i \in TitledAt(r) : \E n \in DOMAIN all : all[n] = r[i]
  <2>1. TitledList(r, all)
    BY TitledIs, Zenon
  <2> QED BY <2>1, Zenon DEF TitledList
<1>2. Len(all) \in Nat /\ DOMAIN all = 1..Len(all)
  BY <1>1
<1>3. o = [n \in DOMAIN p |-> Key(p[n])]
  BY DEF Order
<1>4. \A n \in DOMAIN all : Key(n) \in P
  BY <1>1 DEF ProposedIn
<1>5. \A k \in P : \E n \in DOMAIN all : Key(n) = k
  BY <1>1 DEF ProposedIn
<1> HIDE DEF P
<1>6. /\ F \subseteq 1..Len(all)
      /\ \A m, n \in F : Key(m) = Key(n) => m = n
  <2>1. F \subseteq 1..Len(all)
    BY <1>2
  <2>2. ASSUME NEW m \in F, NEW n \in F, m < n PROVE Key(m) # Key(n)
    <3>1. m \in 1..(n - 1)
      BY <2>1, <2>2
    <3> QED BY <3>1
  <2>3. ASSUME NEW m \in F, NEW n \in F, Key(m) = Key(n) PROVE m = n
    <3>1. ~(m < n) /\ ~(n < m)
      BY <2>2, <2>3
    <3>2. m \in Nat /\ n \in Nat
      BY <1>2, <2>1
    <3> QED BY <3>1, <3>2
  <2> QED BY <2>1, <2>3
<1>7. ASSUME NEW k \in P PROVE \E n \in F : Key(n) = k
  <2> DEFINE T == {n \in 1..Len(all) : Key(n) = k}
  <2>1. T \subseteq Nat /\ T # {}
    BY <1>2, <1>5
  <2>2. PICK n \in T : \A x \in T : n <= x
    <3> HIDE DEF T
    <3> QED BY <2>1, LeastNumber, Zenon
  <2>3. n \in F
    <3>1. n \in DOMAIN all /\ Key(n) = k /\ n \in Nat
      BY <1>2
    <3>2. ASSUME NEW j \in 1..(n - 1) PROVE Key(j) # Key(n)
      <4>1. j \in 1..Len(all) /\ ~(n <= j)
        BY <1>2, <3>1
      <4> QED BY <2>2, <3>1, <4>1
    <3> QED BY <3>1, <3>2
  <2> QED BY <2>3
<1> HIDE DEF F
<1>8. IsFiniteSet(F) /\ F \subseteq Int
  BY <1>2, <1>6, SomePositions, Zenon
<1>9. Rises(p, F)
  BY <1>8, ListedIs, Zenon
<1>10. /\ c \in Nat /\ p \in [1..c -> F]
       /\ \A m, n \in 1..c : m < n => p[m] < p[n]
       /\ \A x \in F : \E n \in 1..c : p[n] = x
  BY <1>9 DEF Rises
<1> HIDE DEF c, p
<1>11. ASSUME NEW m \in 1..c, NEW n \in 1..c, p[m] = p[n] PROVE m = n
  <2>1. p[m] \in F /\ p[m] \in Int
    BY <1>8, <1>10, Zenon
  <2>2. ~(m < n) /\ ~(n < m)
    BY <1>10, <1>11, <2>1
  <2> QED BY <2>2
<1>12. o = [n \in 1..c |-> Key(p[n])]
  BY <1>3, <1>10
<1>13. \A n \in 1..c : o[n] = Key(p[n]) /\ p[n] \in F /\ Key(p[n]) \in P
  BY <1>2, <1>4, <1>6, <1>10, <1>12, Zenon
<1> HIDE DEF Key
<1>14. o \in [1..c -> P]
  BY <1>12, <1>13
<1>15. ASSUME NEW m \in 1..c, NEW n \in 1..c, o[m] = o[n] PROVE m = n
  <2>1. p[m] = p[n]
    BY <1>6, <1>13, <1>15, Zenon
  <2> QED BY <1>11, <2>1
<1>16. ASSUME NEW k \in P PROVE \E n \in 1..c : o[n] = k
  <2>1. PICK x \in F : Key(x) = k
    BY <1>7
  <2>2. PICK n \in 1..c : p[n] = x
    BY <1>10
  <2> QED BY <1>13, <2>1, <2>2
<1>17. Cardinality(P) = c
  BY <1>10, <1>14, <1>15, <1>16, Counted, Zenon
<1>18. K = c
  BY <1>17 DEF P
<1> QED BY <1>10, <1>14, <1>15, <1>16, <1>18 DEF P

\* The merged groups, before they are sorted.
Merged(all, order) == [n \in DOMAIN order |-> mergeGroup(At(all, KeyedAt(all, order[n])))]

\* The proposed titles, each once and with its support, the best supported first.
Ranking(r, P, s, K) ==
    /\ K \in Nat /\ Len(s) = K /\ DOMAIN s = 1..K
    /\ \A n \in 1..K : /\ normaliseTitle(s[n].title) \in P
                       /\ s[n].confidence = SupportIn(r, normaliseTitle(s[n].title))
                       /\ s[n].confidence \in Int
    /\ \A m, n \in 1..K : normaliseTitle(s[m].title) = normaliseTitle(s[n].title) => m = n
    /\ \A k \in P : \E n \in 1..K : normaliseTitle(s[n].title) = k
    /\ \A m, n \in 1..K : m < n => s[m].confidence >= s[n].confidence

\* What Resolve returns ranks the titles that are proposed.
LEMMA ResolveList ==
    ASSUME NEW r \in Seq(Candidate), NEW s, NEW K, K = Cardinality(ProposedIn(r)),
           s = MostConfidentFirst(Merged(At(r, TitledAt(r)), Order(At(r, TitledAt(r)))))
    PROVE  Ranking(r, ProposedIn(r), s, K)
<1> DEFINE all == At(r, TitledAt(r))
           o == Order(all)
           u == Merged(all, o)
           P == ProposedIn(r)
<1>1. /\ K \in Nat /\ o \in [1..K -> P]
      /\ \A m, n \in 1..K : o[m] = o[n] => m = n
      /\ \A k \in P : \E n \in 1..K : o[n] = k
  BY OrderRule
<1>2. \A k \in P : MineIn(r, k) # {}
  BY Zenon DEF ProposedIn, TitledAt, MineIn
<1>3. u = [n \in 1..K |-> mergeGroup(At(all, KeyedAt(all, o[n])))]
  BY <1>1 DEF Merged
<1>4. ASSUME NEW n \in 1..K
      PROVE  /\ normaliseTitle(u[n].title) = o[n]
             /\ u[n].confidence = SupportIn(r, o[n])
             /\ u[n].confidence \in Int
  <2>1. o[n] \in P
    BY <1>1
  <2>2. u[n] = mergeGroup(At(all, KeyedAt(all, o[n])))
    BY <1>3
  <2>3. MineIn(r, o[n]) # {}
    BY <1>2, <2>1
  <2>4. all = At(r, TitledAt(r))
    OBVIOUS
  <2> HIDE DEF all, o, u
  <2> QED BY <2>2, <2>3, <2>4, GroupRule
<1>5. DOMAIN u = 1..K
  BY <1>3
<1> HIDE DEF all, o, u, P
<1>6. PICK q : Confident(s, u, q, K)
  <2>1. K \in Nat
    BY <1>1
  <2>2. \E q : Confident(MostConfidentFirst(u), u, q, K)
    BY <1>4, <1>5, <2>1, ConfidentIs
  <2>3. s = MostConfidentFirst(u)
    BY DEF u, o, all
  <2> QED BY <2>2, <2>3
<1>7. /\ q \in [1..K -> 1..K]
      /\ \A x \in 1..K : \E n \in 1..K : q[n] = x
      /\ \A m, n \in 1..K : q[m] = q[n] => m = n
      /\ \A m, n \in 1..K : m < n => u[q[m]].confidence >= u[q[n]].confidence
      /\ DOMAIN s = 1..K /\ Len(s) = K
      /\ \A n \in 1..K : s[n] = u[q[n]]
  BY <1>6, Zenon DEF Confident
<1>8. ASSUME NEW n \in 1..K
      PROVE  /\ q[n] \in 1..K /\ o[q[n]] \in P
             /\ normaliseTitle(s[n].title) = o[q[n]]
             /\ s[n].confidence = SupportIn(r, o[q[n]])
             /\ s[n].confidence \in Int
  <2>1. q[n] \in 1..K
    BY <1>7, Zenon
  <2>2. o[q[n]] \in P
    BY <1>1, <2>1
  <2>3. s[n] = u[q[n]]
    BY <1>7, Zenon
  <2> QED BY <1>4, <2>1, <2>2, <2>3
<1>9. ASSUME NEW m \in 1..K, NEW n \in 1..K,
             normaliseTitle(s[m].title) = normaliseTitle(s[n].title)
      PROVE  m = n
  <2>1. o[q[m]] = o[q[n]] /\ q[m] \in 1..K /\ q[n] \in 1..K
    BY <1>8, <1>9
  <2>2. q[m] = q[n]
    BY <1>1, <2>1
  <2> QED BY <1>7, <2>2, Zenon
<1>10. ASSUME NEW k \in P PROVE \E n \in 1..K : normaliseTitle(s[n].title) = k
  <2>1. PICK x \in 1..K : o[x] = k
    BY <1>1
  <2>2. PICK n \in 1..K : q[n] = x
    BY <1>7
  <2> QED BY <1>8, <2>1, <2>2
<1>11. ASSUME NEW m \in 1..K, NEW n \in 1..K, m < n PROVE s[m].confidence >= s[n].confidence
  <2>1. u[q[m]].confidence >= u[q[n]].confidence
    BY <1>7, <1>11, Zenon
  <2>2. s[m] = u[q[m]] /\ s[n] = u[q[n]]
    BY <1>7, Zenon
  <2> QED BY <2>1, <2>2
<1>12. \A n \in 1..K : /\ normaliseTitle(s[n].title) \in P
                       /\ s[n].confidence = SupportIn(r, normaliseTitle(s[n].title))
                       /\ s[n].confidence \in Int
  BY <1>8
<1>13. K \in Nat
  BY <1>1
<1>14. Len(s) = K /\ DOMAIN s = 1..K
  BY <1>7
<1>15. \A m, n \in 1..K : normaliseTitle(s[m].title) = normaliseTitle(s[n].title) => m = n
  BY <1>9
<1>16. \A k \in P : \E n \in 1..K : normaliseTitle(s[n].title) = k
  BY <1>10
<1>17. \A m, n \in 1..K : m < n => s[m].confidence >= s[n].confidence
  BY <1>11
<1> QED BY <1>12, <1>13, <1>14, <1>15, <1>16, <1>17, Zenon DEF P, Ranking

\* s has each proposed title of P once with its support, the first has the most, and
\* it is contested when the support of another comes within 20 of it, and only
\* when that of another is no more than 20 below.
Resolved(r, P, s, contested) ==
    /\ {normaliseTitle(s[n].title) : n \in DOMAIN s} = P
    /\ Len(s) = Cardinality(P)
    /\ \A n \in DOMAIN s :
        /\ s[n].confidence = SupportIn(r, normaliseTitle(s[n].title))
        /\ SupportIn(r, normaliseTitle(s[n].title)) <= SupportIn(r, normaliseTitle(s[1].title))
    /\ (\E k \in P : /\ k # normaliseTitle(s[1].title)
                      /\ SupportIn(r, k) > SupportIn(r, normaliseTitle(s[1].title)) - 20)
        => contested
    /\ contested =>
        \E k \in P : /\ k # normaliseTitle(s[1].title)
                     /\ SupportIn(r, k) >= SupportIn(r, normaliseTitle(s[1].title)) - 20

\* What Resolve says of the candidates.
LEMMA ResolveRule ==
    ASSUME NEW r \in Seq(Candidate), NEW out0, out0 = Resolve(r),
           NEW P, P = ProposedIn(r), NEW s, s = out0.all
    PROVE  Resolved(r, P, s, out0.contested)
<1> USE DEF Resolved
<1> DEFINE K == Cardinality(P)
           z == MostConfidentFirst(Merged(At(r, TitledAt(r)), Order(At(r, TitledAt(r)))))
           close == Len(z) > 1 /\ Close(z[1].confidence, z[2].confidence)
           Key(n) == normaliseTitle(s[n].title)
<1>1. out0 = [all |-> z, contested |-> close]
  BY Zenon DEF Resolve, Where, TitledAt, KeyedAt, Merged
<1>2. s = z /\ (out0.contested = close)
  <2> HIDE DEF z, close
  <2> QED BY <1>1
<1>3. Ranking(r, P, s, K)
  <2>1. s = MostConfidentFirst(Merged(At(r, TitledAt(r)), Order(At(r, TitledAt(r)))))
    BY <1>2
  <2> HIDE DEF z, close
  <2> QED BY <2>1, ResolveList
<1>4. out0.contested <=> Len(s) > 1 /\ Close(s[1].confidence, s[2].confidence)
  BY <1>2, Zenon
<1> HIDE DEF z, close, K
<1>5. K \in Nat /\ Len(s) = K /\ DOMAIN s = 1..K
  BY <1>3, Zenon DEF Ranking
<1>6. \A n \in 1..K : Key(n) \in P /\ s[n].confidence = SupportIn(r, Key(n)) /\ s[n].confidence \in Int
  BY <1>3, Zenon DEF Ranking
<1>7. \A m, n \in 1..K : Key(m) = Key(n) => m = n
  BY <1>3, Zenon DEF Ranking
<1>8. \A k \in P : \E n \in 1..K : Key(n) = k
  BY <1>3, Zenon DEF Ranking
<1>9. \A m, n \in 1..K : m < n => s[m].confidence >= s[n].confidence
  BY <1>3, Zenon DEF Ranking
<1> HIDE DEF Key
<1>10. {Key(n) : n \in DOMAIN s} = P
  BY <1>5, <1>6, <1>8
<1>11. ASSUME NEW n \in 1..K PROVE SupportIn(r, Key(n)) <= SupportIn(r, Key(1))
  <2>1. 1 \in 1..K
    BY <1>5
  <2>2. CASE n = 1
    BY <1>6, <2>2
  <2>3. CASE 1 < n
    <3>1. s[1].confidence >= s[n].confidence
      BY <1>9, <2>1, <2>3
    <3> QED BY <1>6, <2>1, <3>1
  <2> QED BY <2>2, <2>3
<1>12. ASSUME out0.contested
       PROVE  \E k \in P : k # Key(1) /\ SupportIn(r, k) >= SupportIn(r, Key(1)) - 20
  <2>1. 1 \in 1..K /\ 2 \in 1..K /\ Close(s[1].confidence, s[2].confidence)
    BY <1>4, <1>5, <1>12
  <2>2. Key(2) \in P /\ Key(2) # Key(1)
    BY <1>6, <1>7, <2>1
  <2>3. SupportIn(r, Key(2)) >= SupportIn(r, Key(1)) - 20
    <3>1. /\ s[1].confidence = SupportIn(r, Key(1)) /\ s[2].confidence = SupportIn(r, Key(2))
          /\ s[1].confidence \in Int /\ s[2].confidence \in Int
      BY <1>6, <2>1
    <3> QED BY <2>1, <3>1 DEF Close
  <2> QED BY <2>2, <2>3
<1>13. ASSUME NEW k \in P, k # Key(1), SupportIn(r, k) > SupportIn(r, Key(1)) - 20
       PROVE  out0.contested
  <2>1. PICK n \in 1..K : Key(n) = k
    BY <1>8
  <2>2. n # 1
    BY <1>13, <2>1
  <2>3. 1 \in 1..K /\ 2 \in 1..K /\ Len(s) > 1
    BY <1>5, <2>2
  <2>4. s[2].confidence >= s[n].confidence
    <3>1. CASE n = 2
      BY <1>6, <3>1
    <3>2. CASE 2 < n
      BY <1>9, <2>3, <3>2
    <3> QED BY <2>2, <3>1, <3>2
  <2>5. /\ s[1].confidence = SupportIn(r, Key(1)) /\ s[n].confidence = SupportIn(r, k)
        /\ s[1].confidence \in Int /\ s[2].confidence \in Int /\ s[n].confidence \in Int
    BY <1>6, <2>1, <2>3
  <2>6. Close(s[1].confidence, s[2].confidence)
    BY <1>13, <2>4, <2>5 DEF Close
  <2> QED BY <1>4, <2>3, <2>6
<1>14. \A n \in DOMAIN s : /\ s[n].confidence = SupportIn(r, Key(n))
                           /\ SupportIn(r, Key(n)) <= SupportIn(r, Key(1))
  BY <1>5, <1>6, <1>11
<1>15. Len(s) = Cardinality(P)
  BY <1>5 DEF K
<1> QED BY <1>10, <1>12, <1>13, <1>14, <1>15 DEF Key

-----------------------------------------------------------------------------
(* decryptNeeded and Verifier.Title. *)

\* A region that a disc and a drive both allow is what the masks' complements
\* have in common, and no region set is none allowed.
LEMMA DecryptRule ==
    ASSUME NEW readable \in BOOLEAN, NEW p \in DiscProtection, NEW r \in DriveRegion
    PROVE  decryptNeeded(readable, p, r) <=>
            /\ readable
            /\ p.system # 0
            /\ r.scheme = RPC2
            /\ RegionsOfDisc(p) \cap RegionsOfDrive(r) = {}
<1>1. p.regionMask \subseteq Region /\ r.mask \subseteq Region
  BY DEF DiscProtection, DriveRegion
<1>2. CASE ~ IsSet(r)
  BY <1>2 DEF decryptNeeded, PlayableIn, Protected, CanDecryptCSS, RegionsOfDrive
<1>3. CASE IsSet(r)
  <2>1. RegionsOfDisc(p) \cap RegionsOfDrive(r) = (Region \ p.regionMask) \ r.mask
    BY <1>3 DEF RegionsOfDisc, RegionsOfDrive
  <2>2. RegionFree(p) => (Region \ p.regionMask) \ r.mask # {}
    BY <1>1, <1>3, Zenon DEF RegionFree, IsSet
  <2> QED BY <1>3, <2>1, <2>2 DEF decryptNeeded, PlayableIn, Protected, CanDecryptCSS
<1> QED BY <1>2, <1>3

\* Two hundredths of a duration, and five seconds, are less than a quarter of it
\* from 21 seconds on.
LEMMA DurationRule ==
    ASSUME NEW got \in Nat, NEW want \in Nat, want > 20,
           ~ durationProblem(got, want, DefaultTolerance)
    PROVE  4 * got > 3 * want /\ 4 * got < 5 * want
<1>1. CASE got < want
  BY <1>1 DEF durationProblem, DefaultTolerance, MinToleranceSecs
<1>2. CASE ~ (got < want)
  BY <1>2 DEF durationProblem, DefaultTolerance, MinToleranceSecs
<1> QED BY <1>1, <1>2

\* A file without a complaint is whole.
LEMMA AcceptRule ==
    ASSUME NEW want \in Output.want, NEW file \in Output.file, VerifyTitle(want, file) = {}
    PROVE  /\ file.exists /\ file.magic /\ file.probes
           /\ want.secs > 20 => 4 * file.secs > 3 * want.secs /\ 4 * file.secs < 5 * want.secs
           /\ \A k \in {"video", "audio", "subtitle"} : want[k] <= file[k]
<1>1. file.exists /\ file.magic /\ file.probes
  BY Zenon DEF VerifyTitle
<1>2. want.secs \in Nat /\ file.secs \in Nat
  BY ReadingConstants
<1>3. want.secs > 0 => ~ durationProblem(file.secs, want.secs, DefaultTolerance)
  BY <1>1, Zenon DEF VerifyTitle
<1>4. want.secs > 20 => 4 * file.secs > 3 * want.secs /\ 4 * file.secs < 5 * want.secs
  <2> SUFFICES ASSUME want.secs > 20
               PROVE  4 * file.secs > 3 * want.secs /\ 4 * file.secs < 5 * want.secs
    OBVIOUS
  <2>1. ~ durationProblem(file.secs, want.secs, DefaultTolerance)
    BY <1>2, <1>3
  <2> QED BY <1>2, <2>1, DurationRule, Zenon
<1>5. ASSUME NEW k \in {"video", "audio", "subtitle"} PROVE want[k] <= file[k]
  <2>1. want[k] \in Nat /\ file[k] \in Nat
    BY ReadingConstants
  <2>2. ~ (want[k] > 0 /\ file[k] < want[k])
    BY <1>1, Zenon DEF VerifyTitle
  <2>3. \A m, n \in Nat : ~ (m > 0 /\ n < m) => m <= n
    OBVIOUS
  <2> QED BY <2>1, <2>2, <2>3, Zenon
<1> QED BY <1>1, <1>4, <1>5, Zenon

-----------------------------------------------------------------------------
(* Readings: what is returned is always what the rules say of all that was read. *)

\* What the drive is asked, and what the verifier is given.
Asked == [cfg : RipConfig, readable : BOOLEAN, p : DiscProtection, r : DriveRegion]
Checked == [want : Output.want, file : Output.file]

\* The titles of the DVD that is swept, by the numbers the disc gives them.
OnTheDvd == {DvdTitle(i, dvd[i + 1]) : i \in Nat}

\* A fingerprint that was taken of the titles of a disc.
Shelved(s) ==
    \/ s = <<>>
    \/ \E t \in Seq(Title) : s = <<[titles |-> t, out |-> ComputeFingerprint("label", t)]>>

\* The inductive invariant: what each job has read, and that what it returns is what
\* the rule says of all of it.
ReadingInv ==
    /\ job \in Job
    /\ job = "bluray" =>
        /\ read \in Seq(Playlist)
        /\ \A i, j \in DOMAIN read : read[i].file = read[j].file => i = j
        /\ out = Titles(read, MinTitleSeconds)
    /\ job = "robot" => ScanKeeps(scan, read) /\ out = Scan(scan)
    /\ job = "dvd" =>
        /\ read \in Seq(OnTheDvd)
        /\ phase = "done" => out = Filtered(read, MinTitleSeconds)
    /\ job = "disc" =>
        /\ read \in Seq(Title)
        /\ out = ComputeFingerprint("label", read)
        /\ Shelved(shelf)
    /\ job = "filing" => Swept(read) /\ out = Plan("name", "short", read, Classify(read))
    /\ job = "label" => read \in Seq(Word) /\ out = Name(read)
    /\ job = "streams" => read \in Seq(Stream) /\ out = Select(read, Language)
    /\ job = "failure" =>
        /\ read \in Seq(PrintedLine)
        /\ out.ffmpeg = ClassifyFailure(<<lastLines(read, 3)>>)
        /\ out.makemkv = ClassifyFailure(<<NoTitlesFound(summarise(read))>>)
    /\ job = "nets" => read \in Seq(Candidate) /\ out = Resolve(read)
    /\ job = "region" =>
        /\ read \in Seq(Asked)
        /\ read # <<>> =>
            LET asked == read[Len(read)]
            IN out = {ripSource(asked.cfg, asked.readable, asked.p, asked.r)}
    /\ job = "verify" =>
        /\ read \in Seq(Checked)
        /\ read # <<>> => out = VerifyTitle(read[Len(read)].want, read[Len(read)].file)

\* The rule of each job that is judged by all it has read.
LEMMA OutcomeIs ==
    ASSUME NEW r
    PROVE  /\ Outcome("bluray", r) = Titles(r, MinTitleSeconds)
           /\ Outcome("dvd", r) = Filtered(r, MinTitleSeconds)
           /\ Outcome("disc", r) = ComputeFingerprint("label", r)
           /\ Outcome("filing", r) = Plan("name", "short", r, Classify(r))
           /\ Outcome("label", r) = Name(r)
           /\ Outcome("streams", r) = Select(r, Language)
           /\ Outcome("failure", r) =
                [ffmpeg |-> ClassifyFailure(<<lastLines(r, 3)>>),
                 makemkv |-> ClassifyFailure(<<NoTitlesFound(summarise(r))>>)]
           /\ Outcome("nets", r) = Resolve(r)
BY DEF Outcome

\* Reading an item adds it to what was read.
LEMMA OneMoreRead ==
    ASSUME NEW j, NEW item, Reads(j, item), NEW S, read \in Seq(S), item \in S
    PROVE  /\ job = j /\ job' = j /\ shelf' = shelf
           /\ read' = Append(read, item) /\ read' \in Seq(S)
           /\ Len(read) \in Nat /\ Len(read') = Len(read) + 1
           /\ DOMAIN read = 1..Len(read) /\ DOMAIN read' = 1..(Len(read) + 1)
           /\ \A i \in DOMAIN read : read'[i] = read[i]
           /\ read'[Len(read')] = item
BY DEF Reads

\* When a job starts nothing was read, and what is returned is the rule of nothing.
LEMMA ReadingInit == Init => ReadingInv
<1> SUFFICES ASSUME Init PROVE ReadingInv
  OBVIOUS
<1>1. /\ job \in Job /\ read = <<>> /\ scan = NothingScanned /\ shelf = <<>> /\ phase = "sweeping"
      /\ job = "robot" => out = Scan(scan)
      /\ job \notin {"region", "verify", "robot"} => out = Outcome(job, <<>>)
  BY DEF Init
<1>2. \A S : read \in Seq(S)
  BY <1>1
<1>3. \A i \in DOMAIN read : FALSE
  BY <1>1
<1>4. Swept(read)
  BY <1>2, <1>3 DEF Swept
<1>5. ScanKeeps(scan, read)
  BY <1>1, ScanInit
<1>6. Shelved(shelf)
  BY <1>1 DEF Shelved
<1>7. /\ job = "bluray" => out = Titles(read, MinTitleSeconds)
      /\ job = "disc" => out = ComputeFingerprint("label", read)
      /\ job = "filing" => out = Plan("name", "short", read, Classify(read))
      /\ job = "label" => out = Name(read)
      /\ job = "streams" => out = Select(read, Language)
      /\ job = "failure" => out = [ffmpeg |-> ClassifyFailure(<<lastLines(read, 3)>>),
                                   makemkv |-> ClassifyFailure(<<NoTitlesFound(summarise(read))>>)]
      /\ job = "nets" => out = Resolve(read)
  BY <1>1, OutcomeIs
<1>8. job = "failure" => /\ out.ffmpeg = ClassifyFailure(<<lastLines(read, 3)>>)
                         /\ out.makemkv = ClassifyFailure(<<NoTitlesFound(summarise(read))>>)
  BY <1>7
<1> QED BY <1>1, <1>2, <1>3, <1>4, <1>5, <1>6, <1>7, <1>8 DEF ReadingInv

\* Every way a step of the sweep of a DVD may go keeps the invariant.
LEMMA SweepStep ==
    ASSUME ReadingInv, Sweeping, SweepEnds \/ ProbeFails \/ CutOff \/ ContextEnds \/ ProbeTitle
    PROVE  ReadingInv'
<1>1. /\ job = "dvd" /\ phase = "sweeping" /\ read \in Seq(OnTheDvd)
  BY DEF ReadingInv, Sweeping
<1>2. ASSUME NEW d, DvdTitle(Len(read), d) \in OnTheDvd, read' = Append(read, DvdTitle(Len(read), d))
      PROVE  read' \in Seq(OnTheDvd)
  BY <1>1, <1>2
<1>3. ASSUME job' = job, dvd' = dvd, read' \in Seq(OnTheDvd),
             phase' # "done" \/ out' = Filtered(read', MinTitleSeconds)
      PROVE  ReadingInv'
  <2>1. OnTheDvd' = OnTheDvd
    BY <1>3 DEF OnTheDvd
  <2>2. job' = "dvd" /\ job' \in Job
    BY <1>1, <1>3 DEF Job
  <2> QED BY <1>3, <2>1, <2>2, Zenon DEF ReadingInv
<1>4. ASSUME NEW c, AttemptFails(c) PROVE ReadingInv'
  <2>1. job' = job /\ dvd' = dvd /\ phase' # "done" /\ (read' = read \/ read' = <<>>)
    BY <1>1, <1>4 DEF AttemptFails
  <2>2. <<>> \in Seq(OnTheDvd)
    OBVIOUS
  <2>3. read' \in Seq(OnTheDvd)
    BY <1>1, <2>1, <2>2, Zenon
  <2> QED BY <1>3, <2>1, <2>3
<1>5. ASSUME NEW c, SweepStops(c) PROVE ReadingInv'
  <2>1. CASE AttemptFails(c)
    BY <1>4, <2>1
  <2>2. CASE ~AttemptFails(c)
    <3>1. job' = job /\ dvd' = dvd /\ read' = read /\ out' = Outcome("dvd", read)
      BY <1>5, <2>2 DEF SweepStops
    <3> QED BY <1>1, <1>3, <3>1, OutcomeIs, Zenon
  <2> QED BY <2>1, <2>2
<1>6. CASE SweepEnds
  BY <1>5, <1>6 DEF SweepEnds
<1>7. CASE ProbeFails
  BY <1>5, <1>7 DEF ProbeFails
<1>8. CASE CutOff
  BY <1>4, <1>8 DEF CutOff
<1>9. CASE ContextEnds
  <2>1. job' = job /\ dvd' = dvd /\ read' = read /\ phase' # "done"
    BY <1>1, <1>9 DEF ContextEnds
  <2> QED BY <1>1, <1>3, <2>1
<1>10. CASE ProbeTitle
  <2> DEFINE d == DurationOf(Len(read) + 1)
  <2>1. /\ job' = job /\ dvd' = dvd /\ phase' # "done" /\ d > 0
        /\ read' = Append(read, DvdTitle(Len(read), d))
    BY <1>1, <1>10 DEF ProbeTitle, sweep
  <2>2. d = dvd[Len(read) + 1]
    BY <2>1 DEF DurationOf
  <2>3. Len(read) \in Nat
    BY <1>1
  <2>4. DvdTitle(Len(read), d) \in OnTheDvd
    BY <2>2, <2>3, Zenon DEF OnTheDvd
  <2> HIDE DEF d
  <2> QED BY <1>2, <1>3, <2>1, <2>4
<1> QED BY <1>6, <1>7, <1>8, <1>9, <1>10

\* Every step keeps the invariant.
LEMMA ReadingStep == ReadingInv /\ [Next]_vars => ReadingInv'
<1> SUFFICES ASSUME ReadingInv, [Next]_vars PROVE ReadingInv'
  OBVIOUS
<1>1. CASE UNCHANGED vars
  <2>1. /\ job' = job /\ read' = read /\ out' = out /\ scan' = scan /\ shelf' = shelf
        /\ phase' = phase /\ dvd' = dvd
    BY <1>1 DEF vars
  <2>2. OnTheDvd' = OnTheDvd
    BY <2>1 DEF OnTheDvd
  <2>3. CASE job = "bluray"
    BY <2>1, <2>3, Zenon DEF ReadingInv, Job
  <2>4. CASE job = "robot"
    BY <2>1, <2>4 DEF ReadingInv, Job
  <2>5. CASE job = "dvd"
    BY <2>1, <2>2, <2>5, Zenon DEF ReadingInv, Job
  <2>6. CASE job = "disc"
    BY <2>1, <2>6, Zenon DEF ReadingInv, Job
  <2>7. CASE job = "filing"
    BY <2>1, <2>7, Zenon DEF ReadingInv, Job
  <2>8. CASE job = "label"
    BY <2>1, <2>8, Zenon DEF ReadingInv, Job
  <2>9. CASE job = "streams"
    BY <2>1, <2>9, Zenon DEF ReadingInv, Job
  <2>10. CASE job = "failure"
    BY <2>1, <2>10 DEF ReadingInv, Job
  <2>11. CASE job = "nets"
    BY <2>1, <2>11 DEF ReadingInv, Job
  <2>12. CASE job = "region"
    BY <2>1, <2>12 DEF ReadingInv, Job
  <2>13. CASE job = "verify"
    BY <2>1, <2>13, Zenon DEF ReadingInv, Job
  <2> QED BY <2>3, <2>4, <2>5, <2>6, <2>7, <2>8, <2>9, <2>10, <2>11, <2>12, <2>13, Zenon
      DEF ReadingInv, Job
<1>2. CASE ReadPlaylist
  <2>1. PICK p \in Playlist :
            /\ \A i \in DOMAIN read : job = "bluray" => read[i].file # p.file
            /\ Reads("bluray", p)
            /\ out' = Outcome("bluray", read')
    BY <1>2 DEF ReadPlaylist
  <2>2. job = "bluray"
    BY <2>1 DEF Reads
  <2>3. /\ read \in Seq(Playlist)
        /\ \A i, j \in DOMAIN read : read[i].file = read[j].file => i = j
    BY <2>2 DEF ReadingInv
  <2>4. /\ job' = "bluray" /\ read' \in Seq(Playlist)
        /\ Len(read) \in Nat /\ Len(read') = Len(read) + 1
        /\ DOMAIN read = 1..Len(read) /\ DOMAIN read' = 1..(Len(read) + 1)
        /\ \A i \in DOMAIN read : read'[i] = read[i]
        /\ read'[Len(read')] = p
    BY <2>1, <2>3, OneMoreRead
  <2>5. \A i, j \in DOMAIN read' : read'[i].file = read'[j].file => i = j
    <3> SUFFICES ASSUME NEW i \in DOMAIN read', NEW j \in DOMAIN read',
                        read'[i].file = read'[j].file, i # j
                 PROVE  FALSE
      OBVIOUS
    <3>1. (i \in DOMAIN read \/ i = Len(read')) /\ (j \in DOMAIN read \/ j = Len(read'))
      BY <2>4
    <3>2. \A k \in DOMAIN read : read'[k] = read[k] /\ read[k].file # p.file
      BY <2>1, <2>2, <2>4
    <3> QED BY <2>3, <2>4, <3>1, <3>2, Zenon
  <2>6. out' = Titles(read', MinTitleSeconds)
    BY <2>1, OutcomeIs, Zenon
  <2> QED BY <2>4, <2>5, <2>6, Zenon DEF ReadingInv, Job
<1>3. CASE ReadRobotLine
  <2>1. PICK l \in RobotLine : Reads("robot", l) /\ out' = Scan(scan')
    BY <1>3 DEF ReadRobotLine
  <2>2. job = "robot" /\ job' = "robot" /\ read' = Append(read, l) /\ scan' = ScanLine(scan, l)
    BY <2>1 DEF Reads
  <2>3. ScanKeeps(scan, read)
    BY <2>2 DEF ReadingInv
  <2>4. ScanKeeps(scan', read')
    BY <2>2, <2>3, ScanStep
  <2> QED BY <2>1, <2>2, <2>4, Zenon DEF ReadingInv, Job
<1>4. CASE ReadTitle
  <2>1. PICK t \in Title : Reads("disc", t) /\ out' = Outcome("disc", read')
    BY <1>4 DEF ReadTitle
  <2>2. job = "disc"
    BY <2>1 DEF Reads
  <2>3. read \in Seq(Title) /\ Shelved(shelf)
    BY <2>2 DEF ReadingInv
  <2>4. job' = "disc" /\ read' \in Seq(Title) /\ shelf' = shelf
    BY <2>1, <2>3, OneMoreRead
  <2>5. out' = ComputeFingerprint("label", read') /\ Shelved(shelf')
    BY <2>1, <2>3, <2>4, OutcomeIs, Zenon
  <2> QED BY <2>4, <2>5, Zenon DEF ReadingInv, Job
<1>5. CASE NextDisc
  <2>1. /\ job = "disc" /\ job' = "disc" /\ read' = <<>> /\ out' = Outcome("disc", <<>>)
        /\ shelf' = <<[titles |-> read, out |-> out]>>
    BY <1>5 DEF NextDisc
  <2>2. read \in Seq(Title) /\ out = ComputeFingerprint("label", read)
    BY <2>1, Zenon DEF ReadingInv
  <2>3. Shelved(shelf')
    BY <2>1, <2>2 DEF Shelved
  <2>4. read' \in Seq(Title)
    BY <2>1
  <2>5. out' = ComputeFingerprint("label", read')
    BY <2>1, OutcomeIs, Zenon
  <2> QED BY <2>1, <2>3, <2>4, <2>5, Zenon DEF ReadingInv, Job
<1>6. CASE FileTitle
  <2> DEFINE T == [index : Nat, secs : Nat, size : {0}]
  <2>1. PICK t \in Title :
            /\ Reads("filing", DvdTitle(Len(read), t.secs))
            /\ out' = Outcome("filing", read')
    BY <1>6 DEF FileTitle
  <2> DEFINE item == DvdTitle(Len(read), t.secs)
  <2>2. job = "filing"
    BY <2>1 DEF Reads
  <2>3. Swept(read)
    BY <2>2 DEF ReadingInv
  <2>4. read \in Seq(T) /\ \A i \in DOMAIN read : read[i].index = i - 1
    BY <2>3 DEF Swept
  <2>5. Len(read) \in Nat /\ t.secs \in Nat
    BY <2>4, TitleConstants
  <2>6. item \in T /\ item.index = Len(read)
    BY <2>5 DEF DvdTitle
  <2> HIDE DEF item
  <2>7. /\ job' = "filing" /\ read' \in Seq(T) /\ Len(read') = Len(read) + 1
        /\ DOMAIN read = 1..Len(read) /\ DOMAIN read' = 1..(Len(read) + 1)
        /\ \A i \in DOMAIN read : read'[i] = read[i]
        /\ read'[Len(read')] = item
    <3>1. Reads("filing", item)
      BY <2>1 DEF item
    <3> HIDE DEF T
    <3> QED BY <3>1, <2>4, <2>6, OneMoreRead
  <2>8. \A i \in DOMAIN read' : read'[i].index = i - 1
    <3> SUFFICES ASSUME NEW i \in DOMAIN read' PROVE read'[i].index = i - 1
      OBVIOUS
    <3>1. CASE i \in DOMAIN read
      BY <2>4, <2>7, <3>1
    <3>2. CASE i = Len(read')
      BY <2>5, <2>6, <2>7, <3>2
    <3> QED BY <2>5, <2>7, <3>1, <3>2
  <2>9. Swept(read')
    BY <2>7, <2>8 DEF Swept
  <2>10. out' = Plan("name", "short", read', Classify(read'))
    BY <2>1, OutcomeIs, Zenon
  <2>11. job' = "filing"
    BY <2>7
  <2> QED BY <2>9, <2>10, <2>11, Zenon DEF ReadingInv, Job
<1>7. CASE ReadWord
  <2>1. PICK w \in Word : Reads("label", w) /\ out' = Outcome("label", read')
    BY <1>7 DEF ReadWord
  <2>2. read \in Seq(Word)
    BY <2>1, Zenon DEF Reads, ReadingInv
  <2>3. job' = "label" /\ read' \in Seq(Word)
    BY <2>1, <2>2, OneMoreRead
  <2>4. out' = Name(read')
    BY <2>1, OutcomeIs, Zenon
  <2> QED BY <2>3, <2>4, Zenon DEF ReadingInv, Job
<1>8. CASE ReadStream
  <2>1. PICK s \in Stream : Reads("streams", s) /\ out' = Outcome("streams", read')
    BY <1>8 DEF ReadStream
  <2>2. read \in Seq(Stream)
    BY <2>1, Zenon DEF Reads, ReadingInv
  <2>3. job' = "streams" /\ read' \in Seq(Stream)
    BY <2>1, <2>2, OneMoreRead
  <2>4. out' = Select(read', Language)
    BY <2>1, OutcomeIs, Zenon
  <2> QED BY <2>3, <2>4, Zenon DEF ReadingInv, Job
<1>9. CASE ReadPrintedLine
  <2>1. PICK l \in PrintedLine : Reads("failure", l) /\ out' = Outcome("failure", read')
    BY <1>9 DEF ReadPrintedLine
  <2>2. read \in Seq(PrintedLine)
    BY <2>1, Zenon DEF Reads, ReadingInv
  <2>3. job' = "failure" /\ read' \in Seq(PrintedLine)
    BY <2>1, <2>2, OneMoreRead
  <2>4. out' = [ffmpeg |-> ClassifyFailure(<<lastLines(read', 3)>>),
                makemkv |-> ClassifyFailure(<<NoTitlesFound(summarise(read'))>>)]
    BY <2>1, OutcomeIs
  <2>5. /\ out'.ffmpeg = ClassifyFailure(<<lastLines(read', 3)>>)
        /\ out'.makemkv = ClassifyFailure(<<NoTitlesFound(summarise(read'))>>)
    BY <2>4
  <2> QED BY <2>3, <2>5, Zenon DEF ReadingInv, Job
<1>10. CASE AskNet
  <2>1. PICK c \in Candidate : Reads("nets", c) /\ out' = Outcome("nets", read')
    BY <1>10 DEF AskNet
  <2>2. read \in Seq(Candidate)
    BY <2>1, Zenon DEF Reads, ReadingInv
  <2>3. job' = "nets" /\ read' \in Seq(Candidate)
    BY <2>1, <2>2, OneMoreRead
  <2>4. out' = Resolve(read')
    BY <2>1, OutcomeIs, Zenon
  <2> QED BY <2>3, <2>4, Zenon DEF ReadingInv, Job
<1>11. CASE ReadRegion
  <2>1. PICK cfg \in RipConfig, a \in BOOLEAN, p \in DiscProtection, r \in DriveRegion :
            /\ Reads("region", [cfg |-> cfg, readable |-> a, p |-> p, r |-> r])
            /\ out' = {ripSource(cfg, a, p, r)}
    BY <1>11, Zenon DEF ReadRegion
  <2> DEFINE item == [cfg |-> cfg, readable |-> a, p |-> p, r |-> r]
  <2>2. item \in Asked /\ item.cfg = cfg /\ item.readable = a /\ item.p = p /\ item.r = r
    BY DEF Asked
  <2>3. read \in Seq(Asked) /\ Reads("region", item)
    BY <2>1 DEF Reads, ReadingInv
  <2> HIDE DEF item
  <2>4. job' = "region" /\ read' \in Seq(Asked) /\ read'[Len(read')] = item
    BY <2>2, <2>3, OneMoreRead
  <2> QED BY <2>1, <2>2, <2>4, Zenon DEF ReadingInv, Job
<1>12. CASE Verify
  <2>1. PICK want \in Output.want, file \in Output.file :
            /\ Reads("verify", [want |-> want, file |-> file])
            /\ out' = VerifyTitle(want, file)
    BY <1>12 DEF Verify
  <2> DEFINE item == [want |-> want, file |-> file]
  <2>2. item \in Checked /\ item.want = want /\ item.file = file
    BY DEF Checked
  <2>3. read \in Seq(Checked) /\ Reads("verify", item)
    BY <2>1, Zenon DEF Reads, ReadingInv
  <2> HIDE DEF item
  <2>4. job' = "verify" /\ read' \in Seq(Checked) /\ read'[Len(read')] = item
    BY <2>2, <2>3, OneMoreRead
  <2> QED BY <2>1, <2>2, <2>4, Zenon DEF ReadingInv, Job
<1>13. CASE SweepEnds \/ ProbeFails \/ CutOff \/ ContextEnds \/ ProbeTitle
  <2>1. Sweeping
    BY <1>13 DEF SweepEnds, ProbeFails, CutOff, ContextEnds, ProbeTitle
  <2> QED BY <1>13, <2>1, SweepStep
<1> QED BY <1>1, <1>2, <1>3, <1>4, <1>5, <1>6, <1>7, <1>8, <1>9, <1>10, <1>11, <1>12, <1>13,
        Zenon DEF Next

-----------------------------------------------------------------------------
(* What the rules say of a reading. *)

\* Each playlist worth a title becomes one (Titles).
LEMMA PlaylistsFollow == ReadingInv => PlaylistsBecomeTitles
<1> SUFFICES ASSUME ReadingInv, job = "bluray" PROVE PlaylistsBecomeTitles
  BY Zenon DEF PlaylistsBecomeTitles
<1> DEFINE least == IF MinTitleSeconds <= 0 THEN 60 ELSE MinTitleSeconds
           kept == LowestOf(read, LongEnough(read, least))
<1>1. /\ read \in Seq(Playlist) /\ out = Titles(read, MinTitleSeconds)
      /\ \A i, j \in DOMAIN read : read[i].file = read[j].file => i = j
  BY Zenon DEF ReadingInv
<1>2. MinTitleSeconds \in Int
  BY ReadingConstants
<1>3. TitlesMadeOf(read, kept, out)
  BY <1>1, <1>2, PlaylistRule
<1> QED BY <1>3, Zenon DEF PlaylistsBecomeTitles, TitlesMadeOf, LowestOf, LongEnough

\* The scan is what the robot lines said last (Scan).
LEMMA ScanFollows == ReadingInv => ScanIsWhatWasSaid
<1> SUFFICES ASSUME ReadingInv, job = "robot" PROVE ScanIsWhatWasSaid
  BY Zenon DEF ScanIsWhatWasSaid
<1> DEFINE Last(t, k, value) ==
                \/ SaidOf(read, t, k) = {} /\ value = 0
                \/ \E i \in SaidOf(read, t, k) :
                        value = read[i].value /\ \A j \in SaidOf(read, t, k) : j <= i
           Has(t) == {read[i].key : i \in {j \in DOMAIN read :
                                read[j].kind = "SINFO" /\ read[j].title = t}}
           titles == out.titles
<1>1. ScanKeeps(scan, read) /\ out = Scan(scan)
  BY DEF ReadingInv
<1>2. ListsTitles(scan, read, titles)
  BY <1>1, ScanTitles
<1>3. ASSUME NEW n \in DOMAIN titles
      PROVE  /\ Last(titles[n].index, attrDuration, titles[n].secs)
             /\ Last(titles[n].index, attrDiskSizeBytes, titles[n].size)
             /\ Last(titles[n].index, attrSourceFileName, titles[n].source)
             /\ {titles[n].streams[k][1] : k \in DOMAIN titles[n].streams} = Has(titles[n].index)
             /\ \A k \in 2..Len(titles[n].streams) :
                    titles[n].streams[k - 1][1] < titles[n].streams[k][1]
  <2>1. PICK t : t = titles[n].index
    OBVIOUS
  <2>2. titles[n] = ScanTitle(scan, t)
    BY <1>2, <2>1, Zenon DEF ListsTitles
  <2>3. TitleAsSaid(scan, read, t, titles[n])
    BY <1>1, <2>2, ScanTitleRule
  <2>4. /\ titles[n].secs = Attr(scan, t, attrDuration)
        /\ titles[n].size = Attr(scan, t, attrDiskSizeBytes)
        /\ titles[n].source = Attr(scan, t, attrSourceFileName)
        /\ {titles[n].streams[k][1] : k \in DOMAIN titles[n].streams} = Has(t)
        /\ \A k \in 2..Len(titles[n].streams) :
                    titles[n].streams[k - 1][1] < titles[n].streams[k][1]
    BY <2>3, Zenon DEF TitleAsSaid
  <2>5. \A k : Last(t, k, Attr(scan, t, k))
    BY <1>1, AttrRule, Zenon
  <2> HIDE DEF Last, Has
  <2> QED BY <2>1, <2>4, <2>5, Zenon
<1>4. Cardinality({i \in DOMAIN read : read[i].kind = "MSG"}) > Len(titles) => out.warnings # {}
  BY <1>1, ScanWarns, Zenon
<1> QED BY <1>2, <1>3, <1>4, Zenon DEF ScanIsWhatWasSaid, SaidOf, ListsTitles

\* A title of a DVD keeps the number the disc gives it (Enumerate, Filtered).
LEMMA IndexFollows == ReadingInv => IndexIsTheDiscsOwn
<1> SUFFICES ASSUME ReadingInv, job = "dvd", phase = "done", NEW n \in DOMAIN out
             PROVE  dvd[TitleArgument(out[n])] = out[n].secs
  BY DEF IndexIsTheDiscsOwn
<1>1. read \in Seq(OnTheDvd) /\ out = Filtered(read, MinTitleSeconds)
  BY Zenon DEF ReadingInv
<1>2. PICK i \in DOMAIN read : out[n] = read[i]
  BY <1>1, FilteredRule
<1>3. read[i] \in OnTheDvd
  BY <1>1
<1>4. PICK k \in Nat : read[i] = DvdTitle(k, dvd[k + 1])
  BY <1>3 DEF OnTheDvd
<1> QED BY <1>2, <1>4 DEF DvdTitle, TitleArgument

\* Two discs have one fingerprint exactly if their titles are alike (ComputeFingerprint).
LEMMA FingerprintFollows == ReadingInv => FingerprintIsTheDiscs
<1> SUFFICES ASSUME ReadingInv, job = "disc", shelf # <<>> PROVE FingerprintIsTheDiscs
  BY Zenon DEF FingerprintIsTheDiscs
<1>1. read \in Seq(Title) /\ out = ComputeFingerprint("label", read) /\ Shelved(shelf)
  BY Zenon DEF ReadingInv
<1>2. PICK t \in Seq(Title) : shelf = <<[titles |-> t, out |-> ComputeFingerprint("label", t)]>>
  BY <1>1 DEF Shelved
<1>3. shelf[1].titles = t /\ shelf[1].out = ComputeFingerprint("label", t)
  BY <1>2
<1>4. out = shelf[1].out <=>
        \A w \in Members(read) \cup Members(t) :
            CountOf(read, w.secs, w.size) = CountOf(t, w.secs, w.size)
  BY <1>1, <1>3, FingerprintRule
<1> QED BY <1>3, <1>4, Zenon DEF FingerprintIsTheDiscs, CountOf

\* A disc is filed by the shape of its titles (Classify, Plan).
LEMMA ShapeFollows == ReadingInv => FiledByShape
<1> SUFFICES ASSUME ReadingInv, job = "filing", read # <<>> PROVE FiledByShape
  BY DEF FiledByShape
<1> DEFINE features == FeaturesOf(out)
           k == Len(read)
<1>1. Swept(read) /\ out = Plan("name", "short", read, Classify(read))
  BY DEF ReadingInv
<1>2. k >= 1
  BY <1>1 DEF Swept
<1>3. Classify(read) = "movie" <=> FilmShape(read)
  BY <1>1, <1>2, ShapeRule
<1>4. PlannedAs(read, Classify(read), out, features)
  BY <1>1, <1>2, PlanRule
<1>5. /\ FilmShape(read) <=> features # {}
      /\ Cardinality(features) <= 1
      /\ \A n \in features : \E i \in DOMAIN read :
            read[i].index = out[n].index /\ read[i].secs = read[LongestOf(read)].secs
      /\ \A m, n \in DOMAIN out : m # n => out[m].path # out[n].path
  BY <1>3, <1>4, Zenon DEF PlannedAs
<1>6. \A I : Middle(I) = MiddleIn(read, I)
  BY Zenon DEF Middle, MiddleIn
<1>7. \A I : Level(I) <=> LevelIn(read, I)
  <2> SUFFICES ASSUME NEW I PROVE Level(I) <=> LevelIn(read, I)
    OBVIOUS
  <2>1. Middle(I) = MiddleIn(read, I)
    BY <1>6, Zenon
  <2> QED BY <2>1 DEF Level, LevelIn
<1>8. FilmShape(read) <=>
        /\ read[LongestOf(read)].secs >= 2700
        /\ Cardinality(DOMAIN read) > 1 =>
            /\ read[LongestOf(read)].secs >= 2 * Middle(DOMAIN read)
            /\ ~Level(DOMAIN read \ {LongestOf(read)})
  <2> DEFINE l == LongestOf(read)
             D == DOMAIN read
  <2>1. Middle(D) = MiddleIn(read, D)
    BY <1>6, Zenon
  <2>2. Level(D \ {l}) <=> LevelIn(read, D \ {l})
    BY <1>7, Zenon
  <2> QED BY <2>1, <2>2 DEF FilmShape
<1>9. (/\ read[LongestOf(read)].secs >= 2700
       /\ Cardinality(DOMAIN read) > 1 =>
            /\ read[LongestOf(read)].secs >= 2 * Middle(DOMAIN read)
            /\ ~Level(DOMAIN read \ {LongestOf(read)})) <=> features # {}
  BY <1>5, <1>8
<1> QED
  <2>1. /\ Cardinality(features) <= 1
        /\ \A n \in features : \E i \in DOMAIN read :
            read[i].index = out[n].index /\ read[i].secs = read[LongestOf(read)].secs
        /\ \A m, n \in DOMAIN out : m # n => out[m].path # out[n].path
    BY <1>5
  <2> QED BY <1>9, <2>1, Zenon DEF FiledByShape, FeaturesOf, LongestOf

\* The words of a label survive in the name (Name).
LEMMA WordsFollow == ReadingInv => TitleWordsSurvive
<1> SUFFICES ASSUME ReadingInv, job = "label", read # <<>> PROVE TitleWordsSurvive
  BY DEF TitleWordsSurvive
<1>1. read \in Seq(Word) /\ out = Name(read)
  BY Zenon DEF ReadingInv
<1>2. NamedBy(read, out)
  BY <1>1, NameRule
<1> QED BY <1>2, Zenon DEF TitleWordsSurvive, NamedBy

\* The best audio is kept (Select).
LEMMA AudioFollows == ReadingInv => BestAudioIsKept
<1> SUFFICES ASSUME ReadingInv, job = "streams" PROVE BestAudioIsKept
  BY DEF BestAudioIsKept
<1> DEFINE V == OfKind(read, "video")
           A == OfKind(read, "audio")
           B == OfKind(read, "subtitle")
           kept == Members(out.maps)
<1>1. read \in Seq(Stream) /\ out = Select(read, Language)
  BY Zenon DEF ReadingInv
<1>2. Keeps(read, Language, V, A, B, kept, Members(out.dropped))
  BY <1>1, SelectRule
<1> QED BY <1>2, Zenon DEF BestAudioIsKept, Keeps, OfKind, Preferred

\* Benign lines decide no failure (ClassifyFailure).
LEMMA NoiseFollows == ReadingInv => NoiseDecidesNothing
<1> SUFFICES ASSUME ReadingInv, job = "failure" PROVE NoiseDecidesNothing
  BY DEF NoiseDecidesNothing
<1>1. /\ read \in Seq(PrintedLine)
      /\ out.ffmpeg = ClassifyFailure(<<lastLines(read, 3)>>)
      /\ out.makemkv = ClassifyFailure(<<NoTitlesFound(summarise(read))>>)
  BY Zenon DEF ReadingInv
<1>2. /\ out.ffmpeg # "other" => SaidIn(read, out.ffmpeg)
      /\ out.makemkv \notin {"other", "unreadable"} => SaidIn(read, out.makemkv)
  BY <1>1, FailureRule
<1> QED BY <1>2, Zenon DEF NoiseDecidesNothing, SaidIn

\* The support a property speaks of is that of the candidates read.
LEMMA SupportIs == \A k : Support(k) = SupportIn(read, k)
BY Zenon DEF Support, SupportIn, Raised, BestIn, NetsIn, MineIn

\* A title that is not contested is clear of the others (Resolve).
LEMMA NetsFollow == ReadingInv => UncontestedIsClear
<1> SUFFICES ASSUME ReadingInv, job = "nets" PROVE UncontestedIsClear
  BY Zenon DEF UncontestedIsClear
<1> DEFINE P == ProposedIn(read)
           s == out.all
           Key(n) == normaliseTitle(s[n].title)
<1>1. read \in Seq(Candidate) /\ out = Resolve(read)
  BY DEF ReadingInv
<1>2. Resolved(read, P, s, out.contested)
  BY <1>1, ResolveRule
<1>3. /\ \A n \in DOMAIN s : s[n].confidence = Support(Key(n)) /\ Support(Key(n)) <= Support(Key(1))
      /\ (\E k \in P : k # Key(1) /\ Support(k) > Support(Key(1)) - 20) => out.contested
      /\ out.contested => \E k \in P : k # Key(1) /\ Support(k) >= Support(Key(1)) - 20
  BY <1>2, SupportIs, Zenon DEF Resolved
<1> QED BY <1>2, <1>3, Zenon DEF UncontestedIsClear, Resolved, ProposedIn, TitledAt

\* The titles that are recorded and asked for are the disc's own, whoever read
\* them and in whatever order, for any playlists, any robot output, any DVD
\* whose sweep is cut off or retried, and any two discs (Titles, Scan,
\* Enumerate, Filtered, ComputeFingerprint).
THEOREM TitlesAreTheDiscsHolds == Spec => []TitlesAreTheDiscs
<1>1. ReadingInv => TitlesAreTheDiscs
  BY PlaylistsFollow, ScanFollows, IndexFollows, FingerprintFollows DEF TitlesAreTheDiscs
<1> QED BY <1>1, ReadingInit, ReadingStep, PTL DEF Spec

\* What is concluded follows from what was read, for any titles, words, streams,
\* printed lines and candidates, however many and in whatever order (Classify
\* and Plan, Name, Select, ClassifyFailure, Resolve).
THEOREM ConclusionsFollowHolds == Spec => []ConclusionsFollow
<1>1. ReadingInv => ConclusionsFollow
  BY ShapeFollows, WordsFollow, AudioFollows, NoiseFollows, NetsFollow DEF ConclusionsFollow
<1> QED BY <1>1, ReadingInit, ReadingStep, PTL DEF Spec

\* Of ripSource's three answers each is given exactly when it should be: a copy
\* for a disc that the drive refuses to decrypt, when the native path is off and
\* a copy may and can be made; no rip when it may not or cannot; and the drive
\* for every other disc, for any number of regions and any masks.
THEOREM CopyOnlyIfNeededHolds == Spec => []CopyOnlyIfNeeded
<1>1. ReadingInv => CopyOnlyIfNeeded
  <2> DEFINE asked == read[Len(read)]
             blocked == ~asked.cfg.native /\ Refused(asked)
             copies == asked.cfg.fallback /\ asked.cfg.dvdbackup
  <2> SUFFICES ASSUME ReadingInv, job = "region", read # <<>>
               PROVE  /\ "copy" \in out <=> blocked /\ copies
                      /\ "fails" \in out <=> blocked /\ ~copies
                      /\ "drive" \in out <=> ~blocked
    BY Zenon DEF CopyOnlyIfNeeded
  <2>1. asked \in Asked
    <3>1. read \in Seq(Asked)
      BY Zenon DEF ReadingInv
    <3> QED BY <3>1
  <2>2. out = {ripSource(asked.cfg, asked.readable, asked.p, asked.r)}
    BY Zenon DEF ReadingInv
  <2> HIDE DEF asked
  <2>3. asked.readable \in BOOLEAN /\ asked.p \in DiscProtection /\ asked.r \in DriveRegion
    BY <2>1 DEF Asked
  <2>4. decryptNeeded(asked.readable, asked.p, asked.r) <=> Refused(asked)
    BY <2>3, DecryptRule DEF Refused
  <2>5. ripSource(asked.cfg, asked.readable, asked.p, asked.r) =
            IF ~blocked THEN "drive" ELSE IF copies THEN "copy" ELSE "fails"
    BY <2>4, Zenon DEF ripSource
  <2> HIDE DEF blocked, copies
  <2> QED BY <2>2, <2>5
<1> QED BY <1>1, ReadingInit, ReadingStep, PTL DEF Spec

\* A file that Verifier.Title accepts has the streams that were asked for and
\* is no more than a quarter out, for any duration of 21 seconds or more.
THEOREM AcceptedIsWholeHolds == Spec => []AcceptedIsWhole
<1>1. ReadingInv => AcceptedIsWhole
  <2> SUFFICES ASSUME ReadingInv, job = "verify", read # <<>>, out = {}
               PROVE  LET want == read[Len(read)].want
                          file == read[Len(read)].file
                      IN /\ file.exists /\ file.magic /\ file.probes
                         /\ want.secs > 20 => /\ 4 * file.secs > 3 * want.secs
                                              /\ 4 * file.secs < 5 * want.secs
                         /\ \A k \in {"video", "audio", "subtitle"} : want[k] <= file[k]
    BY DEF AcceptedIsWhole
  <2> DEFINE want == read[Len(read)].want
             file == read[Len(read)].file
  <2>1. read[Len(read)] \in Checked
    <3>1. read \in Seq(Checked)
      BY Zenon DEF ReadingInv
    <3> QED BY <3>1
  <2>2. want \in Output.want /\ file \in Output.file
    BY <2>1 DEF Checked
  <2>3. VerifyTitle(want, file) = {}
    BY Zenon DEF ReadingInv
  <2> HIDE DEF want, file
  <2>4. /\ file.exists /\ file.magic /\ file.probes
        /\ want.secs > 20 => 4 * file.secs > 3 * want.secs /\ 4 * file.secs < 5 * want.secs
        /\ \A k \in {"video", "audio", "subtitle"} : want[k] <= file[k]
    BY <2>2, <2>3, AcceptRule
  <2> QED BY <2>4 DEF want, file
<1> QED BY <1>1, ReadingInit, ReadingStep, PTL DEF Spec
=============================================================================
