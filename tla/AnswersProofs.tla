---------------------------- MODULE AnswersProofs ----------------------------
(***************************************************************************)
(* Proofs about the clients of services that may fail: each part of        *)
(* MCAnswers has an invariant of its own, which every step of the part     *)
(* keeps whatever the service answers, and from which what the part        *)
(* promises follows.  Sequences that the code sorts or filters are lists   *)
(* of a finite set in an order, so that they have every member once.       *)
(***************************************************************************)
EXTENDS MCAnswers, FunctionTheorems, FiniteSetTheorems, SequenceTheorems, WellFoundedInduction, TLAPS

-----------------------------------------------------------------------------
(* Finite sets in order.                                                   *)

(* A strict total order of a set, as a set of pairs.                       *)
Orders(R, S) ==
  /\ \A x, y \in S : x # y => <<x, y>> \in R \/ <<y, x>> \in R
  /\ \A x, y \in S : <<x, y>> \in R => <<y, x>> \notin R
  /\ \A x, y, z \in S : <<x, y>> \in R /\ <<y, z>> \in R => <<x, z>> \in R

(* A list of the members of a set in an order.                             *)
Lists(f, R, S) ==
  /\ f \in [1..Cardinality(S) -> S]
  /\ \A i, j \in DOMAIN f : i < j => <<f[i], f[j]>> \in R

(* What has no smaller counterexample has none: a non-empty family of      *)
(* finite sets has a member without a strict subset in it.                 *)
LEMMA SmallestSet ==
  ASSUME NEW S, NEW F \in SUBSET FiniteSubsetsOf(S), F # {}
  PROVE  \E T \in F : \A U \in F : U \subseteq T => U = T
<1>1. \A T \in F : T \subseteq S
  BY DEF FiniteSubsetsOf
<1>2. PICK T \in F : \A U \in F : <<U, T>> \notin StrictSubsetOrdering(S)
  <2>1. IsWellFoundedOn(StrictSubsetOrdering(S), FiniteSubsetsOf(S))
    BY FS_StrictSubsetOrderingWellFounded
  <2>. HIDE DEF StrictSubsetOrdering, FiniteSubsetsOf
  <2>. QED BY <2>1, WFMin
<1>. SUFFICES ASSUME NEW U \in F, U \subseteq T, U # T PROVE FALSE
  OBVIOUS
<1>3. <<U, T>> \in (SUBSET S) \X (SUBSET S)
  BY <1>1
<1>. QED BY <1>2, <1>3 DEF StrictSubsetOrdering

(* Two lists with a member between them are a list of all.                 *)
LEMMA ListsJoin ==
  ASSUME NEW S, NEW R, IsFiniteSet(S), Orders(R, S), NEW x \in S,
         NEW f, Lists(f, R, {y \in S : <<y, x>> \in R}),
         NEW g, Lists(g, R, {y \in S : <<x, y>> \in R})
  PROVE  \E h : Lists(h, R, S)
<1>. DEFINE L == {y \in S : <<y, x>> \in R}
            G == {y \in S : <<x, y>> \in R}
            m == Cardinality(L)
            n == Cardinality(G)
            h == [i \in 1..(m + n + 1) |->
                    IF i <= m THEN f[i] ELSE IF i = m + 1 THEN x ELSE g[i - m - 1]]
<1>1. IsFiniteSet(L) /\ IsFiniteSet(G) /\ m \in Nat /\ n \in Nat
  BY FS_Subset, FS_CardinalityType
<1>2. Cardinality(S) = m + n + 1
  <2>1. S = (L \cup G) \cup {x} /\ L \cap G = {} /\ x \notin L \cup G
    BY DEF Orders
  <2>2. IsFiniteSet(L \cup G) /\ Cardinality(L \cup G) = m + n
    <3>1. Cardinality(L \cap G) = 0
      BY <2>1, FS_EmptySet
    <3>. HIDE DEF L, G
    <3>. QED BY <1>1, <3>1, FS_Union
  <2>. HIDE DEF L, G
  <2>. QED BY <1>1, <2>1, <2>2, FS_AddElement
<1>3. \A i \in 1..m : f[i] \in L
  BY DEF Lists
<1>4. \A i \in 1..n : g[i] \in G
  BY DEF Lists
<1>5. \A i, j \in 1..m : i < j => <<f[i], f[j]>> \in R
  BY DEF Lists
<1>6. \A i, j \in 1..n : i < j => <<g[i], g[j]>> \in R
  BY DEF Lists
<1>7. /\ \A y \in L : <<y, x>> \in R
      /\ \A z \in G : <<x, z>> \in R
      /\ \A y \in L, z \in G : <<y, z>> \in R
  BY DEF Orders
<1>8. L \subseteq S /\ G \subseteq S
  OBVIOUS
<1>. HIDE DEF L, G, m, n
<1>9. \A i \in 1..(m + n + 1) :
        \/ i \in 1..m /\ h[i] = f[i] /\ h[i] \in L
        \/ i = m + 1 /\ h[i] = x
        \/ i > m + 1 /\ i - m - 1 \in 1..n /\ h[i] = g[i - m - 1] /\ h[i] \in G
  <2>. SUFFICES ASSUME NEW i \in 1..(m + n + 1)
                PROVE  \/ i \in 1..m /\ h[i] = f[i] /\ h[i] \in L
                       \/ i = m + 1 /\ h[i] = x
                       \/ i > m + 1 /\ i - m - 1 \in 1..n /\ h[i] = g[i - m - 1] /\ h[i] \in G
    OBVIOUS
  <2>1. CASE i \in 1..m
    BY <1>1, <1>3, <2>1
  <2>2. CASE i = m + 1
    BY <1>1, <2>2
  <2>3. CASE i > m + 1
    <3>1. i - m - 1 \in 1..n
      BY <1>1, <2>3
    <3>2. h[i] = g[i - m - 1]
      BY <1>1, <2>3
    <3>. QED BY <1>4, <2>3, <3>1, <3>2
  <2>. QED BY <1>1, <2>1, <2>2, <2>3
<1>10. h \in [1..(m + n + 1) -> S]
  BY <1>8, <1>9
<1>11. DOMAIN h = 1..(m + n + 1)
  OBVIOUS
<1>. HIDE DEF h
<1>12. ASSUME NEW i \in 1..(m + n + 1), NEW j \in 1..(m + n + 1), i < j
       PROVE  <<h[i], h[j]>> \in R
  <2>1. CASE j \in 1..m
    <3>1. i \in 1..m /\ h[i] = f[i] /\ h[j] = f[j]
      BY <1>1, <1>9, <1>12, <2>1
    <3>. QED BY <1>5, <1>12, <2>1, <3>1
  <2>2. CASE i > m + 1
    <3>1. j > m + 1
      BY <1>1, <1>12, <2>2
    <3>2. h[i] = g[i - m - 1] /\ i - m - 1 \in 1..n /\ h[j] = g[j - m - 1] /\ j - m - 1 \in 1..n
      BY <1>1, <1>9, <2>2, <3>1
    <3>3. i - m - 1 < j - m - 1
      BY <1>1, <1>12
    <3>. QED BY <1>6, <3>2, <3>3
  <2>3. CASE i \in 1..m /\ j \notin 1..m
    <3>1. h[i] \in L /\ (h[j] = x \/ h[j] \in G)
      BY <1>1, <1>9, <2>3
    <3>. QED BY <1>7, <3>1
  <2>4. CASE i = m + 1
    <3>1. h[i] = x /\ h[j] \in G
      BY <1>1, <1>9, <1>12, <2>4
    <3>. QED BY <1>7, <3>1
  <2>. QED BY <1>1, <1>12, <2>1, <2>2, <2>3, <2>4
<1>. QED BY <1>2, <1>10, <1>11, <1>12 DEF Lists

(* Whatever is finite and ordered can be listed.                           *)
LEMMA OrderIsListed ==
  ASSUME NEW S, IsFiniteSet(S), NEW R, Orders(R, S)
  PROVE  \E f : Lists(f, R, S)
<1>. DEFINE F == {T \in SUBSET S : ~\E f : Lists(f, R, T)}
<1>. SUFFICES ASSUME F # {} PROVE FALSE
  OBVIOUS
<1>1. F \in SUBSET FiniteSubsetsOf(S)
  BY FS_FiniteSubsetsOfFinite
<1>2. PICK T \in F : \A U \in F : U \subseteq T => U = T
  <2>. HIDE DEF F
  <2>. QED BY <1>1, SmallestSet
<1>3. IsFiniteSet(T) /\ Orders(R, T)
  BY <1>1, <1>2 DEF Orders, FiniteSubsetsOf
<1>4. CASE T = {}
  <2>1. Cardinality(T) = 0 /\ 1..0 = {}
    BY <1>4, FS_EmptySet
  <2>2. Lists([i \in 1..0 |-> i], R, T)
    BY <2>1 DEF Lists
  <2>. QED BY <2>2
<1>5. CASE T # {}
  <2>. PICK x \in T : TRUE
    BY <1>5
  <2>. DEFINE L == {y \in T : <<y, x>> \in R}
              G == {y \in T : <<x, y>> \in R}
  <2>1. L \notin F /\ G \notin F
    <3>1. x \notin L /\ x \notin G /\ L \subseteq T /\ G \subseteq T
      BY <1>3 DEF Orders
    <3>. HIDE DEF L, G, F
    <3>. QED BY <1>2, <3>1
  <2>2. PICK f : Lists(f, R, L)
    <3>1. L \in SUBSET S
      OBVIOUS
    <3>. HIDE DEF L
    <3>. QED BY <2>1, <3>1
  <2>3. PICK g : Lists(g, R, G)
    <3>1. G \in SUBSET S
      OBVIOUS
    <3>. HIDE DEF G
    <3>. QED BY <2>1, <3>1
  <2>4. \E h : Lists(h, R, T)
    BY <1>3, <2>2, <2>3, ListsJoin
  <2>. QED BY <2>4
<1>. QED BY <1>4, <1>5

(* A list has every member, and has it once.                               *)
LEMMA ListsAll ==
  ASSUME NEW S, IsFiniteSet(S), NEW R, Orders(R, S), NEW f, Lists(f, R, S)
  PROVE  /\ Cardinality(S) \in Nat /\ f \in [1..Cardinality(S) -> S]
         /\ \A i, j \in 1..Cardinality(S) : f[i] = f[j] => i = j
         /\ \A x \in S : \E i \in 1..Cardinality(S) : f[i] = x
<1>1. Cardinality(S) \in Nat /\ f \in [1..Cardinality(S) -> S]
  BY FS_CardinalityType DEF Lists
<1>2. ASSUME NEW i \in 1..Cardinality(S), NEW j \in 1..Cardinality(S), f[i] = f[j], i # j
      PROVE  FALSE
  <2>1. i < j \/ j < i
    BY <1>1, <1>2
  <2>2. <<f[i], f[i]>> \in R /\ f[i] \in S
    BY <1>1, <1>2, <2>1 DEF Lists
  <2>. QED BY <2>2 DEF Orders
<1>3. f \in Injection(1..Cardinality(S), S)
  BY <1>1, <1>2 DEF Injection, IsInjective
<1>4. Cardinality(1..Cardinality(S)) = Cardinality(S)
  BY <1>1, FS_Interval
<1>5. f \in Surjection(1..Cardinality(S), S)
  BY <1>3, <1>4, FS_Injection
<1>. QED BY <1>1, <1>2, <1>5 DEF Surjection

-----------------------------------------------------------------------------
(* The parts count with the same Cardinality.                              *)
LEMMA SameCardinality ==
  ASSUME NEW S
  PROVE  /\ Swarm!Cardinality(S) = Cardinality(S) /\ Judge!Cardinality(S) = Cardinality(S)
         /\ Capture!Cardinality(S) = Cardinality(S) /\ Roster!Cardinality(S) = Cardinality(S)
<1>1. Swarm!Cardinality(S) = Cardinality(S)
  BY Zenon DEF Swarm!Cardinality, Cardinality
<1>2. Judge!Cardinality(S) = Cardinality(S)
  BY Zenon DEF Judge!Cardinality, Cardinality
<1>3. Capture!Cardinality(S) = Cardinality(S)
  BY Zenon DEF Capture!Cardinality, Cardinality
<1>4. Roster!Cardinality(S) = Cardinality(S)
  BY Zenon DEF Roster!Cardinality, Cardinality
<1>. QED BY <1>1, <1>2, <1>3, <1>4

(* Every non-empty set of numbers has a least.                             *)
LEMMA LeastNumber ==
  ASSUME NEW S \in SUBSET Nat, S # {}
  PROVE  \E m \in S : \A n \in S : m <= n
<1>. DEFINE R == {ss \in Nat \X Nat : ss[1] < ss[2]}
<1>1. IsWellFoundedOn(R, Nat)
  BY Zenon, NatLessThanWellFounded DEF OpToRel
<1>2. \A m, n \in Nat : <<n, m>> \in R <=> n < m
  OBVIOUS
<1>. HIDE DEF R
<1>3. PICK m \in S : \A n \in S : <<n, m>> \notin R
  BY <1>1, WFMin
<1>4. ASSUME NEW n \in S PROVE m <= n
  <2>1. ~(n < m) /\ m \in Nat /\ n \in Nat
    BY <1>2, <1>3
  <2>. QED BY <2>1
<1>. QED BY <1>4

(* Ascending lists a finite set of numbers.                                *)
LEMMA AscendingLists ==
  ASSUME NEW S \in SUBSET Nat, IsFiniteSet(S)
  PROVE  LET f == Swarm!Ascending(S)
         IN /\ Cardinality(S) \in Nat /\ f \in [1..Cardinality(S) -> S]
            /\ \A i, j \in 1..Cardinality(S) : i < j <=> f[i] < f[j]
            /\ \A x \in S : \E i \in 1..Cardinality(S) : f[i] = x
<1>. DEFINE R == {p \in Nat \X Nat : p[1] < p[2]}
            f == Swarm!Ascending(S)
<1>1. \A x, y \in Nat : <<x, y>> \in R <=> x < y
  OBVIOUS
<1>. HIDE DEF R
<1>2. Orders(R, S)
  BY <1>1 DEF Orders
<1>3. PICK g : Lists(g, R, S)
  BY <1>2, OrderIsListed
<1>4. f \in [1..Cardinality(S) -> S] /\ \A i, j \in DOMAIN f : i < j => f[i] < f[j]
  <2>1. g \in [1..Cardinality(S) -> S] /\ \A i, j \in DOMAIN g : i < j => g[i] < g[j]
    <3>1. g \in [1..Cardinality(S) -> S] /\ DOMAIN g = 1..Cardinality(S)
      BY <1>3 DEF Lists
    <3>2. \A i \in DOMAIN g : g[i] \in Nat
      BY <3>1
    <3>. QED BY <1>1, <1>3, <3>1, <3>2 DEF Lists
  <2>2. \E h \in [1..Cardinality(S) -> S] : \A i, j \in DOMAIN h : i < j => h[i] < h[j]
    BY <2>1
  <2>3. f = CHOOSE h \in [1..Cardinality(S) -> S] : \A i, j \in DOMAIN h : i < j => h[i] < h[j]
    BY SameCardinality DEF Swarm!Ascending
  <2>. HIDE DEF f
  <2>. QED BY Zenon, <2>2, <2>3
<1>. HIDE DEF f
<1>5. Lists(f, R, S)
  <2>1. \A i \in DOMAIN f : f[i] \in Nat
    BY <1>4
  <2>. QED BY <1>1, <1>4, <2>1 DEF Lists
<1>6. /\ Cardinality(S) \in Nat
      /\ \A i, j \in 1..Cardinality(S) : f[i] = f[j] => i = j
      /\ \A x \in S : \E i \in 1..Cardinality(S) : f[i] = x
  BY <1>2, <1>5, ListsAll
<1>7. ASSUME NEW i \in 1..Cardinality(S), NEW j \in 1..Cardinality(S)
      PROVE  i < j <=> f[i] < f[j]
  <2>1. f[i] \in Nat /\ f[j] \in Nat /\ i \in Nat /\ j \in Nat
    <3>1. f[i] \in S /\ f[j] \in S
      BY <1>4
    <3>2. f[i] \in Nat /\ f[j] \in Nat
      BY <3>1
    <3>3. Cardinality(S) \in Nat
      BY <1>6
    <3>. QED BY <3>2, <3>3
  <2>2. (i < j => f[i] < f[j]) /\ (j < i => f[j] < f[i])
    <3>1. DOMAIN f = 1..Cardinality(S)
      BY <1>4
    <3>. QED BY <1>4, <3>1
  <2>3. i < j \/ j < i \/ i = j
    BY <2>1
  <2>. QED BY <2>1, <2>2, <2>3
<1>. QED BY <1>4, <1>6, <1>7 DEF f

-----------------------------------------------------------------------------
(* The swarm.                                                              *)

(* Deduplicated keeps every text of a sequence once, the empty ones aside, *)
(* in the order of the first copies.                                       *)
LEMMA DeduplicatedKeeps ==
  ASSUME NEW T, NEW s \in Seq(T)
  PROVE  LET d == Swarm!Deduplicated(s)
         IN /\ d \in Seq(T) /\ Len(d) <= Len(s)
            /\ Swarm!ToSet(d) = Swarm!ToSet(s)
            /\ \A i, j \in DOMAIN d : i # j /\ d[i] = d[j] => d[i] = Swarm!Empty
            /\ \A i, j \in DOMAIN d :
                 i < j /\ Swarm!Empty \notin {d[i], d[j]} =>
                   Swarm!FirstAt(s, d[i]) < Swarm!FirstAt(s, d[j])
<1>. DEFINE K == Swarm!Firsts(s)
            f == Swarm!Ascending(K)
            n == Cardinality(K)
            d == Swarm!Deduplicated(s)
<1>1. Len(s) \in Nat /\ DOMAIN s = 1..Len(s) /\ \A i \in 1..Len(s) : s[i] \in T
  OBVIOUS
<1>2. K \subseteq 1..Len(s) /\ IsFiniteSet(K) /\ n <= Len(s) /\ K \in SUBSET Nat
  <2>1. K \in SUBSET (1..Len(s))
    BY <1>1 DEF Swarm!Firsts
  <2>2. IsFiniteSet(1..Len(s)) /\ Cardinality(1..Len(s)) = Len(s)
    <3>1. 1 \in Int /\ Len(s) \in Int
      BY <1>1
    <3>2. IsFiniteSet(1..Len(s)) /\ Cardinality(1..Len(s)) = IF 1 > Len(s) THEN 0 ELSE Len(s) - 1 + 1
      BY <3>1, FS_Interval
    <3>. QED BY <1>1, <3>2
  <2>. HIDE DEF K
  <2>3. IsFiniteSet(K) /\ Cardinality(K) <= Cardinality(1..Len(s))
    BY <2>1, <2>2, FS_Subset
  <2>. QED BY <1>1, <2>1, <2>2, <2>3
<1>. HIDE DEF K
<1>3. /\ n \in Nat /\ f \in [1..n -> K]
      /\ \A i, j \in 1..n : i < j <=> f[i] < f[j]
      /\ \A k \in K : \E i \in 1..n : f[i] = k
  BY <1>2, AscendingLists
<1>4. d = [k \in 1..n |-> s[f[k]]]
  BY <1>3 DEF Swarm!Deduplicated, K
<1>. HIDE DEF f, n, d
<1>5. d \in Seq(T) /\ Len(d) = n /\ DOMAIN d = 1..n /\ \A k \in 1..n : d[k] = s[f[k]] /\ f[k] \in K
  <2>1. d \in [1..n -> T]
    BY <1>1, <1>2, <1>3, <1>4
  <2>. QED BY <1>3, <1>4, <2>1, SeqDef
<1>6. \A k \in K : s[k] = Swarm!Empty \/ \A j \in 1..(k - 1) : s[j] # s[k]
  BY DEF K, Swarm!Firsts
<1>7. \A i \in 1..Len(s) : \E k \in K : s[k] = s[i] /\ k <= i
  <2>. SUFFICES ASSUME NEW i \in 1..Len(s) PROVE \E k \in K : s[k] = s[i] /\ k <= i
    OBVIOUS
  <2>1. PICK k \in {j \in 1..Len(s) : s[j] = s[i]} : \A j \in {j \in 1..Len(s) : s[j] = s[i]} : k <= j
    <3>. DEFINE M == {j \in 1..Len(s) : s[j] = s[i]}
    <3>1. M \in SUBSET Nat /\ M # {}
      BY <1>1
    <3>. HIDE DEF M
    <3>2. \E k \in M : \A j \in M : k <= j
      BY <3>1, LeastNumber
    <3>. QED BY <3>2 DEF M
  <2>2. \A j \in 1..(k - 1) : s[j] # s[k]
    BY <1>1, <2>1
  <2>3. k \in K
    BY <1>1, <2>1, <2>2 DEF K, Swarm!Firsts
  <2>. QED BY <2>1, <2>3
<1>8. Swarm!ToSet(d) = Swarm!ToSet(s)
  <2>1. \A k \in 1..n : d[k] \in Swarm!ToSet(s)
    BY <1>1, <1>2, <1>5 DEF Swarm!ToSet
  <2>2. \A i \in 1..Len(s) : s[i] \in Swarm!ToSet(d)
    <3>. SUFFICES ASSUME NEW i \in 1..Len(s) PROVE s[i] \in Swarm!ToSet(d)
      OBVIOUS
    <3>1. PICK k \in K : s[k] = s[i]
      BY <1>7
    <3>2. PICK j \in 1..n : f[j] = k
      BY <1>3
    <3>. QED BY <1>5, <3>1, <3>2 DEF Swarm!ToSet
  <2>. QED BY <1>1, <1>5, <2>1, <2>2 DEF Swarm!ToSet
<1>9. ASSUME NEW i \in 1..n, NEW j \in 1..n, i # j, d[i] = d[j] PROVE d[i] = Swarm!Empty
  <2>1. i < j \/ j < i
    BY <1>3, <1>9
  <2>2. f[i] < f[j] \/ f[j] < f[i]
    BY <1>3, <2>1
  <2>3. f[i] \in 1..Len(s) /\ f[j] \in 1..Len(s)
    BY <1>2, <1>5
  <2>4. f[i] \in 1..(f[j] - 1) \/ f[j] \in 1..(f[i] - 1)
    BY <1>1, <2>2, <2>3
  <2>. QED BY <1>5, <1>6, <1>9, <2>4
<1>10. ASSUME NEW k \in K, s[k] # Swarm!Empty, NEW u, u = s[k]
       PROVE  Swarm!FirstAt(s, u) = k
  <2>. DEFINE I == {i \in 1..Len(s) : s[i] = u}
  <2>1. k \in I /\ I \subseteq Nat
    BY <1>1, <1>2, <1>10
  <2>2. \A i \in I : k <= i
    BY <1>1, <1>2, <1>6, <1>10
  <2>3. Swarm!FirstAt(s, u) = IF I # {} THEN Swarm!Min(I) ELSE 0
    BY DEF Swarm!FirstAt, Swarm!SelectInSeq
  <2>. HIDE DEF I
  <2>4. Swarm!Min(I) = k
    <3>1. \A x \in I : (\A y \in I : x <= y) => x = k
      BY <2>1, <2>2
    <3>. QED BY <2>1, <2>2, <3>1 DEF Swarm!Min
  <2>. QED BY <2>1, <2>3, <2>4
<1>11. ASSUME NEW i \in 1..n, NEW j \in 1..n, i < j, Swarm!Empty \notin {d[i], d[j]}
       PROVE  Swarm!FirstAt(s, d[i]) < Swarm!FirstAt(s, d[j])
  <2>1. Swarm!FirstAt(s, d[i]) = f[i]
    BY <1>5, <1>10, <1>11
  <2>2. Swarm!FirstAt(s, d[j]) = f[j]
    BY <1>5, <1>10, <1>11
  <2>. QED BY <1>3, <1>11, <2>1, <2>2
<1>. QED BY <1>2, <1>5, <1>8, <1>9, <1>11 DEF d

(* What the server answers is of its rows, and all of them if they fit.    *)
LEMMA AnswersAreRows ==
  ASSUME NEW T, rows \in Seq(T), NEW a \in Swarm!Answers
  PROVE  /\ a \in Seq(T) /\ Swarm!ToSet(a) \subseteq Swarm!ToSet(rows)
         /\ Len(rows) <= RowLimit => a = rows
         /\ Len(a) >= IF Len(rows) < RowLimit THEN Len(rows) ELSE RowLimit
<1>1. RowLimit \in Nat /\ Len(rows) \in Nat
  BY AnswersAssumption
<1>2. CASE a = rows
  BY <1>1, <1>2
<1>3. CASE \E i \in 0..(Len(rows) - RowLimit) : a = SubSeq(rows, i + 1, i + RowLimit)
  <2>1. PICK i \in 0..(Len(rows) - RowLimit) : a = SubSeq(rows, i + 1, i + RowLimit)
    BY <1>3
  <2>2. /\ i \in Nat /\ i + RowLimit <= Len(rows) /\ i + RowLimit - (i + 1) + 1 = RowLimit
        /\ \A k \in 1..RowLimit : i + 1 + k - 1 = i + k /\ i + k \in 1..Len(rows)
    BY <1>1
  <2>3. a = [k \in 1..RowLimit |-> rows[i + k]]
    BY <1>1, <2>1, <2>2
  <2>4. a \in Seq(T) /\ Len(a) = RowLimit /\ DOMAIN a = 1..RowLimit
    <3>1. a \in [1..RowLimit -> T]
      BY <2>2, <2>3
    <3>. QED BY <1>1, <2>3, <3>1, SeqDef
  <2>5. Swarm!ToSet(a) \subseteq Swarm!ToSet(rows)
    BY <2>2, <2>3, <2>4 DEF Swarm!ToSet
  <2>6. Len(rows) <= RowLimit => a = rows
    <3>. SUFFICES ASSUME Len(rows) <= RowLimit PROVE a = rows
      OBVIOUS
    <3>1. i = 0 /\ Len(rows) = RowLimit
      BY <1>1, <2>2
    <3>2. \A k \in 1..RowLimit : a[k] = rows[k]
      BY <1>1, <2>3, <3>1
    <3>. QED BY <2>4, <3>1, <3>2
  <2>. QED BY <1>1, <2>4, <2>5, <2>6
<1>. QED BY <1>2, <1>3 DEF Swarm!Answers

(* What is kept of a sequence is its beginning.                            *)
LEMMA TrimmedIsPrefix ==
  ASSUME NEW T, NEW d \in Seq(T)
  PROVE  LET t == Swarm!Trimmed(d)
         IN /\ DOMAIN t \subseteq DOMAIN d /\ \A i \in DOMAIN t : t[i] = d[i]
            /\ Swarm!ToSet(t) \subseteq Swarm!ToSet(d)
            /\ Len(t) = IF Len(d) > RowLimit THEN RowLimit ELSE Len(d)
            /\ Len(d) <= RowLimit => t = d
<1>1. RowLimit \in Nat /\ Len(d) \in Nat /\ DOMAIN d = 1..Len(d)
  BY AnswersAssumption
<1>2. CASE Len(d) > RowLimit
  <2>1. Swarm!Trimmed(d) = SubSeq(d, 1, RowLimit)
    BY <1>2 DEF Swarm!Trimmed
  <2>2. SubSeq(d, 1, RowLimit) = [k \in 1..RowLimit |-> d[k]]
    BY <1>1
  <2>3. Len(SubSeq(d, 1, RowLimit)) = RowLimit
    BY <1>1, <1>2
  <2>. DEFINE t == SubSeq(d, 1, RowLimit)
  <2>4. DOMAIN t = 1..RowLimit /\ \A k \in 1..RowLimit : t[k] = d[k] /\ k \in 1..Len(d)
    BY <1>1, <1>2, <2>2
  <2>. HIDE DEF t
  <2>5. Swarm!ToSet(t) \subseteq Swarm!ToSet(d)
    BY <1>1, <2>4 DEF Swarm!ToSet
  <2>6. Swarm!Trimmed(d) = t /\ Len(t) = RowLimit
    BY <2>1, <2>3 DEF t
  <2>7. DOMAIN t \subseteq DOMAIN d
    BY <1>1, <1>2, <2>4
  <2>. QED BY <1>1, <1>2, <2>4, <2>5, <2>6, <2>7
<1>3. CASE ~(Len(d) > RowLimit)
  BY <1>1, <1>3 DEF Swarm!Trimmed
<1>. QED BY <1>2, <1>3

(* The client and the server it drives go on together: what the client     *)
(* waits for or has is what the server has come to.                        *)
ServerTyped ==
  server \in [project : {"none", "graph_completed"},
              graph : {"none", "building", "built", "failed"},
              prepared : {"no", "running", "yes", "failed"},
              run : {"none", "running", "completed", "stopped", "failed"}, starts : Nat,
              tasks : SUBSET {"graph", "prepare"}]
SwarmTyped == Swarm!TypeOK /\ ServerTyped

Unstarted == {"launch", "project", "build", "graph poll", "create", "prepare", "prepare poll",
              "start"}
Started == {"run poll", "capture", "captured"}
(* A graph, or a preparation, that can be waited for has been.             *)
GraphWaitedFor   == "graph" \in server.tasks => server.graph = "built"
PrepareWaitedFor == "prepare" \in server.tasks => server.prepared = "yes"
CaptureOf(a) ==
  [answer |-> a, posts |-> Swarm!Trimmed(Swarm!Deduplicated(a)),
   rejected |-> Len(a) - Len(Swarm!Deduplicated(a))]
SwarmInOrder ==
  /\ pc \in {"create", "prepare", "prepare poll", "start"} \cup Started => GraphWaitedFor
  /\ pc \in {"start"} \cup Started => PrepareWaitedFor
  /\ server.starts > 0 => GraphWaitedFor /\ PrepareWaitedFor
  /\ pc \in Unstarted => server.run = "none" /\ server.starts = 0
  /\ pc \in Started => server.starts = 1
  /\ pc \in {"capture", "captured"} => server.run \in {"completed", "stopped"}
  /\ pc = "captured" => \E a \in Swarm!Answers : capture = CaptureOf(a)
SwarmInv == SwarmTyped /\ SwarmInOrder

(* The swarm begins so.                                                    *)
LEMMA SwarmBegins ==
  ASSUME Swarm!Init PROVE SwarmInv
BY AnswersAssumption
   DEF Swarm!Init, SwarmInv, SwarmTyped, ServerTyped, SwarmInOrder, Swarm!TypeOK, Unstarted, Started

(* Every step of the client or of the server keeps that.                   *)
LEMMA SwarmGoesOn ==
  ASSUME SwarmInv, Swarm!Next
  PROVE  SwarmInv'
<1>0. SwarmTimeout \in Nat /\ MaxRows \in Nat
  BY AnswersAssumption
<1>. USE DEF Unstarted, Started, Swarm!Becomes, Swarm!Idle
<1>1. CASE Swarm!Launch
  <2>1. /\ pc = "launch" /\ UNCHANGED <<clock, server, rows, capture>>
        /\ pc' \in {"project", "raised"}
    BY <1>1 DEF Swarm!Launch
  <2>2. SwarmTyped'
    BY <2>1 DEF SwarmInv, SwarmTyped, Swarm!TypeOK, ServerTyped
  <2>3. SwarmInOrder'
    BY <2>1 DEF SwarmInv, SwarmInOrder, GraphWaitedFor, PrepareWaitedFor, Unstarted, Started
  <2>. QED BY <2>2, <2>3 DEF SwarmInv
<1>2. CASE Swarm!ExistingGraph
  <2>1. /\ pc = "project" /\ UNCHANGED <<clock, rows, capture>>
        /\ \/ server' = [server EXCEPT !.graph = "built"] /\ pc' = "create"
           \/ server' = server /\ pc' = "build"
    BY <1>2 DEF Swarm!ExistingGraph
  <2>2. Swarm!TypeOK'
    BY <2>1 DEF SwarmInv, SwarmTyped, Swarm!TypeOK
  <2>3. ServerTyped /\ server.starts = 0 /\ server.run = "none"
    BY <2>1 DEF SwarmInv, SwarmTyped, SwarmInOrder, Unstarted
  <2>4. /\ ServerTyped' /\ server'.starts = 0 /\ server'.run = "none"
        /\ (pc' = "create" => GraphWaitedFor')
    BY <2>1, <2>3 DEF ServerTyped, GraphWaitedFor
  <2>5. SwarmInOrder'
    <3>1. pc' \in {"create", "build"} /\ ~(server'.starts > 0)
      BY <2>1, <2>4
    <3>. QED BY ONLY <3>1, <2>4 DEF SwarmInOrder, Started
  <2>. QED BY <2>2, <2>4, <2>5 DEF SwarmInv, SwarmTyped
<1>3. CASE Swarm!BuildGraph
  <2>1. /\ pc = "build" /\ UNCHANGED <<clock, rows, capture>>
        /\ \/ server' = server /\ pc' = "raised"
           \/ /\ server' = [server EXCEPT !.graph = "building"]
              /\ pc' \in {"graph poll", "raised"}
           \/ /\ "graph" \notin server.tasks
              /\ \E g \in {"building", "built", "failed"} : server' = [server EXCEPT !.graph = g]
              /\ pc' \in {"create", "raised"}
    BY <1>3 DEF Swarm!BuildGraph, Swarm!Call
  <2>2. Swarm!TypeOK'
    BY <2>1 DEF SwarmInv, SwarmTyped, Swarm!TypeOK
  <2>3. ServerTyped /\ server.starts = 0 /\ server.run = "none"
    BY <2>1 DEF SwarmInv, SwarmTyped, SwarmInOrder, Unstarted
  <2>4. /\ ServerTyped' /\ server'.starts = 0 /\ server'.run = "none"
        /\ server'.tasks = server.tasks
    BY <2>1, <2>3 DEF ServerTyped
  <2>5. SwarmInOrder'
    <3>1. pc' \in {"graph poll", "create", "raised"} /\ (pc' = "create" => GraphWaitedFor')
      BY <2>1, <2>4 DEF GraphWaitedFor
    <3>2. server'.starts = 0 /\ ~(server'.starts > 0) /\ server'.run = "none"
      BY <2>4
    <3>. QED BY ONLY <3>1, <3>2 DEF SwarmInOrder, Started
  <2>. QED BY <2>2, <2>4, <2>5 DEF SwarmInv, SwarmTyped
<1>4. CASE Swarm!PollGraph
  <2>1. clock \in 0..SwarmTimeout
    BY DEF SwarmInv, SwarmTyped, Swarm!TypeOK
  <2>2. /\ pc = "graph poll" /\ UNCHANGED <<server, rows, capture>>
        /\ \/ pc' = pc \/ pc' = "raised"
           \/ pc' = "create" /\ server.graph = "built"
    BY <1>4 DEF Swarm!PollGraph, Swarm!PollUntil
  <2>3. clock' \in 0..SwarmTimeout
    <3>1. \/ clock' = clock
          \/ clock < SwarmTimeout /\ clock' = clock + 1
      BY <1>4 DEF Swarm!PollGraph, Swarm!PollUntil
    <3>. QED BY <1>0, <2>1, <3>1
  <2>4. SwarmTyped'
    BY <2>2, <2>3 DEF SwarmInv, SwarmTyped, Swarm!TypeOK, ServerTyped
  <2>5. SwarmInOrder'
    BY <2>2 DEF SwarmInv, SwarmInOrder, GraphWaitedFor, PrepareWaitedFor, Unstarted, Started,
                Swarm!Answers
  <2>. QED BY <2>4, <2>5 DEF SwarmInv
<1>5. CASE Swarm!Create
  <2>1. /\ pc = "create" /\ UNCHANGED <<clock, server, rows, capture>>
        /\ pc' \in {"prepare", "raised"}
    BY <1>5 DEF Swarm!Create, Swarm!Call
  <2>2. SwarmTyped'
    BY <2>1 DEF SwarmInv, SwarmTyped, Swarm!TypeOK, ServerTyped
  <2>3. SwarmInOrder'
    BY <2>1 DEF SwarmInv, SwarmInOrder, GraphWaitedFor, PrepareWaitedFor, Unstarted, Started
  <2>. QED BY <2>2, <2>3 DEF SwarmInv
<1>6. CASE Swarm!Prepare
  <2>1. /\ pc = "prepare" /\ UNCHANGED <<clock, rows, capture>>
        /\ \/ server' = server /\ pc' = "raised"
           \/ /\ server' = [server EXCEPT !.prepared = "yes"]
              /\ pc' \in {"start", "raised"}
           \/ /\ server' = [server EXCEPT !.prepared = "running"]
              /\ pc' \in {"prepare poll", "raised"}
           \/ /\ "prepare" \notin server.tasks
              /\ \E p \in {"no", "running", "failed"} : server' = [server EXCEPT !.prepared = p]
              /\ pc' \in {"start", "raised"}
    BY <1>6 DEF Swarm!Prepare, Swarm!Call
  <2>2. Swarm!TypeOK'
    BY <2>1 DEF SwarmInv, SwarmTyped, Swarm!TypeOK
  <2>3. ServerTyped /\ server.starts = 0 /\ server.run = "none" /\ GraphWaitedFor
    BY <2>1 DEF SwarmInv, SwarmTyped, SwarmInOrder, Unstarted
  <2>4. /\ ServerTyped' /\ server'.starts = 0 /\ server'.run = "none"
        /\ server'.tasks = server.tasks /\ server'.graph = server.graph
    BY <2>1, <2>3 DEF ServerTyped
  <2>5. pc' = "start" => PrepareWaitedFor'
    BY <2>1, <2>3, <2>4 DEF PrepareWaitedFor, ServerTyped
  <2>6. SwarmInOrder'
    <3>1. pc' \in {"prepare poll", "start", "raised"}
      BY <2>1
    <3>2. server'.starts = 0 /\ ~(server'.starts > 0) /\ server'.run = "none" /\ GraphWaitedFor'
      BY <2>3, <2>4 DEF GraphWaitedFor
    <3>. QED BY ONLY <3>1, <3>2, <2>5 DEF SwarmInOrder, Started
  <2>. QED BY <2>2, <2>4, <2>6 DEF SwarmInv, SwarmTyped
<1>7. CASE Swarm!PollPrepare
  <2>1. clock \in 0..SwarmTimeout
    BY DEF SwarmInv, SwarmTyped, Swarm!TypeOK
  <2>2. /\ pc = "prepare poll" /\ UNCHANGED <<server, rows, capture>>
        /\ \/ pc' = pc \/ pc' = "raised"
           \/ pc' = "start" /\ server.prepared = "yes"
    BY <1>7 DEF Swarm!PollPrepare, Swarm!PollUntil
  <2>3. clock' \in 0..SwarmTimeout
    <3>1. \/ clock' = clock
          \/ clock < SwarmTimeout /\ clock' = clock + 1
      BY <1>7 DEF Swarm!PollPrepare, Swarm!PollUntil
    <3>. QED BY <1>0, <2>1, <3>1
  <2>4. SwarmTyped'
    BY <2>2, <2>3 DEF SwarmInv, SwarmTyped, Swarm!TypeOK, ServerTyped
  <2>5. SwarmInOrder'
    BY <2>2 DEF SwarmInv, SwarmInOrder, GraphWaitedFor, PrepareWaitedFor, Unstarted, Started,
                Swarm!Answers
  <2>. QED BY <2>4, <2>5 DEF SwarmInv
<1>8. CASE Swarm!Start
  <2>1. /\ pc = "start" /\ UNCHANGED <<clock, rows, capture>>
        /\ \/ server' = server /\ pc' = "raised"
           \/ /\ server' = [server EXCEPT !.run = "running", !.starts = @ + 1]
              /\ pc' \in {"run poll", "raised"}
    BY <1>8 DEF Swarm!Start, Swarm!Call
  <2>2. Swarm!TypeOK'
    BY <2>1 DEF SwarmInv, SwarmTyped, Swarm!TypeOK
  <2>3. /\ ServerTyped /\ server.starts = 0 /\ server.run = "none"
        /\ GraphWaitedFor /\ PrepareWaitedFor
    BY <2>1 DEF SwarmInv, SwarmTyped, SwarmInOrder, Unstarted
  <2>4. /\ ServerTyped' /\ (pc' = "run poll" => server'.starts = 1)
        /\ server'.tasks = server.tasks /\ server'.graph = server.graph
        /\ server'.prepared = server.prepared
    <3>1. CASE server' = server /\ pc' = "raised"
      BY <2>3, <3>1 DEF ServerTyped
    <3>2. CASE server' = [server EXCEPT !.run = "running", !.starts = server.starts + 1]
      <4>1. server.starts + 1 = 1
        BY <2>3
      <4>2. server' = [server EXCEPT !.run = "running", !.starts = 1]
        BY <3>2, <4>1
      <4>. QED BY <2>3, <4>2 DEF ServerTyped
    <3>. QED BY <2>1, <3>1, <3>2
  <2>5. SwarmInOrder'
    <3>1. pc' \in {"raised", "run poll"}
      BY <2>1
    <3>2. GraphWaitedFor' /\ PrepareWaitedFor'
      BY <2>3, <2>4 DEF GraphWaitedFor, PrepareWaitedFor
    <3>. QED BY <2>4, <3>1, <3>2 DEF SwarmInOrder, Unstarted, Started
  <2>. QED BY <2>2, <2>4, <2>5 DEF SwarmInv, SwarmTyped
<1>9. CASE Swarm!PollRun
  <2>1. clock \in 0..SwarmTimeout
    BY DEF SwarmInv, SwarmTyped, Swarm!TypeOK
  <2>2. /\ pc = "run poll" /\ UNCHANGED <<server, rows, capture>>
        /\ \/ pc' = pc \/ pc' = "raised"
           \/ pc' = "capture" /\ server.run \in {"completed", "stopped"}
    BY <1>9 DEF Swarm!PollRun, Swarm!PollUntil
  <2>3. clock' \in 0..SwarmTimeout
    <3>1. \/ clock' = clock
          \/ clock < SwarmTimeout /\ clock' = clock + 1
      BY <1>9 DEF Swarm!PollRun, Swarm!PollUntil
    <3>. QED BY <1>0, <2>1, <3>1
  <2>4. SwarmTyped'
    BY <2>2, <2>3 DEF SwarmInv, SwarmTyped, Swarm!TypeOK, ServerTyped
  <2>5. SwarmInOrder'
    BY <2>2 DEF SwarmInv, SwarmInOrder, GraphWaitedFor, PrepareWaitedFor, Unstarted, Started,
                Swarm!Answers
  <2>. QED BY <2>4, <2>5 DEF SwarmInv
<1>10. CASE Swarm!Capture
  <2>1. /\ pc = "capture" /\ UNCHANGED <<clock, server, rows>>
        /\ \/ pc' = "captured" /\ \E a \in Swarm!Answers : capture' = CaptureOf(a)
           \/ pc' = "raised"
    BY <1>10 DEF Swarm!Capture, CaptureOf
  <2>2. SwarmTyped'
    BY <2>1 DEF SwarmInv, SwarmTyped, Swarm!TypeOK, ServerTyped
  <2>3. Swarm!Answers' = Swarm!Answers
    BY <2>1 DEF Swarm!Answers
  <2>4. SwarmInOrder'
    BY <2>1, <2>3 DEF SwarmInv, SwarmInOrder, GraphWaitedFor, PrepareWaitedFor, CaptureOf,
                      Unstarted, Started
  <2>. QED BY <2>2, <2>4 DEF SwarmInv
<1>11. CASE Swarm!ServerBuilds
  <2>1. /\ UNCHANGED <<pc, clock, rows, capture>> /\ server.graph = "building"
        /\ \E g \in {"built", "failed"} : server' = [server EXCEPT !.graph = g]
    BY <1>11 DEF Swarm!ServerBuilds
  <2>2. Swarm!TypeOK' /\ Swarm!Answers' = Swarm!Answers
    BY <2>1 DEF SwarmInv, SwarmTyped, Swarm!TypeOK, Swarm!Answers
  <2>3. /\ ServerTyped' /\ server'.tasks = server.tasks /\ server'.prepared = server.prepared
        /\ server'.run = server.run /\ server'.starts = server.starts
    BY <2>1 DEF SwarmInv, SwarmTyped, ServerTyped
  <2>4. GraphWaitedFor => GraphWaitedFor'
    BY <2>1, <2>3 DEF GraphWaitedFor
  <2>5. SwarmInOrder'
    BY <2>1, <2>2, <2>3, <2>4 DEF SwarmInv, SwarmInOrder, PrepareWaitedFor, CaptureOf
  <2>. QED BY <2>2, <2>3, <2>5 DEF SwarmInv, SwarmTyped
<1>12. CASE Swarm!ServerPrepares
  <2>1. /\ UNCHANGED <<pc, clock, rows, capture>> /\ server.prepared = "running"
        /\ \E p \in {"yes", "failed"} : server' = [server EXCEPT !.prepared = p]
    BY <1>12 DEF Swarm!ServerPrepares
  <2>2. Swarm!TypeOK' /\ Swarm!Answers' = Swarm!Answers
    BY <2>1 DEF SwarmInv, SwarmTyped, Swarm!TypeOK, Swarm!Answers
  <2>3. /\ ServerTyped' /\ server'.tasks = server.tasks /\ server'.graph = server.graph
        /\ server'.run = server.run /\ server'.starts = server.starts
    BY <2>1 DEF SwarmInv, SwarmTyped, ServerTyped
  <2>4. PrepareWaitedFor => PrepareWaitedFor'
    BY <2>1, <2>3 DEF PrepareWaitedFor
  <2>5. SwarmInOrder'
    BY <2>1, <2>2, <2>3, <2>4 DEF SwarmInv, SwarmInOrder, GraphWaitedFor, CaptureOf
  <2>. QED BY <2>2, <2>3, <2>5 DEF SwarmInv, SwarmTyped
<1>13. CASE Swarm!ServerRuns
  <2>1. PICK r \in {"completed", "stopped", "failed"} : server' = [server EXCEPT !.run = r]
    BY <1>13 DEF Swarm!ServerRuns
  <2>2. /\ pc' = pc /\ clock' = clock /\ capture' = capture /\ server.run = "running"
        /\ rows' \in Seq(Texts \union {Swarm!Empty})
    BY <1>13, SeqDef DEF Swarm!ServerRuns
  <2>3. /\ ServerTyped' /\ server'.graph = server.graph /\ server'.prepared = server.prepared
        /\ server'.starts = server.starts /\ server'.tasks = server.tasks
    BY <2>1 DEF SwarmInv, SwarmTyped, ServerTyped
  <2>4. pc \notin Unstarted /\ pc \notin {"capture", "captured"}
    BY <2>2 DEF SwarmInv, SwarmInOrder
  <2>5. Swarm!TypeOK'
    BY <2>2 DEF SwarmInv, SwarmTyped, Swarm!TypeOK
  <2>6. SwarmInOrder'
    BY <2>2, <2>3, <2>4 DEF SwarmInv, SwarmInOrder, GraphWaitedFor, PrepareWaitedFor
  <2>. QED BY <2>3, <2>5, <2>6 DEF SwarmInv, SwarmTyped
<1>. QED
  BY <1>1, <1>2, <1>3, <1>4, <1>5, <1>6, <1>7, <1>8, <1>9, <1>10, <1>11, <1>12, <1>13
     DEF Swarm!Next, Swarm!Client

(* What the swarm's invariant says of a capture.                           *)
LEMMA SwarmIsSound ==
  ASSUME SwarmInv
  PROVE  Swarm!TypeOK /\ Swarm!CapturedIsFinished /\ Swarm!StartedIsPrepared /\ Swarm!CapturedOnce
<1>1. Swarm!TypeOK
  BY DEF SwarmInv, SwarmTyped
<1>2. Swarm!CapturedIsFinished /\ Swarm!StartedIsPrepared
  BY DEF SwarmInv, SwarmInOrder, Swarm!CapturedIsFinished, Swarm!StartedIsPrepared, Started,
         GraphWaitedFor, PrepareWaitedFor
<1>3. ASSUME pc = "captured" PROVE Swarm!CapturedOnce
  <2>1. rows \in Seq(Texts \union {Swarm!Empty})
    BY <1>1 DEF Swarm!TypeOK
  <2>2. PICK a \in Swarm!Answers : capture = CaptureOf(a)
    BY <1>3 DEF SwarmInv, SwarmInOrder
  <2>. DEFINE d == Swarm!Deduplicated(a)
              t == Swarm!Trimmed(d)
  <2>3. /\ capture.answer = a /\ capture.posts = t /\ capture.rejected = Len(a) - Len(d)
    BY <2>2 DEF CaptureOf
  <2>4. /\ a \in Seq(Texts \union {Swarm!Empty}) /\ Swarm!ToSet(a) \subseteq Swarm!ToSet(rows)
        /\ Len(rows) <= RowLimit => a = rows
        /\ Len(a) >= IF Len(rows) < RowLimit THEN Len(rows) ELSE RowLimit
    BY <2>1, AnswersAreRows
  <2>5. /\ d \in Seq(Texts \union {Swarm!Empty}) /\ Len(d) <= Len(a)
        /\ Swarm!ToSet(d) = Swarm!ToSet(a)
        /\ \A i, j \in DOMAIN d : i # j /\ d[i] = d[j] => d[i] = Swarm!Empty
        /\ \A i, j \in DOMAIN d :
             i < j /\ Swarm!Empty \notin {d[i], d[j]} =>
               Swarm!FirstAt(a, d[i]) < Swarm!FirstAt(a, d[j])
    BY <2>4, DeduplicatedKeeps
  <2>. HIDE DEF d
  <2>6. /\ DOMAIN t \subseteq DOMAIN d /\ \A i \in DOMAIN t : t[i] = d[i]
        /\ Swarm!ToSet(t) \subseteq Swarm!ToSet(d)
        /\ Len(t) = IF Len(d) > RowLimit THEN RowLimit ELSE Len(d)
        /\ Len(d) <= RowLimit => t = d
    BY <2>5, TrimmedIsPrefix
  <2>. HIDE DEF t
  <2>7. RowLimit \in Nat /\ Len(a) \in Nat /\ Len(d) \in Nat /\ Len(rows) \in Nat
    BY <2>1, <2>4, <2>5, AnswersAssumption
  <2>8. /\ Len(capture.posts) <= RowLimit
        /\ Len(capture.posts) + capture.rejected
             >= IF Len(rows) < RowLimit THEN Len(rows) ELSE RowLimit
    <3>1. Len(t) <= RowLimit /\ Len(t) + (Len(a) - Len(d)) >= IF Len(a) < RowLimit THEN Len(a) ELSE RowLimit
      BY <2>5, <2>6, <2>7
    <3>. QED BY <2>3, <2>4, <2>7, <3>1
  <2>9. Swarm!ToSet(capture.posts) \subseteq Swarm!ToSet(rows)
    BY <2>3, <2>4, <2>5, <2>6
  <2>10. Len(rows) <= RowLimit =>
           /\ capture.answer = rows /\ Swarm!ToSet(capture.posts) = Swarm!ToSet(rows)
           /\ Len(capture.posts) + capture.rejected = Len(rows)
    <3>. SUFFICES ASSUME Len(rows) <= RowLimit
                  PROVE  /\ a = rows /\ Swarm!ToSet(t) = Swarm!ToSet(rows)
                         /\ Len(t) + (Len(a) - Len(d)) = Len(rows)
      BY <2>3
    <3>1. a = rows
      BY <2>4
    <3>2. t = d
      BY <2>5, <2>6, <2>7, <3>1
    <3>. QED BY <2>5, <2>7, <3>1, <3>2
  <2>11. /\ \A i, j \in DOMAIN t : i # j /\ t[i] = t[j] => t[i] = Swarm!Empty
         /\ \A i, j \in DOMAIN t :
              i < j /\ Swarm!Empty \notin {t[i], t[j]} =>
                Swarm!FirstAt(a, t[i]) < Swarm!FirstAt(a, t[j])
    BY <2>5, <2>6
  <2>. QED BY <2>3, <2>8, <2>9, <2>10, <2>11 DEF Swarm!CapturedOnce
<1>. QED BY <1>1, <1>2, <1>3 DEF Swarm!CapturedOnce

(* A typed request: the retries reported are the calls made, and whoever   *)
(* retries had a reason to and a pause to take.                            *)
ModelTyped ==
  /\ Model!TypeOK /\ retries \in 0..2 /\ calls \in [1..2 -> Nat] /\ waited \in Seq(Nat)
  /\ pc \notin {"call", "sleep", "cancelled"} => answer \in Model!Answers
ModelCounts ==
  /\ Len(waited) = retries /\ (\A i \in 1..retries : waited[i] = BackoffSeconds[i])
  /\ pc = "call" => calls[1] = retries
  /\ pc \notin {"call", "cancelled"} => calls[1] = retries + 1
  /\ calls[1] <= 3 /\ calls[2] <= 3 /\ (calls[2] > 0 <=> repair = 1)
  /\ pc = "sleep" => retries < 2
ModelEnds ==
  /\ pc # "raised"
  /\ pc \in {"parse", "valid", "invalid_output"} => Model!Code(answer) = "ok"
  /\ pc = "transport_error" =>
       Model!Code(answer) # "ok" /\ (Model!Code(answer) \in Model!Retryable => retries = 2)
  /\ pc = "valid" => answer.completion.content = "json"
  /\ pc = "invalid_output" => repair = 1
ModelInv == ModelTyped /\ ModelCounts /\ ModelEnds

(* An answer is refused with a code of the table, or is a whole completion. *)
LEMMA AnswersAreSorted ==
  ASSUME NEW a \in Model!Answers
  PROVE  /\ Model!Code(a) = "ok" \/ Model!Code(a) \in Model!Codes
         /\ Model!Code(a) = "ok" => a.completion.finish = "stop" /\ ~a.completion.refused
<1>1. CASE \E r \in Model!Raises : a = [raised |-> r]
  <2>1. "raised" \in DOMAIN a
    BY <1>1
  <2>. QED BY <2>1 DEF Model!Code, Model!CodeRaised, Model!Codes
<1>2. CASE a \in [completion : Model!Completions]
  <2>1. "raised" \notin DOMAIN a /\ a.completion \in Model!Completions
    BY <1>2
  <2>. QED BY <2>1 DEF Model!Code, Model!CodeOf, Model!Codes, Model!Completions
<1>. QED BY <1>1, <1>2 DEF Model!Answers

(* A request to a model begins so, and goes on so.                         *)
LEMMA ModelBegins ==
  ASSUME Model!Init PROVE ModelInv
BY DEF Model!Init, ModelInv, ModelTyped, ModelCounts, ModelEnds, Model!TypeOK

LEMMA ModelGoesOn ==
  ASSUME ModelInv, Model!Next
  PROVE  ModelInv'
<1>0. ModelTyped /\ ModelCounts /\ ModelEnds
  BY DEF ModelInv
<1>1. CASE Model!Call
  <2>1. ModelTyped'
    BY <1>0, <1>1 DEF Model!Call, ModelTyped, Model!TypeOK
  <2>2. ModelCounts'
    BY <1>0, <1>1 DEF Model!Call, ModelTyped, ModelCounts
  <2>3. ModelEnds'
    BY <1>1 DEF Model!Call, ModelEnds
  <2>. QED BY <2>1, <2>2, <2>3 DEF ModelInv
<1>2. CASE Model!Answered
  <2>1. ModelTyped'
    BY <1>0, <1>2 DEF Model!Answered, ModelTyped, Model!TypeOK, Model!Ended
  <2>2. ModelCounts'
    <3>1. pc' = "sleep" => retries # 2
      BY <1>2 DEF Model!Answered
    <3>2. pc = "answered" /\ pc' \in {"parse", "transport_error", "sleep"}
          /\ UNCHANGED <<repair, retries, waited, calls>>
      BY <1>2 DEF Model!Answered
    <3>. QED BY ONLY <1>0, <3>1, <3>2 DEF ModelTyped, ModelCounts
  <2>3. ModelEnds'
    <3>1. /\ pc' \in {"parse", "transport_error", "sleep"}
          /\ UNCHANGED <<retries, answer>>
          /\ pc' = "parse" => Model!Code(answer) = "ok"
          /\ pc' = "transport_error" =>
               /\ Model!Code(answer) # "ok"
               /\ Model!Code(answer) \in Model!Retryable => retries = 2
      BY <1>2 DEF Model!Answered
    <3>2. Model!Code(answer)' = Model!Code(answer)
      BY <3>1 DEF Model!Code, Model!CodeRaised, Model!CodeOf
    <3>. QED BY ONLY <3>1, <3>2 DEF ModelEnds
  <2>. QED BY <2>1, <2>2, <2>3 DEF ModelInv
<1>3. CASE Model!Sleep
  <2>1. retries < 2 /\ retries \in 0..1 /\ pc = "sleep"
    BY <1>0, <1>3 DEF Model!Sleep, ModelTyped, ModelCounts
  <2>2. retries + 1 \in DOMAIN BackoffSeconds /\ BackoffSeconds[retries + 1] \in Nat
    BY <2>1 DEF BackoffSeconds
  <2>3. /\ waited' = Append(waited, BackoffSeconds[retries + 1])
        /\ retries' = retries + 1 /\ pc' = "call" /\ UNCHANGED <<repair, answer, calls>>
    BY <1>3, <2>2 DEF Model!Sleep
  <2>4. ModelTyped'
    BY <1>0, <2>1, <2>2, <2>3 DEF ModelTyped, Model!TypeOK
  <2>5. ModelCounts'
    <3>1. waited \in Seq(Nat) /\ Len(waited) = retries
      BY <1>0 DEF ModelTyped, ModelCounts
    <3>2. Len(waited') = retries' /\ \A i \in 1..retries' : waited'[i] = BackoffSeconds[i]
      BY <1>0, <2>1, <2>2, <2>3, <3>1 DEF ModelCounts
    <3>. QED BY <1>0, <2>1, <2>3, <3>2 DEF ModelCounts, ModelTyped
  <2>6. ModelEnds'
    BY <2>3 DEF ModelEnds
  <2>. QED BY <2>4, <2>5, <2>6 DEF ModelInv
<1>4. CASE Model!Parse
  <2>1. pc = "parse" /\ answer \in Model!Answers /\ answer' = answer /\ Model!Code(answer) = "ok"
    BY <1>0, <1>4 DEF Model!Parse, ModelTyped, ModelEnds
  <2>2. Model!Code(answer)' = Model!Code(answer)
    BY <2>1 DEF Model!Code, Model!CodeRaised, Model!CodeOf
  <2>3. CASE pc' \in {"valid", "invalid_output"} /\ UNCHANGED <<repair, retries, waited, calls>>
    <3>1. ModelTyped'
      BY <1>0, <2>1, <2>3 DEF ModelTyped, Model!TypeOK, Model!Ended
    <3>2. ModelCounts'
      BY <1>0, <2>1, <2>3 DEF ModelCounts
    <3>3. ModelEnds'
      <4>1. /\ pc' = "valid" => answer.completion.content = "json"
            /\ pc' = "invalid_output" => repair = 1
        BY <1>4 DEF Model!Parse
      <4>. QED BY <2>1, <2>2, <2>3, <4>1 DEF ModelEnds
    <3>. QED BY <3>1, <3>2, <3>3 DEF ModelInv
  <2>4. CASE /\ pc' = "call" /\ repair # 1 /\ repair' = 1 /\ retries' = 0 /\ waited' = <<>>
             /\ calls' = <<0, calls[1]>>
    <3>1. ModelTyped'
      BY <1>0, <2>1, <2>4 DEF ModelTyped, Model!TypeOK
    <3>2. ModelCounts'
      <4>1. calls[1] = retries + 1 /\ calls[1] <= 3 /\ retries \in 0..2
        BY <1>0, <2>1 DEF ModelCounts, ModelTyped
      <4>2. calls'[1] = 0 /\ calls'[2] = calls[1]
        BY <2>4
      <4>. QED BY <2>4, <4>1, <4>2 DEF ModelCounts
    <3>3. ModelEnds'
      BY <2>4 DEF ModelEnds
    <3>. QED BY <3>1, <3>2, <3>3 DEF ModelInv
  <2>. QED BY <1>4, <2>3, <2>4 DEF Model!Parse
<1>5. CASE Model!Cancel
  <2>1. ModelTyped'
    BY <1>0, <1>5 DEF Model!Cancel, ModelTyped, Model!TypeOK, Model!Ended
  <2>2. ModelCounts'
    BY <1>0, <1>5 DEF Model!Cancel, ModelCounts
  <2>3. ModelEnds'
    BY <1>5 DEF Model!Cancel, ModelEnds
  <2>. QED BY <2>1, <2>2, <2>3 DEF ModelInv
<1>. QED BY <1>1, <1>2, <1>3, <1>4, <1>5 DEF Model!Next, Model!Client

(* So its calls are bounded by its retries and its one repair.             *)
LEMMA ModelIsSound ==
  ASSUME ModelInv
  PROVE  Model!TypeOK /\ Model!CallsAreBounded
<1>0. ModelTyped /\ ModelCounts /\ ModelEnds
  BY DEF ModelInv
<1>1. /\ pc \in {"answered", "parse", "valid", "transport_error", "invalid_output"} =>
           retries = calls[1] - 1 /\ Len(waited) = retries
      /\ \A i \in DOMAIN waited : waited[i] = BackoffSeconds[i]
      /\ pc # "raised" /\ calls[1] <= 3 /\ calls[2] <= 3 /\ (calls[2] > 0 <=> repair = 1)
  BY <1>0 DEF ModelTyped, ModelCounts, ModelEnds
<1>2. pc = "transport_error" =>
        /\ Model!Code(answer) \in Model!Codes
        /\ Model!Code(answer) \in Model!Retryable => calls[1] = 3
  <2>1. pc = "transport_error" => answer \in Model!Answers
    BY <1>0 DEF ModelTyped
  <2>. QED BY <1>0, <2>1, AnswersAreSorted DEF ModelTyped, ModelCounts, ModelEnds
<1>3. pc = "valid" =>
        /\ answer.completion.finish = "stop" /\ ~answer.completion.refused
        /\ answer.completion.content = "json"
  <2>1. pc = "valid" => answer \in Model!Answers
    BY <1>0 DEF ModelTyped
  <2>. QED BY <1>0, <2>1, AnswersAreSorted DEF ModelEnds
<1>. QED BY <1>0, <1>1, <1>2, <1>3 DEF Model!CallsAreBounded, ModelTyped, ModelEnds

-----------------------------------------------------------------------------
(* A sequence lists as many values as it is long when it repeats none.     *)
Injective(s) == \A i, j \in DOMAIN s : s[i] = s[j] => i = j

LEMMA ListedOnce ==
  ASSUME NEW T, NEW s \in Seq(T)
  PROVE  LET S == {s[i] : i \in DOMAIN s}
         IN IsFiniteSet(S) /\ (Cardinality(S) = Len(s) <=> Injective(s))
<1>. DEFINE S == {s[i] : i \in DOMAIN s}
<1>1. Len(s) \in Nat /\ DOMAIN s = 1..Len(s) /\ s \in [1..Len(s) -> T]
  OBVIOUS
<1>2. IsFiniteSet(1..Len(s)) /\ Cardinality(1..Len(s)) = Len(s)
  BY <1>1, FS_Interval
<1>3. s \in [1..Len(s) -> S]
  BY <1>1
<1>4. s \in Surjection(1..Len(s), S)
  BY <1>1, <1>3 DEF Surjection
<1>5. s \in Injection(1..Len(s), S) <=> Injective(s)
  BY <1>1, <1>3 DEF Injection, IsInjective, Injective
<1>6. IsFiniteSet(S) /\ (Cardinality(S) = Cardinality(1..Len(s)) <=> s \in Injection(1..Len(s), S))
  BY ONLY <1>2, <1>4, FS_Surjection
<1>. QED BY <1>2, <1>5, <1>6

(* A roster: names are different, a batch under review fits what is still  *)
(* missing, and every call has its place in the budget.                    *)
RosterTyped ==
  /\ people \in Seq(Names) /\ batch \in Seq(Names) /\ Len(people) <= Seats
  /\ round \in 0..MaxRepairs /\ asked \in {"roster", "review"} /\ again \in BOOLEAN
  /\ calls \in Nat /\ pc \in {"ask", "judge", "sleep", "roster", "raised"}
RosterInOrder ==
  /\ Injective(people) /\ (pc = "roster" => Len(people) = Seats)
  /\ pc \in {"ask", "judge", "sleep"} /\ asked = "review" =>
       Len(batch) = Roster!Size /\ Roster!Distinct
  /\ pc = "judge" /\ answer = "roster" => asked = "roster"
  /\ pc = "sleep" => ~again
  /\ pc = "raised" => round = MaxRepairs \/ code \notin Roster!Repairs
RosterBudget ==
  /\ calls <= 4 * (round + 1)
  /\ pc \in {"ask", "judge", "sleep"} =>
       calls <= 4 * round + (IF asked = "review" THEN 2 ELSE 0) + (IF again THEN 1 ELSE 0)
                          + (IF pc = "ask" THEN 0 ELSE 1)
RosterInv == RosterTyped /\ RosterInOrder /\ RosterBudget

(* The empty list.                                                         *)
LEMMA EmptyList ==
  ASSUME NEW T PROVE <<>> \in Seq(T) /\ Len(<<>>) = 0 /\ Injective(<<>>)
BY DEF Injective

(* A roster begins so.                                                     *)
LEMMA RosterBegins ==
  ASSUME Roster!Init PROVE RosterInv
<1>1. MaxRepairs \in Nat /\ Seats \in Nat
  BY AnswersAssumption
<1>2. again \in BOOLEAN
  BY DEF Roster!Init
<1>3. RosterTyped
  BY <1>1, <1>2, EmptyList DEF Roster!Init, RosterTyped
<1>4. RosterInOrder /\ RosterBudget
  BY EmptyList DEF Roster!Init, RosterInOrder, RosterBudget
<1>. QED BY <1>3, <1>4 DEF RosterInv

(* A batch that is refused is asked for again, or ends the request.        *)
LEMMA RosterGivesUp ==
  ASSUME RosterInv, pc = "judge", NEW c, Roster!Unsuitable(c)
  PROVE  RosterInv'
<1>0. MaxRepairs \in Nat
  BY AnswersAssumption
<1>1. RosterTyped /\ RosterInOrder /\ RosterBudget
  BY DEF RosterInv
<1>2. batch' = <<>> /\ UNCHANGED <<people, calls>>
  BY DEF Roster!Unsuitable
<1>3. CASE /\ round = MaxRepairs \/ c \notin Roster!Repairs
           /\ pc' = "raised" /\ code' = c /\ UNCHANGED <<round, asked, again>>
  <2>1. RosterTyped'
    BY <1>1, <1>2, <1>3, EmptyList DEF RosterTyped
  <2>2. RosterInOrder'
    BY <1>1, <1>2, <1>3 DEF RosterInOrder, Roster!Repairs, Roster!Unusable
  <2>3. RosterBudget'
    BY <1>1, <1>2, <1>3 DEF RosterBudget
  <2>. QED BY <2>1, <2>2, <2>3 DEF RosterInv
<1>4. CASE /\ round # MaxRepairs
           /\ pc' = "ask" /\ round' = round + 1 /\ asked' = "roster" /\ again' = FALSE
  <2>0. again' \in BOOLEAN
    BY <1>4
  <2>1. RosterTyped'
    BY <1>0, <1>1, <1>2, <1>4, <2>0, EmptyList DEF RosterTyped
  <2>2. RosterInOrder'
    BY <1>1, <1>2, <1>4 DEF RosterInOrder
  <2>3. calls <= 4 * round + 4 /\ calls' = calls /\ round \in Nat /\ calls \in Nat
    BY <1>1, <1>2 DEF RosterBudget, RosterTyped
  <2>4. RosterBudget'
    BY <1>4, <2>3 DEF RosterBudget
  <2>. QED BY <2>1, <2>2, <2>4 DEF RosterInv
<1>. QED BY <1>3, <1>4 DEF Roster!Unsuitable

(* A reviewed batch joins the roster.                                      *)
LEMMA RosterGrows ==
  ASSUME RosterTyped, Injective(people), Len(batch) = Roster!Size, Roster!Distinct
  PROVE  /\ people \o batch \in Seq(Names) /\ Injective(people \o batch)
         /\ Len(people \o batch) <= Seats
<1>0. Seats \in Nat /\ BatchSize \in Nat
  BY AnswersAssumption
<1>1. people \in Seq(Names) /\ batch \in Seq(Names) /\ Len(people) <= Seats
  BY DEF RosterTyped
<1>2. Len(people \o batch) = Len(people) + Len(batch) /\ people \o batch \in Seq(Names)
  BY <1>1
<1>3. Len(people \o batch) <= Seats
  <2>1. Len(people) \in Nat /\ Len(batch) \in Nat /\ Len(batch) <= Seats - Len(people)
    BY <1>0, <1>1 DEF Roster!Size
  <2>. QED BY <1>0, <1>2, <2>1
<1>4. Injective(batch) /\ (\A i \in DOMAIN people, j \in DOMAIN batch : people[i] # batch[j])
  <2>1. Cardinality({batch[i] : i \in DOMAIN batch}) = Len(batch)
    BY SameCardinality DEF Roster!Distinct, Roster!ToSet
  <2>2. Injective(batch)
    BY <1>1, <2>1, ListedOnce
  <2>. QED BY <2>2 DEF Roster!Distinct, Roster!ToSet
<1>5. \A i \in 1..Len(people \o batch) :
        (people \o batch)[i] = IF i <= Len(people) THEN people[i] ELSE batch[i - Len(people)]
  BY <1>1
<1>6. Injective(people \o batch)
  <2>1. SUFFICES ASSUME NEW i \in 1..(Len(people) + Len(batch)), NEW j \in 1..(Len(people) + Len(batch)),
                        (people \o batch)[i] = (people \o batch)[j]
                 PROVE  i = j
    BY <1>1, <1>2 DEF Injective
  <2>2. DOMAIN people = 1..Len(people) /\ DOMAIN batch = 1..Len(batch)
        /\ Len(people) \in Nat /\ Len(batch) \in Nat
    BY <1>1
  <2>3. CASE i <= Len(people) /\ j <= Len(people)
    BY <1>2, <1>5, <2>1, <2>2, <2>3 DEF Injective
  <2>4. CASE i > Len(people) /\ j > Len(people)
    <3>1. i - Len(people) \in 1..Len(batch) /\ j - Len(people) \in 1..Len(batch)
      BY <2>2, <2>4
    <3>2. batch[i - Len(people)] = batch[j - Len(people)]
      BY <1>2, <1>5, <2>1, <2>2, <2>4
    <3>3. i - Len(people) = j - Len(people)
      BY <1>4, <2>2, <3>1, <3>2 DEF Injective
    <3>. QED BY <2>2, <3>3
  <2>5. CASE i <= Len(people) /\ j > Len(people)
    <3>1. j - Len(people) \in 1..Len(batch) /\ i \in 1..Len(people)
      BY <2>2, <2>5
    <3>2. people[i] = batch[j - Len(people)]
      BY <1>2, <1>5, <2>1, <2>2, <2>5
    <3>. QED BY <1>4, <2>2, <3>1, <3>2
  <2>6. CASE i > Len(people) /\ j <= Len(people)
    <3>1. i - Len(people) \in 1..Len(batch) /\ j \in 1..Len(people)
      BY <2>2, <2>6
    <3>2. people[j] = batch[i - Len(people)]
      BY <1>2, <1>5, <2>1, <2>2, <2>6
    <3>. QED BY <1>4, <2>2, <3>1, <3>2
  <2>. QED BY <2>2, <2>3, <2>4, <2>5, <2>6
<1>. QED BY <1>2, <1>3, <1>6

(* Every answer of the provider keeps that.                                *)
LEMMA RosterGoesOn ==
  ASSUME RosterInv, Roster!Next
  PROVE  RosterInv'
<1>0. RosterTyped /\ RosterInOrder /\ RosterBudget
  BY DEF RosterInv
<1>1. CASE Roster!Ask
  <2>1. /\ pc = "ask" /\ pc' = "judge" /\ calls' = calls + 1
        /\ UNCHANGED <<people, round, asked, again>>
        /\ asked = "review" => batch' = batch
        /\ answer' = "roster" => asked = "roster"
    BY <1>1 DEF Roster!Ask
  <2>2. batch' \in Seq(Names)
    <3>1. BatchSize \in Nat
      BY AnswersAssumption
    <3>2. batch' \in Roster!Proposals => batch' \in Seq(Names)
      BY <3>1, SeqDef DEF Roster!Proposals
    <3>. QED BY <1>0, <1>1, <3>2 DEF Roster!Ask, RosterTyped
  <2>3. RosterTyped'
    BY <1>0, <2>1, <2>2 DEF RosterTyped
  <2>4. RosterInOrder'
    BY <1>0, <2>1 DEF RosterInOrder, Roster!Size, Roster!Distinct
  <2>5. RosterBudget'
    BY <1>0, <2>1 DEF RosterBudget, RosterTyped
  <2>. QED BY <2>3, <2>4, <2>5 DEF RosterInv
<1>2. CASE Roster!Failed
  <2>1. pc = "judge" /\ (Roster!Unsuitable(code) \/
          /\ pc' = "sleep" /\ ~again
          /\ UNCHANGED <<people, round, asked, again, batch, code, calls>>)
    BY <1>2 DEF Roster!Failed
  <2>2. CASE /\ pc' = "sleep" /\ ~again
             /\ UNCHANGED <<people, round, asked, again, batch, code, calls>>
    <3>1. RosterTyped'
      BY <1>0, <2>2 DEF RosterTyped
    <3>2. RosterInOrder'
      BY <1>0, <2>1, <2>2 DEF RosterInOrder, Roster!Size, Roster!Distinct
    <3>3. RosterBudget'
      BY <1>0, <2>1, <2>2 DEF RosterBudget
    <3>. QED BY <3>1, <3>2, <3>3 DEF RosterInv
  <2>. QED BY <2>1, <2>2, RosterGivesUp
<1>3. CASE Roster!Sleep
  <2>1. /\ pc = "sleep" /\ pc' = "ask" /\ again' = TRUE
        /\ UNCHANGED <<people, round, asked, batch, answer, calls>>
    BY <1>3 DEF Roster!Sleep
  <2>2. RosterTyped'
    BY <1>0, <2>1 DEF RosterTyped
  <2>3. RosterInOrder'
    BY <1>0, <2>1 DEF RosterInOrder, Roster!Size, Roster!Distinct
  <2>4. RosterBudget'
    BY <1>0, <2>1 DEF RosterBudget, RosterInOrder, RosterTyped
  <2>. QED BY <2>2, <2>3, <2>4 DEF RosterInv
<1>4. CASE Roster!Proposed
  <2>1. pc = "judge" /\ answer = "roster" /\ asked = "roster"
    BY <1>0, <1>4 DEF Roster!Proposed, RosterInOrder
  <2>2. CASE /\ Len(batch) = Roster!Size /\ Roster!Distinct
             /\ pc' = "ask" /\ asked' = "review" /\ again' = FALSE
             /\ UNCHANGED <<people, round, batch, code, calls>>
    <3>1. RosterTyped'
      BY <1>0, <2>2 DEF RosterTyped
    <3>2. RosterInOrder'
      BY <1>0, <2>2 DEF RosterInOrder, Roster!Size, Roster!Distinct
    <3>3. RosterBudget'
      BY <1>0, <2>1, <2>2 DEF RosterBudget, RosterTyped
    <3>. QED BY <3>1, <3>2, <3>3 DEF RosterInv
  <2>3. CASE Roster!Unsuitable("roster_count") \/ Roster!Unsuitable("roster_duplicate")
    BY <2>1, <2>3, RosterGivesUp
  <2>. QED BY <1>4, <2>2, <2>3 DEF Roster!Proposed
<1>5. CASE Roster!Reviewed
  <2>1. pc = "judge" /\ asked = "review"
    BY <1>5 DEF Roster!Reviewed
  <2>2. CASE /\ people' = people \o batch /\ asked' = "roster" /\ again' = FALSE
             /\ round' = 0 /\ calls' = 0 /\ batch' = <<>>
             /\ pc' = IF Len(people') = Seats THEN "roster" ELSE "ask"
    <3>0. MaxRepairs \in Nat
      BY AnswersAssumption
    <3>1. Len(batch) = Roster!Size /\ Roster!Distinct /\ Injective(people)
      BY <1>0, <2>1 DEF RosterInOrder
    <3>2. people' \in Seq(Names) /\ Injective(people') /\ Len(people') <= Seats
      BY <1>0, <2>2, <3>1, RosterGrows
    <3>6. again' \in BOOLEAN
      BY <2>2
    <3>3. RosterTyped'
      BY <2>2, <3>0, <3>2, <3>6, EmptyList DEF RosterTyped
    <3>4. RosterInOrder'
      BY <2>2, <3>2 DEF RosterInOrder
    <3>5. RosterBudget'
      BY <2>2 DEF RosterBudget
    <3>. QED BY <3>3, <3>4, <3>5 DEF RosterInv
  <2>3. CASE Roster!Unsuitable(answer)
    BY <2>1, <2>3, RosterGivesUp
  <2>. QED BY <1>5, <2>2, <2>3 DEF Roster!Reviewed
<1>. QED BY <1>1, <1>2, <1>3, <1>4, <1>5 DEF Roster!Next, Roster!Client

(* So a roster is whole, and its calls are bounded.                        *)
LEMMA RosterIsSound ==
  ASSUME RosterInv
  PROVE  Roster!TypeOK /\ Roster!RosterIsWhole
<1>0. RosterTyped /\ RosterInOrder /\ RosterBudget /\ MaxRepairs \in Nat
  BY AnswersAssumption DEF RosterInv
<1>1. Roster!ToSet(people) \cup Roster!ToSet(batch) \subseteq Names
  BY <1>0 DEF RosterTyped, Roster!ToSet
<1>2. Roster!TypeOK
  BY <1>0, <1>1 DEF RosterTyped, Roster!TypeOK
<1>3. Roster!Cardinality(Roster!ToSet(people)) = Len(people)
  <2>1. people \in Seq(Names) /\ Injective(people)
    BY <1>0 DEF RosterTyped, RosterInOrder
  <2>2. Cardinality({people[i] : i \in DOMAIN people}) = Len(people)
    BY <2>1, ListedOnce
  <2>. QED BY <2>2, SameCardinality DEF Roster!ToSet
<1>4. calls <= 4 * (MaxRepairs + 1)
  <2>1. calls \in Nat /\ round \in 0..MaxRepairs /\ calls <= 4 * (round + 1)
    BY <1>0 DEF RosterTyped, RosterBudget
  <2>. QED BY <1>0, <2>1
<1>5. (pc = "roster" => Len(people) = Seats) /\ (pc = "raised" => round = MaxRepairs \/ code \notin Roster!Repairs)
  BY <1>0 DEF RosterInOrder
<1>. QED BY <1>2, <1>3, <1>4, <1>5 DEF Roster!RosterIsWhole

-----------------------------------------------------------------------------
(* The Judge and the capture put numbers in order as the swarm does.       *)
LEMMA SameOrder ==
  ASSUME NEW S
  PROVE  Judge!Ascending(S) = Swarm!Ascending(S) /\ Capture!Ascending(S) = Swarm!Ascending(S)
<1>. DEFINE F == [1..Cardinality(S) -> S]
            P(f) == \A i, j \in DOMAIN f : i < j => f[i] < f[j]
<1>1. Swarm!Ascending(S) = CHOOSE f \in F : P(f)
  BY SameCardinality DEF Swarm!Ascending
<1>2. Judge!Ascending(S) = CHOOSE f \in F : P(f)
  BY SameCardinality DEF Judge!Ascending
<1>3. Capture!Ascending(S) = CHOOSE f \in F : P(f)
  BY SameCardinality DEF Capture!Ascending
<1>. QED BY <1>1, <1>2, <1>3

(* Advice: a remembered check is of the text it was made for, the draft    *)
(* that is checked is the one the review accepted, and there is no result  *)
(* before the end.                                                         *)
JudgeTyped ==
  /\ Judge!TypeOK
  /\ pc \in {"begin", "generate", "review", "check", "repair", "done"}
  /\ history \in [reviewed : Judge!Drafts \cup {Judge!NoDraft}, failed : BOOLEAN]
  /\ pc \in {"review", "check", "repair"} => draft \in Judge!Drafts
  /\ pc = "repair" => rejected \subseteq DOMAIN draft.items /\ attempt < MaxRepairs
JudgeInOrder ==
  /\ \A c \in cache : c[1][2] = c[2]
  /\ pc = "check" => history.reviewed = draft
  /\ pc # "done" => result = Judge!NoResult
JudgeShows == Judge!ShownIsChecked /\ Judge!AdviceIsReviewed /\ Judge!FailureIsNamed
JudgeInv == JudgeTyped /\ JudgeInOrder /\ JudgeShows

(* Before the end there is nothing to show.                                *)
LEMMA NothingShown ==
  ASSUME result = Judge!NoResult PROVE JudgeShows /\ result.advice \in Judge!Advice
BY DEF Judge!NoResult, Judge!Result, JudgeShows, Judge!ShownIsChecked, Judge!AdviceIsReviewed,
       Judge!FailureIsNamed, Judge!Advice

(* A failure shows nothing; if it is the provider's, a call failed.        *)
LEMMA FailureShows ==
  ASSUME NEW c, result = Judge!Result("failed", "insufficient_evidence", <<>>, c),
         c = "judge_provider_error" => history.failed
  PROVE  JudgeShows /\ result.advice \in Judge!Advice
BY DEF Judge!Result, JudgeShows, Judge!ShownIsChecked, Judge!AdviceIsReviewed,
       Judge!FailureIsNamed, Judge!Advice

(* The Judge begins so.                                                    *)
LEMMA JudgeBegins ==
  ASSUME Judge!Init PROVE JudgeInv
<1>0. MaxRepairs \in Nat
  BY AnswersAssumption
<1>1. JudgeShows /\ result.advice \in Judge!Advice
  BY NothingShown DEF Judge!Init
<1>2. history \in [reviewed : Judge!Drafts \cup {Judge!NoDraft}, failed : BOOLEAN]
  <2>1. FALSE \in BOOLEAN
    OBVIOUS
  <2>. QED BY <2>1 DEF Judge!Init
<1>3. JudgeTyped /\ JudgeInOrder
  BY <1>0, <1>1, <1>2 DEF Judge!Init, JudgeTyped, Judge!TypeOK, JudgeInOrder
<1>. QED BY <1>1, <1>3 DEF JudgeInv

(* A failure ends the request as the invariant says.                       *)
LEMMA JudgeFailed ==
  ASSUME JudgeInv, NEW c, Judge!Failure(c),
         history' \in {history, [history EXCEPT !.failed = TRUE]},
         c = "judge_provider_error" => history' = [history EXCEPT !.failed = TRUE]
  PROVE  JudgeInv'
<1>0. JudgeTyped /\ JudgeInOrder
  BY DEF JudgeInv
<1>1. /\ result' = Judge!Result("failed", "insufficient_evidence", <<>>, c)
      /\ pc' = "done" /\ UNCHANGED <<attempt, draft, cache, rejected>>
  BY DEF Judge!Failure
<1>2. history' \in [reviewed : Judge!Drafts \cup {Judge!NoDraft}, failed : BOOLEAN]
  <2>1. history \in [reviewed : Judge!Drafts \cup {Judge!NoDraft}, failed : BOOLEAN]
    BY <1>0 DEF JudgeTyped
  <2>2. TRUE \in BOOLEAN
    OBVIOUS
  <2>. QED BY <2>1, <2>2
<1>3. c = "judge_provider_error" => history'.failed
  <2>1. history \in [reviewed : Judge!Drafts \cup {Judge!NoDraft}, failed : BOOLEAN]
    BY <1>0 DEF JudgeTyped
  <2>. QED BY <2>1
<1>4. result'.advice \in Judge!Advice
  BY <1>1 DEF Judge!Result, Judge!Advice
<1>5. JudgeShows'
  BY <1>1, <1>3 DEF Judge!Result, JudgeShows, Judge!ShownIsChecked, Judge!AdviceIsReviewed,
       Judge!FailureIsNamed
<1>6. JudgeTyped'
  BY <1>0, <1>1, <1>2, <1>4 DEF JudgeTyped, Judge!TypeOK
<1>7. JudgeInOrder'
  BY <1>0, <1>1 DEF JudgeInOrder
<1>. QED BY <1>5, <1>6, <1>7 DEF JudgeInv

(* So does another attempt, or the lack of one.                            *)
LEMMA JudgeRetried ==
  ASSUME JudgeInv, pc # "done", Judge!Retry
  PROVE  JudgeInv'
<1>0. JudgeTyped /\ JudgeInOrder /\ MaxRepairs \in Nat
  BY AnswersAssumption DEF JudgeInv
<1>1. draft' = Judge!NoDraft /\ rejected' = {} /\ UNCHANGED <<cache, history>>
  BY DEF Judge!Retry
<1>2. CASE attempt < MaxRepairs /\ attempt' = attempt + 1 /\ pc' = "generate" /\ result' = result
  <2>1. result' = Judge!NoResult
    BY <1>0, <1>2 DEF JudgeInOrder
  <2>2. JudgeShows' /\ result'.advice \in Judge!Advice
    BY <2>1 DEF Judge!NoResult, Judge!Result, JudgeShows, Judge!ShownIsChecked,
                Judge!AdviceIsReviewed, Judge!FailureIsNamed, Judge!Advice
  <2>3. JudgeTyped'
    BY <1>0, <1>1, <1>2, <2>2 DEF JudgeTyped, Judge!TypeOK
  <2>4. JudgeInOrder'
    BY <1>0, <1>1, <1>2, <2>1 DEF JudgeInOrder
  <2>. QED BY <2>2, <2>3, <2>4 DEF JudgeInv
<1>3. CASE /\ result' = Judge!Result("failed", "insufficient_evidence", <<>>, "judge_invalid_output")
           /\ pc' = "done" /\ attempt' = attempt
  <2>1. result'.advice \in Judge!Advice
    BY <1>3 DEF Judge!Result, Judge!Advice
  <2>2. JudgeShows'
    BY <1>3 DEF Judge!Result, JudgeShows, Judge!ShownIsChecked, Judge!AdviceIsReviewed,
                Judge!FailureIsNamed
  <2>3. JudgeTyped'
    BY <1>0, <1>1, <1>3, <2>1 DEF JudgeTyped, Judge!TypeOK
  <2>4. JudgeInOrder'
    BY <1>0, <1>1, <1>3 DEF JudgeInOrder
  <2>. QED BY <2>2, <2>3, <2>4 DEF JudgeInv
<1>. QED BY <1>2, <1>3 DEF Judge!Retry

(* Steps that neither show anything nor touch what was reviewed.           *)
LEMMA JudgeMoved ==
  ASSUME JudgeInv, pc # "done", pc' # "done", result' = result, JudgeTyped', JudgeInOrder'
  PROVE  JudgeInv'
<1>1. result' = Judge!NoResult
  BY DEF JudgeInv, JudgeInOrder
<1>2. JudgeShows'
  BY <1>1 DEF Judge!NoResult, Judge!Result, JudgeShows, Judge!ShownIsChecked,
              Judge!AdviceIsReviewed, Judge!FailureIsNamed
<1>. QED BY <1>2 DEF JudgeInv

(* A draft is sent to review, or refused.                                  *)
LEMMA JudgeDrafts ==
  ASSUME JudgeInv, pc = "generate", NEW d \in Judge!Drafts, Judge!Draft(d)
  PROVE  JudgeInv'
<1>0. JudgeTyped /\ JudgeInOrder
  BY DEF JudgeInv
<1>1. CASE Judge!Retry
  BY <1>1, JudgeRetried
<1>2. CASE /\ draft' = d /\ pc' = "review" /\ rejected' = {}
           /\ UNCHANGED <<attempt, cache, result, history>>
  <2>1. JudgeTyped'
    BY <1>0, <1>2 DEF JudgeTyped, Judge!TypeOK
  <2>2. JudgeInOrder'
    BY <1>0, <1>2 DEF JudgeInOrder
  <2>. QED BY <1>2, <2>1, <2>2, JudgeMoved
<1>. QED BY <1>1, <1>2 DEF Judge!Draft

(* A draft's findings.                                                     *)
LEMMA DraftsHaveItems ==
  ASSUME NEW d \in Judge!Drafts
  PROVE  /\ d.items \in Seq(Judge!Items) /\ DOMAIN d.items = 1..Len(d.items)
         /\ Len(d.items) \in 1..MaxItems /\ d.advice \in Judge!Advice
<1>0. MaxItems \in Nat
  BY AnswersAssumption
<1>1. PICK n \in 1..MaxItems : d.items \in [1..n -> Judge!Items]
  BY DEF Judge!Drafts
<1>2. n \in Nat
  BY <1>0, <1>1
<1>. QED BY <1>1, <1>2, SeqDef DEF Judge!Drafts

(* What is left of a draft when the refused findings are taken out.        *)
LEMMA LimitedShows ==
  ASSUME draft \in Judge!Drafts, NEW refused
  PROVE  LET res == Judge!Limited(refused)
         IN /\ res.status = "partial" /\ res.advice = "insufficient_evidence" /\ res.code = "none"
            /\ Judge!Accepts(res)
            /\ \A i \in DOMAIN res.items :
                 \/ res.items[i] = Judge!Default
                 \/ \E k \in DOMAIN draft.items \ refused : res.items[i] = draft.items[k]
<1>. DEFINE S == DOMAIN draft.items \ refused
            passed == Judge!Ascending(S)
            kept == [k \in DOMAIN passed |-> draft.items[passed[k]]]
            steps == \E i \in DOMAIN kept : kept[i].field = "next_steps"
            shows == IF steps THEN kept ELSE Append(kept, Judge!Default)
            n == Cardinality(S)
<1>1. draft.items \in Seq(Judge!Items) /\ DOMAIN draft.items = 1..Len(draft.items)
      /\ Len(draft.items) \in Nat
  BY DraftsHaveItems
<1>2. S \in SUBSET Nat /\ IsFiniteSet(S)
  <2>1. IsFiniteSet(1..Len(draft.items)) /\ S \subseteq 1..Len(draft.items)
    BY <1>1, FS_Interval
  <2>2. IsFiniteSet(S)
    BY ONLY <2>1, FS_Subset
  <2>. QED BY <1>1, <2>1, <2>2
<1>3. n \in Nat /\ passed \in [1..n -> S]
  <2>. HIDE DEF S
  <2>. QED BY <1>2, SameOrder, AscendingLists
<1>4. Judge!Limited(refused) = Judge!Result("partial", "insufficient_evidence", shows, "none")
  BY DEF Judge!Limited
<1>. HIDE DEF passed, n
<1>5. DOMAIN kept = 1..n /\ kept \in Seq(Judge!Items) /\ Len(kept) = n
      /\ (\A i \in 1..n : \E k \in S : kept[i] = draft.items[k])
  <2>1. kept \in [1..n -> Judge!Items]
    BY <1>1, <1>3
  <2>. QED BY <1>3, <2>1, SeqDef
<1>6. /\ \E i \in DOMAIN shows : shows[i].field = "next_steps"
      /\ \A i \in DOMAIN shows : shows[i] = Judge!Default \/ \E k \in S : shows[i] = draft.items[k]
  <2>1. CASE steps
    BY <1>5, <2>1
  <2>2. CASE ~steps
    <3>. HIDE DEF kept
    <3>1. shows = Append(kept, Judge!Default)
      BY <2>2
    <3>2. DOMAIN shows = 1..(n + 1) /\ shows[n + 1] = Judge!Default
          /\ (\A i \in 1..n : shows[i] = kept[i])
      BY <1>3, <1>5, <3>1
    <3>3. n + 1 \in 1..(n + 1) /\ (\A i \in 1..(n + 1) : i \in 1..n \/ i = n + 1)
      BY <1>3
    <3>. QED BY <1>5, <3>2, <3>3 DEF Judge!Default
  <2>. QED BY <2>1, <2>2
<1>. HIDE DEF shows
<1>7. /\ Judge!Limited(refused).status = "partial" /\ Judge!Limited(refused).items = shows
      /\ Judge!Limited(refused).advice = "insufficient_evidence"
      /\ Judge!Limited(refused).code = "none"
  BY <1>4 DEF Judge!Result
<1>8. Judge!Accepts(Judge!Limited(refused))
  BY <1>6, <1>7 DEF Judge!Accepts
<1>. QED BY <1>6, <1>7, <1>8

(* Every answer of the model, and the deadline, keep that.                 *)
LEMMA JudgeGoesOn ==
  ASSUME JudgeInv, Judge!Next
  PROVE  JudgeInv'
<1>0. JudgeTyped /\ JudgeInOrder /\ MaxRepairs \in Nat
  BY AnswersAssumption DEF JudgeInv
<1>1. CASE Judge!Begin
  <2>1. pc = "begin" /\ history' = history /\ UNCHANGED <<attempt, draft, cache, rejected>>
    BY <1>1 DEF Judge!Begin, Judge!Failure
  <2>2. CASE pc' = "done" /\ result' = Judge!Result("partial", "insufficient_evidence", <<Judge!Default>>, "none")
    <3>1. result'.advice \in Judge!Advice
      BY <2>2 DEF Judge!Result, Judge!Advice
    <3>2. result'.items = <<Judge!Default>> /\ result'.advice = "insufficient_evidence" /\ result'.code = "none"
      BY <2>2 DEF Judge!Result
    <3>3. JudgeShows'
      BY <3>2 DEF JudgeShows, Judge!ShownIsChecked, Judge!AdviceIsReviewed, Judge!FailureIsNamed
    <3>4. JudgeTyped'
      BY <1>0, <2>1, <2>2, <3>1 DEF JudgeTyped, Judge!TypeOK
    <3>5. JudgeInOrder'
      BY <1>0, <2>1, <2>2 DEF JudgeInOrder
    <3>. QED BY <3>3, <3>4, <3>5 DEF JudgeInv
  <2>3. CASE Judge!Failure("judge_input_too_large")
    BY <2>1, <2>3, JudgeFailed
  <2>4. CASE pc' = "generate" /\ result' = result
    <3>1. JudgeTyped'
      BY <1>0, <2>1, <2>4 DEF JudgeTyped, Judge!TypeOK
    <3>2. JudgeInOrder'
      BY <1>0, <2>1, <2>4 DEF JudgeInOrder
    <3>. QED BY <2>1, <2>4, <3>1, <3>2, JudgeMoved
  <2>. QED BY <1>1, <2>2, <2>3, <2>4 DEF Judge!Begin
<1>2. CASE Judge!Generate
  <2>1. pc = "generate"
    BY <1>2 DEF Judge!Generate
  <2>2. CASE Judge!ProviderFails
    BY <2>2, JudgeFailed DEF Judge!ProviderFails
  <2>3. CASE \E d \in Judge!Drafts : Judge!Draft(d)
    BY <2>1, <2>3, JudgeDrafts
  <2>4. draft # Judge!NoDraft => draft \in Judge!Drafts
    BY <1>0 DEF JudgeTyped, Judge!TypeOK
  <2>. QED BY <1>2, <2>2, <2>3, <2>4 DEF Judge!Generate
<1>3. CASE Judge!Review
  <2>1. pc = "review"
    BY <1>3 DEF Judge!Review
  <2>2. CASE Judge!Retry
    BY <2>1, <2>2, JudgeRetried
  <2>3. CASE Judge!ProviderFails
    BY <2>3, JudgeFailed DEF Judge!ProviderFails
  <2>4. CASE /\ pc' = "check" /\ history' = [history EXCEPT !.reviewed = draft]
             /\ UNCHANGED <<attempt, draft, cache, rejected, result>>
    <3>1. /\ history' \in [reviewed : Judge!Drafts \cup {Judge!NoDraft}, failed : BOOLEAN]
          /\ history'.reviewed = draft
      <4>1. history \in [reviewed : Judge!Drafts \cup {Judge!NoDraft}, failed : BOOLEAN]
            /\ draft \in Judge!Drafts \cup {Judge!NoDraft}
        BY <1>0 DEF JudgeTyped, Judge!TypeOK
      <4>. QED BY <2>4, <4>1
    <3>2. JudgeTyped'
      BY <1>0, <2>1, <2>4, <3>1 DEF JudgeTyped, Judge!TypeOK
    <3>3. JudgeInOrder'
      BY <1>0, <2>1, <2>4, <3>1 DEF JudgeInOrder
    <3>. QED BY <2>1, <2>4, <3>2, <3>3, JudgeMoved
  <2>. QED BY <1>3, <2>2, <2>3, <2>4 DEF Judge!Review
<1>4. CASE Judge!Decide
  <2>. DEFINE refused == {i \in DOMAIN draft.items : ~Judge!Supported(i)}
  <2>1. /\ pc = "check" /\ draft \in Judge!Drafts /\ history.reviewed = draft
        /\ \A c \in cache : c[1][2] = c[2]
    BY <1>0, <1>4 DEF Judge!Decide, JudgeTyped, JudgeInOrder
  <2>2. \A i \in DOMAIN draft.items \ refused : \E c \in cache : c[2] = draft.items[i] /\ c[3]
    <3>1. SUFFICES ASSUME NEW i \in DOMAIN draft.items, Judge!Supported(i)
                   PROVE  \E c \in cache : c[2] = draft.items[i] /\ c[3]
      OBVIOUS
    <3>2. PICK c \in cache : c[1] = <<i, draft.items[i]>> /\ c[3]
      BY <3>1 DEF Judge!Supported, Judge!Key
    <3>3. c[2] = draft.items[i]
      BY <2>1, <3>2
    <3>. QED BY <3>2, <3>3
  <2>3. history' = history
    BY <1>4 DEF Judge!Decide
  <2>. HIDE DEF refused
  <2>4. CASE /\ refused = {} /\ result' = Judge!AsResult(draft) /\ pc' = "done"
             /\ UNCHANGED <<attempt, draft, cache, rejected>>
    <3>1. /\ result'.status \in {"partial", "completed"} /\ result'.advice = draft.advice
          /\ result'.items = draft.items /\ result'.code = "none"
      BY <2>4 DEF Judge!AsResult, Judge!Result
    <3>2. draft.advice \in Judge!Advice
      BY <2>1, DraftsHaveItems
    <3>3. JudgeShows'
      BY <2>1, <2>2, <2>3, <2>4, <3>1
         DEF JudgeShows, Judge!ShownIsChecked, Judge!AdviceIsReviewed, Judge!FailureIsNamed
    <3>4. JudgeTyped'
      BY <1>0, <2>3, <2>4, <3>1, <3>2 DEF JudgeTyped, Judge!TypeOK
    <3>5. JudgeInOrder'
      BY <1>0, <2>4 DEF JudgeInOrder
    <3>. QED BY <3>3, <3>4, <3>5 DEF JudgeInv
  <2>5. CASE /\ refused # {} /\ attempt < MaxRepairs /\ rejected' = refused /\ pc' = "repair"
             /\ UNCHANGED <<attempt, draft, cache, result>>
    <3>1. refused \subseteq DOMAIN draft.items /\ DOMAIN draft.items \subseteq 1..MaxItems
      <4>1. MaxItems \in Nat
        BY AnswersAssumption
      <4>. QED BY <2>1, <4>1, DraftsHaveItems DEF refused
    <3>2. JudgeTyped'
      BY <1>0, <2>1, <2>3, <2>5, <3>1 DEF JudgeTyped, Judge!TypeOK
    <3>3. JudgeInOrder'
      BY <1>0, <2>1, <2>5 DEF JudgeInOrder
    <3>. QED BY <2>1, <2>5, <3>2, <3>3, JudgeMoved
  <2>6. CASE /\ result' = Judge!Limited(refused) /\ pc' = "done"
             /\ UNCHANGED <<attempt, draft, cache, rejected>>
    <3>1. /\ result'.status = "partial" /\ result'.advice = "insufficient_evidence"
          /\ result'.code = "none"
          /\ \A i \in DOMAIN result'.items :
               \/ result'.items[i] = Judge!Default
               \/ \E k \in DOMAIN draft.items \ refused : result'.items[i] = draft.items[k]
      BY <2>1, <2>6, LimitedShows
    <3>2. JudgeShows'
      <4>1. \A i \in DOMAIN result'.items :
               \/ result'.items[i] = Judge!Default
               \/ \E c \in cache : c[2] = result'.items[i] /\ c[3]
        BY <2>2, <3>1
      <4>. QED BY <2>6, <3>1, <4>1
         DEF JudgeShows, Judge!ShownIsChecked, Judge!AdviceIsReviewed, Judge!FailureIsNamed
    <3>3. result'.advice \in Judge!Advice
      BY <3>1 DEF Judge!Advice
    <3>4. JudgeTyped'
      BY <1>0, <2>3, <2>6, <3>3 DEF JudgeTyped, Judge!TypeOK
    <3>5. JudgeInOrder'
      BY <1>0, <2>6 DEF JudgeInOrder
    <3>. QED BY <3>2, <3>4, <3>5 DEF JudgeInv
  <2>7. Judge!Accepts(Judge!Limited(refused))
    BY <2>1, LimitedShows
  <2>. QED BY <1>4, <2>4, <2>5, <2>6, <2>7 DEF Judge!Decide, refused
<1>5. CASE Judge!Repaired
  <2>1. /\ pc = "repair" /\ attempt' = attempt + 1 /\ pc' = "generate"
        /\ UNCHANGED <<draft, cache, rejected, result, history>>
    BY <1>5 DEF Judge!Repaired
  <2>2. JudgeTyped'
    BY <1>0, <2>1 DEF JudgeTyped, Judge!TypeOK
  <2>3. JudgeInOrder'
    BY <1>0, <2>1 DEF JudgeInOrder
  <2>. QED BY <2>1, <2>2, <2>3, JudgeMoved
<1>6. CASE Judge!Expire
  BY <1>6, JudgeFailed DEF Judge!Expire
<1>7. ASSUME NEW i \in 1..MaxItems, Judge!Check(i) PROVE JudgeInv'
  <2>1. pc = "check"
    BY <1>7 DEF Judge!Check
  <2>2. CASE Judge!ProviderFails
    BY <2>2, JudgeFailed DEF Judge!ProviderFails
  <2>3. ASSUME NEW a \in BOOLEAN,
               cache' = cache \union {<<Judge!Key(i, draft.items[i]), draft.items[i], a>>},
               UNCHANGED <<pc, attempt, draft, rejected, result, history>>
        PROVE  JudgeInv'
    <3>1. JudgeTyped'
      BY <1>0, <2>3 DEF JudgeTyped, Judge!TypeOK
    <3>2. JudgeInOrder'
      BY <1>0, <2>3 DEF JudgeInOrder, Judge!Key
    <3>. QED BY <2>1, <2>3, <3>1, <3>2, JudgeMoved
  <2>. QED BY <1>7, <2>2, <2>3 DEF Judge!Check
<1>8. ASSUME NEW i \in 1..MaxItems, Judge!Repair(i) PROVE JudgeInv'
  <2>1. pc = "repair" /\ i \in rejected /\ i \in DOMAIN draft.items /\ draft \in Judge!Drafts
    BY <1>0, <1>8 DEF Judge!Repair, JudgeTyped
  <2>2. CASE Judge!ProviderFails
    BY <2>2, JudgeFailed DEF Judge!ProviderFails
  <2>3. ASSUME NEW text \in Texts, draft' = [draft EXCEPT !.items[i].text = text],
               rejected' = rejected \ {i}, UNCHANGED <<pc, attempt, cache, result, history>>
        PROVE  JudgeInv'
    <3>1. draft' \in Judge!Drafts /\ DOMAIN draft'.items = DOMAIN draft.items
      <4>1. PICK n \in 1..MaxItems : draft.items \in [1..n -> Judge!Items]
        BY <2>1 DEF Judge!Drafts
      <4>2. [draft.items EXCEPT ![i].text = text] \in [1..n -> Judge!Items]
        BY <2>1, <4>1 DEF Judge!Items
      <4>3. draft \in [items : UNION {[1..k -> Judge!Items] : k \in 1..MaxItems},
                       advice : Judge!Advice, well : BOOLEAN]
        BY <2>1 DEF Judge!Drafts
      <4>4. draft' = [draft EXCEPT !.items = [draft.items EXCEPT ![i].text = text]]
        BY <2>3
      <4>5. [draft.items EXCEPT ![i].text = text] \in UNION {[1..k -> Judge!Items] : k \in 1..MaxItems}
        BY <4>2
      <4>6. draft' \in Judge!Drafts
        BY <4>3, <4>4, <4>5 DEF Judge!Drafts
      <4>. QED BY <4>1, <4>2, <4>3, <4>4, <4>6
    <3>2. JudgeTyped'
      BY <1>0, <2>1, <2>3, <3>1 DEF JudgeTyped, Judge!TypeOK
    <3>3. JudgeInOrder'
      BY <1>0, <2>1, <2>3 DEF JudgeInOrder
    <3>. QED BY <2>1, <2>3, <3>2, <3>3, JudgeMoved
  <2>. QED BY <1>8, <2>2, <2>3 DEF Judge!Repair
<1>. QED BY <1>1, <1>2, <1>3, <1>4, <1>5, <1>6, <1>7, <1>8 DEF Judge!Next

(* So what is shown was checked and reviewed.                              *)
LEMMA JudgeIsSound ==
  ASSUME JudgeInv
  PROVE  Judge!TypeOK /\ Judge!ShownIsChecked /\ Judge!AdviceIsReviewed /\ Judge!FailureIsNamed
BY DEF JudgeInv, JudgeTyped, JudgeShows

(* The adapter's gates are no wider than the contract's, on any evidence   *)
(* that the contracts of Metric and Sandbox let through.                   *)
GatesInv == ev \in Judge!AllEvidence

LEMMA GatesAgreeAlways ==
  ASSUME GatesInv PROVE Gates!GatesAgree
<1>1. /\ ev.metric \in Judge!Metrics \cup {Judge!NoMetric}
      /\ ev.sandbox \in Judge!Sandboxes \cup {Judge!NoSandbox}
  BY DEF GatesInv, Judge!AllEvidence
<1>2. ev.metric # Gates!NoMetric => ev.metric.passed \in Nat /\ ev.metric.failed \in Nat /\ ev.metric.unscored \in Nat
  BY <1>1 DEF Judge!Metrics, Judge!NoMetric, Gates!NoMetric
<1>3. ~Gates!Incomplete => ~Gates!ContractIncomplete
  BY <1>2 DEF Gates!Incomplete, Gates!ContractIncomplete
<1>4. ASSUME Gates!Eligible
      PROVE  Gates!Accepts(Gates!Result("completed", "consider_limited_pilot", <<Gates!Default>>, "none"))
  <2>. DEFINE res == Gates!Result("completed", "consider_limited_pilot", <<Gates!Default>>, "none")
  <2>1. /\ res.status = "completed" /\ res.code = "none" /\ res.advice = "consider_limited_pilot"
        /\ res.items = <<Gates!Default>>
    BY DEF Gates!Result
  <2>2. \E i \in DOMAIN res.items : res.items[i].field = "next_steps"
    BY <2>1 DEF Gates!Default
  <2>. HIDE DEF res
  <2>3. /\ ~Gates!ContractIncomplete /\ ev.metric.failed = 0 /\ ev.metric.passed # 0
        /\ ev.metric.method # "authored_fixture"
        /\ "fixture" \notin {ev.sandbox.mode, ev.mode}
    BY <1>2, <1>3, <1>4 DEF Gates!Eligible, Gates!Incomplete
  <2>4. Gates!Accepts(res)
    BY <2>1, <2>2, <2>3 DEF Gates!Accepts
  <2>. QED BY <2>4 DEF res
<1>. QED BY <1>3, <1>4 DEF Gates!GatesAgree

-----------------------------------------------------------------------------
(* The request's workflow: the evidence that is kept is the request's own, *)
(* there is one status for every stage that is over, and a cancelled       *)
(* request only unwinds.                                                   *)
Judged(evidence, stage) ==
  \/ stage = "failed" /\ evidence = Workflow!NoEvidence
  \/ /\ evidence \in Workflow!Results /\ evidence.mine /\ evidence.sound
     /\ evidence.mode = body.mode /\ stage = evidence.status
WorkflowTyped ==
  /\ Workflow!TypeOK /\ body \in [mode : {"fixture", "live"}, configured : BOOLEAN]
  /\ cancelled \in Nat
WorkflowStages ==
  /\ pc = "begin" => Len(stages) = 0
  /\ pc \in {"sandbox", "expiring", "unwinding"} => Len(stages) = 2
  /\ pc = "judge" => Len(stages) = 3
  /\ pc = "build" => Len(stages) = 4
  /\ Len(stages) >= 2 => stages[1] = "completed" /\ stages[2] = metric
  /\ Len(stages) <= 2 => sandbox = Workflow!NoEvidence
  /\ Len(stages) <= 3 => judge = Workflow!NoEvidence
  /\ Len(stages) >= 3 => Judged(sandbox, stages[3])
  /\ Len(stages) >= 4 => Judged(judge, stages[4])
WorkflowInOrder ==
  /\ pc # "done" => response = "none"
  /\ cancelled > 0 => pc \in {"unwinding", "raised"}
  /\ pc = "done" => response \in {"503", "completed", "partial"}
  /\ pc = "done" /\ response # "503" => Len(stages) = 4
  /\ response = "completed" => \A i \in 1..4 : stages[i] = "completed"
WorkflowInv == WorkflowTyped /\ WorkflowStages /\ WorkflowInOrder

(* A request begins so.                                                    *)
LEMMA WorkflowBegins ==
  ASSUME Workflow!Init PROVE WorkflowInv
BY EmptyList DEF Workflow!Init, WorkflowInv, WorkflowTyped, WorkflowStages, WorkflowInOrder, Workflow!TypeOK

(* One more status at the end of the stages.                               *)
LEMMA AppendedStage ==
  ASSUME NEW T, NEW s \in Seq(T), NEW e \in T
  PROVE  /\ Append(s, e) \in Seq(T) /\ Len(Append(s, e)) = Len(s) + 1 /\ Append(s, e)[Len(s) + 1] = e
         /\ Len(s) \in Nat /\ (\A i \in 1..Len(s) : Append(s, e)[i] = s[i])
OBVIOUS

(* The Sandbox stage is over: its evidence, or that it failed.             *)
LEMMA SandboxIsOver ==
  ASSUME WorkflowInv, pc \in {"sandbox", "expiring"}, pc' = "judge",
         UNCHANGED <<judge, cancelled, response, body, metric>>,
         NEW e \in Workflow!Results \cup {Workflow!NoEvidence},
         NEW status \in Workflow!Statuses, Judged(e, status),
         sandbox' = e, stages' = Append(stages, status)
  PROVE  WorkflowInv'
<1>0. WorkflowTyped /\ WorkflowStages /\ WorkflowInOrder
  BY DEF WorkflowInv
<1>1. /\ Len(stages) = 2 /\ stages[1] = "completed" /\ stages[2] = metric /\ cancelled = 0
      /\ judge = Workflow!NoEvidence /\ response = "none"
  BY <1>0 DEF WorkflowStages, WorkflowInOrder, WorkflowTyped
<1>2. stages \in Seq(Workflow!Statuses \union {"needs_clarification"})
  BY <1>0 DEF WorkflowTyped, Workflow!TypeOK
<1>3. /\ stages' \in Seq(Workflow!Statuses \union {"needs_clarification"}) /\ Len(stages') = 3
      /\ stages'[3] = status /\ stages'[1] = "completed" /\ stages'[2] = metric
  <2>. DEFINE T == Workflow!Statuses \union {"needs_clarification"}
  <2>1. stages \in Seq(T) /\ status \in T
    BY <1>2
  <2>. HIDE DEF T
  <2>2. /\ Append(stages, status) \in Seq(T) /\ Len(Append(stages, status)) = Len(stages) + 1
        /\ Append(stages, status)[Len(stages) + 1] = status
        /\ \A i \in 1..Len(stages) : Append(stages, status)[i] = stages[i]
    BY <2>1, AppendedStage
  <2>. QED BY <1>1, <2>2 DEF T
<1>4. WorkflowTyped'
  BY <1>0, <1>3 DEF WorkflowTyped, Workflow!TypeOK
<1>5. Judged(e, status)'
  BY DEF Judged
<1>6. WorkflowStages'
  BY <1>1, <1>3, <1>5 DEF WorkflowStages, Judged
<1>7. WorkflowInOrder'
  BY <1>1 DEF WorkflowInOrder
<1>. QED BY <1>4, <1>6, <1>7 DEF WorkflowInv

(* So is the Judge's.                                                      *)
LEMMA JudgeIsOver ==
  ASSUME WorkflowInv, pc = "judge", pc' = "build",
         UNCHANGED <<sandbox, cancelled, response, body, metric>>,
         NEW e \in Workflow!Results \cup {Workflow!NoEvidence},
         NEW status \in Workflow!Statuses, Judged(e, status),
         judge' = e, stages' = Append(stages, status)
  PROVE  WorkflowInv'
<1>0. WorkflowTyped /\ WorkflowStages /\ WorkflowInOrder
  BY DEF WorkflowInv
<1>1. /\ Len(stages) = 3 /\ stages[1] = "completed" /\ stages[2] = metric /\ cancelled = 0
      /\ Judged(sandbox, stages[3]) /\ response = "none"
  BY <1>0 DEF WorkflowStages, WorkflowInOrder, WorkflowTyped
<1>2. stages \in Seq(Workflow!Statuses \union {"needs_clarification"})
  BY <1>0 DEF WorkflowTyped, Workflow!TypeOK
<1>3. /\ stages' \in Seq(Workflow!Statuses \union {"needs_clarification"}) /\ Len(stages') = 4
      /\ stages'[4] = status /\ stages'[1] = "completed" /\ stages'[2] = metric
      /\ stages'[3] = stages[3]
  <2>. DEFINE T == Workflow!Statuses \union {"needs_clarification"}
  <2>1. stages \in Seq(T) /\ status \in T
    BY <1>2
  <2>. HIDE DEF T
  <2>2. /\ Append(stages, status) \in Seq(T) /\ Len(Append(stages, status)) = Len(stages) + 1
        /\ Append(stages, status)[Len(stages) + 1] = status
        /\ \A i \in 1..Len(stages) : Append(stages, status)[i] = stages[i]
    BY <2>1, AppendedStage
  <2>. QED BY <1>1, <2>2 DEF T
<1>4. WorkflowTyped'
  BY <1>0, <1>3 DEF WorkflowTyped, Workflow!TypeOK
<1>5. Judged(e, status)' /\ Judged(sandbox, stages[3])'
  BY <1>1, <1>3 DEF Judged
<1>6. WorkflowStages'
  BY <1>1, <1>3, <1>5 DEF WorkflowStages, Judged
<1>7. WorkflowInOrder'
  BY <1>1 DEF WorkflowInOrder
<1>. QED BY <1>4, <1>6, <1>7 DEF WorkflowInv

(* What a stage keeps of a result is the request's own and sound.          *)
LEMMA KeptIsJudged ==
  ASSUME WorkflowInv, pc \in {"sandbox", "expiring"}, pc' = "judge",
         UNCHANGED <<judge, cancelled, response, body, metric>>,
         NEW raw \in Workflow!Results, Workflow!Keeps(raw)
  PROVE  WorkflowInv'
<1>1. WorkflowTyped /\ WorkflowStages /\ WorkflowInOrder
  BY DEF WorkflowInv
<1>2. sandbox = Workflow!NoEvidence
  BY <1>1 DEF WorkflowStages
<1>3. raw.status \in Workflow!Statuses /\ "failed" \in Workflow!Statuses
  BY DEF Workflow!Results, Workflow!Statuses
<1>4. CASE Workflow!ValidSandbox(raw) /\ sandbox' = raw /\ stages' = Append(stages, raw.status)
  <2>1. Judged(raw, raw.status)
    BY <1>4 DEF Judged, Workflow!ValidSandbox
  <2>. QED BY <1>3, <1>4, <2>1, SandboxIsOver
<1>5. CASE stages' = Append(stages, "failed") /\ sandbox' = sandbox
  <2>1. Judged(Workflow!NoEvidence, "failed")
    BY DEF Judged
  <2>. QED BY <1>2, <1>3, <1>5, <2>1, SandboxIsOver
<1>. QED BY <1>4, <1>5 DEF Workflow!Keeps

(* Whatever the services return, and whoever cancels, that stays.          *)
LEMMA WorkflowGoesOn ==
  ASSUME WorkflowInv, Workflow!Next
  PROVE  WorkflowInv'
<1>0. WorkflowTyped /\ WorkflowStages /\ WorkflowInOrder
  BY DEF WorkflowInv
<1>1. CASE Workflow!Unavailable
  <2>1. /\ pc = "begin" /\ response' = "503" /\ pc' = "done"
        /\ UNCHANGED <<sandbox, judge, stages, cancelled, body, metric>>
    BY <1>1 DEF Workflow!Unavailable, Workflow!Steps, Workflow!Still
  <2>2. WorkflowTyped' /\ WorkflowStages'
    BY <1>0, <2>1 DEF WorkflowTyped, WorkflowStages, Workflow!TypeOK, Judged
  <2>3. WorkflowInOrder'
    BY <1>0, <2>1 DEF WorkflowInOrder, WorkflowTyped
  <2>. QED BY <2>2, <2>3 DEF WorkflowInv
<1>2. CASE Workflow!RunMetric
  <2>1. PICK status \in {"completed", "partial", "needs_clarification"} :
          metric' = status /\ stages' = <<"completed", status>>
    BY <1>2 DEF Workflow!RunMetric
  <2>2. /\ pc = "begin" /\ pc' = "sandbox"
        /\ UNCHANGED <<body, sandbox, judge, cancelled, response>>
    BY <1>2 DEF Workflow!RunMetric, Workflow!Steps
  <2>3. /\ stages' \in Seq(Workflow!Statuses \union {"needs_clarification"}) /\ Len(stages') = 2
        /\ stages'[1] = "completed" /\ stages'[2] = metric'
    BY <2>1 DEF Workflow!Statuses
  <2>4. sandbox = Workflow!NoEvidence /\ judge = Workflow!NoEvidence
    BY <1>0, <2>2 DEF WorkflowStages
  <2>5. WorkflowTyped'
    BY <1>0, <2>2, <2>3 DEF WorkflowTyped, Workflow!TypeOK
  <2>6. WorkflowStages'
    BY <2>2, <2>3, <2>4 DEF WorkflowStages
  <2>7. WorkflowInOrder'
    BY <1>0, <2>2 DEF WorkflowInOrder
  <2>. QED BY <2>5, <2>6, <2>7 DEF WorkflowInv
<1>3. CASE Workflow!Build
  <2>1. /\ pc = "build" /\ pc' = "done" /\ UNCHANGED <<sandbox, judge, stages, cancelled, body, metric>>
        /\ response' = IF Workflow!Consistent(Workflow!Status) THEN Workflow!Status ELSE "500"
    BY <1>3 DEF Workflow!Build, Workflow!Steps, Workflow!Still
  <2>2. Len(stages) = 4 /\ Judged(sandbox, stages[3]) /\ Judged(judge, stages[4])
        /\ DOMAIN stages = 1..4
    BY <1>0, <2>1 DEF WorkflowStages, WorkflowTyped, Workflow!TypeOK
  <2>3. /\ Workflow!Status \in {"completed", "partial"}
        /\ Workflow!Status = "completed" => \A i \in 1..4 : stages[i] = "completed"
    BY <2>2 DEF Workflow!Status
  <2>4. Workflow!Consistent(Workflow!Status)
    <3>1. \A e \in {sandbox, judge} : e # Workflow!NoEvidence => e.mine /\ e.mode = body.mode
      BY <2>2 DEF Judged
    <3>2. Workflow!Status = "completed" => sandbox # Workflow!NoEvidence /\ judge # Workflow!NoEvidence
      <4>1. SUFFICES ASSUME stages[3] = "completed", stages[4] = "completed"
                     PROVE  sandbox # Workflow!NoEvidence /\ judge # Workflow!NoEvidence
        BY <2>3
      <4>2. Workflow!NoEvidence \notin Workflow!Results
        BY DEF Workflow!NoEvidence, Workflow!Results, Workflow!Statuses
      <4>. QED BY <2>2, <4>1, <4>2 DEF Judged
    <3>. QED BY <2>2, <2>3, <3>1, <3>2 DEF Workflow!Consistent
  <2>5. response' = Workflow!Status
    BY <2>1, <2>4
  <2>6. WorkflowTyped' /\ WorkflowStages'
    BY <1>0, <2>1, <2>3, <2>5 DEF WorkflowTyped, WorkflowStages, Workflow!TypeOK, Judged
  <2>7. WorkflowInOrder'
    <3>1. cancelled = 0
      BY <1>0, <2>1 DEF WorkflowInOrder, WorkflowTyped
    <3>. QED BY <2>1, <2>2, <2>3, <2>5, <3>1 DEF WorkflowInOrder
  <2>. QED BY <2>6, <2>7 DEF WorkflowInv
<1>4. CASE Workflow!SandboxReturns
  BY <1>4, KeptIsJudged DEF Workflow!SandboxReturns, Workflow!Steps, Workflow!Onward, Workflow!Still
<1>5. CASE Workflow!SandboxExpires
  <2>1. /\ pc = "sandbox" /\ pc' = "expiring"
        /\ UNCHANGED <<sandbox, judge, stages, cancelled, response, body, metric>>
    BY <1>5 DEF Workflow!SandboxExpires, Workflow!Steps, Workflow!Onward, Workflow!Still
  <2>2. WorkflowTyped' /\ WorkflowStages'
    BY <1>0, <2>1 DEF WorkflowTyped, WorkflowStages, Workflow!TypeOK, Judged
  <2>3. WorkflowInOrder'
    BY <1>0, <2>1 DEF WorkflowInOrder, WorkflowTyped
  <2>. QED BY <2>2, <2>3 DEF WorkflowInv
<1>6. CASE Workflow!SandboxRaises
  <2>1. /\ pc \in {"sandbox", "expiring"} /\ pc' = "judge" /\ stages' = Append(stages, "failed")
        /\ UNCHANGED <<sandbox, judge, cancelled, response, body, metric>>
    BY <1>6 DEF Workflow!SandboxRaises, Workflow!Steps, Workflow!Onward, Workflow!Still
  <2>2. sandbox = Workflow!NoEvidence /\ "failed" \in Workflow!Statuses
        /\ Judged(Workflow!NoEvidence, "failed")
    BY <1>0, <2>1 DEF WorkflowStages, Workflow!Statuses, Judged
  <2>. QED BY <2>1, <2>2, SandboxIsOver
<1>7. CASE Workflow!ExpiredReturns
  <2>1. Workflow!Cancelled(body.mode) \in Workflow!Results
    BY <1>0 DEF WorkflowTyped, Workflow!Cancelled, Workflow!Results, Workflow!Statuses
  <2>. QED BY <1>7, <2>1, KeptIsJudged
         DEF Workflow!ExpiredReturns, Workflow!Steps, Workflow!Onward, Workflow!Still
<1>8. CASE Workflow!Unwound
  <2>1. /\ pc = "unwinding" /\ pc' = "raised"
        /\ UNCHANGED <<sandbox, judge, stages, cancelled, response, body, metric>>
    BY <1>8 DEF Workflow!Unwound, Workflow!Steps, Workflow!Onward, Workflow!Still
  <2>2. WorkflowTyped' /\ WorkflowStages'
    BY <1>0, <2>1 DEF WorkflowTyped, WorkflowStages, Workflow!TypeOK, Judged
  <2>3. WorkflowInOrder'
    BY <1>0, <2>1 DEF WorkflowInOrder
  <2>. QED BY <2>2, <2>3 DEF WorkflowInv
<1>9. CASE Workflow!JudgeReturns
  <2>1. /\ pc = "judge" /\ pc' = "build"
        /\ UNCHANGED <<sandbox, cancelled, response, body, metric>>
    BY <1>9 DEF Workflow!JudgeReturns, Workflow!Steps, Workflow!Still
  <2>2. PICK raw \in Workflow!Results :
          IF Workflow!ValidJudge(raw)
            THEN judge' = raw /\ stages' = Append(stages, raw.status)
            ELSE stages' = Append(stages, "failed") /\ judge' = judge
    BY <1>9 DEF Workflow!JudgeReturns
  <2>3. raw.status \in Workflow!Statuses /\ "failed" \in Workflow!Statuses
    BY DEF Workflow!Results, Workflow!Statuses
  <2>4. judge = Workflow!NoEvidence
    <3>1. Len(stages) = 3 /\ (Len(stages) <= 3 => judge = Workflow!NoEvidence)
      BY <1>0, <2>1 DEF WorkflowStages
    <3>. QED BY <3>1
  <2>5. CASE Workflow!ValidJudge(raw) /\ judge' = raw /\ stages' = Append(stages, raw.status)
    <3>1. Judged(raw, raw.status)
      BY <2>5 DEF Judged, Workflow!ValidJudge
    <3>. QED BY <2>1, <2>3, <2>5, <3>1, JudgeIsOver
  <2>6. CASE judge' = judge /\ stages' = Append(stages, "failed")
    <3>1. Judged(Workflow!NoEvidence, "failed")
      BY DEF Judged
    <3>. QED BY <2>1, <2>3, <2>4, <2>6, <3>1, JudgeIsOver
  <2>. QED BY <2>2, <2>5, <2>6
<1>10. CASE Workflow!JudgeFails
  <2>1. /\ pc = "judge" /\ pc' = "build" /\ stages' = Append(stages, "failed")
        /\ UNCHANGED <<sandbox, judge, cancelled, response, body, metric>>
    BY <1>10 DEF Workflow!JudgeFails, Workflow!Steps, Workflow!Still
  <2>2. judge = Workflow!NoEvidence
    <3>1. Len(stages) = 3 /\ (Len(stages) <= 3 => judge = Workflow!NoEvidence)
      BY <1>0, <2>1 DEF WorkflowStages
    <3>. QED BY <3>1
  <2>3. "failed" \in Workflow!Statuses /\ Judged(Workflow!NoEvidence, "failed")
    BY DEF Workflow!Statuses, Judged
  <2>. QED BY <2>1, <2>2, <2>3, JudgeIsOver
<1>11. CASE Workflow!Cancel
  <2>1. /\ pc \in {"sandbox", "expiring", "judge"} /\ cancelled' = cancelled + 1
        /\ pc' = IF pc = "judge" THEN "raised" ELSE "unwinding"
        /\ UNCHANGED <<sandbox, judge, stages, response, body, metric>>
    BY <1>11 DEF Workflow!Cancel, Workflow!Steps, Workflow!Still
  <2>2. WorkflowTyped'
    BY <1>0, <2>1 DEF WorkflowTyped, Workflow!TypeOK
  <2>3. WorkflowStages'
    BY <1>0, <2>1 DEF WorkflowStages, Judged
  <2>4. WorkflowInOrder'
    BY <1>0, <2>1 DEF WorkflowInOrder
  <2>. QED BY <2>2, <2>3, <2>4 DEF WorkflowInv
<1>. QED
  BY <1>1, <1>2, <1>3, <1>4, <1>5, <1>6, <1>7, <1>8, <1>9, <1>10, <1>11
     DEF Workflow!Next, Workflow!Request, Workflow!Ends

(* So what is called completed is.                                         *)
LEMMA WorkflowIsSoundIn ==
  ASSUME WorkflowInv
  PROVE  Workflow!TypeOK /\ Workflow!CompletedIsEvidence /\ Workflow!EveryStageIsReported
<1>0. WorkflowTyped /\ WorkflowStages /\ WorkflowInOrder
  BY DEF WorkflowInv
<1>1. ASSUME response = "completed"
      PROVE  /\ metric = "completed"
             /\ \A e \in {sandbox, judge} :
                  e.status = "completed" /\ e.mine /\ e.sound /\ e.mode = body.mode
  <2>1. Len(stages) = 4 /\ \A i \in 1..4 : stages[i] = "completed"
    BY <1>0, <1>1 DEF WorkflowInOrder
  <2>2. metric = "completed" /\ Judged(sandbox, "completed") /\ Judged(judge, "completed")
    BY <1>0, <2>1 DEF WorkflowStages
  <2>. QED BY <2>2 DEF Judged
<1>2. Workflow!CompletedIsEvidence
  BY <1>1 DEF Workflow!CompletedIsEvidence
<1>3. Workflow!EveryStageIsReported
  BY <1>0 DEF WorkflowInOrder, Workflow!EveryStageIsReported
<1>. QED BY <1>0, <1>2, <1>3 DEF WorkflowTyped

(* A cancelled request goes no further.                                    *)
LEMMA CancelledOnlyUnwinds ==
  ASSUME WorkflowInv, Workflow!Next
  PROVE  Workflow!GoesNoFurther
<1>1. SUFFICES ASSUME cancelled > 0
               PROVE  UNCHANGED <<stages, judge, response>> /\ pc' \in {"unwinding", "raised"}
  BY DEF Workflow!GoesNoFurther
<1>2. pc \in {"unwinding", "raised"}
  BY <1>1 DEF WorkflowInv, WorkflowInOrder
<1>3. Workflow!Unwound
  BY <1>2 DEF Workflow!Next, Workflow!Request, Workflow!Ends, Workflow!Unavailable, Workflow!RunMetric,
        Workflow!Build, Workflow!SandboxReturns, Workflow!SandboxExpires, Workflow!SandboxRaises,
        Workflow!ExpiredReturns, Workflow!JudgeReturns, Workflow!JudgeFails, Workflow!Cancel
<1>. QED BY <1>3 DEF Workflow!Unwound, Workflow!Steps, Workflow!Onward

-----------------------------------------------------------------------------
(* What the Sandbox makes of a capture.                                    *)

(* Sorted puts records of different identifiers in the order of a round.   *)
LEMMA BeforeOrders ==
  ASSUME NEW S \in SUBSET NativeRows, \A r, s \in S : r.id = s.id => r = s
  PROVE  Orders({p \in S \X S : Capture!Before(p[1], p[2])}, S)
<1>. DEFINE R == {p \in S \X S : Capture!Before(p[1], p[2])}
            rank(r) == Capture!KindRank(r.id[1])
<1>1. \A r \in S : /\ r.step \in Nat /\ r.id[2] \in Nat /\ r.id[1] \in {"post", "comment"}
                   /\ r.id = <<r.id[1], r.id[2]>>
  BY AnswersAssumption
<1>2. \A r \in S : rank(r) \in {0, 1} /\ (rank(r) = 1 <=> r.id[1] = "post")
  BY <1>1 DEF Capture!KindRank
<1>3. \A r, s \in S : <<r, s>> \in R <=>
        \/ r.step < s.step
        \/ r.step = s.step /\ rank(r) < rank(s)
        \/ r.step = s.step /\ rank(r) = rank(s) /\ r.id[2] < s.id[2]
  <2>. SUFFICES ASSUME NEW r \in S, NEW s \in S
                PROVE <<r, s>> \in R <=>
                        \/ r.step < s.step
                        \/ r.step = s.step /\ rank(r) < rank(s)
                        \/ r.step = s.step /\ rank(r) = rank(s) /\ r.id[2] < s.id[2]
    OBVIOUS
  <2>1. <<r, s>> \in R <=> Capture!Before(r, s)
    OBVIOUS
  <2>2. rank(r) = rank(s) <=> r.id[1] = s.id[1]
    BY <1>1, <1>2
  <2>. HIDE DEF R
  <2>. QED BY <2>1, <2>2 DEF Capture!Before
<1>4. \A r, s \in S : r # s => r.step # s.step \/ rank(r) # rank(s) \/ r.id[2] # s.id[2]
  <2>. SUFFICES ASSUME NEW r \in S, NEW s \in S, r.step = s.step, rank(r) = rank(s), r.id[2] = s.id[2]
                PROVE  r = s
    OBVIOUS
  <2>1. r.id[1] = s.id[1]
    BY <1>1, <1>2
  <2>2. r.id = s.id
    BY <1>1, <2>1
  <2>. QED BY <2>2
<1>. HIDE DEF R, rank
<1>5. \A r \in S : rank(r) \in Nat
  BY <1>2
<1>6. \A x, y \in S : x # y => <<x, y>> \in R \/ <<y, x>> \in R
  BY <1>1, <1>3, <1>4, <1>5
<1>7. \A x, y \in S : <<x, y>> \in R => <<y, x>> \notin R
  BY <1>1, <1>3, <1>5
<1>8. \A x, y, z \in S : <<x, y>> \in R /\ <<y, z>> \in R => <<x, z>> \in R
  BY <1>1, <1>3, <1>5
<1>9. Orders(R, S)
  BY <1>6, <1>7, <1>8 DEF Orders
<1>. QED BY <1>9 DEF R

(* Sorted is such a list: every record of the round, once.                 *)
LEMMA SortedLists ==
  ASSUME NEW S \in SUBSET NativeRows, IsFiniteSet(S), \A r, s \in S : r.id = s.id => r = s
  PROVE  LET f == Capture!Sorted(S)
         IN /\ Cardinality(S) \in Nat /\ f \in [1..Cardinality(S) -> S]
            /\ \A i, j \in 1..Cardinality(S) : f[i] = f[j] => i = j
            /\ \A x \in S : \E i \in 1..Cardinality(S) : f[i] = x
<1>. DEFINE R == {p \in S \X S : Capture!Before(p[1], p[2])}
            f == Capture!Sorted(S)
<1>1. \A x, y \in S : <<x, y>> \in R <=> Capture!Before(x, y)
  OBVIOUS
<1>2. Orders(R, S)
  BY BeforeOrders
<1>. HIDE DEF R
<1>3. PICK g : Lists(g, R, S)
  BY <1>2, OrderIsListed
<1>4. f \in [1..Cardinality(S) -> S] /\ \A i, j \in DOMAIN f : i < j => Capture!Before(f[i], f[j])
  <2>1. g \in [1..Cardinality(S) -> S] /\ \A i, j \in DOMAIN g : i < j => Capture!Before(g[i], g[j])
    <3>1. g \in [1..Cardinality(S) -> S] /\ DOMAIN g = 1..Cardinality(S)
      BY <1>3 DEF Lists
    <3>2. \A i \in DOMAIN g : g[i] \in S
      BY <3>1
    <3>. QED BY <1>1, <1>3, <3>1, <3>2 DEF Lists
  <2>2. \E h \in [1..Cardinality(S) -> S] : \A i, j \in DOMAIN h : i < j => Capture!Before(h[i], h[j])
    BY <2>1
  <2>3. f = CHOOSE h \in [1..Cardinality(S) -> S] :
              \A i, j \in DOMAIN h : i < j => Capture!Before(h[i], h[j])
    BY SameCardinality DEF Capture!Sorted
  <2>. HIDE DEF f
  <2>. QED BY Zenon, <2>2, <2>3
<1>. HIDE DEF f
<1>5. Lists(f, R, S)
  <2>1. \A i \in DOMAIN f : f[i] \in S
    BY <1>4
  <2>. QED BY <1>1, <1>4, <2>1 DEF Lists
<1>6. /\ Cardinality(S) \in Nat
      /\ \A i, j \in 1..Cardinality(S) : f[i] = f[j] => i = j
      /\ \A x \in S : \E i \in 1..Cardinality(S) : f[i] = x
  BY <1>2, <1>5, ListsAll
<1>. QED BY <1>4, <1>6 DEF f

(* A sequence without the members of a set: what is left, as it was.       *)
Without(s, C) ==
  LET rest == Capture!Ascending({i \in DOMAIN s : s[i] \notin C})
  IN  [k \in DOMAIN rest |-> s[rest[k]]]

LEMMA ListWithout ==
  ASSUME NEW T, NEW s \in Seq(T), NEW C
  PROVE  /\ Without(s, C) \in Seq(T) /\ Capture!ToSet(Without(s, C)) = Capture!ToSet(s) \ C
         /\ Injective(s) => Injective(Without(s, C))
<1>. DEFINE I == {i \in DOMAIN s : s[i] \notin C}
            rest == Capture!Ascending(I)
            t == [k \in DOMAIN rest |-> s[rest[k]]]
            n == Cardinality(I)
<1>1. Len(s) \in Nat /\ DOMAIN s = 1..Len(s) /\ \A i \in DOMAIN s : s[i] \in T
  OBVIOUS
<1>2. I \in SUBSET Nat /\ IsFiniteSet(I)
  <2>1. IsFiniteSet(1..Len(s)) /\ I \subseteq 1..Len(s)
    BY <1>1, FS_Interval
  <2>2. IsFiniteSet(I)
    BY ONLY <2>1, FS_Subset
  <2>. QED BY <1>1, <2>1, <2>2
<1>3. /\ n \in Nat /\ rest \in [1..n -> I]
      /\ \A i, j \in 1..n : i < j <=> rest[i] < rest[j]
      /\ \A x \in I : \E i \in 1..n : rest[i] = x
  <2>. HIDE DEF I
  <2>. QED BY <1>2, SameOrder, AscendingLists
<1>. HIDE DEF rest, n
<1>4. DOMAIN t = 1..n /\ t \in [1..n -> T] /\ \A k \in 1..n : t[k] = s[rest[k]]
  BY <1>1, <1>3
<1>5. t \in Seq(T)
  BY <1>3, <1>4, SeqDef
<1>6. Capture!ToSet(t) = Capture!ToSet(s) \ C
  <2>1. \A k \in 1..n : s[rest[k]] \in Capture!ToSet(s) \ C
    BY <1>1, <1>3 DEF Capture!ToSet
  <2>2. \A x \in Capture!ToSet(s) \ C : \E k \in 1..n : t[k] = x
    <3>. SUFFICES ASSUME NEW i \in DOMAIN s, s[i] \notin C PROVE \E k \in 1..n : t[k] = s[i]
      BY DEF Capture!ToSet
    <3>1. PICK k \in 1..n : rest[k] = i
      BY <1>3
    <3>. QED BY <1>4, <3>1
  <2>3. Capture!ToSet(t) = {t[k] : k \in 1..n}
    BY <1>4 DEF Capture!ToSet
  <2>. HIDE DEF t
  <2>. QED BY <1>4, <2>1, <2>2, <2>3
<1>7. ASSUME Injective(s) PROVE Injective(t)
  <2>. SUFFICES ASSUME NEW i \in 1..n, NEW j \in 1..n, t[i] = t[j] PROVE i = j
    BY <1>4 DEF Injective
  <2>1. s[rest[i]] = s[rest[j]] /\ rest[i] \in DOMAIN s /\ rest[j] \in DOMAIN s
    BY <1>3, <1>4
  <2>2. rest[i] = rest[j] /\ rest[i] \in Nat
    BY <1>1, <1>7, <2>1 DEF Injective
  <2>3. i \in Nat /\ j \in Nat
    BY <1>3
  <2>. QED BY <1>3, <2>2, <2>3
<1>8. t \in Seq(T) /\ Capture!ToSet(t) = Capture!ToSet(s) \ C /\ (Injective(s) => Injective(t))
  BY <1>5, <1>6, <1>7
<1>9. Without(s, C) = t
  BY DEF Without, rest
<1>. HIDE DEF t
<1>. QED BY <1>8, <1>9

(* The chain of replies of a record among messages: the least set that     *)
(* holds what it replies to and what its members reply to.                 *)
Who(M, id) == {m \in M : m.id = id}
Trail(M, r) ==
  {m \in M : \A S \in SUBSET M :
     Who(M, r.parent) \subseteq S /\ (\A s \in S : Who(M, s.parent) \subseteq S) => m \in S}

(* It is that set: closed, and part of every closed one.                   *)
LEMMA TrailIsLeast ==
  ASSUME NEW M, NEW r
  PROVE  /\ Trail(M, r) \subseteq M /\ Who(M, r.parent) \subseteq Trail(M, r)
         /\ \A s \in Trail(M, r) : Who(M, s.parent) \subseteq Trail(M, r)
         /\ \A S \in SUBSET M :
              Who(M, r.parent) \subseteq S /\ (\A s \in S : Who(M, s.parent) \subseteq S) =>
                Trail(M, r) \subseteq S
<1>1. Trail(M, r) \subseteq M
  BY DEF Trail
<1>2. Who(M, r.parent) \subseteq Trail(M, r)
  BY DEF Trail, Who
<1>3. \A S \in SUBSET M :
        Who(M, r.parent) \subseteq S /\ (\A s \in S : Who(M, s.parent) \subseteq S) =>
          Trail(M, r) \subseteq S
  BY DEF Trail
<1>4. ASSUME NEW s \in Trail(M, r), NEW m \in Who(M, s.parent)
      PROVE  m \in Trail(M, r)
  <2>1. m \in M
    BY <1>4 DEF Who
  <2>2. ASSUME NEW S \in SUBSET M, Who(M, r.parent) \subseteq S, \A x \in S : Who(M, x.parent) \subseteq S
        PROVE  m \in S
    <3>1. s \in S
      BY <1>3, <1>4, <2>2
    <3>. QED BY <1>4, <2>2, <3>1
  <2>. QED BY <2>1, <2>2 DEF Trail
<1>. QED BY <1>1, <1>2, <1>3, <1>4

(* The trail of a member of a trail is part of it.                         *)
LEMMA TrailOfTrail ==
  ASSUME NEW M, NEW r, NEW s \in Trail(M, r)
  PROVE  Trail(M, s) \subseteq Trail(M, r)
<1>1. Trail(M, r) \in SUBSET M /\ Who(M, s.parent) \subseteq Trail(M, r)
      /\ \A x \in Trail(M, r) : Who(M, x.parent) \subseteq Trail(M, r)
  BY TrailIsLeast
<1>2. \A S \in SUBSET M :
        Who(M, s.parent) \subseteq S /\ (\A x \in S : Who(M, x.parent) \subseteq S) =>
          Trail(M, s) \subseteq S
  BY TrailIsLeast
<1>. QED BY <1>1, <1>2

(* Where everybody waits for one of those who wait, following the replies  *)
(* leads into a circle: of the trails met on the way, the smallest is that *)
(* of a record on it.                                                      *)
LEMMA WaitingInACircle ==
  ASSUME NEW M, NEW P \in SUBSET M, IsFiniteSet(P),
         \A q \in P : Who(M, q.parent) # {} /\ Who(M, q.parent) \subseteq P,
         NEW r \in P
  PROVE  \E m \in {r} \cup Trail(M, r) : m \in Trail(M, m)
<1>1. ASSUME NEW q \in P PROVE Trail(M, q) \subseteq P
  BY <1>1, TrailIsLeast
<1>. DEFINE F == {Trail(M, m) : m \in {r} \cup Trail(M, r)}
<1>2. F \in SUBSET FiniteSubsetsOf(P) /\ F # {}
  <2>1. \A q \in P : Trail(M, q) \subseteq P /\ IsFiniteSet(Trail(M, q))
    BY <1>1, FS_Subset
  <2>2. {r} \cup Trail(M, r) \subseteq P
    BY <1>1
  <2>. QED BY <2>1, <2>2 DEF FiniteSubsetsOf
<1>3. PICK m \in {r} \cup Trail(M, r) :
        \A n \in {r} \cup Trail(M, r) : Trail(M, n) \subseteq Trail(M, m) => Trail(M, n) = Trail(M, m)
  <2>1. \E T \in F : \A U \in F : U \subseteq T => U = T
    <3>. HIDE DEF F
    <3>. QED BY <1>2, SmallestSet
  <2>. QED BY <2>1
<1>4. m \in P /\ Trail(M, m) \subseteq Trail(M, r)
  BY <1>1, TrailOfTrail
<1>5. PICK p : p \in Who(M, m.parent)
  BY <1>4
<1>6. p \in Trail(M, m)
  BY <1>5, TrailIsLeast
<1>7. p \in Trail(M, r) /\ Trail(M, p) \subseteq Trail(M, m)
  BY <1>4, <1>6, TrailOfTrail
<1>8. p \in Trail(M, p)
  BY <1>3, <1>6, <1>7
<1>. QED BY <1>7, <1>8

(* A capture: every speaker's words wait or are placed, once; a link is    *)
(* kept if its target is placed before, and given up only for a reason.    *)
Speakers   == {r \in seen : Capture!Speaks(r)}
Placements == [record : NativeRows, parent : {r.parent : r \in NativeRows} \cup {Capture!None}]
LinkHolds(M, list, said, i) ==
  LET r == list[i].record  p == list[i].parent
  IN /\ p # Capture!None => p = r.parent /\ \E j \in 1..(i - 1) : list[j].record.id = p
     /\ p = Capture!None /\ r.parent # Capture!None =>
          /\ "unresolved_reply" \in said
          /\ \/ Who(M, r.parent) = {}
             \/ "cyclic_replies" \in said
                  /\ \E m \in {r} \cup Trail(M, r) : m \in Trail(M, m)
CaptureTyped ==
  /\ seen \subseteq NativeRows /\ IsFiniteSet(seen) /\ delivered \in Seq(NativeRows) /\ at \in Nat \ {0}
  /\ pending \in Seq(NativeRows) /\ placed \in Seq(Placements)
  /\ pc \in {"parse", "order", "project", "done"}
CapturePartition ==
  /\ \A r, s \in seen : r.id = s.id => r = s
  /\ Capture!ToSet(pending) \cup Capture!Messages = Speakers
  /\ Capture!ToSet(pending) \cap Capture!Messages = {}
  /\ Injective(pending)
  /\ \A i, j \in DOMAIN placed : placed[i].record = placed[j].record => i = j
  /\ pc = "parse" => placed = <<>>
  /\ pc \in {"project", "done"} => pending = <<>>
CaptureShown ==
  /\ pc \in {"parse", "order"} => shown = <<>>
  /\ pc \in {"project", "done"} =>
       shown \in [DOMAIN placed -> {Capture!Waits, "original", "translated", "unavailable"}]
  /\ Capture!ShownIsEnglish
CaptureLinks == \A i \in DOMAIN placed : LinkHolds(Speakers, placed, notes, i)
CaptureInv == CaptureTyped /\ CapturePartition /\ CaptureShown /\ CaptureLinks

(* Before anything is placed or displayed.                                 *)
LEMMA NothingPlaced ==
  ASSUME placed = <<>>
  PROVE  /\ Capture!Messages = {} /\ CaptureLinks
         /\ \A i, j \in DOMAIN placed : placed[i].record = placed[j].record => i = j
BY DEF Capture!Messages, CaptureLinks

LEMMA NothingDisplayed ==
  ASSUME shown = <<>> PROVE Capture!ShownIsEnglish
BY DEF Capture!ShownIsEnglish

(* A capture begins so.                                                    *)
LEMMA CaptureBegins ==
  ASSUME Capture!Init PROVE CaptureInv
<1>1. delivered \in Seq(NativeRows)
  <2>1. MaxRows \in Nat
    BY AnswersAssumption
  <2>. QED BY <2>1, SeqDef DEF Capture!Init
<1>2. /\ at = 1 /\ seen = {} /\ pending = <<>> /\ placed = <<>> /\ shown = <<>> /\ pc = "parse"
  BY DEF Capture!Init
<1>3. CaptureTyped
  BY <1>1, <1>2, EmptyList, FS_EmptySet DEF CaptureTyped
<1>4. CapturePartition
  BY <1>2, EmptyList, NothingPlaced DEF CapturePartition, Speakers, Capture!ToSet
<1>5. CaptureShown
  BY <1>2, NothingDisplayed DEF CaptureShown
<1>6. CaptureLinks
  BY <1>2, NothingPlaced
<1>. QED BY <1>3, <1>4, <1>5, <1>6 DEF CaptureInv

(* What has been said stays said: links hold while notes are added.        *)
LEMMA LinksStay ==
  ASSUME CaptureLinks, UNCHANGED <<placed, seen>>, notes \subseteq notes'
  PROVE  CaptureLinks'
<1>1. Speakers' = Speakers
  BY DEF Speakers, Capture!Speaks, Capture!Known, Capture!Bare
<1>. SUFFICES ASSUME NEW i \in DOMAIN placed PROVE LinkHolds(Speakers, placed, notes', i)
  BY <1>1 DEF CaptureLinks
<1>2. LinkHolds(Speakers, placed, notes, i)
  BY DEF CaptureLinks
<1>. QED BY <1>2 DEF LinkHolds

(* Who speaks among the rows seen, when one more is seen.                  *)
LEMMA CaptureParses ==
  ASSUME CaptureInv, Capture!Parse
  PROVE  CaptureInv'
<1>0. CaptureTyped /\ CapturePartition /\ CaptureShown
  BY DEF CaptureInv
<1>. DEFINE next == delivered[at]
<1>1. /\ pc = "parse" /\ pc' = pc /\ UNCHANGED <<delivered, placed, shown>> /\ at' = at + 1
      /\ placed = <<>> /\ at <= Len(delivered)
  BY <1>0 DEF Capture!Parse, CapturePartition
<1>2. next \in NativeRows
  BY <1>0, <1>1 DEF CaptureTyped
<1>3. \/ UNCHANGED <<seen, pending>>
      \/ /\ \A r \in seen : r.id # next.id
         /\ seen' = seen \cup {next}
         /\ pending' = IF Capture!Speaks(next) THEN Append(pending, next) ELSE pending
  BY DEF Capture!Parse
<1>. HIDE DEF next
<1>4. CaptureShown'
  BY <1>0, <1>1, NothingDisplayed DEF CaptureShown, Capture!ShownIsEnglish
<1>5. CaptureLinks' /\ Capture!Messages = {} /\ Capture!Messages' = {}
  BY <1>1 DEF Capture!Messages, CaptureLinks
<1>6. CASE UNCHANGED <<seen, pending>>
  <2>1. CaptureTyped'
    BY <1>0, <1>1, <1>6 DEF CaptureTyped
  <2>2. Speakers' = Speakers
    BY <1>6 DEF Speakers, Capture!Speaks, Capture!Known, Capture!Bare
  <2>3. CapturePartition'
    BY <1>0, <1>1, <1>5, <1>6, <2>2 DEF CapturePartition, Capture!ToSet
  <2>. QED BY <1>4, <1>5, <2>1, <2>3 DEF CaptureInv
<1>7. CASE /\ \A r \in seen : r.id # next.id
           /\ seen' = seen \cup {next}
           /\ pending' = IF Capture!Speaks(next) THEN Append(pending, next) ELSE pending
  <2>1. IsFiniteSet(seen') /\ seen' \subseteq NativeRows
    BY <1>0, <1>2, <1>7, FS_AddElement DEF CaptureTyped
  <2>2. pending \in Seq(NativeRows) /\ Capture!ToSet(pending) = Speakers /\ Injective(pending)
    BY <1>0, <1>5 DEF CaptureTyped, CapturePartition
  <2>3. next \notin seen /\ next \notin Capture!ToSet(pending)
    <3>1. next \notin seen
      BY <1>7
    <3>. QED BY <2>2, <3>1 DEF Speakers
  <2>4. Speakers' = IF Capture!Speaks(next) THEN Speakers \cup {next} ELSE Speakers
    <3>1. Speakers' = {r \in seen' : Capture!Speaks(r)}
      BY DEF Speakers, Capture!Speaks, Capture!Known, Capture!Bare
    <3>2. {r \in seen \cup {next} : Capture!Speaks(r)}
            = IF Capture!Speaks(next) THEN Speakers \cup {next} ELSE Speakers
      BY DEF Speakers
    <3>. QED BY <1>7, <3>1, <3>2
  <2>5. pending' \in Seq(NativeRows) /\ Capture!ToSet(pending') = Speakers' /\ Injective(pending')
    <3>1. CASE ~Capture!Speaks(next)
      BY <1>7, <2>2, <2>4, <3>1
    <3>2. CASE Capture!Speaks(next)
      <4>1. /\ pending' = Append(pending, next) /\ pending' \in Seq(NativeRows)
            /\ Len(pending') = Len(pending) + 1 /\ Len(pending) \in Nat
            /\ DOMAIN pending = 1..Len(pending) /\ DOMAIN pending' = 1..(Len(pending) + 1)
            /\ pending'[Len(pending) + 1] = next
            /\ \A i \in 1..Len(pending) : pending'[i] = pending[i]
        BY <1>2, <1>7, <2>2, <3>2
      <4>2. Capture!ToSet(pending') = Capture!ToSet(pending) \cup {next}
        <5>1. \A i \in 1..(Len(pending) + 1) : i \in 1..Len(pending) \/ i = Len(pending) + 1
          BY <4>1
        <5>2. \A i \in 1..Len(pending) : i \in 1..(Len(pending) + 1)
          BY <4>1
        <5>3. Len(pending) + 1 \in 1..(Len(pending) + 1)
          BY <4>1
        <5>. QED BY <4>1, <5>1, <5>2, <5>3 DEF Capture!ToSet
      <4>3. \A i \in 1..Len(pending) : pending[i] # next
        BY <2>3, <4>1 DEF Capture!ToSet
      <4>4. Injective(pending')
        <5>. SUFFICES ASSUME NEW i \in 1..(Len(pending) + 1), NEW j \in 1..(Len(pending) + 1),
                             pending'[i] = pending'[j]
                      PROVE  i = j
          BY <4>1 DEF Injective
        <5>1. i \in 1..Len(pending) \/ i = Len(pending) + 1
          BY <4>1
        <5>2. j \in 1..Len(pending) \/ j = Len(pending) + 1
          BY <4>1
        <5>. QED BY <2>2, <4>1, <4>3, <5>1, <5>2 DEF Injective
      <4>. QED BY <2>2, <2>4, <3>2, <4>1, <4>2, <4>4
    <3>. QED BY <3>1, <3>2
  <2>6. CaptureTyped'
    BY <1>0, <1>1, <2>1, <2>5 DEF CaptureTyped
  <2>7. \A r, s \in seen' : r.id = s.id => r = s
    BY <1>0, <1>7 DEF CapturePartition
  <2>8. CapturePartition'
    BY <1>1, <1>5, <2>5, <2>7 DEF CapturePartition
  <2>. QED BY <1>4, <1>5, <2>6, <2>8 DEF CaptureInv
<1>. QED BY <1>3, <1>6, <1>7

(* The places of a round: those chosen leave the queue and are placed.     *)
LEMMA RoundPlaces ==
  ASSUME CaptureInv, Capture!Round
  PROVE  LET P == Capture!ToSet(pending)
             C == IF Capture!Eligible # {} THEN Capture!Eligible ELSE {Head(pending)}
             n == Len(placed)
         IN /\ C \subseteq P /\ pending' \in Seq(NativeRows) /\ Injective(pending')
            /\ Capture!ToSet(pending') = P \ C
            /\ placed' \in Seq(Placements) /\ n \in Nat /\ Len(placed') \in Nat /\ n <= Len(placed')
            /\ \A i \in 1..n : placed'[i] = placed[i]
            /\ \A i \in (n + 1)..Len(placed') :
                 /\ placed'[i].record \in C
                 /\ placed'[i].parent =
                      IF placed'[i].record.parent \in Capture!Emitted
                      THEN placed'[i].record.parent ELSE Capture!None
            /\ \A x \in C : \E i \in (n + 1)..Len(placed') : placed'[i].record = x
            /\ \A i, j \in (n + 1)..Len(placed') : placed'[i].record = placed'[j].record => i = j
<1>0. CaptureTyped /\ CapturePartition
  BY DEF CaptureInv
<1>. DEFINE P == Capture!ToSet(pending)
            C == IF Capture!Eligible # {} THEN Capture!Eligible ELSE {Head(pending)}
            n == Len(placed)
            linked(r) == IF r.parent \in Capture!Emitted THEN r.parent ELSE Capture!None
            turn == Capture!Sorted(C)
            rest == Capture!Ascending({i \in DOMAIN pending : pending[i] \notin C})
            link(r) == [record |-> r, parent |-> linked(r)]
            more == [k \in DOMAIN turn |-> link(turn[k])]
            c == Cardinality(C)
<1>1. /\ placed' = placed \o more /\ pending' = [k \in DOMAIN rest |-> pending[rest[k]]]
      /\ pending # <<>>
  BY DEF Capture!Round
<1>2. C \subseteq P
  <2>1. Head(pending) \in P
    <3>1. pending \in Seq(NativeRows) /\ pending # <<>>
      BY <1>0, <1>1 DEF CaptureTyped
    <3>2. 1 \in DOMAIN pending /\ Head(pending) = pending[1]
      BY ONLY <3>1
    <3>. QED BY <3>2 DEF Capture!ToSet
  <2>. QED BY <2>1 DEF Capture!Eligible
<1>3. P \subseteq NativeRows /\ IsFiniteSet(P) /\ P \subseteq seen
  <2>1. P \subseteq seen
    BY <1>0 DEF CapturePartition, Speakers
  <2>. QED BY <1>0, <2>1, FS_Subset DEF CaptureTyped
<1>4. \A r, s \in C : r.id = s.id => r = s
  BY <1>0, <1>2, <1>3 DEF CapturePartition
<1>. HIDE DEF P, C, linked
<1>5. C \in SUBSET NativeRows /\ IsFiniteSet(C)
  BY <1>2, <1>3, FS_Subset
<1>6. /\ pending' \in Seq(NativeRows) /\ Injective(pending') /\ Capture!ToSet(pending') = P \ C
  <2>1. pending \in Seq(NativeRows) /\ Injective(pending)
    BY <1>0 DEF CaptureTyped, CapturePartition
  <2>2. pending' = Without(pending, C)
    BY <1>1 DEF Without
  <2>. QED BY <2>1, <2>2, ListWithout DEF P
<1>7. /\ c \in Nat /\ turn \in [1..c -> C]
      /\ \A i, j \in 1..c : turn[i] = turn[j] => i = j
      /\ \A x \in C : \E i \in 1..c : turn[i] = x
  BY <1>4, <1>5, SortedLists
<1>. HIDE DEF turn, rest, c
<1>8. /\ more \in Seq(Placements) /\ Len(more) = c
      /\ \A k \in 1..c : more[k].record = turn[k] /\ more[k].parent = linked(turn[k])
  <2>1. \A r \in NativeRows : link(r) \in Placements
    BY DEF Placements, linked
  <2>2. more \in [1..c -> Placements]
    BY <1>5, <1>7, <2>1
  <2>3. \A k \in 1..c : more[k] = link(turn[k])
    BY <1>7
  <2>4. \A r : link(r).record = r /\ link(r).parent = linked(r)
    OBVIOUS
  <2>. HIDE DEF more, link
  <2>. QED BY <1>7, <2>2, <2>3, <2>4, SeqDef
<1>. HIDE DEF more, link
<1>9. /\ placed' \in Seq(Placements) /\ n \in Nat /\ Len(placed') = n + c
      /\ \A i \in 1..n : placed'[i] = placed[i]
      /\ \A i \in (n + 1)..(n + c) : i - n \in 1..c /\ placed'[i] = more[i - n]
  <2>1. placed \in Seq(Placements)
    BY <1>0 DEF CaptureTyped
  <2>2. /\ placed \o more \in Seq(Placements) /\ n \in Nat /\ Len(placed \o more) = n + c
        /\ \A i \in 1..(n + c) : (placed \o more)[i] = IF i <= n THEN placed[i] ELSE more[i - n]
    BY <1>8, <2>1
  <2>. QED BY <1>1, <1>7, <2>2
<1>. HIDE DEF n
<1>10. \A i \in (n + 1)..(n + c) :
         /\ placed'[i].record = turn[i - n] /\ placed'[i].record \in C
         /\ placed'[i].parent = linked(placed'[i].record)
  BY <1>7, <1>8, <1>9
<1>11. \A x \in C : \E i \in (n + 1)..(n + c) : placed'[i].record = x
  <2>. SUFFICES ASSUME NEW x \in C PROVE \E i \in (n + 1)..(n + c) : placed'[i].record = x
    OBVIOUS
  <2>1. PICK k \in 1..c : turn[k] = x
    BY <1>7
  <2>2. n + k \in (n + 1)..(n + c) /\ (n + k) - n = k
    BY <1>7, <1>9
  <2>. QED BY <1>10, <2>1, <2>2
<1>12. \A i, j \in (n + 1)..(n + c) : placed'[i].record = placed'[j].record => i = j
  <2>. SUFFICES ASSUME NEW i \in (n + 1)..(n + c), NEW j \in (n + 1)..(n + c),
                       placed'[i].record = placed'[j].record
                PROVE  i = j
    OBVIOUS
  <2>1. turn[i - n] = turn[j - n] /\ i - n \in 1..c /\ j - n \in 1..c
    BY <1>9, <1>10
  <2>2. i - n = j - n
    BY <1>7, <2>1
  <2>. QED BY <1>7, <1>9, <2>2
<1>13. n <= n + c /\ n + c \in Nat
  BY <1>7, <1>9
<1>14. \A i \in (n + 1)..(n + c) :
         /\ placed'[i].record \in C
         /\ placed'[i].parent = IF placed'[i].record.parent \in Capture!Emitted
                                THEN placed'[i].record.parent ELSE Capture!None
  BY <1>10 DEF linked
<1>15. /\ C \subseteq P /\ pending' \in Seq(NativeRows) /\ Injective(pending')
       /\ Capture!ToSet(pending') = P \ C
       /\ placed' \in Seq(Placements) /\ n \in Nat /\ Len(placed') \in Nat /\ n <= Len(placed')
       /\ \A i \in 1..n : placed'[i] = placed[i]
       /\ \A i \in (n + 1)..Len(placed') :
            /\ placed'[i].record \in C
            /\ placed'[i].parent = IF placed'[i].record.parent \in Capture!Emitted
                                   THEN placed'[i].record.parent ELSE Capture!None
       /\ \A x \in C : \E i \in (n + 1)..Len(placed') : placed'[i].record = x
       /\ \A i, j \in (n + 1)..Len(placed') : placed'[i].record = placed'[j].record => i = j
  BY <1>2, <1>6, <1>9, <1>11, <1>12, <1>13, <1>14
<1>. QED BY ONLY <1>15 DEF n, C, P

(* An identifier of a message that was said is that of a record that is    *)
(* placed or waits.                                                        *)
LEMMA WhoIsSomewhere ==
  ASSUME CaptureInv, NEW id
  PROVE  /\ id \in Capture!Emitted <=> \E i \in DOMAIN placed : placed[i].record.id = id
         /\ id \in Capture!Identities(pending) <=> \E q \in Capture!ToSet(pending) : q.id = id
         /\ Who(Speakers, id) # {} =>
              id \in Capture!Emitted \/ id \in Capture!Identities(pending)
<1>1. Capture!ToSet(pending) \cup Capture!Messages = Speakers
  BY DEF CaptureInv, CapturePartition
<1>2. id \in Capture!Emitted <=> \E i \in DOMAIN placed : placed[i].record.id = id
  BY DEF Capture!Emitted
<1>3. id \in Capture!Identities(pending) <=> \E q \in Capture!ToSet(pending) : q.id = id
  BY DEF Capture!Identities, Capture!ToSet
<1>4. ASSUME NEW m \in Speakers, m.id = id
      PROVE  id \in Capture!Emitted \/ id \in Capture!Identities(pending)
  <2>1. m \in Capture!ToSet(pending) \/ m \in Capture!Messages
    BY <1>1
  <2>. QED BY <1>2, <1>3, <1>4, <2>1 DEF Capture!Messages
<1>. QED BY <1>2, <1>3, <1>4 DEF Who

(* When nobody is eligible, whoever waits is on the way to a circle.       *)
LEMMA StuckInACircle ==
  ASSUME CaptureInv, Capture!Eligible = {}, NEW r \in Capture!ToSet(pending)
  PROVE  \E m \in {r} \cup Trail(Speakers, r) : m \in Trail(Speakers, m)
<1>. DEFINE P == Capture!ToSet(pending)
<1>0. CaptureTyped /\ CapturePartition
  BY DEF CaptureInv
<1>1. P \in SUBSET Speakers /\ P \subseteq seen
  BY <1>0 DEF CapturePartition, Speakers
<1>2. IsFiniteSet(P)
  <2>. HIDE DEF P
  <2>. QED BY <1>0, <1>1, FS_Subset DEF CaptureTyped
<1>3. ASSUME NEW q \in P
      PROVE  Who(Speakers, q.parent) # {} /\ Who(Speakers, q.parent) \subseteq P
  <2>1. q.parent \in Capture!Identities(pending)
    BY <1>3 DEF Capture!Eligible
  <2>2. PICK p \in P : p.id = q.parent
    BY <2>1, WhoIsSomewhere
  <2>3. \A m \in Who(Speakers, q.parent) : m = p
    BY <1>0, <1>1, <2>2 DEF CapturePartition, Who, Speakers
  <2>4. p \in Who(Speakers, q.parent)
    BY <1>1, <2>2 DEF Who
  <2>. QED BY <2>2, <2>3, <2>4
<1>. HIDE DEF P
<1>4. r \in P
  BY DEF P
<1>. QED BY <1>1, <1>2, <1>3, <1>4, WaitingInACircle

(* A round keeps every record once and every link true.                    *)
LEMMA CaptureRounds ==
  ASSUME CaptureInv, Capture!Round
  PROVE  CaptureInv'
<1>0. CaptureTyped /\ CapturePartition /\ CaptureShown /\ CaptureLinks
  BY DEF CaptureInv
<1>. DEFINE P == Capture!ToSet(pending)
            C == IF Capture!Eligible # {} THEN Capture!Eligible ELSE {Head(pending)}
            n == Len(placed)
            N == Len(placed')
<1>1. /\ C \subseteq P /\ pending' \in Seq(NativeRows) /\ Injective(pending')
      /\ Capture!ToSet(pending') = P \ C
      /\ placed' \in Seq(Placements) /\ n \in Nat /\ N \in Nat /\ n <= N
      /\ \A i \in 1..n : placed'[i] = placed[i]
      /\ \A i \in (n + 1)..N :
           /\ placed'[i].record \in C
           /\ placed'[i].parent = IF placed'[i].record.parent \in Capture!Emitted
                                  THEN placed'[i].record.parent ELSE Capture!None
      /\ \A x \in C : \E i \in (n + 1)..N : placed'[i].record = x
      /\ \A i, j \in (n + 1)..N : placed'[i].record = placed'[j].record => i = j
  BY RoundPlaces
<1>2. /\ pc = "order" /\ pc' = pc /\ UNCHANGED <<delivered, at, seen, shown>>
      /\ notes \subseteq notes'
      /\ Capture!Eligible = {} => "cyclic_replies" \in notes'
      /\ \A r \in C : r.parent # Capture!None /\ r.parent \notin Capture!Emitted =>
           "unresolved_reply" \in notes'
  BY DEF Capture!Round
<1>3. DOMAIN placed = 1..n /\ DOMAIN placed' = 1..N /\ \A i \in 1..N : i \in 1..n \/ i \in (n + 1)..N
  BY <1>0, <1>1 DEF CaptureTyped
<1>4. Speakers' = Speakers
  BY <1>2 DEF Speakers, Capture!Speaks, Capture!Known, Capture!Bare
<1>5. \A r \in C : Capture!Eligible # {} =>
        r.parent = Capture!None \/ r.parent \in Capture!Emitted
          \/ r.parent \notin Capture!Identities(pending)
  BY DEF Capture!Eligible
<1>. HIDE DEF P, C, n, N
<1>6. CaptureTyped'
  BY <1>0, <1>1, <1>2 DEF CaptureTyped
<1>7. Capture!Messages' = Capture!Messages \cup C
  <2>1. \A i \in 1..n : i \in 1..N
    BY <1>1
  <2>2. \A i \in (n + 1)..N : i \in 1..N
    BY <1>1
  <2>3. Capture!Messages = {placed[i].record : i \in 1..n}
    BY <1>3 DEF Capture!Messages
  <2>4. Capture!Messages' = {placed'[i].record : i \in 1..N}
    BY <1>3 DEF Capture!Messages
  <2>5. ASSUME NEW x \in Capture!Messages' PROVE x \in Capture!Messages \cup C
    BY <1>1, <1>3, <2>3, <2>4, <2>5
  <2>6. ASSUME NEW x \in Capture!Messages PROVE x \in Capture!Messages'
    BY <1>1, <2>1, <2>3, <2>4, <2>6
  <2>7. ASSUME NEW x \in C PROVE x \in Capture!Messages'
    BY <1>1, <2>2, <2>4, <2>7
  <2>. QED BY <2>5, <2>6, <2>7
<1>8. CapturePartition'
  <2>1. P \cup Capture!Messages = Speakers /\ P \cap Capture!Messages = {}
    BY <1>0 DEF CapturePartition, P
  <2>2. /\ Capture!ToSet(pending') \cup Capture!Messages' = Speakers'
        /\ Capture!ToSet(pending') \cap Capture!Messages' = {}
    BY <1>1, <1>4, <1>7, <2>1
  <2>3. \A i, j \in DOMAIN placed' : placed'[i].record = placed'[j].record => i = j
    <3>. SUFFICES ASSUME NEW i \in 1..N, NEW j \in 1..N, placed'[i].record = placed'[j].record
                  PROVE  i = j
      BY <1>3
    <3>1. \A k \in 1..n : placed'[k].record \in Capture!Messages
      BY <1>1, <1>3 DEF Capture!Messages
    <3>2. \A k \in (n + 1)..N : placed'[k].record \notin Capture!Messages
      BY <1>1, <2>1
    <3>3. \A k, l \in 1..n : placed'[k].record = placed'[l].record => k = l
      BY <1>0, <1>1, <1>3 DEF CapturePartition
    <3>. QED BY <1>1, <1>3, <3>1, <3>2, <3>3
  <2>4. \A r, s \in seen' : r.id = s.id => r = s
    BY <1>0, <1>2 DEF CapturePartition
  <2>. QED BY <1>1, <1>2, <2>2, <2>3, <2>4 DEF CapturePartition
<1>9. CaptureShown'
  BY <1>0, <1>2, NothingDisplayed DEF CaptureShown, Capture!ShownIsEnglish
<1>10. ASSUME NEW i \in 1..n PROVE LinkHolds(Speakers, placed', notes', i)
  <2>1. LinkHolds(Speakers, placed, notes, i)
    BY <1>0, <1>3, <1>10 DEF CaptureLinks
  <2>2. placed'[i] = placed[i] /\ \A j \in 1..(i - 1) : placed'[j] = placed[j]
    BY <1>1, <1>10
  <2>. QED BY <1>2, <2>1, <2>2 DEF LinkHolds
<1>11. ASSUME NEW i \in (n + 1)..N PROVE LinkHolds(Speakers, placed', notes', i)
  <2>. DEFINE r == placed'[i].record
              p == placed'[i].parent
  <2>1. r \in C /\ p = (IF r.parent \in Capture!Emitted THEN r.parent ELSE Capture!None)
    BY <1>1, <1>11
  <2>. HIDE DEF r, p
  <2>2. ASSUME p # Capture!None
        PROVE  p = r.parent /\ \E j \in 1..(i - 1) : placed'[j].record.id = p
    <3>1. p = r.parent /\ p \in Capture!Emitted
      BY <2>1, <2>2
    <3>2. PICK j \in 1..n : placed[j].record.id = p
      BY <1>3, <3>1, WhoIsSomewhere
    <3>3. j \in 1..(i - 1) /\ placed'[j] = placed[j]
      BY <1>1, <1>11
    <3>. QED BY <3>1, <3>2, <3>3
  <2>3. ASSUME p = Capture!None, r.parent # Capture!None
        PROVE  /\ "unresolved_reply" \in notes'
               /\ \/ Who(Speakers, r.parent) = {}
                  \/ "cyclic_replies" \in notes'
                       /\ \E m \in {r} \cup Trail(Speakers, r) : m \in Trail(Speakers, m)
    <3>1. r.parent \notin Capture!Emitted
      BY <2>1, <2>3
    <3>2. "unresolved_reply" \in notes'
      BY <1>2, <2>1, <2>3, <3>1
    <3>3. CASE Capture!Eligible # {}
      <4>1. r.parent \notin Capture!Identities(pending)
        BY <1>5, <2>1, <2>3, <3>1, <3>3
      <4>. QED BY <3>1, <3>2, <4>1, WhoIsSomewhere
    <3>4. CASE Capture!Eligible = {}
      <4>1. r \in Capture!ToSet(pending)
        BY <1>1, <2>1 DEF P
      <4>. QED BY <1>2, <3>2, <3>4, <4>1, StuckInACircle
    <3>. QED BY <3>3, <3>4
  <2>. QED BY <2>2, <2>3 DEF LinkHolds, r, p
<1>12. CaptureLinks'
  BY <1>3, <1>4, <1>10, <1>11 DEF CaptureLinks
<1>. QED BY <1>6, <1>8, <1>9, <1>12 DEF CaptureInv

(* What follows the order leaves records and links as they are.            *)
LEMMA CaptureKeeps ==
  ASSUME CaptureInv, UNCHANGED <<delivered, at, seen, pending, placed>>, notes \subseteq notes',
         pc' \in {"order", "project", "done"}, pc' \in {"project", "done"} => pending = <<>>
  PROVE  CaptureTyped' /\ CapturePartition' /\ CaptureLinks'
<1>0. CaptureTyped /\ CapturePartition /\ CaptureLinks
  BY DEF CaptureInv
<1>1. CaptureTyped'
  BY <1>0 DEF CaptureTyped
<1>2. Speakers' = Speakers
  BY DEF Speakers, Capture!Speaks, Capture!Known, Capture!Bare
<1>3. CapturePartition'
  BY <1>0, <1>2 DEF CapturePartition, Capture!ToSet, Capture!Messages
<1>. QED BY <1>0, <1>1, <1>3, LinksStay

(* So does every other step.                                               *)
LEMMA CaptureGoesOn ==
  ASSUME CaptureInv, Capture!Next
  PROVE  CaptureInv'
<1>0. CaptureTyped /\ CapturePartition /\ CaptureShown /\ CaptureLinks
  BY DEF CaptureInv
<1>. DEFINE Shown == {Capture!Waits, "original", "translated", "unavailable"}
<1>1. CASE Capture!Parse
  BY <1>1, CaptureParses
<1>2. CASE Capture!Parsed
  <2>1. pc' = "order" /\ pc = "parse" /\ UNCHANGED <<delivered, at, seen, pending, placed, shown, notes>>
    BY <1>2 DEF Capture!Parsed
  <2>2. CaptureShown'
    BY <1>0, <2>1, NothingDisplayed DEF CaptureShown, Capture!ShownIsEnglish
  <2>3. CaptureTyped' /\ CapturePartition' /\ CaptureLinks'
    BY <2>1, CaptureKeeps
  <2>. QED BY <2>2, <2>3 DEF CaptureInv
<1>3. CASE Capture!Round
  BY <1>3, CaptureRounds
<1>4. CASE Capture!Ordered
  <2>1. /\ pending = <<>> /\ pc' = "project" /\ shown' = [i \in DOMAIN placed |-> Capture!Waits]
        /\ UNCHANGED <<delivered, at, seen, pending, placed, notes>>
    BY <1>4 DEF Capture!Ordered
  <2>2. CaptureShown'
    BY <2>1 DEF CaptureShown, Capture!ShownIsEnglish, Capture!Waits
  <2>3. CaptureTyped' /\ CapturePartition' /\ CaptureLinks'
    BY <2>1, CaptureKeeps
  <2>. QED BY <2>2, <2>3 DEF CaptureInv
<1>5. CASE Capture!Deadline
  <2>1. /\ pc = "project" /\ pc' = pc /\ UNCHANGED <<delivered, at, seen, pending, placed>>
        /\ shown' = [i \in DOMAIN shown |-> IF shown[i] = Capture!Waits THEN "unavailable" ELSE shown[i]]
        /\ notes' = notes \cup {"translation_unavailable"}
    BY <1>5 DEF Capture!Deadline
  <2>2. shown \in [DOMAIN placed -> Shown] /\ pending = <<>> /\ Capture!ShownIsEnglish
    BY <1>0, <2>1 DEF CaptureShown, CapturePartition
  <2>3. shown' \in [DOMAIN placed -> Shown]
    BY <2>1, <2>2
  <2>4. CaptureShown'
    BY <2>1, <2>2, <2>3 DEF CaptureShown, Capture!ShownIsEnglish, Capture!Waits
  <2>5. CaptureTyped' /\ CapturePartition' /\ CaptureLinks'
    BY <2>1, <2>2, CaptureKeeps
  <2>. QED BY <2>4, <2>5 DEF CaptureInv
<1>6. CASE Capture!Assemble
  <2>1. /\ pc = "project" /\ pc' = "done" /\ notes \subseteq notes'
        /\ UNCHANGED <<delivered, at, seen, pending, placed, shown>>
    BY <1>6 DEF Capture!Assemble
  <2>2. pending = <<>>
    BY <1>0, <2>1 DEF CapturePartition
  <2>3. CaptureShown'
    BY <1>0, <2>1 DEF CaptureShown, Capture!ShownIsEnglish
  <2>4. CaptureTyped' /\ CapturePartition' /\ CaptureLinks'
    BY <2>1, <2>2, CaptureKeeps
  <2>. QED BY <2>3, <2>4 DEF CaptureInv
<1>7. ASSUME NEW i \in DOMAIN shown, Capture!Display(i) PROVE CaptureInv'
  <2>1. /\ pc = "project" /\ pc' = pc /\ UNCHANGED <<delivered, at, seen, pending, placed>>
        /\ notes' = notes \cup (IF shown'[i] = "unavailable" THEN {"translation_unavailable"} ELSE {})
    BY <1>7 DEF Capture!Display
  <2>2. shown \in [DOMAIN placed -> Shown] /\ pending = <<>> /\ Capture!ShownIsEnglish
    BY <1>0, <2>1 DEF CaptureShown, CapturePartition
  <2>3. \E v \in Shown : /\ shown' = [shown EXCEPT ![i] = v]
                         /\ v = "original" => placed[i].record.text # "script"
    BY <1>7 DEF Capture!Display, Capture!English, Capture!Checked, Capture!Answers
  <2>4. PICK v \in Shown : /\ shown' = [shown EXCEPT ![i] = v]
                           /\ v = "original" => placed[i].record.text # "script"
    BY <2>3
  <2>5. shown' \in [DOMAIN placed -> Shown] /\ shown'[i] = v
        /\ \A j \in DOMAIN placed : j # i => shown'[j] = shown[j]
    BY <1>7, <2>2, <2>4
  <2>6. Capture!ShownIsEnglish'
    <3>. SUFFICES ASSUME NEW j \in DOMAIN placed
                  PROVE  /\ shown'[j] = "original" => placed[j].record.text # "script"
                         /\ shown'[j] # "changed"
                         /\ shown'[j] = "unavailable" => "translation_unavailable" \in notes'
      BY <2>1, <2>5 DEF Capture!ShownIsEnglish
    <3>1. shown'[j] # "changed"
      BY <2>5 DEF Capture!Waits
    <3>2. CASE j = i
      BY <2>1, <2>4, <2>5, <3>1, <3>2
    <3>3. CASE j # i
      BY <2>1, <2>2, <2>5, <3>1, <3>3 DEF Capture!ShownIsEnglish
    <3>. QED BY <3>2, <3>3
  <2>7. CaptureShown'
    BY <2>1, <2>5, <2>6 DEF CaptureShown
  <2>8. CaptureTyped' /\ CapturePartition' /\ CaptureLinks'
    BY <2>1, <2>2, CaptureKeeps
  <2>. QED BY <2>7, <2>8 DEF CaptureInv
<1>. QED BY <1>1, <1>2, <1>3, <1>4, <1>5, <1>6, <1>7 DEF Capture!Next, Capture!Client

(* What the capture's invariant says of what is shown.                     *)
LEMMA CaptureIsSoundIn ==
  ASSUME CaptureInv
  PROVE  Capture!TypeOK /\ Capture!CaptureIsFaithful /\ Capture!ShownIsEnglish
<1>0. CaptureTyped /\ CapturePartition /\ CaptureShown /\ CaptureLinks
  BY DEF CaptureInv
<1>1. Capture!TypeOK
  <2>1. Capture!ToSet(pending) \subseteq seen /\ Capture!Messages \subseteq seen
    BY <1>0 DEF CapturePartition, Speakers
  <2>2. \A i \in DOMAIN placed : placed[i].record \in seen
    BY <2>1 DEF Capture!Messages
  <2>3. \A i \in DOMAIN shown :
          shown[i] \in {Capture!Waits, "original", "translated", "changed", "unavailable"}
    BY <1>0 DEF CaptureShown, CaptureTyped
  <2>. QED BY <1>0, <2>1, <2>2, <2>3 DEF Capture!TypeOK, CaptureTyped
<1>2. ASSUME pc \in {"project", "done"} PROVE Capture!Messages = Speakers
  <2>1. pending = <<>> /\ Capture!ToSet(pending) \cup Capture!Messages = Speakers
    BY <1>0, <1>2 DEF CapturePartition
  <2>2. Capture!ToSet(<<>>) = {}
    BY DEF Capture!ToSet
  <2>. QED BY <2>1, <2>2
<1>3. ASSUME pc \in {"project", "done"}
      PROVE  /\ Capture!Emitted = {r.id : r \in Speakers}
             /\ Capture!Cardinality(Capture!Emitted) = Len(placed)
  <2>1. Capture!Emitted = {r.id : r \in Capture!Messages}
    BY DEF Capture!Emitted, Capture!Messages
  <2>. DEFINE ids == [i \in DOMAIN placed |-> placed[i].record.id]
              T == Capture!Emitted
  <2>2. placed \in Seq(Placements) /\ Len(placed) \in Nat /\ DOMAIN placed = 1..Len(placed)
    BY <1>0 DEF CaptureTyped
  <2>3. \A i \in DOMAIN placed : placed[i].record.id \in T
    BY DEF Capture!Emitted
  <2>. HIDE DEF T
  <2>4. ids \in Seq(T) /\ Len(ids) = Len(placed) /\ DOMAIN ids = DOMAIN placed
    <3>1. ids \in [1..Len(placed) -> T]
      BY <2>2, <2>3
    <3>. QED BY <2>2, <3>1, SeqDef
  <2>5. {ids[i] : i \in DOMAIN ids} = T
    BY <2>4 DEF Capture!Emitted, T
  <2>6. Injective(ids)
    <3>. SUFFICES ASSUME NEW i \in DOMAIN placed, NEW j \in DOMAIN placed,
                         placed[i].record.id = placed[j].record.id
                  PROVE  i = j
      BY <2>4 DEF Injective
    <3>1. placed[i].record \in seen /\ placed[j].record \in seen
      BY <1>1 DEF Capture!TypeOK
    <3>2. placed[i].record = placed[j].record
      BY <1>0, <3>1 DEF CapturePartition
    <3>. QED BY <1>0, <3>2 DEF CapturePartition
  <2>. HIDE DEF ids
  <2>7. Cardinality(T) = Len(placed)
    BY <2>4, <2>5, <2>6, ListedOnce
  <2>. QED BY <1>2, <1>3, <2>1, <2>7, SameCardinality DEF T
<1>4. ASSUME pc \in {"project", "done"}, NEW i \in DOMAIN placed
      PROVE  LET r == placed[i].record  p == placed[i].parent
             IN /\ p # Capture!None => p = r.parent /\ \E j \in 1..(i - 1) : placed[j].record.id = p
                /\ p = Capture!None /\ r.parent # Capture!None =>
                     /\ "unresolved_reply" \in notes
                     /\ \/ Capture!Message(r.parent) = {}
                        \/ "cyclic_replies" \in notes
                             /\ \E m \in {r} \cup Capture!Chain(r) : Capture!OnCycle(m)
  <2>1. LinkHolds(Speakers, placed, notes, i)
    BY <1>0, <1>4 DEF CaptureLinks
  <2>2. \A id : Capture!Message(id) = Who(Capture!Messages, id)
    BY DEF Capture!Message, Who
  <2>3. \A r : Capture!Chain(r) = Trail(Capture!Messages, r)
    BY DEF Capture!Chain, Capture!Message, Trail, Who
  <2>4. Capture!Messages = Speakers
    BY <1>2, <1>4
  <2>5. \A m : Capture!OnCycle(m) <=> m \in Trail(Speakers, m)
    BY <2>3, <2>4 DEF Capture!OnCycle
  <2>. QED BY <2>1, <2>2, <2>3, <2>4, <2>5 DEF LinkHolds
<1>5. Capture!CaptureIsFaithful
  BY <1>3, <1>4 DEF Capture!CaptureIsFaithful, Speakers
<1>. QED BY <1>0, <1>1, <1>5 DEF CaptureShown

-----------------------------------------------------------------------------
(* All parts: a behaviour is of one part, and the others are idle.         *)
AnswersInv ==
  /\ part = "swarm" => SwarmInv
  /\ part = "judge" => JudgeInv
  /\ part = "gates" => GatesInv
  /\ part = "workflow" => WorkflowInv
  /\ part = "capture" => CaptureInv
  /\ part = "model" => ModelInv
  /\ part = "roster" => RosterInv

(* Each part begins as its invariant says.                                 *)
LEMMA AnswersBegin ==
  ASSUME Init PROVE AnswersInv
<1>1. CASE part = "swarm" /\ Swarm!Init
  BY <1>1, SwarmBegins DEF AnswersInv
<1>2. CASE part = "request"
  BY <1>2 DEF AnswersInv
<1>3. CASE part = "judge" /\ Judge!Init
  BY <1>3, JudgeBegins DEF AnswersInv
<1>4. CASE part = "gates" /\ Gates!Init
  BY <1>4 DEF AnswersInv, GatesInv, Gates!Init
<1>5. CASE part = "workflow" /\ Workflow!Init
  BY <1>5, WorkflowBegins DEF AnswersInv
<1>6. CASE part = "capture" /\ Capture!Init
  BY <1>6, CaptureBegins DEF AnswersInv
<1>7. CASE part = "model" /\ Model!Init
  BY <1>7, ModelBegins DEF AnswersInv
<1>8. CASE part = "roster" /\ Roster!Init
  BY <1>8, RosterBegins DEF AnswersInv
<1>. QED BY <1>1, <1>2, <1>3, <1>4, <1>5, <1>6, <1>7, <1>8 DEF Init

(* The invariants speak of the variables only.                             *)
LEMMA ServicesRest ==
  ASSUME UNCHANGED <<pc, serviceVars>>
  PROVE  /\ SwarmInv => SwarmInv'
         /\ JudgeInv => JudgeInv'
         /\ GatesInv => GatesInv'
         /\ WorkflowInv => WorkflowInv'
<1>0. /\ UNCHANGED <<pc, clock, server, rows, capture, ev, attempt, draft, cache, rejected, result, history>>
      /\ UNCHANGED <<body, metric, sandbox, judge, stages, cancelled, response>>
  BY DEF serviceVars, swarmVars, judgeVars, workflowVars
<1>1. SwarmInv => SwarmInv'
  <2>1. SwarmTyped => SwarmTyped'
    BY <1>0 DEF SwarmTyped, ServerTyped, Swarm!TypeOK
  <2>2. Swarm!Answers' = Swarm!Answers
    BY <1>0 DEF Swarm!Answers
  <2>3. SwarmInOrder => SwarmInOrder'
    BY <1>0, <2>2 DEF SwarmInOrder, GraphWaitedFor, PrepareWaitedFor, CaptureOf
  <2>. QED BY <2>1, <2>3 DEF SwarmInv
<1>2. JudgeInv => JudgeInv'
  BY <1>0 DEF JudgeInv, JudgeTyped, JudgeInOrder, JudgeShows, Judge!TypeOK, Judge!ShownIsChecked,
              Judge!AdviceIsReviewed, Judge!FailureIsNamed
<1>3. GatesInv => GatesInv'
  BY <1>0 DEF GatesInv
<1>4. WorkflowInv => WorkflowInv'
  BY <1>0 DEF WorkflowInv, WorkflowTyped, WorkflowStages, WorkflowInOrder, Workflow!TypeOK, Judged
<1>. QED BY <1>1, <1>2, <1>3, <1>4

LEMMA ClientsRest ==
  ASSUME UNCHANGED <<pc, clientVars>>
  PROVE  /\ ModelInv => ModelInv'
         /\ RosterInv => RosterInv'
         /\ CaptureInv => CaptureInv'
<1>0. /\ UNCHANGED <<pc, delivered, at, seen, pending, placed, shown, notes, repair, retries, waited>>
      /\ UNCHANGED <<people, round, asked, again, batch, code, answer, calls>>
  BY DEF clientVars, captureVars, modelVars, rosterVars
<1>1. ModelInv => ModelInv'
  BY <1>0 DEF ModelInv, ModelTyped, ModelCounts, ModelEnds, Model!TypeOK, Model!Code, Model!CodeRaised,
              Model!CodeOf
<1>2. RosterInv => RosterInv'
  BY <1>0 DEF RosterInv, RosterTyped, RosterInOrder, RosterBudget, Roster!Size, Roster!Distinct
<1>3. CaptureInv => CaptureInv'
  <2>. SUFFICES ASSUME CaptureInv PROVE CaptureInv'
    OBVIOUS
  <2>1. Speakers' = Speakers
    BY <1>0 DEF Speakers, Capture!Speaks, Capture!Known, Capture!Bare
  <2>2. CaptureTyped' /\ CapturePartition'
    BY <1>0, <2>1 DEF CaptureInv, CaptureTyped, CapturePartition, Capture!ToSet, Capture!Messages
  <2>3. CaptureShown'
    BY <1>0 DEF CaptureInv, CaptureShown, Capture!ShownIsEnglish
  <2>4. CaptureLinks'
    BY <1>0, LinksStay DEF CaptureInv
  <2>. QED BY <2>2, <2>3, <2>4 DEF CaptureInv
<1>. QED BY <1>1, <1>2, <1>3

(* Whichever part makes a step, its invariant stays.                       *)
LEMMA AnswersGoOn ==
  ASSUME AnswersInv, [Next]_vars
  PROVE  AnswersInv'
<1>1. CASE SwarmStep(Swarm!Next)
  BY <1>1, SwarmGoesOn DEF AnswersInv, SwarmStep
<1>2. CASE RequestStep(Request!Next)
  BY <1>2 DEF AnswersInv, RequestStep
<1>3. CASE JudgeStep(Judge!Next)
  BY <1>3, JudgeGoesOn DEF AnswersInv, JudgeStep
<1>4. CASE WorkflowStep(Workflow!Next)
  BY <1>4, WorkflowGoesOn DEF AnswersInv, WorkflowStep
<1>5. CASE CaptureStep(Capture!Next)
  BY <1>5, CaptureGoesOn DEF AnswersInv, CaptureStep
<1>6. CASE ModelStep(Model!Next)
  BY <1>6, ModelGoesOn DEF AnswersInv, ModelStep
<1>7. CASE RosterStep(Roster!Next)
  BY <1>7, RosterGoesOn DEF AnswersInv, RosterStep
<1>8. CASE UNCHANGED vars
  <2>1. part' = part /\ UNCHANGED <<pc, serviceVars>> /\ UNCHANGED <<pc, clientVars>>
    BY <1>8 DEF vars
  <2>. QED BY <2>1, ServicesRest, ClientsRest DEF AnswersInv
<1>. QED BY <1>1, <1>2, <1>3, <1>4, <1>5, <1>6, <1>7, <1>8 DEF Next

(* The inductive invariant of all parts holds of every behaviour.          *)
THEOREM AnswersInvariant == Spec => []AnswersInv
<1>1. Init => AnswersInv
  BY AnswersBegin
<1>2. AnswersInv /\ [Next]_vars => AnswersInv'
  BY AnswersGoOn
<1>. QED BY <1>1, <1>2, PTL DEF Spec

(* Whatever the server refuses, loses or fails, what run_swarm captures is *)
(* of a simulation that ended well, was started once, and not before what  *)
(* could be waited for; it is kept up to the code's limits, each text      *)
(* once; and what the Sandbox shows of a capture is what was said, in an   *)
(* order that can be followed, for any texts, rows, limits and number of   *)
(* personas.                                                               *)
THEOREM CapturesAreSound == Spec => []CaptureIsSound
<1>1. AnswersInv => CaptureIsSound
  BY SwarmIsSound, CaptureIsSoundIn DEF AnswersInv, CaptureIsSound
<1>. QED BY <1>1, AnswersInvariant, PTL

(* What the Judge shows was checked and reviewed in that form, failures    *)
(* are what they say, and the adapter's gates are no wider than the        *)
(* contract's, for any texts and any number of findings and repairs.       *)
THEOREM JudgementsAreSound == Spec => []JudgementIsSound
<1>1. AnswersInv => JudgementIsSound
  BY JudgeIsSound, GatesAgreeAlways DEF AnswersInv, JudgementIsSound
<1>. QED BY <1>1, AnswersInvariant, PTL

(* Whichever service misbehaves, the workflow calls complete only what has *)
(* the request's own sound evidence, and reports every stage.              *)
THEOREM WorkflowsAreSound == Spec => []WorkflowIsSound
<1>1. AnswersInv => WorkflowIsSound
  BY WorkflowIsSoundIn DEF AnswersInv, WorkflowIsSound
<1>. QED BY <1>1, AnswersInvariant, PTL

(* The calls of a typed request and of a batch of a roster are bounded by  *)
(* their retries and repairs, and the roster is whole, for any number of   *)
(* seats, names, repairs and any batch size.                               *)
THEOREM CallsStayBounded == Spec => []CallsAreBounded
<1>1. AnswersInv => CallsAreBounded
  BY ModelIsSound, RosterIsSound DEF AnswersInv, CallsAreBounded
<1>. QED BY <1>1, AnswersInvariant, PTL

(* However often the caller cancels, a cancelled request only unwinds:     *)
(* nothing is judged or answered although the Sandbox returns a result.    *)
THEOREM CancelledRequestsUnwind == Spec => CancelledGoesNoFurther
<1>1. AnswersInv /\ [Next]_vars => [part = "workflow" => Workflow!GoesNoFurther]_vars
  <2>. SUFFICES ASSUME AnswersInv, Next, part = "workflow" PROVE Workflow!GoesNoFurther
    OBVIOUS
  <2>1. Workflow!Next
    BY DEF Next, SwarmStep, RequestStep, JudgeStep, WorkflowStep, CaptureStep, ModelStep, RosterStep
  <2>. QED BY <2>1, CancelledOnlyUnwinds DEF AnswersInv
<1>. QED BY <1>1, AnswersInvariant, PTL DEF Spec, CancelledGoesNoFurther
=============================================================================
