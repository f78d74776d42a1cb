---------------------------- MODULE RunnerProofs ----------------------------
(***************************************************************************)
(* Proofs about a run of a compiled graph, for every document Compile      *)
(* accepts, every batch size, iteration limit and number of attempts.      *)
(*                                                                         *)
(* The uninterrupted run is an orbit: Onward applied to NewRun again and   *)
(* again. OrbitInv says that `live`, however often it suspends, is at a    *)
(* state of that orbit, or waits with a checkpoint from which resuming is  *)
(* the orbit's next step. What is shown of every state of an orbit then    *)
(* holds of both runs: what deliveries come to (Accounts), the order of    *)
(* Merges (Merges) and what loops hold (Loops).                            *)
(***************************************************************************)
EXTENDS Runner, FiniteSetTheorems, SequenceTheorems, TLAPS

-----------------------------------------------------------------------------
(* Numbers and sorted sequences. *)

\* The least-number principle. The library states it about a predicate, which
\* cannot be given here; this one is about a set, and follows from the order of
\* the intervals 0..n by inclusion.
LEMMA Least ==
    ASSUME NEW T \in SUBSET Nat, T # {}
    PROVE  \E x \in T : \A y \in T : x <= y
<1>1. PICK F : F = {0..n : n \in T}
  OBVIOUS
<1>2. PICK R : R = StrictSubsetOrdering(Nat)
  OBVIOUS
<1>3. \A A \in F : A \in FiniteSubsetsOf(Nat)
  <2>1. SUFFICES ASSUME NEW n \in T PROVE 0..n \in FiniteSubsetsOf(Nat)
    BY <1>1
  <2>2. n \in Int /\ 0..n \in SUBSET Nat
    OBVIOUS
  <2>3. IsFiniteSet(0..n)
    BY <2>2, FS_Interval
  <2> QED BY <2>2, <2>3 DEF FiniteSubsetsOf
<1>4. IsWellFoundedOn(R, FiniteSubsetsOf(Nat)) /\ F # {}
  BY <1>1, <1>2, FS_StrictSubsetOrderingWellFounded
<1>5. PICK A \in F : \A B \in F : <<B, A>> \notin R
  BY <1>3, <1>4, WFMin
<1>6. PICK m \in T : A = 0..m
  BY <1>1
<1>7. ASSUME NEW n \in T PROVE m <= n
  <2>1. 0..n \in F /\ m \in Nat /\ n \in Nat
    BY <1>1
  <2>2. <<0..n, 0..m>> \notin R
    BY <1>5, <1>6, <2>1
  <2>3. SUFFICES ASSUME n < m PROVE FALSE
    BY <2>1
  <2>4. 0..n \subseteq 0..m /\ 0..n # 0..m
    <3>1. m \in 0..m /\ m \notin 0..n
      BY <2>1, <2>3
    <3> QED BY <2>1, <2>3, <3>1
  <2> QED BY <1>2, <2>1, <2>2, <2>4 DEF StrictSubsetOrdering
<1> QED BY <1>7

\* A set of numbers that is not empty has a least one, and Min is it.
LEMMA MinIs ==
    ASSUME NEW S \in SUBSET Nat, S # {}
    PROVE  Min(S) \in S /\ \A x \in S : Min(S) <= x
<1>1. \E x \in S : \A y \in S : x <= y
  BY Least
<1> QED BY <1>1 DEF Min

\* A bounded one has a greatest one, and Max is it.
LEMMA MaxIs ==
    ASSUME NEW n \in Nat, NEW S \in SUBSET (0 .. n), S # {}
    PROVE  Max(S) \in S /\ \A x \in S : x <= Max(S)
<1>1. PICK T : T = {k \in Nat : \A x \in S : x <= k}
  OBVIOUS
<1>2. T \in SUBSET Nat /\ n \in T
  BY <1>1
<1>3. PICK m \in T : \A k \in T : m <= k
  BY <1>2, Least
<1>4. m \in Nat /\ \A x \in S : x <= m
  BY <1>1, <1>3
<1>5. m \in S
  <2>1. SUFFICES ASSUME m \notin S PROVE FALSE
    OBVIOUS
  <2>2. PICK x \in S : TRUE
    OBVIOUS
  <2>3. x <= m /\ x # m /\ x \in Nat
    BY <1>4, <2>1
  <2>4. m - 1 \in Nat
    BY <1>4, <2>3
  <2>5. \A y \in S : y <= m - 1
    BY <1>4, <2>1
  <2>6. m - 1 \in T
    BY <1>1, <2>4, <2>5
  <2> QED BY <1>3, <1>4, <2>6
<1> QED BY <1>4, <1>5 DEF Max

\* A strict total order of S, as a set of pairs.
Orders(R, S) ==
    /\ \A x, y \in S : <<x, y>> \in R /\ <<y, x>> \in R => FALSE
    /\ \A x, y, z \in S : <<x, y>> \in R /\ <<y, z>> \in R => <<x, z>> \in R
    /\ \A x, y \in S : x # y => <<x, y>> \in R \/ <<y, x>> \in R

Below(R, S, x) == {y \in S : <<y, x>> \in R}

\* In a finite set, the number of elements below one is its place, and its alone.
LEMMA Places ==
    ASSUME NEW S, IsFiniteSet(S), NEW R, Orders(R, S)
    PROVE  /\ Cardinality(S) \in Nat
           /\ \A x \in S : Cardinality(Below(R, S, x)) + 1 \in 1 .. Cardinality(S)
           /\ \A i \in 1 .. Cardinality(S) : \E x \in S : Cardinality(Below(R, S, x)) = i - 1
           /\ \A x, y \in S : Cardinality(Below(R, S, x)) = Cardinality(Below(R, S, y)) => x = y
           /\ \A x, y \in S : <<x, y>> \in R =>
                 Cardinality(Below(R, S, x)) < Cardinality(Below(R, S, y))
<1> DEFINE n == Cardinality(S)
<1>1. n \in Nat
  BY FS_CardinalityType
<1>2. PICK pos : pos = [x \in S |-> Cardinality(Below(R, S, x)) + 1]
  OBVIOUS
<1>3. \A x \in S : IsFiniteSet(Below(R, S, x)) /\ Cardinality(Below(R, S, x)) \in Nat
  BY FS_Subset, FS_CardinalityType DEF Below
<1>4. \A x \in S : pos[x] \in 1 .. n
  <2>1. TAKE x \in S
  <2>2. Below(R, S, x) \in SUBSET S /\ x \notin Below(R, S, x)
    BY DEF Orders, Below
  <2>3. Below(R, S, x) # S
    BY <2>2
  <2>4. Cardinality(Below(R, S, x)) <= n /\ (Cardinality(Below(R, S, x)) = n => Below(R, S, x) = S)
    BY <2>2, FS_Subset
  <2>5. Cardinality(Below(R, S, x)) < n
    BY <1>1, <1>3, <2>3, <2>4
  <2>6. Cardinality(Below(R, S, x)) + 1 \in 1 .. n
    BY <1>1, <1>3, <2>5
  <2> QED BY <1>2, <2>6
<1>5. \A x, y \in S : <<x, y>> \in R => pos[x] < pos[y]
  <2>1. SUFFICES ASSUME NEW x \in S, NEW y \in S, <<x, y>> \in R PROVE pos[x] < pos[y]
    OBVIOUS
  <2>2. Below(R, S, x) \in SUBSET Below(R, S, y) /\ x \in Below(R, S, y) /\ x \notin Below(R, S, x)
    BY <2>1 DEF Orders, Below
  <2>3. Cardinality(Below(R, S, x)) <= Cardinality(Below(R, S, y))
          /\ (Cardinality(Below(R, S, x)) = Cardinality(Below(R, S, y)) => Below(R, S, x) = Below(R, S, y))
    BY <1>3, <2>2, FS_Subset
  <2>4. Cardinality(Below(R, S, x)) < Cardinality(Below(R, S, y))
    BY <1>3, <2>2, <2>3
  <2> QED BY <1>2, <1>3, <2>4
<1>6. \A x, y \in S : pos[x] = pos[y] => x = y
  <2>1. SUFFICES ASSUME NEW x \in S, NEW y \in S, pos[x] = pos[y], x # y PROVE FALSE
    OBVIOUS
  <2>2. pos[x] \in Nat /\ pos[y] \in Nat
    BY <1>1, <1>4
  <2>3. <<x, y>> \in R \/ <<y, x>> \in R
    BY <2>1 DEF Orders
  <2> QED BY <1>5, <2>1, <2>2, <2>3
<1>7. PICK I : I = {pos[x] : x \in S}
  OBVIOUS
<1>8. I = 1 .. n
  <2>1. pos \in Injection(S, I)
    <3>1. pos \in [S -> I]
      BY <1>2, <1>7
    <3> QED BY <1>6, <3>1 DEF Injection, IsInjective
  <2>2. pos \in Surjection(S, I)
    <3>1. pos \in [S -> I]
      BY <1>2, <1>7
    <3> QED BY <1>7, <3>1 DEF Surjection
  <2>3. ExistsBijection(S, I)
    BY <2>1, <2>2 DEF ExistsBijection, Bijection
  <2>4. IsFiniteSet(I) /\ Cardinality(I) = n
    BY <2>3, FS_Bijection
  <2>5. I \in SUBSET (1 .. n)
    BY <1>4, <1>7
  <2>6. IsFiniteSet(1 .. n) /\ Cardinality(1 .. n) = n
    BY <1>1, FS_Interval
  <2> QED BY <2>4, <2>5, <2>6, FS_Subset
<1>9. \A i \in 1 .. n : \E x \in S : Cardinality(Below(R, S, x)) = i - 1
  <2>1. TAKE i \in 1 .. n
  <2>2. PICK x \in S : pos[x] = i
    BY <1>7, <1>8
  <2>3. i = Cardinality(Below(R, S, x)) + 1
    BY <1>2, <2>2
  <2> QED BY <1>3, <2>3
<1>10. \A x, y \in S : Cardinality(Below(R, S, x)) = Cardinality(Below(R, S, y)) => x = y
  BY <1>2, <1>6
<1>11. \A x, y \in S : <<x, y>> \in R => Cardinality(Below(R, S, x)) < Cardinality(Below(R, S, y))
  BY <1>2, <1>3, <1>5
<1>12. \A x \in S : Cardinality(Below(R, S, x)) + 1 \in 1 .. n
  BY <1>2, <1>4
<1> QED BY <1>1, <1>9, <1>10, <1>11, <1>12

Lists(order, S) ==
    /\ order \in Seq(S) /\ Len(order) \in Nat /\ DOMAIN order = 1 .. Len(order)
    /\ \A x \in S : \E i \in 1 .. Len(order) : order[i] = x
    /\ \A i, j \in 1 .. Len(order) : order[i] = order[j] => i = j

\* A sequence with each element of S at its place lists S, in order.
LEMMA Listed ==
    ASSUME NEW S, IsFiniteSet(S), NEW R, Orders(R, S),
           NEW order, order \in [1 .. Cardinality(S) -> S],
           \A i \in 1 .. Cardinality(S) : Cardinality(Below(R, S, order[i])) = i - 1
    PROVE  /\ Lists(order, S)
           /\ \A i, j \in 1 .. Len(order) : i < j => <<order[i], order[j]>> \in R
<1> DEFINE n == Cardinality(S)
<1>1. n \in Nat
  BY Places
<1>2. order \in Seq(S) /\ Len(order) = n /\ DOMAIN order = 1 .. n
  BY <1>1
<1>3. \A i \in 1 .. n : order[i] \in S
  OBVIOUS
<1>4. ASSUME NEW x \in S PROVE \E i \in 1 .. n : order[i] = x
  <2>1. PICK k : k = Cardinality(Below(R, S, x)) + 1
    OBVIOUS
  <2>2. k \in 1 .. n /\ Cardinality(Below(R, S, order[k])) = k - 1
    BY <2>1, Places
  <2>3. Cardinality(Below(R, S, order[k])) + 1 = k /\ order[k] \in S
    BY <1>1, <1>3, <2>2
  <2>4. Cardinality(Below(R, S, order[k])) \in Int /\ Cardinality(Below(R, S, x)) \in Int
    <3>1. Below(R, S, order[k]) \in SUBSET S /\ Below(R, S, x) \in SUBSET S
      BY DEF Below
    <3>2. IsFiniteSet(Below(R, S, order[k])) /\ IsFiniteSet(Below(R, S, x))
      BY <3>1, FS_Subset
    <3> QED BY <3>2, FS_CardinalityType
  <2>5. Cardinality(Below(R, S, order[k])) = Cardinality(Below(R, S, x))
    BY <2>1, <2>3, <2>4
  <2>6. order[k] = x
    BY <2>3, <2>5, Places
  <2> QED BY <2>2, <2>6
<1>5. ASSUME NEW i \in 1 .. n, NEW j \in 1 .. n, i < j
      PROVE  <<order[i], order[j]>> \in R
  <2>1. /\ order[i] \in S /\ order[j] \in S
        /\ Cardinality(Below(R, S, order[i])) = i - 1
        /\ Cardinality(Below(R, S, order[j])) = j - 1
    BY <1>3
  <2>2. order[i] # order[j] /\ ~(Cardinality(Below(R, S, order[j])) < Cardinality(Below(R, S, order[i])))
    BY <1>1, <1>5, <2>1
  <2>3. <<order[j], order[i]>> \notin R
    BY <2>1, <2>2, Places
  <2> QED BY <2>1, <2>2, <2>3 DEF Orders
<1>6. ASSUME NEW i \in 1 .. n, NEW j \in 1 .. n, order[i] = order[j]
      PROVE  i = j
  <2>1. Cardinality(Below(R, S, order[i])) = i - 1 /\ Cardinality(Below(R, S, order[j])) = j - 1
    OBVIOUS
  <2> QED BY <1>1, <1>6, <2>1
<1> QED BY <1>1, <1>2, <1>4, <1>5, <1>6 DEF Lists

\* The numbers of a set, downwards.
LEMMA OrderedDown ==
    ASSUME NEW S, IsFiniteSet(S), \A x \in S : x \in Nat,
           NEW order, order = Downwards(S)
    PROVE  Lists(order, S)
<1>1. PICK R : R = {x \in S \X S : x[1] > x[2]}
  OBVIOUS
<1>2. \A x, y \in S : <<x, y>> \in R <=> x > y
  BY <1>1
<1>3. Orders(R, S)
  <2>1. \A x, y \in S : x > y /\ y > x => FALSE
    OBVIOUS
  <2>2. \A x, y, z \in S : x > y /\ y > z => x > z
    OBVIOUS
  <2>3. \A x, y \in S : x # y => x > y \/ y > x
    OBVIOUS
  <2> QED BY <1>2, <2>1, <2>2, <2>3 DEF Orders
<1>4. \A x \in S : {y \in S : y > x} = Below(R, S, x)
  BY <1>2 DEF Below
<1>5. \A i \in 1 .. Cardinality(S) : \E x \in S : Cardinality({y \in S : y > x}) = i - 1
  <2>1. TAKE i \in 1 .. Cardinality(S)
  <2>a. IsFiniteSet(S) /\ Orders(R, S)
    BY <1>3
  <2>b. \A k \in 1 .. Cardinality(S) : \E x \in S : Cardinality(Below(R, S, x)) = k - 1
    BY <2>a, Places
  <2>2. PICK x \in S : Cardinality(Below(R, S, x)) = i - 1
    BY <2>b
  <2> QED BY <1>4, <2>2
<1>6. /\ order \in [1 .. Cardinality(S) -> S]
      /\ \A i \in 1 .. Cardinality(S) : Cardinality({y \in S : y > order[i]}) = i - 1
  BY <1>5 DEF Downwards, Ordered
<1>7. \A i \in 1 .. Cardinality(S) : Cardinality(Below(R, S, order[i])) = i - 1
  BY <1>4, <1>6
<1>a. order \in [1 .. Cardinality(S) -> S] /\ Orders(R, S)
  BY <1>3, <1>6
<1> QED BY <1>a, <1>7, Listed

\* The numbers of a set, upwards.
LEMMA OrderedUp ==
    ASSUME NEW S, IsFiniteSet(S), \A x \in S : x \in Nat,
           NEW order, order = Upwards(S)
    PROVE  /\ Lists(order, S) /\ Len(order) = Cardinality(S)
           /\ \A i, j \in 1 .. Len(order) : i < j => order[i] < order[j]
<1>1. PICK R : R = {x \in S \X S : x[1] < x[2]}
  OBVIOUS
<1>2. \A x, y \in S : <<x, y>> \in R <=> x < y
  BY <1>1
<1>3. Orders(R, S)
  <2>1. \A x, y \in S : x < y /\ y < x => FALSE
    OBVIOUS
  <2>2. \A x, y, z \in S : x < y /\ y < z => x < z
    OBVIOUS
  <2>3. \A x, y \in S : x # y => x < y \/ y < x
    OBVIOUS
  <2> QED BY <1>2, <2>1, <2>2, <2>3 DEF Orders
<1>4. \A x \in S : {y \in S : y < x} = Below(R, S, x)
  BY <1>2 DEF Below
<1>5. \A i \in 1 .. Cardinality(S) : \E x \in S : Cardinality({y \in S : y < x}) = i - 1
  <2>1. TAKE i \in 1 .. Cardinality(S)
  <2>a. IsFiniteSet(S) /\ Orders(R, S)
    BY <1>3
  <2>b. \A k \in 1 .. Cardinality(S) : \E x \in S : Cardinality(Below(R, S, x)) = k - 1
    BY <2>a, Places
  <2>2. PICK x \in S : Cardinality(Below(R, S, x)) = i - 1
    BY <2>b
  <2> QED BY <1>4, <2>2
<1>6. /\ order \in [1 .. Cardinality(S) -> S]
      /\ \A i \in 1 .. Cardinality(S) : Cardinality({y \in S : y < order[i]}) = i - 1
  BY <1>5 DEF Upwards, Ordered
<1>7. \A i \in 1 .. Cardinality(S) : Cardinality(Below(R, S, order[i])) = i - 1
  BY <1>4, <1>6
<1>a. order \in [1 .. Cardinality(S) -> S] /\ Orders(R, S)
  BY <1>3, <1>6
<1>b. Lists(order, S) /\ \A i, j \in 1 .. Len(order) : i < j => <<order[i], order[j]>> \in R
  BY <1>a, <1>7, Listed
<1>c. Cardinality(S) \in Nat
  BY FS_CardinalityType
<1>d. Len(order) = Cardinality(S)
  BY <1>a, <1>b, <1>c DEF Lists
<1>e. \A i \in 1 .. Len(order) : order[i] \in S
  BY <1>a, <1>d
<1> QED BY <1>2, <1>b, <1>d, <1>e

\* Induction along an interval, about a set.
LEMMA StaysIn ==
    ASSUME NEW n \in Nat, NEW U, NEW w, w[0] \in U,
           \A k \in 1 .. n : w[k - 1] \in U => w[k] \in U
    PROVE  \A k \in 0 .. n : w[k] \in U
<1>1. PICK bad : bad = {k \in 0 .. n : w[k] \notin U}
  OBVIOUS
<1>2. SUFFICES ASSUME bad # {} PROVE FALSE
  BY <1>1
<1>3. bad \in SUBSET Nat
  BY <1>1
<1>4. PICK k \in bad : \A j \in bad : k <= j
  BY <1>2, <1>3, Least
<1>5. k \in 1 .. n /\ k - 1 \in 0 .. n /\ w[k] \notin U
  BY <1>1, <1>4
<1>6. k - 1 \notin bad
  BY <1>4, <1>5
<1> QED BY <1>1, <1>5, <1>6

\* The steps T stay in U, and f takes m of them from s.
Closed(n, U, T) == \A k \in 1 .. n : \A v \in U : T[k][v] \in U
Iterates(f, m, U, s, T) ==
    /\ f \in [0 .. m -> U] /\ f[0] = s
    /\ \A k \in 1 .. m : f[k] = T[k][f[k - 1]]

\* A bounded recursion whose steps stay in a set has a solution there.
LEMMA Iterated ==
    ASSUME NEW n \in Nat, NEW U, NEW s \in U, NEW T, Closed(n, U, T)
    PROVE  \E f : Iterates(f, n, U, s, T)
<1> DEFINE Solves(f, m) == Iterates(f, m, U, s, T)
<1>1. PICK bad : bad = {m \in 0 .. n : ~\E f : Solves(f, m)}
  OBVIOUS
<1>2. bad = {}
  <2>1. SUFFICES ASSUME bad # {} PROVE FALSE
    OBVIOUS
  <2>2. bad \in SUBSET Nat
    BY <1>1
  <2>3. PICK m \in bad : \A k \in bad : m <= k
    BY <2>1, <2>2, Least
  <2>4. m \in 0 .. n /\ m \in Nat
    BY <1>1
  <2>5. CASE m = 0
    <3>1. PICK f : f = [k \in 0 .. 0 |-> s]
      OBVIOUS
    <3>2. Solves(f, 0)
      BY <3>1 DEF Iterates
    <3> QED BY <1>1, <2>5, <3>2
  <2>6. CASE m > 0
    <3>1. m - 1 \in 0 .. n /\ m - 1 \notin bad /\ m \in 1 .. n
      BY <2>3, <2>4, <2>6
    <3>2. PICK g : Solves(g, m - 1)
      BY <1>1, <3>1
    <3>3. PICK last : last = T[m][g[m - 1]]
      OBVIOUS
    <3>4. last \in U
      BY <2>4, <2>6, <3>1, <3>2, <3>3 DEF Closed, Iterates
    <3>5. PICK f : f = [k \in 0 .. m |-> IF k = m THEN last ELSE g[k]]
      OBVIOUS
    <3>6. \A k \in 0 .. m : k # m => f[k] = g[k] /\ f[k] \in U
      <4>1. \A k \in 0 .. m : k # m => k \in 0 .. (m - 1)
        BY <2>4
      <4> QED BY <3>2, <3>5, <4>1 DEF Iterates
    <3>7. f \in [0 .. m -> U] /\ f[0] = s
      BY <2>4, <2>6, <3>2, <3>4, <3>5, <3>6 DEF Iterates
    <3>8. ASSUME NEW k \in 1 .. m PROVE f[k] = T[k][f[k - 1]]
      <4>1. k - 1 \in 0 .. m /\ k - 1 # m
        BY <2>4
      <4>2. f[k - 1] = g[k - 1]
        BY <3>6, <4>1
      <4>3. CASE k = m
        BY <2>4, <3>3, <3>5, <4>2, <4>3
      <4>4. CASE k # m
        <5>1. k \in 1 .. (m - 1) /\ k \in 0 .. m
          BY <2>4, <4>4
        <5>2. g[k] = T[k][g[k - 1]] /\ f[k] = g[k]
          BY <3>2, <3>6, <4>4, <5>1 DEF Iterates
        <5> QED BY <4>2, <5>2
      <4> QED BY <4>3, <4>4
    <3>9. Solves(f, m)
      BY <3>7, <3>8 DEF Iterates
    <3> QED BY <1>1, <3>9
  <2> QED BY <2>4, <2>5, <2>6
<1>3. n \in 0 .. n
  OBVIOUS
<1> QED BY <1>1, <1>2, <1>3

-----------------------------------------------------------------------------
(* Graphs. *)

Edge(N) == [from : 1 .. N, out : Nat, to : 1 .. N, port : Nat]

\* What prepareGraph makes of a document that compiles and starts.
GraphOK(g) ==
    /\ g.nodes \in Seq(Node) /\ g.items \in Seq(Nat)
    /\ IsFiniteSet(g.active) /\ g.active \in SUBSET (1 .. Len(g.nodes))
    /\ IsFiniteSet(g.edges)
    /\ \A e \in g.edges : /\ e \in Edge(Len(g.nodes))
                          /\ e.from \in g.active /\ e.to \in g.active
                          /\ e.out \in 1 .. Outputs(g, e.from)
                          /\ IsItemEdge(e) => e.port <= ItemInputs[KindOf(g, e.to)]
                          /\ ~IsItemEdge(e) => /\ KindOf(g, e.from) = "model"
                                               /\ KindOf(g, e.to) = "agent"
    /\ \A n \in g.active : ItemInputs[KindOf(g, n)] # 0 => ItemIncoming(g, n) # {}

LEMMA NodeFacts ==
    ASSUME NEW g, GraphOK(g), NEW n \in g.active
    PROVE  /\ n \in Nat /\ n # 0 /\ g.nodes[n] \in Node /\ KindOf(g, n) \in Kind
           /\ Outputs(g, n) \in Nat
           /\ ItemInputs[KindOf(g, n)] \in 0 .. 2
           /\ KindOf(g, n) = "wait" => Outputs(g, n) \in 1 .. 2 /\ ItemInputs[KindOf(g, n)] = 1
<1>1. n \in 1 .. Len(g.nodes) /\ Len(g.nodes) \in Nat
  BY DEF GraphOK
<1>2. g.nodes[n] \in Node
  BY <1>1 DEF GraphOK
<1>3. KindOf(g, n) \in Kind
  BY <1>2 DEF KindOf, Node
<1>4. ErrorPorts(g, n) \in 0 .. 1
  BY DEF ErrorPorts
<1>5. \A k \in Kind : ItemInputs[k] \in 0 .. 2 /\ ItemOutputs[k] \in 0 .. 2
  BY DEF Kind, ItemInputs, ItemOutputs
<1>6. ItemInputs["wait"] = 1 /\ ItemOutputs["wait"] = 1
  BY DEF ItemInputs, ItemOutputs
<1>7. Outputs(g, n) \in Nat
  BY <1>3, <1>4, <1>5 DEF Outputs
<1>8. KindOf(g, n) = "wait" => Outputs(g, n) \in 1 .. 2
  BY <1>4, <1>6 DEF Outputs
<1> QED BY <1>1, <1>2, <1>3, <1>5, <1>6, <1>7, <1>8

\* The edges into a port are listed once each.
LEMMA SourcesAre ==
    ASSUME NEW g, GraphOK(g), NEW n, NEW p
    PROVE  Lists(Sources(g, n, p), {e \in ItemIncoming(g, n) : e.port = p})
<1>1. PICK S : S = {e \in ItemIncoming(g, n) : e.port = p}
  OBVIOUS
<1>2. PICK order : order = Sources(g, n, p)
  OBVIOUS
<1>3. PICK R : R = {x \in S \X S : \/ x[1].from < x[2].from
                                   \/ x[1].from = x[2].from /\ x[1].out < x[2].out}
  OBVIOUS
<1>4. S \in SUBSET g.edges
  BY <1>1 DEF ItemIncoming, Incoming
<1>5. IsFiniteSet(S)
  BY <1>4, FS_Subset DEF GraphOK
<1>6. \A d, e \in S : <<d, e>> \in R <=> (d.from < e.from \/ (d.from = e.from /\ d.out < e.out))
  BY <1>3
<1>7. Orders(R, S)
  <2>1. \A e \in S : e \in Edge(Len(g.nodes)) /\ e.to = n /\ e.port = p
    BY <1>1 DEF ItemIncoming, Incoming, GraphOK
  <2>2. \A e \in S : e.from \in Nat /\ e.out \in Nat
    BY <2>1 DEF Edge, GraphOK
  <2>3. \A d, e \in S : d.from = e.from /\ d.out = e.out => d = e
    BY <2>1 DEF Edge
  <2>4. \A x, y \in S : ~(<<x, y>> \in R /\ <<y, x>> \in R)
    <3>1. SUFFICES ASSUME NEW x \in S, NEW y \in S, <<x, y>> \in R, <<y, x>> \in R PROVE FALSE
      OBVIOUS
    <3>2. x.from < y.from \/ (x.from = y.from /\ x.out < y.out)
      BY <1>6, <3>1
    <3>3. y.from < x.from \/ (y.from = x.from /\ y.out < x.out)
      BY <1>6, <3>1
    <3>4. x.from \in Nat /\ y.from \in Nat /\ x.out \in Nat /\ y.out \in Nat
      BY <2>2
    <3> QED BY <3>2, <3>3, <3>4
  <2>5. \A x, y, z \in S : <<x, y>> \in R /\ <<y, z>> \in R => <<x, z>> \in R
    BY <1>6, <2>2
  <2>6. \A x, y \in S : x # y => <<x, y>> \in R \/ <<y, x>> \in R
    BY <1>6, <2>2, <2>3
  <2> QED BY <2>4, <2>5, <2>6 DEF Orders
<1>8. \A x \in S : {y \in S : y.from < x.from \/ (y.from = x.from /\ y.out < x.out)}
                      = Below(R, S, x)
  BY <1>6 DEF Below
<1>9. \A i \in 1 .. Cardinality(S) : \E x \in S :
         Cardinality({y \in S : y.from < x.from \/ (y.from = x.from /\ y.out < x.out)}) = i - 1
  <2>1. TAKE i \in 1 .. Cardinality(S)
  <2>2. \A k \in 1 .. Cardinality(S) : \E x \in S : Cardinality(Below(R, S, x)) = k - 1
    BY <1>5, <1>7, Places
  <2>3. PICK x \in S : Cardinality(Below(R, S, x)) = i - 1
    BY <2>2
  <2> QED BY <1>8, <2>3
<1>10. /\ order \in [1 .. Cardinality(S) -> S]
       /\ \A i \in 1 .. Cardinality(S) :
             Cardinality({y \in S : \/ y.from < order[i].from
                                    \/ y.from = order[i].from /\ y.out < order[i].out}) = i - 1
  BY <1>1, <1>2, <1>9 DEF Sources, Ordered
<1>11. \A i \in 1 .. Cardinality(S) : Cardinality(Below(R, S, order[i])) = i - 1
  BY <1>8, <1>10
<1>12. order \in [1 .. Cardinality(S) -> S]
  BY <1>10
<1>13. Lists(order, S)
  BY <1>5, <1>7, <1>11, <1>12, Listed
<1> QED BY <1>1, <1>2, <1>13

\* What a node's output feeds is listed once each.
LEMMA TargetsAre ==
    ASSUME NEW g, GraphOK(g), NEW edges \in SUBSET g.edges
    PROVE  Lists(Targets(edges), {e.to : e \in edges})
<1>1. PICK S : S = {e.to : e \in edges}
  OBVIOUS
<1>2. PICK order : order = Targets(edges)
  OBVIOUS
<1>3. PICK least : least = [t \in S |-> Min(OutputsTo(edges, t))]
  OBVIOUS
<1>4. \A t \in S : t \in Nat /\ least[t] \in Nat /\ least[t] = Min(OutputsTo(edges, t))
  <2>1. TAKE t \in S
  <2>2. PICK e \in edges : e.to = t
    BY <1>1
  <2>3. e \in Edge(Len(g.nodes)) /\ Len(g.nodes) \in Nat
    BY <2>2 DEF GraphOK
  <2>4. \A f \in edges : f.out \in Nat
    BY DEF GraphOK, Edge
  <2>5. OutputsTo(edges, t) \in SUBSET Nat /\ e.out \in OutputsTo(edges, t)
    BY <2>2, <2>4 DEF OutputsTo
  <2>6. Min(OutputsTo(edges, t)) \in Nat
    BY <2>5, MinIs
  <2> QED BY <1>3, <2>2, <2>3, <2>6 DEF Edge
<1>5. PICK R : R = {x \in S \X S : \/ least[x[1]] < least[x[2]]
                                   \/ least[x[1]] = least[x[2]] /\ x[1] < x[2]}
  OBVIOUS
<1>6. IsFiniteSet(S)
  <2>1. IsFiniteSet(g.active) /\ S \in SUBSET g.active
    BY <1>1 DEF GraphOK
  <2> QED BY <2>1, FS_Subset
<1>7. \A t, u \in S : <<t, u>> \in R <=> (least[t] < least[u] \/ (least[t] = least[u] /\ t < u))
  BY <1>5
<1>8. Orders(R, S)
  <2>1. \A x, y \in S : ~(<<x, y>> \in R /\ <<y, x>> \in R)
    <3>1. SUFFICES ASSUME NEW x \in S, NEW y \in S, <<x, y>> \in R, <<y, x>> \in R PROVE FALSE
      OBVIOUS
    <3>2. least[x] < least[y] \/ (least[x] = least[y] /\ x < y)
      BY <1>7, <3>1
    <3>3. least[y] < least[x] \/ (least[y] = least[x] /\ y < x)
      BY <1>7, <3>1
    <3> QED BY <1>4, <3>2, <3>3
  <2>2. \A x, y, z \in S : <<x, y>> \in R /\ <<y, z>> \in R => <<x, z>> \in R
    BY <1>4, <1>7
  <2>3. \A x, y \in S : x # y => <<x, y>> \in R \/ <<y, x>> \in R
    BY <1>4, <1>7
  <2> QED BY <2>1, <2>2, <2>3 DEF Orders
<1>9. \A t \in S : {y \in S : \/ Min(OutputsTo(edges, y)) < Min(OutputsTo(edges, t))
                              \/ Min(OutputsTo(edges, y)) = Min(OutputsTo(edges, t)) /\ y < t}
                      = Below(R, S, t)
  BY <1>4, <1>7 DEF Below
<1>10. \A i \in 1 .. Cardinality(S) : \E t \in S :
         Cardinality({y \in S : \/ Min(OutputsTo(edges, y)) < Min(OutputsTo(edges, t))
                                \/ Min(OutputsTo(edges, y)) = Min(OutputsTo(edges, t)) /\ y < t})
            = i - 1
  <2>1. TAKE i \in 1 .. Cardinality(S)
  <2>2. \A k \in 1 .. Cardinality(S) : \E x \in S : Cardinality(Below(R, S, x)) = k - 1
    BY <1>6, <1>8, Places
  <2>3. PICK t \in S : Cardinality(Below(R, S, t)) = i - 1
    BY <2>2
  <2> QED BY <1>9, <2>3
<1>11. /\ order \in [1 .. Cardinality(S) -> S]
       /\ \A i \in 1 .. Cardinality(S) :
             Cardinality({y \in S : \/ Min(OutputsTo(edges, y)) < Min(OutputsTo(edges, order[i]))
                                    \/ /\ Min(OutputsTo(edges, y)) = Min(OutputsTo(edges, order[i]))
                                       /\ y < order[i]}) = i - 1
  <2> DEFINE P(x, i) ==
         Cardinality({y \in S : \/ Min(OutputsTo(edges, y)) < Min(OutputsTo(edges, x))
                                \/ Min(OutputsTo(edges, y)) = Min(OutputsTo(edges, x)) /\ y < x})
            = i - 1
  <2>1. order = [i \in 1 .. Cardinality(S) |-> CHOOSE x \in S : P(x, i)]
    BY <1>1, <1>2 DEF Targets, Ordered
  <2>2. \A i \in 1 .. Cardinality(S) : \E x \in S : P(x, i)
    BY <1>10
  <2>3. /\ order \in [1 .. Cardinality(S) -> S]
        /\ \A i \in 1 .. Cardinality(S) : P(order[i], i)
    <3> HIDE DEF P
    <3> QED BY <2>1, <2>2
  <2> QED BY <2>3
<1>12. \A i \in 1 .. Cardinality(S) : Cardinality(Below(R, S, order[i])) = i - 1
  BY <1>9, <1>11
<1>13. order \in [1 .. Cardinality(S) -> S]
  BY <1>11
<1>14. Lists(order, S)
  BY <1>6, <1>8, <1>12, <1>13, Listed
<1> QED BY <1>1, <1>2, <1>14

\* The walk of ReachableFrom, step by step.
Walks(g, E, S, w) ==
    /\ ReachableFrom(g, E, S) = w[Len(g.nodes)] /\ w[0] = S
    /\ \A k \in 1 .. Len(g.nodes) :
          w[k] = w[k - 1] \cup {e.to : e \in {f \in E : f.from \in w[k - 1]}}

LEMMA Walked ==
    ASSUME NEW g, Len(g.nodes) \in Nat, NEW E, NEW S
    PROVE  \E w : Walks(g, E, S, w)
<1> DEFINE n == Len(g.nodes)
           Step(X) == X \cup {e.to : e \in {f \in E : f.from \in X}}
<1>1. PICK U : U = SUBSET (S \cup {e.to : e \in E})
  OBVIOUS
<1>2. S \in U
  BY <1>1
<1>3. \A X \in U : Step(X) \in U
  BY <1>1
<1>4. PICK T : T = [k \in 1 .. n |-> [X \in U |-> Step(X)]]
  OBVIOUS
<1>5. \A k \in 1 .. n : \A X \in U : T[k][X] = Step(X)
  BY <1>4
<1>6. Closed(n, U, T)
  BY <1>3, <1>5 DEF Closed
<1>7. PICK f : Iterates(f, n, U, S, T)
  BY <1>2, <1>6, Iterated
<1> DEFINE Body(h, k) == IF k = 0 THEN S ELSE Step(h[k - 1])
           Walk(h) == h = [k \in 0 .. n |-> Body(h, k)]
<1>8. Walk(f)
  <2>1. \A k \in 0 .. n : f[k] = Body(f, k)
    <3>1. TAKE k \in 0 .. n
    <3>2. CASE k = 0
      BY <1>7, <3>2 DEF Iterates
    <3>3. CASE k # 0
      <4>1. k \in 1 .. n /\ k - 1 \in 0 .. n
        BY <3>3
      <4>2. f[k] = T[k][f[k - 1]] /\ f[k - 1] \in U
        BY <1>7, <4>1 DEF Iterates
      <4> QED BY <1>5, <3>3, <4>1, <4>2
    <3> QED BY <3>2, <3>3
  <2> HIDE DEF Body
  <2> QED BY <1>7, <2>1 DEF Iterates
<1>9. PICK w : w = (CHOOSE h : Walk(h))
  OBVIOUS
<1>10. Walk(w)
  <2> HIDE DEF Walk
  <2> QED BY <1>8, <1>9
<1>11. ReachableFrom(g, E, S) = w[n]
  BY <1>9 DEF ReachableFrom
<1>12. w[0] = S
  BY <1>10
<1>13. \A k \in 1 .. n : w[k] = Step(w[k - 1])
  <2>1. TAKE k \in 1 .. n
  <2>2. k \in 0 .. n /\ k # 0
    OBVIOUS
  <2> HIDE DEF Step
  <2> QED BY <1>10, <2>2
<1> QED BY <1>11, <1>12, <1>13 DEF Walks

\* A node the walk reaches was there at the start or has an edge from one it reaches.
LEMMA ReachedFrom ==
    ASSUME NEW g, Len(g.nodes) \in Nat, NEW E, NEW S
    PROVE  LET W == ReachableFrom(g, E, S)
           IN  /\ S \subseteq W /\ W \subseteq S \cup {e.to : e \in E}
               /\ \A m \in W : m \in S \/ \E e \in E : e.to = m /\ e.from \in W
<1> DEFINE n == Len(g.nodes)
           Step(X) == X \cup {e.to : e \in {f \in E : f.from \in X}}
           Good(X) == \A m \in X : m \in S \/ \E e \in E : e.to = m /\ e.from \in X
<1>1. PICK U : U = {X \in SUBSET (S \cup {e.to : e \in E}) : S \subseteq X /\ Good(X)}
  OBVIOUS
<1>2. S \in U
  BY <1>1
<1>3. \A X \in U : Step(X) \in U
  <2>1. TAKE X \in U
  <2>2. Step(X) \in SUBSET (S \cup {e.to : e \in E}) /\ S \subseteq Step(X)
    BY <1>1
  <2>3. Good(Step(X))
    <3>1. SUFFICES ASSUME NEW m \in Step(X), m \notin S
                   PROVE  \E e \in E : e.to = m /\ e.from \in Step(X)
      OBVIOUS
    <3>2. CASE m \in X
      BY <1>1, <3>1, <3>2
    <3>3. CASE m \notin X
      BY <3>1, <3>3
    <3> QED BY <3>2, <3>3
  <2> HIDE DEF Good, Step
  <2> QED BY <1>1, <2>2, <2>3
<1>4. PICK w : Walks(g, E, S, w)
  BY Walked
<1> HIDE DEF Good
<1>5. w[0] \in U /\ \A k \in 1 .. n : w[k - 1] \in U => w[k] \in U
  <2>1. \A k \in 1 .. n : w[k] = Step(w[k - 1])
    BY <1>4 DEF Walks
  <2>2. w[0] = S
    BY <1>4 DEF Walks
  <2> HIDE DEF Step
  <2> QED BY <1>2, <1>3, <2>1, <2>2
<1>6. w[n] \in U
  <2>1. \A k \in 0 .. n : w[k] \in U
    BY <1>5, StaysIn
  <2> QED BY <2>1
<1> QED BY <1>1, <1>4, <1>6 DEF Good, Walks

\* The walk back adds only nodes that configure one it has reached.
LEMMA ProvidersOf ==
    ASSUME NEW g, Len(g.nodes) \in Nat, NEW S
    PROVE  LET W == WithProviders(g, S)
           IN  /\ S \subseteq W /\ W \subseteq S \cup {e.from : e \in g.edges}
               /\ \A m \in W : m \in S \/ \E e \in g.edges : ~IsItemEdge(e) /\ e.from = m /\ e.to \in W
<1> DEFINE n == Len(g.nodes)
           Step(X) == X \cup {e.from : e \in {f \in g.edges : ~IsItemEdge(f) /\ f.to \in X}}
           Good(X) == \A m \in X : m \in S \/ \E e \in g.edges : ~IsItemEdge(e) /\ e.from = m /\ e.to \in X
<1>1. PICK U : U = {X \in SUBSET (S \cup {e.from : e \in g.edges}) : S \subseteq X /\ Good(X)}
  OBVIOUS
<1>2. S \in U
  BY <1>1
<1>3. \A X \in U : Step(X) \in U
  <2>1. TAKE X \in U
  <2>2. Step(X) \in SUBSET (S \cup {e.from : e \in g.edges}) /\ S \subseteq Step(X)
    BY <1>1
  <2>3. Good(Step(X))
    <3>1. SUFFICES ASSUME NEW m \in Step(X), m \notin S
                   PROVE  \E e \in g.edges : ~IsItemEdge(e) /\ e.from = m /\ e.to \in Step(X)
      OBVIOUS
    <3>2. CASE m \in X
      BY <1>1, <3>1, <3>2
    <3>3. CASE m \notin X
      BY <3>1, <3>3
    <3> QED BY <3>2, <3>3
  <2> HIDE DEF Good, Step
  <2> QED BY <1>1, <2>2, <2>3
<1>4. PICK T : T = [k \in 1 .. n |-> [X \in U |-> Step(X)]]
  OBVIOUS
<1> HIDE DEF Good
<1>5. \A k \in 1 .. n : \A X \in U : T[k][X] = Step(X)
  BY <1>4
<1>6. Closed(n, U, T)
  BY <1>3, <1>5 DEF Closed
<1>7. PICK f : Iterates(f, n, U, S, T)
  BY <1>2, <1>6, Iterated
<1> DEFINE Body(h, k) == IF k = 0 THEN S ELSE Step(h[k - 1])
           Walk(h) == h = [k \in 0 .. n |-> Body(h, k)]
<1>8. Walk(f)
  <2>1. \A k \in 0 .. n : f[k] = Body(f, k)
    <3>1. TAKE k \in 0 .. n
    <3>2. CASE k = 0
      BY <1>7, <3>2 DEF Iterates
    <3>3. CASE k # 0
      <4>1. k \in 1 .. n /\ k - 1 \in 0 .. n
        BY <3>3
      <4>2. f[k] = T[k][f[k - 1]] /\ f[k - 1] \in U
        BY <1>7, <4>1 DEF Iterates
      <4> QED BY <1>5, <3>3, <4>1, <4>2
    <3> QED BY <3>2, <3>3
  <2> HIDE DEF Body
  <2> QED BY <1>7, <2>1 DEF Iterates
<1>9. PICK w : w = (CHOOSE h : Walk(h))
  OBVIOUS
<1>10. Walk(w)
  <2> HIDE DEF Walk
  <2> QED BY <1>8, <1>9
<1>11. WithProviders(g, S) = w[n]
  BY <1>9 DEF WithProviders
<1>12. w[0] \in U /\ \A k \in 1 .. n : w[k - 1] \in U => w[k] \in U
  <2>1. w[0] = S
    BY <1>10
  <2>2. \A k \in 1 .. n : w[k] = Step(w[k - 1])
    <3>1. TAKE k \in 1 .. n
    <3>2. k \in 0 .. n /\ k # 0
      OBVIOUS
    <3> HIDE DEF Step
    <3> QED BY <1>10, <3>2
  <2> HIDE DEF Step
  <2> QED BY <1>2, <1>3, <2>1, <2>2
<1>13. w[n] \in U
  <2>1. \A k \in 0 .. n : w[k] \in U
    BY <1>12, StaysIn
  <2> QED BY <2>1
<1> QED BY <1>1, <1>11, <1>13 DEF Good

\* prepareGraph, of a document that compiles and may start from the node it names.
LEMMA Prepared ==
    ASSUME NEW d \in Graph, Compiles(d), Starts(d)
    PROVE  GraphOK(PrepareGraph(d))
<1> DEFINE g == PrepareGraph(d)
           N == 1 .. Len(d.nodes)
<1>1. /\ d.nodes \in Seq(Node) /\ d.items \in Seq(Nat) /\ d.trigger \in 0 .. Len(d.nodes)
      /\ IsFiniteSet(d.edges) /\ \A e \in d.edges : e \in Edge(Len(d.nodes))
  BY Documents DEF Edge
<1>2. Len(d.nodes) \in Nat /\ DOMAIN d.nodes = N
  BY <1>1
<1>3. /\ g.nodes = d.nodes /\ g.items = d.items /\ g.active = ActiveNodes(d)
      /\ g.edges = {e \in d.edges : {e.from, e.to} \subseteq ActiveNodes(d)}
  BY DEF PrepareGraph
<1>4. \A n : KindOf(g, n) = KindOf(d, n) /\ Outputs(g, n) = Outputs(d, n)
  BY <1>3 DEF KindOf, Outputs, ErrorPorts
<1>5. \A e \in d.edges : Resolves(d, e) /\ e.from \in N /\ e.to \in N
  BY <1>1 DEF Compiles, Edge
<1>6. \A n \in N : ItemInputs[KindOf(d, n)] # 0 => \E e \in d.edges : e.to = n /\ e.port = 1
  <2>1. TAKE n \in N
  <2>2. HAVE ItemInputs[KindOf(d, n)] # 0
  <2>3. KindOf(d, n) \in Kind
    <3>1. d.nodes[n] \in Node
      BY <1>1, <1>2
    <3> QED BY <3>1 DEF KindOf, Node
  <2>4. ItemInputs[KindOf(d, n)] \in Nat
    BY <2>3 DEF Kind, ItemInputs
  <2>5. 1 \in 1 .. ItemInputs[KindOf(d, n)]
    BY <2>2, <2>4
  <2> QED BY <1>2, <2>5 DEF Compiles, IsExecutable
<1>7. ActiveNodes(d) \in SUBSET N
      /\ \A n \in ActiveNodes(d) : ItemInputs[KindOf(d, n)] # 0 =>
            \E e \in d.edges : e.to = n /\ IsItemEdge(e) /\ e.from \in ActiveNodes(d)
  <2>1. CASE d.trigger = 0
    <3>1. ActiveNodes(d) = N
      BY <1>2, <2>1 DEF ActiveNodes
    <3> QED BY <1>5, <1>6, <3>1 DEF IsItemEdge, Attachment
  <2>2. CASE d.trigger # 0
    <3>1. PICK E : E = {e \in d.edges : IsItemEdge(e)}
      OBVIOUS
    <3>2. PICK R : R = ReachableFrom(d, E, {d.trigger})
      OBVIOUS
    <3>3. PICK W : W = WithProviders(d, R)
      OBVIOUS
    <3>4. ActiveNodes(d) = W
      BY <2>2, <3>1, <3>2, <3>3 DEF ActiveNodes
    <3>5. /\ R \subseteq {d.trigger} \cup {e.to : e \in E}
          /\ \A m \in R : m = d.trigger \/ \E e \in E : e.to = m /\ e.from \in R
      BY <1>2, <3>2, ReachedFrom
    <3>6. /\ R \subseteq W /\ W \subseteq R \cup {e.from : e \in d.edges}
          /\ \A m \in W : m \in R \/ \E e \in d.edges : ~IsItemEdge(e) /\ e.from = m /\ e.to \in W
      BY <1>2, <3>3, ProvidersOf
    <3>7. d.trigger \in N
      BY <1>1, <2>2
    <3>8. W \in SUBSET N
      BY <1>5, <3>1, <3>5, <3>6, <3>7
    <3>9. ASSUME NEW n \in W, ItemInputs[KindOf(d, n)] # 0
          PROVE  \E e \in d.edges : e.to = n /\ IsItemEdge(e) /\ e.from \in W
      <4>1. \A e \in d.edges : ~IsItemEdge(e) => KindOf(d, e.from) = "model"
        BY <1>5 DEF Resolves
      <4>2. n \in R
        <5>1. KindOf(d, n) # "model"
          BY <3>9 DEF ItemInputs
        <5> QED BY <3>6, <4>1, <5>1
      <4>3. n # d.trigger
        <5>1. PICK e \in d.edges : e.to = n
          BY <1>6, <3>8, <3>9
        <5> QED BY <2>2, <5>1 DEF Starts, IsUnfed
      <4>4. PICK e \in E : e.to = n /\ e.from \in R
        BY <3>5, <4>2, <4>3
      <4> QED BY <3>1, <3>6, <4>4
    <3> QED BY <3>4, <3>8, <3>9
  <2> QED BY <2>1, <2>2
<1>8. IsFiniteSet(g.active) /\ g.active \in SUBSET (1 .. Len(g.nodes))
  <2>1. IsFiniteSet(N)
    BY <1>2, FS_Interval
  <2> QED BY <1>3, <1>7, <2>1, FS_Subset
<1>9. IsFiniteSet(g.edges)
  BY <1>1, <1>3, FS_Subset
<1>10. ASSUME NEW e \in g.edges
       PROVE  /\ e \in Edge(Len(g.nodes))
              /\ e.from \in g.active /\ e.to \in g.active
              /\ e.out \in 1 .. Outputs(g, e.from)
              /\ IsItemEdge(e) => e.port <= ItemInputs[KindOf(g, e.to)]
              /\ ~IsItemEdge(e) => KindOf(g, e.from) = "model" /\ KindOf(g, e.to) = "agent"
  <2>1. e \in d.edges /\ e.from \in g.active /\ e.to \in g.active
    BY <1>3
  <2>2. e \in Edge(Len(g.nodes))
    BY <1>1, <1>3, <2>1
  <2>3. Resolves(d, e)
    BY <1>5, <2>1
  <2>4. /\ e.out \in 1 .. Outputs(g, e.from)
        /\ IsItemEdge(e) => e.port <= ItemInputs[KindOf(g, e.to)]
        /\ ~IsItemEdge(e) => KindOf(g, e.from) = "model" /\ KindOf(g, e.to) = "agent"
    BY <1>4, <2>3 DEF Resolves
  <2> QED BY <2>1, <2>2, <2>4
<1>11. ASSUME NEW n \in g.active, ItemInputs[KindOf(g, n)] # 0 PROVE ItemIncoming(g, n) # {}
  <2>1. PICK e \in d.edges : e.to = n /\ IsItemEdge(e) /\ e.from \in ActiveNodes(d)
    BY <1>3, <1>4, <1>7, <1>11
  <2>2. e \in g.edges
    BY <1>3, <1>11, <2>1
  <2> QED BY <2>1, <2>2 DEF ItemIncoming, Incoming
<1>12. g.nodes \in Seq(Node) /\ g.items \in Seq(Nat)
  BY <1>1, <1>3
<1>13. GraphOK(g)
  <2> HIDE DEF g
  <2> QED BY <1>8, <1>9, <1>10, <1>11, <1>12 DEF GraphOK
<1> QED BY <1>13

-----------------------------------------------------------------------------
(* The shape of a run. *)

Stream == Seq(Nat)
Input == [1 .. 2 -> Stream]
OutputOf(g, n) == [1 .. Outputs(g, n) -> Stream]
LoopState == [on : BOOLEAN, pending : Stream, collected : Stream, iteration : Nat]
RowOf(g) == [node : g.active, input : Seq(Stream), output : Seq(Stream),
             what : {"ran", "skipped", "failed", "unreached"}]
Call(g) == [node : g.active, input : Input, skipped : BOOLEAN]

\* An entry of the stack is skipped exactly when what it delivers shows it.
Entry(g) == {inv \in Call(g) : inv.input[2] = <<>> /\ inv.skipped = DeliveredNothing(g, inv)}

RunOK(g, run) ==
    /\ run = [status |-> run.status, pending |-> run.pending, completed |-> run.completed,
              loops |-> run.loops, rows |-> run.rows]
    /\ run.status \in {"running", "succeeded", "failed"}
    /\ run.pending \in Seq(Entry(g))
    /\ DOMAIN run.completed \in SUBSET g.active
    /\ \A n \in DOMAIN run.completed : run.completed[n] \in OutputOf(g, n)
    /\ run.loops \in [g.active -> LoopState]
    /\ run.rows \in Seq(RowOf(g))

-----------------------------------------------------------------------------
(* Streams. *)

\* Sequences run together are one, and not an empty one if one of them is not.
LEMMA Flattened ==
    ASSUME NEW S, NEW seqs \in Seq(Seq(S))
    PROVE  /\ FlattenSeq(seqs) \in Seq(S)
           /\ (\E i \in DOMAIN seqs : seqs[i] # <<>>) => FlattenSeq(seqs) # <<>>
<1>1. PICK n : n = Len(seqs)
  OBVIOUS
<1>2. n \in Nat /\ DOMAIN seqs = 1 .. n /\ \A k \in 1 .. n : seqs[k] \in Seq(S)
  BY <1>1
<1>3. CASE n = 0
  <2>1. seqs = <<>>
    BY <1>1, <1>2, <1>3
  <2>2. FlattenSeq(seqs) = seqs
    BY <1>1, <1>3 DEF FlattenSeq
  <2>3. FlattenSeq(seqs) \in Seq(S)
    <3>1. <<>> \in Seq(S)
      OBVIOUS
    <3> QED BY <2>1, <2>2, <3>1, Zenon
  <2>4. DOMAIN seqs = {}
    BY <1>2, <1>3
  <2> QED BY <2>3, <2>4
<1>4. CASE n # 0
  <2>1. PICK T : T = [k \in 1 .. n |-> [v \in Seq(S) |-> v \o seqs[k]]]
    OBVIOUS
  <2>2. \A k \in 1 .. n : \A v \in Seq(S) : T[k][v] = v \o seqs[k] /\ T[k][v] \in Seq(S)
    BY <1>2, <2>1
  <2>3. Closed(n, Seq(S), T)
    BY <2>2 DEF Closed
  <2>4. PICK f : Iterates(f, n, Seq(S), <<>>, T)
    <3>1. <<>> \in Seq(S)
      OBVIOUS
    <3> QED BY <1>2, <2>3, <3>1, Iterated
  <2> DEFINE Body(h, k) == IF k = 1 THEN seqs[k] ELSE h[k - 1] \o seqs[k]
             Walk(h) == h = [k \in 1 .. Len(seqs) |-> Body(h, k)]
  <2>5. PICK h : h = [k \in 1 .. Len(seqs) |-> f[k]]
    OBVIOUS
  <2>6. Walk(h)
    <3>1. ASSUME NEW k \in 1 .. n PROVE h[k] = Body(h, k)
      <4>1. h[k] = f[k] /\ k - 1 \in 0 .. n /\ f[k - 1] \in Seq(S)
        <5>1. f \in [0 .. n -> Seq(S)] /\ k - 1 \in 0 .. n
          BY <1>2, <2>4 DEF Iterates
        <5>2. h[k] = f[k]
          BY <1>1, <2>5
        <5> QED BY <5>1, <5>2
      <4>2. f[k] = f[k - 1] \o seqs[k]
        BY <2>2, <2>4, <4>1 DEF Iterates
      <4>3. CASE k = 1
        <5>1. f[k - 1] = <<>>
          BY <2>4, <4>3 DEF Iterates
        <5>2. <<>> \o seqs[k] = seqs[k]
          BY <1>2
        <5> QED BY <4>1, <4>2, <4>3, <5>1, <5>2
      <4>4. CASE k # 1
        <5>1. k - 1 \in 1 .. n
          BY <1>2, <4>4
        <5>2. h[k - 1] = f[k - 1]
          BY <1>1, <2>5, <5>1
        <5> QED BY <4>1, <4>2, <4>4, <5>2
      <4> QED BY <4>3, <4>4
    <3> HIDE DEF Body
    <3> QED BY <1>1, <2>5, <3>1
  <2>7. PICK w : w = (CHOOSE g : Walk(g))
    OBVIOUS
  <2>8. Walk(w)
    <3> HIDE DEF Walk
    <3> QED BY <2>6, <2>7
  <2>9. FlattenSeq(seqs) = w[n]
    BY <1>1, <1>4, <2>7 DEF FlattenSeq
  <2>10. w[1] = seqs[1] /\ \A k \in 1 .. n : k # 1 => w[k] = w[k - 1] \o seqs[k]
    <3>1. w = [k \in 1 .. n |-> Body(w, k)]
      BY <1>1, <2>8
    <3>2. \A k \in 1 .. n : w[k] = Body(w, k)
      <4> HIDE DEF Body
      <4> QED BY <3>1
    <3>3. 1 \in 1 .. n
      BY <1>2, <1>4
    <3> QED BY <3>2, <3>3
  <2> DEFINE Good(k) == w[k] \in Seq(S) /\ ((\E i \in 1 .. k : seqs[i] # <<>>) => w[k] # <<>>)
  <2>11. PICK good : good = [k \in 0 .. n |-> IF k = 0 \/ Good(k) THEN 1 ELSE 0]
    OBVIOUS
  <2>U. PICK U : U = {1}
    OBVIOUS
  <2>12. ASSUME NEW k \in 1 .. n, good[k - 1] \in U PROVE good[k] \in U
    <3>1. k - 1 \in 0 .. n /\ k \in 0 .. n /\ k # 0
      BY <1>2
    <3>2. CASE k = 1
      <4>1. Good(k)
        BY <1>2, <2>10, <3>2
      <4> QED BY <2>U, <2>11, <3>1, <4>1
    <3>3. CASE k # 1
      <4>1. k - 1 # 0
        BY <3>3
      <4>2. Good(k - 1)
        BY <2>U, <2>11, <2>12, <3>1, <4>1
      <4>3. w[k] = w[k - 1] \o seqs[k] /\ seqs[k] \in Seq(S)
        BY <1>2, <2>10, <3>3
      <4>4. w[k] \in Seq(S)
        BY <4>2, <4>3
      <4>5. ASSUME NEW i \in 1 .. k, seqs[i] # <<>> PROVE w[k] # <<>>
        <5>1. CASE i = k
          BY <4>2, <4>3, <4>5, <5>1
        <5>2. CASE i # k
          <6>1. i \in 1 .. (k - 1)
            BY <5>2
          <6>2. w[k - 1] # <<>>
            BY <4>2, <4>5, <6>1
          <6> QED BY <4>2, <4>3, <6>2
        <5> QED BY <5>1, <5>2
      <4>6. Good(k)
        BY <4>4, <4>5
      <4> QED BY <2>U, <2>11, <3>1, <4>6
    <3> QED BY <3>2, <3>3
  <2>13. good[0] \in U
    <3>1. good[0] = 1
      <4> HIDE DEF Good
      <4> QED BY <1>2, <2>11
    <3> HIDE DEF Good
    <3> QED BY <2>U, <3>1
  <2>14. \A k \in 0 .. n : good[k] \in U
    <3>1. \A k \in 1 .. n : good[k - 1] \in U => good[k] \in U
      BY <2>12
    <3> HIDE DEF Good
    <3> QED BY <1>2, <2>13, <3>1, StaysIn
  <2>15. Good(n)
    <3>1. n \in 0 .. n
      BY <1>2
    <3>2. good[n] = 1
      BY <2>U, <2>14, <3>1
    <3> HIDE DEF Good
    <3> QED BY <1>4, <2>11, <3>1, <3>2
  <2> QED BY <1>2, <2>9, <2>15
<1> QED BY <1>3, <1>4

LEMMA OnlyIs ==
    ASSUME NEW items \in Stream
    PROVE  Only(items, IsOdd) \in Stream /\ Only(items, LAMBDA x : ~IsOdd(x)) \in Stream
<1>1. PICK odd : odd = [i \in DOMAIN items |-> IF IsOdd(items[i]) THEN <<items[i]>> ELSE <<>>]
  OBVIOUS
<1>2. PICK even : even = [i \in DOMAIN items |-> IF ~IsOdd(items[i]) THEN <<items[i]>> ELSE <<>>]
  OBVIOUS
<1>3. \A i \in DOMAIN items : items[i] \in Nat /\ <<items[i]>> \in Seq(Nat) /\ <<>> \in Seq(Nat)
  BY DEF Stream
<1>4. DOMAIN items = 1 .. Len(items) /\ Len(items) \in Nat
  BY DEF Stream
<1>5. odd \in Seq(Seq(Nat)) /\ even \in Seq(Seq(Nat))
  BY <1>1, <1>2, <1>3, <1>4
<1>6. FlattenSeq(odd) \in Seq(Nat) /\ FlattenSeq(even) \in Seq(Nat)
  BY <1>5, Flattened
<1>7. Only(items, IsOdd) = FlattenSeq(odd)
  BY <1>1 DEF Only
<1>8. Only(items, LAMBDA x : ~IsOdd(x)) = FlattenSeq(even)
  BY <1>2 DEF Only
<1> QED BY <1>6, <1>7, <1>8 DEF Stream

LEMMA OutputShapes ==
    ASSUME NEW g, GraphOK(g), NEW n \in g.active
    PROVE  /\ NoOutput(g, n) \in OutputOf(g, n)
           /\ \A output \in Seq(Stream) : WithErrorPort(g, n, output) \in OutputOf(g, n)
           /\ \A items \in Stream : PassedThrough(g, n, items) \in OutputOf(g, n)
           /\ \A output \in OutputOf(g, n) : /\ output \in Seq(Stream)
                                             /\ WithEmptyItem(g, n, output) \in OutputOf(g, n)
<1>1. Outputs(g, n) \in Nat
  BY NodeFacts
<1>2. <<>> \in Stream /\ <<EmptyItem>> \in Stream
  BY DEF Stream, EmptyItem
<1>3. NoOutput(g, n) \in OutputOf(g, n)
  BY <1>2 DEF NoOutput, OutputOf
<1>4. \A output \in Seq(Stream) : WithErrorPort(g, n, output) \in OutputOf(g, n)
  BY <1>2 DEF WithErrorPort, OutputOf
<1>5. \A items \in Stream : PassedThrough(g, n, items) \in OutputOf(g, n)
  BY <1>2 DEF PassedThrough, OutputOf
<1>6. ASSUME NEW output \in OutputOf(g, n)
      PROVE  output \in Seq(Stream) /\ WithEmptyItem(g, n, output) \in OutputOf(g, n)
  <2>1. output \in Seq(Stream)
    BY <1>1 DEF OutputOf
  <2>2. [output EXCEPT ![1] = <<EmptyItem>>] \in OutputOf(g, n)
    BY <1>2 DEF OutputOf
  <2> QED BY <2>1, <2>2 DEF WithEmptyItem
<1> QED BY <1>3, <1>4, <1>5, <1>6

\* What a call returns: streams for the ports, and the loop's next state.
LEMMA ExecuteIs ==
    ASSUME NEW g, GraphOK(g), NEW n \in g.active, NEW run, run.loops[n] \in LoopState,
           NEW input \in Input
    PROVE  LET ran == Execute(g, run, n, input)
           IN  /\ ran.failed \in BOOLEAN /\ ran.output \in Seq(Stream) /\ ran.loop \in LoopState
               /\ KindOf(g, n) = "wait" =>
                     ran = [failed |-> WaitFails(input), output |-> <<input[1]>>,
                            loop |-> run.loops[n]]
<1>1. PICK loop \in LoopState : loop = run.loops[n]
  OBVIOUS
<1>2. PICK first \in Stream : first = input[1]
  BY DEF Input
<1>3. PICK second \in Stream : second = input[2]
  BY DEF Input
<1>4. PICK kind \in Kind : kind = KindOf(g, n)
  BY NodeFacts
<1>5. PICK ran : ran = Execute(g, run, n, input)
  OBVIOUS
<1> DEFINE Returns(output) == [failed |-> FALSE, output |-> output, loop |-> loop]
           Good(r) == r.failed \in BOOLEAN /\ r.output \in Seq(Stream) /\ r.loop \in LoopState
<1>6. \A output \in Seq(Stream) : Good(Returns(output))
  OBVIOUS
<1>7. CASE kind = "trigger"
  <2>1. ran = Returns(<<g.items>>)
    BY <1>1, <1>4, <1>5, <1>7 DEF Execute
  <2>2. <<g.items>> \in Seq(Stream)
    BY DEF GraphOK, Stream
  <2> QED BY <1>4, <1>5, <1>6, <1>7, <2>1, <2>2
<1>8. CASE kind = "model"
  <2>1. ran = Returns(<<<<EmptyItem>>>>)
    BY <1>1, <1>4, <1>5, <1>8 DEF Execute
  <2>2. <<<<EmptyItem>>>> \in Seq(Stream)
    BY DEF EmptyItem, Stream
  <2> QED BY <1>4, <1>5, <1>6, <1>8, <2>1, <2>2
<1>9. CASE kind = "if"
  <2>1. PICK odd \in Stream : odd = Only(first, IsOdd)
    BY OnlyIs
  <2>2. PICK even \in Stream : even = Only(first, LAMBDA x : ~IsOdd(x))
    BY OnlyIs
  <2>3. ran = Returns(<<odd, even>>)
    BY <1>1, <1>2, <1>4, <1>5, <1>9, <2>1, <2>2 DEF Execute
  <2>4. <<odd, even>> \in Seq(Stream)
    OBVIOUS
  <2> QED BY <1>4, <1>5, <1>6, <1>9, <2>3, <2>4
<1>10. CASE kind = "merge"
  <2>1. ran = Returns(<<first \o second>>)
    BY <1>1, <1>2, <1>3, <1>4, <1>5, <1>10 DEF Execute
  <2>2. <<first \o second>> \in Seq(Stream)
    BY DEF Stream
  <2> QED BY <1>4, <1>5, <1>6, <1>10, <2>1, <2>2
<1>11. CASE kind = "loop"
  <2>1. ran = ExecuteLoop(loop, first)
    BY <1>1, <1>2, <1>4, <1>5, <1>11 DEF Execute
  <2>2. PICK now : now = IF loop.on THEN [loop EXCEPT !.collected = @ \o first]
                         ELSE [NewLoop EXCEPT !.pending = first]
    OBVIOUS
  <2>3. NewLoop \in LoopState
    BY DEF NewLoop, LoopState, Stream
  <2>4. now \in LoopState
    <3>1. [loop EXCEPT !.collected = @ \o first] \in LoopState
      <4>1. loop.collected \in Seq(Nat) /\ first \in Seq(Nat)
        BY DEF LoopState, Stream
      <4>2. PICK more \in Stream : more = loop.collected \o first
        <5>1. loop.collected \o first \in Seq(Nat)
          BY <4>1, ConcatProperties
        <5> QED BY <5>1 DEF Stream
      <4>3. [loop EXCEPT !.collected = more] \in LoopState
        BY DEF LoopState
      <4> QED BY <4>2, <4>3
    <3>2. [NewLoop EXCEPT !.pending = first] \in LoopState
      BY <2>3 DEF LoopState
    <3> QED BY <2>2, <3>1, <3>2
  <2>5. PICK size : size = Min({Batch, Len(now.pending)})
    OBVIOUS
  <2>6. now.pending \in Seq(Nat) /\ Len(now.pending) \in Nat /\ now.collected \in Stream
    BY <2>4 DEF LoopState, Stream
  <2>7. size \in 0 .. Len(now.pending)
    <3>1. PICK two : two = {Batch, Len(now.pending)}
      OBVIOUS
    <3>2. two \in SUBSET Nat /\ two # {} /\ Len(now.pending) \in two
      BY <2>6, <3>1, RunnerBounds
    <3>3. Min(two) \in two /\ \A x \in two : Min(two) <= x
      BY <3>2, MinIs
    <3>4. size = Min(two)
      BY <2>5, <3>1
    <3>5. size \in Nat /\ size <= Len(now.pending)
      BY <3>2, <3>3, <3>4
    <3> QED BY <2>6, <3>5
  <2>8. PICK batch \in Stream : batch = SubSeq(now.pending, 1, size)
    <3>1. \A i \in 1 .. size : now.pending[i] \in Nat
      BY <2>6, <2>7
    <3>2. SubSeq(now.pending, 1, size) \in Seq(Nat)
      BY <2>6, <2>7, <3>1
    <3> QED BY <3>2 DEF Stream
  <2>9. PICK rest \in Stream : rest = SubSeq(now.pending, size + 1, Len(now.pending))
    <3>1. \A i \in (size + 1) .. Len(now.pending) : now.pending[i] \in Nat
      BY <2>6, <2>7
    <3>2. SubSeq(now.pending, size + 1, Len(now.pending)) \in Seq(Nat)
      BY <2>6, <2>7, <3>1
    <3> QED BY <3>2 DEF Stream
  <2>10. \/ ran = [failed |-> FALSE, output |-> <<now.collected, <<>>>>, loop |-> NewLoop]
         \/ ran = [failed |-> TRUE, output |-> NoInput, loop |-> loop]
         \/ ran = [failed |-> FALSE, output |-> <<<<>>, batch>>,
                   loop |-> [on |-> TRUE, iteration |-> now.iteration + 1, pending |-> rest,
                             collected |-> now.collected]]
    BY <2>1, <2>2, <2>5, <2>8, <2>9 DEF ExecuteLoop
  <2>11. /\ <<now.collected, <<>>>> \in Seq(Stream) /\ NoInput \in Seq(Stream)
         /\ <<<<>>, batch>> \in Seq(Stream)
    BY <2>6 DEF NoInput, Stream
  <2>12. [on |-> TRUE, iteration |-> now.iteration + 1, pending |-> rest,
          collected |-> now.collected] \in LoopState
    BY <2>4 DEF LoopState
  <2>13. Good(ran)
    <3>1. CASE ran = [failed |-> FALSE, output |-> <<now.collected, <<>>>>, loop |-> NewLoop]
      BY <2>3, <2>11, <3>1
    <3>2. CASE ran = [failed |-> TRUE, output |-> NoInput, loop |-> loop]
      BY <2>11, <3>2
    <3>3. PICK next \in LoopState :
            next = [on |-> TRUE, iteration |-> now.iteration + 1, pending |-> rest,
                    collected |-> now.collected]
      BY <2>12
    <3>4. CASE ran = [failed |-> FALSE, output |-> <<<<>>, batch>>, loop |-> next]
      BY <2>11, <3>4
    <3> QED BY <2>10, <3>1, <3>2, <3>3, <3>4
  <2> QED BY <1>4, <1>5, <1>11, <2>13
<1>12. CASE kind = "flaky"
  <2>1. ran = [Returns(<<first>>) EXCEPT !.failed = \E i \in DOMAIN first : IsOdd(first[i])]
    BY <1>1, <1>2, <1>4, <1>5, <1>12 DEF Execute
  <2>2. <<first>> \in Seq(Stream)
    OBVIOUS
  <2> QED BY <1>4, <1>5, <1>12, <2>1, <2>2
<1>w. CASE kind = "wait"
  <2>1. PICK fails \in BOOLEAN : fails = WaitFails(input)
    <3>1. WaitFails(input) \in BOOLEAN
      BY DEF WaitFails
    <3> QED BY <3>1, Zenon
  <2>2. ran = [Returns(<<first>>) EXCEPT !.failed = fails]
    BY <1>1, <1>2, <1>4, <1>5, <1>w, <2>1 DEF Execute
  <2>3. ran = [failed |-> fails, output |-> <<first>>, loop |-> loop]
    BY <2>2
  <2>4. <<first>> \in Seq(Stream)
    OBVIOUS
  <2> QED BY <1>1, <1>2, <1>4, <1>5, <1>w, <2>1, <2>3, <2>4
<1>13. CASE kind \notin {"trigger", "model", "if", "merge", "loop", "flaky", "wait"}
  <2>0. /\ kind # "trigger" /\ kind # "model" /\ kind # "if" /\ kind # "merge"
        /\ kind # "loop" /\ kind # "flaky" /\ kind # "wait"
    BY <1>13
  <2>1. ran = Returns(<<first>>)
    BY <1>1, <1>2, <1>4, <1>5, <2>0 DEF Execute
  <2>2. <<first>> \in Seq(Stream)
    OBVIOUS
  <2> QED BY <1>4, <1>5, <1>6, <2>0, <2>1, <2>2
<1> QED BY <1>7, <1>8, <1>9, <1>10, <1>11, <1>12, <1>w, <1>13

-----------------------------------------------------------------------------
(* What a step adds to a run. *)

\* The second sequence starts with the first.
Grows(s, t) == Len(s) <= Len(t) /\ \A i \in 1 .. Len(s) : t[i] = s[i]

LEMMA AppendGrows ==
    ASSUME NEW S, NEW s \in Seq(S), NEW t \in Seq(S)
    PROVE  s \o t \in Seq(S) /\ Grows(s, s \o t)
<1>1. /\ s \o t \in Seq(S) /\ Len(s \o t) = Len(s) + Len(t)
      /\ \A i \in 1 .. Len(s) + Len(t) : (s \o t)[i] = IF i <= Len(s) THEN s[i] ELSE t[i - Len(s)]
  BY ConcatProperties
<1>2. Len(s) \in Nat /\ Len(t) \in Nat
  OBVIOUS
<1> QED BY <1>1, <1>2 DEF Grows

LEMMA GrowsOn ==
    ASSUME NEW S, NEW r \in Seq(S), NEW s \in Seq(S), NEW t \in Seq(S), Grows(r, s), Grows(s, t)
    PROVE  Grows(r, t)
<1>1. Len(r) \in Nat /\ Len(s) \in Nat /\ Len(t) \in Nat
  OBVIOUS
<1>2. ASSUME NEW i \in 1 .. Len(r) PROVE t[i] = r[i]
  <2>1. i \in 1 .. Len(s)
    BY <1>1 DEF Grows
  <2>2. s[i] = r[i] /\ t[i] = s[i]
    BY <2>1 DEF Grows
  <2> QED BY <2>2
<1> QED BY <1>1, <1>2 DEF Grows

LEMMA PrefixIs ==
    ASSUME NEW S, NEW s \in Seq(S), NEW t \in Seq(S), Grows(s, t)
    PROVE  IsPrefix(s, t)
<1>1. Len(s) \in Nat /\ Len(t) \in Nat /\ Len(s) <= Len(t)
  BY DEF Grows
<1>2. SubSeq(s, 1, Len(s)) = s
  OBVIOUS
<1>3. SubSeq(t, 1, Len(s)) = s
  <2>1. \A i \in 1 .. Len(s) : t[i] \in S /\ t[i] = s[i]
    BY <1>1 DEF Grows
  <2>2. /\ SubSeq(t, 1, Len(s)) \in Seq(S)
        /\ Len(SubSeq(t, 1, Len(s))) = IF 1 <= Len(s) THEN Len(s) - 1 + 1 ELSE 0
        /\ \A i \in 1 .. Len(s) - 1 + 1 : SubSeq(t, 1, Len(s))[i] = t[1 + i - 1]
    BY <1>1, <2>1, SubSeqProperties
  <2>3. Len(SubSeq(t, 1, Len(s))) = Len(s)
    BY <1>1, <2>2
  <2>4. \A i \in 1 .. Len(s) : SubSeq(t, 1, Len(s))[i] = s[i]
    BY <1>1, <2>1, <2>2
  <2> QED BY <2>2, <2>3, <2>4, SeqEqual
<1> QED BY <1>1, <1>2, <1>3 DEF IsPrefix

LEMMA Pairs ==
    ASSUME NEW S, NEW a \in S, NEW b \in S
    PROVE  /\ <<a, b>> \in [1 .. 2 -> S] /\ DOMAIN <<a, b>> = 1 .. 2
           /\ <<a, b>>[1] = a /\ <<a, b>>[2] = b
OBVIOUS

LEMMA InputIs ==
    /\ \A input \in Input : /\ input \in Seq(Stream) /\ DOMAIN input = 1 .. 2
                            /\ input[1] \in Stream /\ input[2] \in Stream
    /\ \A a, b \in Stream : <<a, b>> \in Input
    /\ NoInput \in Input /\ \A p \in 1 .. 2 : NoInput[p] = <<>>
<1>1. PICK n \in Nat : n = 2
  OBVIOUS
<1>2. PICK S : S = Stream
  OBVIOUS
<1>3. Input = [1 .. n -> S]
  BY <1>1, <1>2 DEF Input
<1>4. ASSUME NEW input \in Input
      PROVE  /\ input \in Seq(S) /\ DOMAIN input = 1 .. 2
             /\ input[1] \in S /\ input[2] \in S
  <2>1. input \in Seq(S)
    BY <1>3, IsASeq
  <2> QED BY <1>1, <1>3, <2>1
<1>5. \A a, b \in S : <<a, b>> \in Input
  BY <1>1, <1>3, Pairs
<1>6. <<>> \in S
  BY <1>2 DEF Stream
<1>7. NoInput \in Input /\ \A p \in 1 .. 2 : NoInput[p] = <<>>
  <2>1. NoInput \in Input
    BY <1>5, <1>6 DEF NoInput
  <2> QED BY <2>1 DEF NoInput
<1> QED BY <1>2, <1>4, <1>5, <1>7

\* push schedules entries of the stack.
LEMMA PushIs ==
    ASSUME NEW g, GraphOK(g), NEW n \in g.active, NEW output \in OutputOf(g, n)
    PROVE  Push(g, n, output) \in Seq(Entry(g))
<1>1. PICK edges : edges = Feeding(g, n, output)
  OBVIOUS
<1>2. edges \in SUBSET g.edges /\ \A e \in edges : IsItemEdge(e)
  BY <1>1 DEF Feeding, Outgoing
<1>3. PICK order : order = Targets(edges)
  OBVIOUS
<1>4. Lists(order, {e.to : e \in edges})
  BY <1>2, <1>3, TargetsAre
<1>5. DOMAIN order = 1 .. Len(order) /\ Len(order) \in Nat
  BY <1>4 DEF Lists
<1>6. ASSUME NEW i \in DOMAIN order
      PROVE  Delivery(edges, order[i], output) \in Entry(g)
  <2>1. PICK e \in edges : e.to = order[i]
    BY <1>4, <1>5 DEF Lists
  <2>2. PICK t : t = order[i]
    OBVIOUS
  <2>3. t \in g.active /\ e \in ItemIncoming(g, t)
    BY <1>2, <2>1, <2>2 DEF GraphOK, ItemIncoming, Incoming
  <2>4. PICK items : items = ItemsFor(edges, t, output)
    OBVIOUS
  <2>5. items \in Stream
    <3>1. PICK parts : parts = [o \in DOMAIN output |->
                                  IF o \in OutputsTo(edges, t) THEN output[o] ELSE <<>>]
      OBVIOUS
    <3>2. Outputs(g, n) \in Nat
      BY NodeFacts
    <3>3. DOMAIN output = 1 .. Outputs(g, n) /\ \A o \in DOMAIN output : output[o] \in Seq(Nat)
      BY DEF OutputOf, Stream
    <3>4. \A o \in DOMAIN output : parts[o] \in Seq(Nat)
      <4>1. <<>> \in Seq(Nat)
        OBVIOUS
      <4> QED BY <3>1, <3>3, <4>1
    <3>5. parts \in Seq(Seq(Nat))
      <4>1. PICK m \in Nat : m = Outputs(g, n)
        BY <3>2
      <4>2. PICK S : S = Seq(Nat)
        OBVIOUS
      <4>3. DOMAIN parts = 1 .. m /\ \A o \in 1 .. m : parts[o] \in S
        BY <3>1, <3>3, <3>4, <4>1, <4>2
      <4>4. parts = [o \in 1 .. m |-> parts[o]]
        BY <3>1, <4>3
      <4>5. parts \in [1 .. m -> S]
        BY <4>3, <4>4
      <4> QED BY <4>2, <4>5, IsASeq
    <3>6. FlattenSeq(parts) \in Seq(Nat)
      BY <3>5, Flattened
    <3> QED BY <2>4, <3>1, <3>6 DEF ItemsFor, Stream
  <2>6. PICK inv : inv = Delivery(edges, t, output)
    OBVIOUS
  <2>7. inv = [node |-> t, input |-> <<items, <<>>>>, skipped |-> (items = <<>>)]
    BY <2>4, <2>6 DEF Delivery
  <2>8. PICK input : input = <<items, <<>>>>
    OBVIOUS
  <2>9. input \in Input /\ input[1] = items /\ input[2] = <<>> /\ DOMAIN input = 1 .. 2
    <3>1. <<>> \in Stream
      BY DEF Stream
    <3>2. input \in Input
      BY <2>5, <2>8, <3>1, InputIs
    <3> QED BY <2>8, <3>2, InputIs
  <2>10. PICK empty \in BOOLEAN : empty = (items = <<>>)
    OBVIOUS
  <2>11. inv = [node |-> t, input |-> input, skipped |-> empty]
    BY <2>7, <2>8, <2>10
  <2>12. inv \in Call(g)
    BY <2>3, <2>9, <2>11 DEF Call
  <2>13. DeliveredNothing(g, inv) = empty
    <3>1. inv.node = t /\ inv.input = input
      BY <2>11
    <3>2. DeliveredNothing(g, inv) <=> \A p \in 1 .. 2 : input[p] = <<>>
      BY <2>3, <2>9, <3>1 DEF DeliveredNothing
    <3>3. DeliveredNothing(g, inv) <=> items = <<>>
      BY <2>9, <3>2
    <3>4. DeliveredNothing(g, inv) \in BOOLEAN
      BY DEF DeliveredNothing
    <3> QED BY <2>10, <3>3, <3>4
  <2>14. inv.skipped = empty /\ inv.input[2] = <<>>
    BY <2>9, <2>11
  <2>15. inv \in Entry(g)
    BY <2>12, <2>13, <2>14 DEF Entry
  <2> QED BY <2>2, <2>6, <2>15
<1>7. PICK all : all = [i \in DOMAIN order |-> Delivery(edges, order[i], output)]
  OBVIOUS
<1>8. all \in Seq(Entry(g)) /\ Len(all) = Len(order)
  BY <1>5, <1>6, <1>7
<1>9. Push(g, n, output) = Reverse(all)
  BY <1>1, <1>3, <1>7 DEF Push
<1>10. Reverse(all) = [i \in 1 .. Len(all) |-> all[(Len(all) - i) + 1]]
  BY DEF Reverse
<1>11. \A i \in 1 .. Len(all) : all[(Len(all) - i) + 1] \in Entry(g)
  BY <1>5, <1>8
<1>12. Len(all) \in Nat
  BY <1>5, <1>8
<1> QED BY <1>9, <1>10, <1>11, <1>12

\* A run starts in shape.
LEMMA SeedOK ==
    ASSUME NEW g, GraphOK(g)
    PROVE  /\ RunOK(g, NewRun(g))
           /\ \A i \in 1 .. Len(NewRun(g).pending) :
                 /\ Incoming(g, NewRun(g).pending[i].node) = {}
                 /\ ~Disabled(g, NewRun(g).pending[i].node)
           /\ \A n \in g.active : Incoming(g, n) = {} /\ ~Disabled(g, n) /\ ~IsAnnotation(g, n)
                 => \E i \in 1 .. Len(NewRun(g).pending) : NewRun(g).pending[i].node = n
<1>1. PICK roots : roots = {n \in g.active : /\ Incoming(g, n) = {} /\ ~Disabled(g, n)
                                             /\ ~IsAnnotation(g, n)}
  OBVIOUS
<1>2. PICK order : order = Downwards(roots)
  OBVIOUS
<1>3. IsFiniteSet(roots) /\ \A n \in roots : n \in Nat /\ n \in g.active
  <2>1. \A n \in roots : n \in g.active
    BY <1>1
  <2>2. \A n \in roots : n \in Nat
    BY <2>1, NodeFacts
  <2>3. IsFiniteSet(roots)
    BY <2>1, FS_Subset DEF GraphOK
  <2> QED BY <2>1, <2>2, <2>3
<1>4. Lists(order, roots)
  BY <1>2, <1>3, OrderedDown
<1>5. PICK seed : seed = Seed(g)
  OBVIOUS
<1>6. seed = [i \in DOMAIN order |-> [node |-> order[i], input |-> NoInput, skipped |-> FALSE]]
  BY <1>1, <1>2, <1>5 DEF Seed
<1>7. ASSUME NEW i \in DOMAIN order PROVE seed[i] \in Entry(g)
  <2>1. PICK n \in roots : n = order[i]
    BY <1>4 DEF Lists
  <2>2. PICK inv : inv = [node |-> n, input |-> NoInput, skipped |-> FALSE]
    OBVIOUS
  <2>3. inv \in Call(g)
    BY <1>3, <2>2, InputIs DEF Call
  <2>4. ItemIncoming(g, n) = {}
    BY <1>1 DEF ItemIncoming
  <2>5. DeliveredNothing(g, inv) = FALSE
    BY <2>2, <2>4 DEF DeliveredNothing
  <2>6. inv.input[2] = <<>> /\ inv.skipped = FALSE
    BY <2>2, InputIs
  <2>7. inv \in Entry(g)
    BY <2>3, <2>5, <2>6 DEF Entry
  <2> QED BY <1>6, <2>1, <2>2, <2>7
<1>8. seed \in Seq(Entry(g))
  BY <1>4, <1>6, <1>7 DEF Lists
<1>9. NewLoop \in LoopState
  BY DEF NewLoop, LoopState, Stream
<1>10. PICK loops : loops = [n \in g.active |-> NewLoop]
  OBVIOUS
<1>11. loops \in [g.active -> LoopState]
  BY <1>9, <1>10
<1>12. NewRun(g) = [status |-> "running", pending |-> seed, completed |-> <<>>,
                    loops |-> loops, rows |-> <<>>]
  BY <1>5, <1>10 DEF NewRun
<1>13. DOMAIN <<>> = {}
  OBVIOUS
<1>14. <<>> \in Seq(RowOf(g))
  OBVIOUS
<1>15. RunOK(g, NewRun(g)) /\ NewRun(g).pending = seed
  BY <1>8, <1>11, <1>12, <1>13, <1>14 DEF RunOK
<1>16. PICK k \in Nat : k = Len(order) /\ k = Len(seed)
  <2>1. PICK k \in Nat : k = Len(order) /\ DOMAIN order = 1 .. k
    BY <1>4 DEF Lists
  <2>2. Len(seed) = k
    BY <1>6, <2>1
  <2> QED BY <2>1, <2>2
<1>17. \A i \in 1 .. k : seed[i].node = order[i] /\ order[i] \in roots
  <2>1. TAKE i \in 1 .. k
  <2>2. i \in DOMAIN order /\ order[i] \in roots
    BY <1>4, <1>16 DEF Lists
  <2> QED BY <1>6, <2>2
<1>18. \A i \in 1 .. Len(seed) : Incoming(g, seed[i].node) = {} /\ ~Disabled(g, seed[i].node)
  BY <1>1, <1>16, <1>17
<1>19. \A n \in roots : \E i \in 1 .. Len(seed) : seed[i].node = n
  BY <1>4, <1>16, <1>17 DEF Lists
<1> QED BY <1>1, <1>15, <1>18, <1>19

LEMMA PutIs ==
    ASSUME NEW g, NEW n \in g.active, NEW output \in OutputOf(g, n), NEW completed,
           DOMAIN completed \in SUBSET g.active,
           \A m \in DOMAIN completed : completed[m] \in OutputOf(g, m)
    PROVE  /\ DOMAIN Put(completed, n, output) \in SUBSET g.active
           /\ \A m \in DOMAIN Put(completed, n, output) :
                 Put(completed, n, output)[m] \in OutputOf(g, m)
<1>1. PICK put : put = Put(completed, n, output)
  OBVIOUS
<1>2. put = [m \in DOMAIN completed \cup {n} |-> IF m = n THEN output ELSE completed[m]]
  BY <1>1 DEF Put
<1>3. DOMAIN put = DOMAIN completed \cup {n}
  BY <1>2
<1>4. ASSUME NEW m \in DOMAIN put PROVE put[m] \in OutputOf(g, m)
  <2>1. CASE m = n
    BY <1>2, <2>1
  <2>2. CASE m # n
    BY <1>2, <1>3, <2>2
  <2> QED BY <2>1, <2>2
<1> QED BY <1>1, <1>3, <1>4

\* A row for the trace.
LEMMA RowIs ==
    ASSUME NEW g, NEW n \in g.active, NEW input \in Input, NEW output \in Seq(Stream),
           NEW what \in {"ran", "skipped", "failed", "unreached"}
    PROVE  /\ Row(n, input, output, what) \in RowOf(g)
           /\ <<Row(n, input, output, what)>> \in Seq(RowOf(g))
<1>1. input \in Seq(Stream)
  BY InputIs
<1>2. Row(n, input, output, what) \in RowOf(g)
  BY <1>1 DEF Row, RowOf
<1> QED BY <1>2

\* A node that completes leaves the run in shape, one row longer.
LEMMA CompleteOK ==
    ASSUME NEW g, GraphOK(g), NEW run, RunOK(g, run), NEW n \in g.active, NEW input \in Input,
           NEW output \in OutputOf(g, n)
    PROVE  /\ RunOK(g, Complete(g, run, n, input, output))
           /\ Grows(run.rows, Complete(g, run, n, input, output).rows)
<1>1. PICK row : row = Row(n, input, output, "ran")
  OBVIOUS
<1>2. row \in RowOf(g)
  BY <1>1, OutputShapes, RowIs
<1>3. PICK put : put = Put(run.completed, n, output)
  OBVIOUS
<1>4. DOMAIN put \in SUBSET g.active /\ \A m \in DOMAIN put : put[m] \in OutputOf(g, m)
  BY <1>3, PutIs DEF RunOK
<1>5. PICK rows : rows = Append(run.rows, row)
  OBVIOUS
<1>6. rows \in Seq(RowOf(g)) /\ Grows(run.rows, rows)
  <2>1. run.rows \in Seq(RowOf(g)) /\ <<row>> \in Seq(RowOf(g))
    BY <1>2 DEF RunOK
  <2>2. rows = run.rows \o <<row>>
    BY <1>5, <2>1
  <2> QED BY <2>1, <2>2, AppendGrows
<1>7. PICK pending : pending = run.pending \o Push(g, n, output)
  OBVIOUS
<1>8. pending \in Seq(Entry(g))
  <2>1. Push(g, n, output) \in Seq(Entry(g))
    BY PushIs
  <2>2. run.pending \in Seq(Entry(g))
    BY DEF RunOK
  <2> QED BY <1>7, <2>1, <2>2, ConcatProperties
<1>9. PICK status, stack, completed, loops, old :
          run = [status |-> status, pending |-> stack, completed |-> completed,
                 loops |-> loops, rows |-> old]
  BY DEF RunOK
<1>10. Complete(g, run, n, input, output)
         = [status |-> run.status, pending |-> pending, completed |-> put,
            loops |-> run.loops, rows |-> rows]
  <2>1. Complete(g, run, n, input, output)
          = [run EXCEPT !.completed = put, !.rows = rows, !.pending = pending]
    BY <1>1, <1>3, <1>5, <1>7, Zenon DEF Complete
  <2> QED BY <1>9, <2>1
<1>11. /\ run.status \in {"running", "succeeded", "failed"}
       /\ run.loops \in [g.active -> LoopState]
  BY DEF RunOK
<1> QED BY <1>4, <1>6, <1>8, <1>10, <1>11 DEF RunOK

LEMMA SkipOK ==
    ASSUME NEW g, GraphOK(g), NEW run, RunOK(g, run), NEW n \in g.active, NEW input \in Input
    PROVE  RunOK(g, Skip(g, run, n, input)) /\ Grows(run.rows, Skip(g, run, n, input).rows)
<1>1. PICK row : row = Row(n, input, NoOutput(g, n), "skipped")
  OBVIOUS
<1>2. row \in RowOf(g)
  BY <1>1, OutputShapes, RowIs
<1>3. PICK put : put = Put(run.completed, n, NoOutput(g, n))
  OBVIOUS
<1>4. DOMAIN put \in SUBSET g.active /\ \A m \in DOMAIN put : put[m] \in OutputOf(g, m)
  BY <1>3, PutIs, OutputShapes DEF RunOK
<1>5. PICK rows : rows = Append(run.rows, row)
  OBVIOUS
<1>6. rows \in Seq(RowOf(g)) /\ Grows(run.rows, rows)
  <2>1. run.rows \in Seq(RowOf(g)) /\ <<row>> \in Seq(RowOf(g))
    BY <1>2 DEF RunOK
  <2>2. rows = run.rows \o <<row>>
    BY <1>5, <2>1
  <2> QED BY <2>1, <2>2, AppendGrows
<1>7. PICK status, stack, completed, loops, old :
          run = [status |-> status, pending |-> stack, completed |-> completed,
                 loops |-> loops, rows |-> old]
  BY DEF RunOK
<1>8. Skip(g, run, n, input)
         = [status |-> run.status, pending |-> run.pending, completed |-> put,
            loops |-> run.loops, rows |-> rows]
  <2>1. Skip(g, run, n, input) = [run EXCEPT !.completed = put, !.rows = rows]
    BY <1>1, <1>3, <1>5, Zenon DEF Skip
  <2> QED BY <1>7, <2>1
<1>9. /\ run.status \in {"running", "succeeded", "failed"}
      /\ run.loops \in [g.active -> LoopState] /\ run.pending \in Seq(Entry(g))
  BY DEF RunOK
<1> QED BY <1>4, <1>6, <1>8, <1>9 DEF RunOK

\* t is s and rows of nodes never reached.
AddsUnreached(g, s, t) ==
    \E more \in Seq(RowOf(g)) :
        t = s \o more /\ \A i \in 1 .. Len(more) : more[i].what = "unreached"

\* A run that ends leaves a row for every node it never reached.
LEMMA RecordSkipsOK ==
    ASSUME NEW g, GraphOK(g), NEW run, RunOK(g, run)
    PROVE  /\ RunOK(g, RecordSkips(g, run)) /\ Grows(run.rows, RecordSkips(g, run).rows)
           /\ RecordSkips(g, run).status = "succeeded"
           /\ RecordSkips(g, run).pending = run.pending
           /\ RecordSkips(g, run).completed = run.completed
           /\ AddsUnreached(g, run.rows, RecordSkips(g, run).rows)
<1>1. PICK S : S = {n \in g.active : ~Completed(run, n) /\ ~IsAnnotation(g, n)}
  OBVIOUS
<1>2. PICK order : order = Upwards(S)
  OBVIOUS
<1>3. IsFiniteSet(S) /\ \A n \in S : n \in Nat /\ n \in g.active
  <2>1. \A n \in S : n \in g.active
    BY <1>1
  <2>2. \A n \in S : n \in Nat
    BY <2>1, NodeFacts
  <2>3. IsFiniteSet(S)
    BY <2>1, FS_Subset DEF GraphOK
  <2> QED BY <2>1, <2>2, <2>3
<1>4. Lists(order, S)
  BY <1>2, <1>3, OrderedUp
<1>5. PICK more : more = [i \in DOMAIN order |->
                            Row(order[i], NoInput, NoOutput(g, order[i]), "unreached")]
  OBVIOUS
<1>6. ASSUME NEW i \in DOMAIN order PROVE more[i] \in RowOf(g)
  <2>1. PICK n \in S : n = order[i]
    BY <1>4 DEF Lists
  <2>2. n \in g.active /\ NoOutput(g, n) \in Seq(Stream) /\ NoInput \in Input
    BY <1>3, OutputShapes, InputIs
  <2>3. Row(n, NoInput, NoOutput(g, n), "unreached") \in RowOf(g)
    BY <2>2, RowIs
  <2> QED BY <1>5, <2>1, <2>3
<1>7. more \in Seq(RowOf(g))
  BY <1>4, <1>5, <1>6 DEF Lists
<1>8. PICK rows : rows = run.rows \o more
  OBVIOUS
<1>9. run.rows \in Seq(RowOf(g))
  BY DEF RunOK
<1>10. rows \in Seq(RowOf(g)) /\ Grows(run.rows, rows)
  BY <1>7, <1>8, <1>9, AppendGrows
<1>11. PICK status, stack, completed, loops, old :
          run = [status |-> status, pending |-> stack, completed |-> completed,
                 loops |-> loops, rows |-> old]
  BY DEF RunOK
<1>12. RecordSkips(g, run)
         = [status |-> "succeeded", pending |-> run.pending, completed |-> run.completed,
            loops |-> run.loops, rows |-> rows]
  <2>1. RecordSkips(g, run) = [run EXCEPT !.status = "succeeded", !.rows = rows]
    BY <1>1, <1>2, <1>5, <1>8, Zenon DEF RecordSkips
  <2> QED BY <1>11, <2>1
<1>13. /\ RunOK(g, RecordSkips(g, run)) /\ RecordSkips(g, run).rows = rows
       /\ RecordSkips(g, run).status = "succeeded"
       /\ RecordSkips(g, run).pending = run.pending
       /\ RecordSkips(g, run).completed = run.completed
  BY <1>10, <1>12 DEF RunOK
<1>14. \A i \in 1 .. Len(more) : more[i].what = "unreached"
  <2>1. \A i \in DOMAIN order : more[i].what = "unreached"
    BY <1>5 DEF Row
  <2>2. DOMAIN more = DOMAIN order /\ DOMAIN more = 1 .. Len(more)
    BY <1>5, <1>7
  <2> QED BY <2>1, <2>2
<1> QED BY <1>7, <1>8, <1>10, <1>13, <1>14 DEF AddsUnreached

LEMMA ToleratedIs ==
    ASSUME NEW g, GraphOK(g), NEW n \in g.active, NEW input \in Input
    PROVE  /\ ToleratedOutput(g, n, input) \in OutputOf(g, n)
           /\ FailedAttempts(g, n, input) \in Seq(RowOf(g))
<1>1. PICK items : items = IF input[1] = <<>> THEN <<EmptyItem>> ELSE input[1]
  OBVIOUS
<1>2. items \in Seq(Nat)
  <2>1. input[1] \in Seq(Nat)
    BY InputIs DEF Stream
  <2> QED BY <1>1, <2>1 DEF EmptyItem
<1>3. PICK errors : errors = [i \in DOMAIN items |-> ErrorItem(items[i])]
  OBVIOUS
<1>4. errors \in Seq(Nat)
  <2>1. \A i \in DOMAIN items : ErrorItem(items[i]) \in Nat
    BY <1>2 DEF ErrorItem
  <2>2. DOMAIN items = 1 .. Len(items) /\ Len(items) \in Nat
    BY <1>2
  <2>3. \A i \in 1 .. Len(items) : errors[i] \in Nat
    BY <1>3, <2>1, <2>2
  <2>4. errors \in [1 .. Len(items) -> Nat]
    BY <1>3, <2>2, <2>3
  <2> QED BY <2>2, <2>4, IsASeq
<1>5. PICK S : S = Stream
  OBVIOUS
<1>6. PICK base : base = NoOutput(g, n)
  OBVIOUS
<1>7. base \in [1 .. Outputs(g, n) -> S] /\ errors \in S
  BY <1>4, <1>5, <1>6, OutputShapes DEF OutputOf, Stream
<1>8. [base EXCEPT ![FailurePort(g, n)] = errors] \in [1 .. Outputs(g, n) -> S]
  BY <1>7
<1>9. ToleratedOutput(g, n, input) = [base EXCEPT ![FailurePort(g, n)] = errors]
  BY <1>1, <1>3, <1>6 DEF ToleratedOutput
<1>10. PICK m : m = (IF g.nodes[n].retry THEN Tries ELSE 1) - 1
  OBVIOUS
<1>11. m \in Nat
  BY <1>10, RunnerBounds
<1>12. FailedAttempts(g, n, input) = [i \in 1 .. m |-> Row(n, input, <<>>, "failed")]
  BY <1>10 DEF FailedAttempts
<1>13. Row(n, input, <<>>, "failed") \in RowOf(g)
  <2>1. <<>> \in Seq(Stream)
    OBVIOUS
  <2> QED BY <2>1, RowIs
<1>14. FailedAttempts(g, n, input) \in Seq(RowOf(g))
  BY <1>11, <1>12, <1>13
<1> QED BY <1>5, <1>8, <1>9, <1>14 DEF OutputOf

LEMMA MergeOutputIs ==
    ASSUME NEW g, NEW n, NEW a \in OutputOf(g, n), NEW b \in Seq(Stream)
    PROVE  MergeOutput(a, b) \in OutputOf(g, n)
<1>1. DOMAIN a = 1 .. Outputs(g, n)
  BY DEF OutputOf
<1>2. ASSUME NEW o \in DOMAIN a
      PROVE  a[o] \o (IF o \in DOMAIN b THEN b[o] ELSE <<>>) \in Stream
  <2>1. a[o] \in Seq(Nat)
    BY <1>1 DEF OutputOf, Stream
  <2>2. PICK more : more = IF o \in DOMAIN b THEN b[o] ELSE <<>>
    OBVIOUS
  <2>3. more \in Seq(Nat)
    <3>1. <<>> \in Seq(Nat)
      OBVIOUS
    <3>2. o \in DOMAIN b => b[o] \in Stream
      OBVIOUS
    <3> QED BY <2>2, <3>1, <3>2 DEF Stream
  <2>4. a[o] \o more \in Seq(Nat)
    BY <2>1, <2>3, ConcatProperties
  <2> QED BY <2>2, <2>4 DEF Stream
<1>3. MergeOutput(a, b) = [o \in DOMAIN a |-> a[o] \o (IF o \in DOMAIN b THEN b[o] ELSE <<>>)]
  BY DEF MergeOutput
<1> QED BY <1>1, <1>2, <1>3 DEF OutputOf

LEMMA SeenIs ==
    ASSUME NEW g, NEW inv, inv.input \in Input
    PROVE  /\ Seen(g, inv) \in Input
           /\ inv.input[1] # <<>> => Seen(g, inv)[1] # <<>>
<1>1. PICK input : input = inv.input
  OBVIOUS
<1>2. PICK S : S = Stream
  OBVIOUS
<1>3. input \in [1 .. 2 -> S] /\ input[1] \in Seq(Nat)
  BY <1>1, <1>2, InputIs DEF Input, Stream
<1>4. CASE g.nodes[inv.node].once /\ Len(input[1]) > 1
  <2>1. PICK one : one = <<Head(input[1])>>
    OBVIOUS
  <2>2. one \in Seq(Nat) /\ one # <<>>
    BY <1>3, <1>4, <2>1
  <2>3. one \in S
    BY <1>2, <2>2 DEF Stream
  <2>4. Seen(g, inv) = [input EXCEPT ![1] = one]
    BY <1>1, <1>4, <2>1 DEF Seen
  <2>5. [input EXCEPT ![1] = one] \in [1 .. 2 -> S] /\ [input EXCEPT ![1] = one][1] = one
    BY <1>3, <2>3
  <2> QED BY <1>2, <2>2, <2>4, <2>5 DEF Input
<1>5. CASE ~(g.nodes[inv.node].once /\ Len(input[1]) > 1)
  BY <1>1, <1>5 DEF Seen
<1> QED BY <1>4, <1>5

LEMMA OneItemIs ==
    ASSUME NEW input \in Input, NEW i \in 1 .. Len(input[1])
    PROVE  OneItem(input, i) \in Input /\ OneItem(input, i)[1] = <<input[1][i]>>
<1>1. PICK S : S = Stream
  OBVIOUS
<1>2. input \in [1 .. 2 -> S] /\ input[1] \in Seq(Nat)
  BY <1>1, InputIs DEF Input, Stream
<1>3. PICK one : one = <<input[1][i]>>
  OBVIOUS
<1>4. one \in S
  BY <1>1, <1>2, <1>3 DEF Stream
<1>5. OneItem(input, i) = [input EXCEPT ![1] = one]
  BY <1>3 DEF OneItem
<1> QED BY <1>1, <1>2, <1>3, <1>4, <1>5 DEF Input

-----------------------------------------------------------------------------
(* The per-item run. *)

\* What it holds between two items: the output so far and the rows.
Held(g, n) == [output : OutputOf(g, n), rows : Seq(RowOf(g))]

\* One item. A wait that does not fail passes it on and adds no row.
LEMMA ResolveItemIs ==
    ASSUME NEW g, GraphOK(g), NEW run, RunOK(g, run), NEW n \in g.active,
           NEW single \in Input, NEW acc \in Held(g, n)
    PROVE  /\ ResolveItem(g, run, n, single, acc) \in Held(g, n)
           /\ Grows(acc.rows, ResolveItem(g, run, n, single, acc).rows)
           /\ KindOf(g, n) = "wait" /\ ~WaitFails(single) =>
                 ResolveItem(g, run, n, single, acc)
                   = [output |-> MergeOutput(acc.output, <<single[1]>>), rows |-> acc.rows]
<1>1. PICK ran : ran = Execute(g, run, n, single)
  OBVIOUS
<1>2. run.loops[n] \in LoopState
  BY DEF RunOK
<1>3. /\ ran.failed \in BOOLEAN /\ ran.output \in Seq(Stream)
      /\ KindOf(g, n) = "wait" => ran.failed = WaitFails(single) /\ ran.output = <<single[1]>>
  BY <1>1, <1>2, ExecuteIs
<1>4. acc.output \in OutputOf(g, n) /\ acc.rows \in Seq(RowOf(g))
      /\ acc = [output |-> acc.output, rows |-> acc.rows]
  BY DEF Held
<1>5. CASE ran.failed
  <2>1. PICK output \in OutputOf(g, n) :
          output = MergeOutput(acc.output, ToleratedOutput(g, n, single))
    <3>1. ToleratedOutput(g, n, single) \in OutputOf(g, n)
      BY ToleratedIs
    <3>2. ToleratedOutput(g, n, single) \in Seq(Stream)
      BY <3>1, OutputShapes
    <3> QED BY <1>4, <3>2, MergeOutputIs
  <2>2. PICK rows : rows = acc.rows \o FailedAttempts(g, n, single)
    OBVIOUS
  <2>3. FailedAttempts(g, n, single) \in Seq(RowOf(g))
    BY ToleratedIs
  <2>4. rows \in Seq(RowOf(g)) /\ Grows(acc.rows, rows)
    BY <1>4, <2>2, <2>3, AppendGrows
  <2>5. ResolveItem(g, run, n, single, acc) = [output |-> output, rows |-> rows]
    BY <1>1, <1>5, <2>1, <2>2 DEF ResolveItem
  <2>6. ~(KindOf(g, n) = "wait" /\ ~WaitFails(single))
    BY <1>3, <1>5
  <2> QED BY <2>4, <2>5, <2>6 DEF Held
<1>6. CASE ~ran.failed
  <2>1. PICK output \in OutputOf(g, n) : output = MergeOutput(acc.output, ran.output)
    BY <1>3, <1>4, MergeOutputIs
  <2>2. ResolveItem(g, run, n, single, acc) = [output |-> output, rows |-> acc.rows]
    <3>1. ResolveItem(g, run, n, single, acc) = [acc EXCEPT !.output = output]
      BY <1>1, <1>6, <2>1, Zenon DEF ResolveItem
    <3> QED BY <1>4, <3>1
  <2>3. Grows(acc.rows, acc.rows)
    <3>1. Len(acc.rows) \in Nat
      BY <1>4
    <3> QED BY <3>1 DEF Grows
  <2>4. KindOf(g, n) = "wait" => output = MergeOutput(acc.output, <<single[1]>>)
    BY <1>3, <2>1
  <2>5. [output |-> output, rows |-> acc.rows] \in Held(g, n)
    BY <1>4 DEF Held
  <2> QED BY <2>2, <2>3, <2>4, <2>5
<1> QED BY <1>3, <1>5, <1>6

\* What an item adds depends on the run through the node's loop alone.
LEMMA ResolveSame ==
    ASSUME NEW g, NEW run, NEW other, NEW n, run.loops[n] = other.loops[n], NEW single, NEW acc
    PROVE  ResolveItem(g, run, n, single, acc) = ResolveItem(g, other, n, single, acc)
<1>1. Execute(g, run, n, single) = Execute(g, other, n, single)
  BY DEF Execute
<1> QED BY <1>1 DEF ResolveItem

\* w holds what the per-item run from position p on holds after each item.
ItemRun(g, run, n, input, p, assembled, w) ==
    \A q \in 0 .. Len(input[1]) :
        /\ ResolveItems(g, run, n, input, p, q, assembled) = w[q]
        /\ w[q] \in Held(g, n) /\ Grows(run.rows, w[q].rows)
        /\ q < p => w[q] = [output |-> assembled, rows |-> run.rows]
        /\ q >= p => w[q] = ResolveItem(g, run, n, OneItem(input, q), w[q - 1])

LEMMA ItemRuns ==
    ASSUME NEW g, GraphOK(g), NEW run, RunOK(g, run), NEW n \in g.active, NEW input \in Input,
           NEW p \in Nat, p # 0, NEW assembled \in OutputOf(g, n)
    PROVE  \E w : ItemRun(g, run, n, input, p, assembled, w)
<1>1. PICK len \in Nat : len = Len(input[1])
  BY InputIs DEF Stream
<1>2. PICK base : base = [output |-> assembled, rows |-> run.rows]
  OBVIOUS
<1>3. base \in Held(g, n) /\ Grows(run.rows, base.rows)
  BY <1>2 DEF Held, RunOK, Grows
<1>4. PICK T : T = [k \in 1 .. len |-> [v \in Held(g, n) |->
                      IF k < p THEN base ELSE ResolveItem(g, run, n, OneItem(input, k), v)]]
  OBVIOUS
<1>5. \A k \in 1 .. len : \A v \in Held(g, n) :
         /\ T[k][v] = IF k < p THEN base ELSE ResolveItem(g, run, n, OneItem(input, k), v)
         /\ T[k][v] \in Held(g, n)
         /\ Grows(run.rows, v.rows) => Grows(run.rows, T[k][v].rows)
  <2>1. TAKE k \in 1 .. len
  <2>2. TAKE v \in Held(g, n)
  <2>3. T[k][v] = IF k < p THEN base ELSE ResolveItem(g, run, n, OneItem(input, k), v)
    BY <1>4
  <2>4. CASE k < p
    BY <1>3, <2>3, <2>4
  <2>5. CASE ~(k < p)
    <3>1. OneItem(input, k) \in Input
      BY <1>1, OneItemIs
    <3>2. PICK u : u = ResolveItem(g, run, n, OneItem(input, k), v)
      OBVIOUS
    <3>3. u \in Held(g, n) /\ Grows(v.rows, u.rows)
      BY <3>1, <3>2, ResolveItemIs
    <3>4. /\ v.rows \in Seq(RowOf(g)) /\ u.rows \in Seq(RowOf(g))
          /\ run.rows \in Seq(RowOf(g))
      BY <3>3 DEF Held, RunOK
    <3>5. Grows(run.rows, v.rows) => Grows(run.rows, u.rows)
      BY <3>3, <3>4, GrowsOn
    <3> QED BY <2>3, <2>5, <3>2, <3>3, <3>5
  <2> QED BY <2>3, <2>4, <2>5
<1>6. Closed(len, Held(g, n), T)
  BY <1>5 DEF Closed
<1>7. PICK f : Iterates(f, len, Held(g, n), base, T)
  BY <1>3, <1>6, Iterated
<1> DEFINE Body(h, k) == IF k < p THEN [output |-> assembled, rows |-> run.rows]
                         ELSE ResolveItem(g, run, n, OneItem(input, k), h[k - 1])
           Walk(h) == h = [k \in 0 .. Len(input[1]) |-> Body(h, k)]
<1>8. Walk(f)
  <2>1. f \in [0 .. len -> Held(g, n)] /\ f[0] = base
    BY <1>7 DEF Iterates
  <2>2. ASSUME NEW k \in 0 .. len PROVE f[k] = Body(f, k)
    <3>1. CASE k = 0
      BY <1>2, <2>1, <3>1
    <3>2. CASE k # 0
      <4>1. k \in 1 .. len /\ k - 1 \in 0 .. len
        BY <3>2
      <4>2. f[k - 1] \in Held(g, n) /\ f[k] = T[k][f[k - 1]]
        BY <1>7, <2>1, <4>1 DEF Iterates
      <4>3. f[k] = IF k < p THEN base ELSE ResolveItem(g, run, n, OneItem(input, k), f[k - 1])
        BY <1>5, <4>1, <4>2
      <4> QED BY <1>2, <4>3
    <3> QED BY <3>1, <3>2
  <2>3. f = [k \in 0 .. len |-> f[k]]
    BY <2>1
  <2> HIDE DEF Body
  <2> QED BY <1>1, <2>2, <2>3
<1>9. PICK w : w = (CHOOSE h : Walk(h))
  OBVIOUS
<1>10. Walk(w)
  <2> HIDE DEF Walk
  <2> QED BY <1>8, <1>9
<1>11. \A k \in 0 .. len : w[k] = Body(w, k)
  <2> HIDE DEF Body
  <2> QED BY <1>1, <1>10
<1>12. \A q : ResolveItems(g, run, n, input, p, q, assembled) = w[q]
  BY <1>9 DEF ResolveItems
<1>13. PICK U : U = {v \in Held(g, n) : Grows(run.rows, v.rows)}
  OBVIOUS
<1>14. w[0] \in U
  BY <1>2, <1>3, <1>11, <1>13
<1>15. \A k \in 1 .. len : w[k - 1] \in U => w[k] \in U
  <2>1. TAKE k \in 1 .. len
  <2>2. HAVE w[k - 1] \in U
  <2>3. w[k - 1] \in Held(g, n) /\ Grows(run.rows, w[k - 1].rows)
    BY <1>13, <2>2
  <2>4. w[k] = IF k < p THEN base ELSE ResolveItem(g, run, n, OneItem(input, k), w[k - 1])
    BY <1>2, <1>11
  <2>5. w[k] = T[k][w[k - 1]]
    BY <1>5, <2>3, <2>4
  <2> QED BY <1>5, <1>13, <2>3, <2>5
<1>16. \A q \in 0 .. len : w[q] \in U
  BY <1>14, <1>15, StaysIn
<1>17. ASSUME NEW q \in 0 .. len
       PROVE  /\ q < p => w[q] = [output |-> assembled, rows |-> run.rows]
              /\ q >= p => w[q] = ResolveItem(g, run, n, OneItem(input, q), w[q - 1])
  BY <1>11
<1>18. ItemRun(g, run, n, input, p, assembled, w)
  <2>1. \A q \in 0 .. len : w[q] \in Held(g, n) /\ Grows(run.rows, w[q].rows)
    BY <1>13, <1>16
  <2> QED BY <1>1, <1>12, <1>17, <2>1 DEF ItemRun
<1> QED BY <1>18

\* A whole call, and a finished per-item run, leave the run in shape.
LEMMA FinishItemsOK ==
    ASSUME NEW g, GraphOK(g), NEW run, RunOK(g, run), NEW n \in g.active, NEW input \in Input,
           NEW p \in Nat, p # 0, NEW assembled \in OutputOf(g, n)
    PROVE  /\ RunOK(g, FinishItems(g, run, n, input, p, assembled))
           /\ Grows(run.rows, FinishItems(g, run, n, input, p, assembled).rows)
<1>1. PICK done : done = ResolveItems(g, run, n, input, p, Len(input[1]), assembled)
  OBVIOUS
<1>2. done \in Held(g, n) /\ Grows(run.rows, done.rows)
  <2>1. PICK w : ItemRun(g, run, n, input, p, assembled, w)
    BY ItemRuns
  <2>2. Len(input[1]) \in Nat
    BY InputIs DEF Stream
  <2> QED BY <1>1, <2>1, <2>2 DEF ItemRun
<1>3. PICK mid : mid = [run EXCEPT !.rows = done.rows]
  OBVIOUS
<1>4. RunOK(g, mid) /\ mid.rows = done.rows
  <2>1. PICK status, stack, completed, loops, old :
          run = [status |-> status, pending |-> stack, completed |-> completed,
                 loops |-> loops, rows |-> old]
    BY DEF RunOK
  <2>2. PICK rows \in Seq(RowOf(g)) : rows = done.rows
    BY <1>2 DEF Held
  <2>3. mid = [status |-> status, pending |-> stack, completed |-> completed,
               loops |-> loops, rows |-> rows]
    BY <1>3, <2>1, <2>2
  <2> QED BY <2>1, <2>2, <2>3 DEF RunOK
<1>5. PICK output \in OutputOf(g, n) : output = WithEmptyItem(g, n, done.output)
  BY <1>2, OutputShapes DEF Held
<1>6. FinishItems(g, run, n, input, p, assembled) = Complete(g, mid, n, input, output)
  BY <1>1, <1>3, <1>5 DEF FinishItems
<1>7. PICK end : end = Complete(g, mid, n, input, output)
  OBVIOUS
<1>8. RunOK(g, end) /\ Grows(mid.rows, end.rows)
  BY <1>4, <1>7, CompleteOK
<1>9. Grows(run.rows, end.rows)
  BY <1>2, <1>4, <1>8, GrowsOn DEF RunOK
<1> QED BY <1>6, <1>7, <1>8, <1>9

LEMMA InvokeOK ==
    ASSUME NEW g, GraphOK(g), NEW run, RunOK(g, run), NEW n \in g.active, NEW input \in Input
    PROVE  /\ RunOK(g, InvokeWhole(g, run, n, input))
           /\ Grows(run.rows, InvokeWhole(g, run, n, input).rows)
<1>1. PICK ran : ran = Execute(g, run, n, input)
  OBVIOUS
<1>2. ran.failed \in BOOLEAN /\ ran.output \in Seq(Stream) /\ ran.loop \in LoopState
  <2>1. run.loops[n] \in LoopState
    BY DEF RunOK
  <2> QED BY <1>1, <2>1, ExecuteIs
<1>3. PICK rows : rows = IF ran.failed THEN run.rows \o FailedAttempts(g, n, input) ELSE run.rows
  OBVIOUS
<1>4. rows \in Seq(RowOf(g)) /\ Grows(run.rows, rows)
  <2>1. run.rows \in Seq(RowOf(g)) /\ FailedAttempts(g, n, input) \in Seq(RowOf(g))
    BY ToleratedIs DEF RunOK
  <2>2. CASE ran.failed
    BY <1>3, <2>1, <2>2, AppendGrows
  <2>3. CASE ~ran.failed
    <3>1. Grows(run.rows, run.rows)
      BY <2>1 DEF Grows
    <3> QED BY <1>3, <2>1, <2>3, <3>1
  <2> QED BY <2>2, <2>3
<1>5. PICK loops : loops = [run.loops EXCEPT ![n] = ran.loop]
  OBVIOUS
<1>6. loops \in [g.active -> LoopState]
  BY <1>2, <1>5 DEF RunOK
<1>7. PICK tried : tried = [run EXCEPT !.loops[n] = ran.loop,
                                       !.rows = IF ran.failed
                                                  THEN @ \o FailedAttempts(g, n, input) ELSE @]
  OBVIOUS
<1>8. PICK status, stack, completed, old, rest :
        run = [status |-> status, pending |-> stack, completed |-> completed,
               loops |-> old, rows |-> rest]
  BY DEF RunOK
<1>9. tried = [status |-> status, pending |-> stack, completed |-> completed,
               loops |-> loops, rows |-> rows]
  <2>1. tried = [run EXCEPT !.loops = loops, !.rows = rows]
    <3>1. run.loops = old /\ run.rows = rest
      BY <1>8
    <3>2. tried = [[run EXCEPT !.loops[n] = ran.loop] EXCEPT !.rows = rows]
      BY <1>3, <1>7, Zenon
    <3>3. [run EXCEPT !.loops[n] = ran.loop] = [run EXCEPT !.loops = loops]
      BY <1>5, Zenon
    <3> QED BY <3>2, <3>3, Zenon
  <2> QED BY <1>8, <2>1
<1>10. RunOK(g, tried) /\ tried.rows = rows /\ tried.status = run.status
  BY <1>4, <1>6, <1>8, <1>9 DEF RunOK
<1>11. CASE ~ran.failed
  <2>1. PICK output \in OutputOf(g, n) :
          output = WithEmptyItem(g, n, WithErrorPort(g, n, ran.output))
    BY <1>2, OutputShapes
  <2>2. InvokeWhole(g, run, n, input) = Complete(g, tried, n, input, output)
    BY <1>1, <1>7, <1>11, <2>1 DEF InvokeWhole
  <2>3. PICK end : end = Complete(g, tried, n, input, output)
    OBVIOUS
  <2>4. RunOK(g, end) /\ Grows(rows, end.rows)
    BY <1>10, <2>3, CompleteOK
  <2>5. Grows(run.rows, end.rows)
    BY <1>4, <2>4, GrowsOn DEF RunOK
  <2> QED BY <2>2, <2>3, <2>4, <2>5
<1>12. CASE ran.failed /\ g.nodes[n].onError = "stop"
  <2>1. PICK row : row = Row(n, input, <<>>, "failed")
    OBVIOUS
  <2>2. <<row>> \in Seq(RowOf(g)) /\ row \in RowOf(g)
    <3>1. <<>> \in Seq(Stream)
      OBVIOUS
    <3> QED BY <2>1, <3>1, RowIs
  <2>3. PICK last : last = Append(rows, row)
    OBVIOUS
  <2>4. last \in Seq(RowOf(g)) /\ Grows(rows, last)
    <3>1. last = rows \o <<row>>
      BY <1>4, <2>2, <2>3
    <3> QED BY <1>4, <2>2, <3>1, AppendGrows
  <2>5. InvokeWhole(g, run, n, input) = [tried EXCEPT !.status = "failed",
                                                      !.rows = Append(@, row)]
    BY <1>1, <1>7, <1>12, <2>1, Zenon DEF InvokeWhole
  <2>6. [tried EXCEPT !.status = "failed", !.rows = Append(@, row)]
          = [status |-> "failed", pending |-> stack, completed |-> completed,
             loops |-> loops, rows |-> last]
    <3>1. PICK mid : mid = [tried EXCEPT !.status = "failed"]
      OBVIOUS
    <3>2. mid = [status |-> "failed", pending |-> stack, completed |-> completed,
                 loops |-> loops, rows |-> rows]
      BY <1>9, <3>1
    <3>3. [tried EXCEPT !.status = "failed", !.rows = Append(@, row)]
            = [mid EXCEPT !.rows = Append(@, row)]
      BY <3>1, Zenon
    <3>4. mid.rows = rows
      BY <3>2
    <3>5. [mid EXCEPT !.rows = Append(@, row)] = [mid EXCEPT !.rows = last]
      BY <2>3, <3>4, Zenon
    <3>6. [mid EXCEPT !.rows = last]
            = [status |-> "failed", pending |-> stack, completed |-> completed,
               loops |-> loops, rows |-> last]
      BY <3>2
    <3> QED BY <3>3, <3>5, <3>6
  <2>7. PICK end : end = [status |-> "failed", pending |-> stack, completed |-> completed,
                          loops |-> loops, rows |-> last]
    OBVIOUS
  <2>8. RunOK(g, end) /\ end.rows = last
    BY <1>6, <1>8, <2>4, <2>7 DEF RunOK
  <2>9. Grows(run.rows, last)
    BY <1>4, <2>4, GrowsOn DEF RunOK
  <2> QED BY <2>5, <2>6, <2>7, <2>8, <2>9
<1>13. CASE ran.failed /\ g.nodes[n].onError # "stop"
  <2>1. PICK output \in OutputOf(g, n) :
          output = WithEmptyItem(g, n, ToleratedOutput(g, n, input))
    BY ToleratedIs, OutputShapes
  <2>2. InvokeWhole(g, run, n, input) = Complete(g, tried, n, input, output)
    BY <1>1, <1>7, <1>13, <2>1 DEF InvokeWhole
  <2>3. PICK end : end = Complete(g, tried, n, input, output)
    OBVIOUS
  <2>4. RunOK(g, end) /\ Grows(rows, end.rows)
    BY <1>10, <2>3, CompleteOK
  <2>5. Grows(run.rows, end.rows)
    BY <1>4, <2>4, GrowsOn DEF RunOK
  <2> QED BY <2>2, <2>3, <2>4, <2>5
<1> QED BY <1>2, <1>11, <1>12, <1>13

\* Every invocation does.
LEMMA RunNodeOK ==
    ASSUME NEW g, GraphOK(g), NEW run, RunOK(g, run), NEW inv \in Call(g)
    PROVE  RunOK(g, RunNode(g, run, inv)) /\ Grows(run.rows, RunNode(g, run, inv).rows)
<1>1. PICK n \in g.active : n = inv.node
  BY DEF Call
<1>2. inv.input \in Input /\ inv.input[1] \in Stream /\ inv.skipped \in BOOLEAN
  BY InputIs DEF Call
<1>3. PICK input \in Input : input = Seen(g, inv)
  BY <1>2, SeenIs
<1>4. g.items \in Stream
  BY DEF GraphOK, Stream
<1>5. CASE inv.skipped
  <2>1. RunNode(g, run, inv) = Skip(g, run, n, inv.input)
    BY <1>1, <1>5 DEF RunNode
  <2> QED BY <1>2, <2>1, SkipOK
<1>6. CASE ~inv.skipped /\ Disabled(g, n)
  <2>1. PICK output \in OutputOf(g, n) : output = PassedThrough(g, n, inv.input[1])
    BY <1>2, OutputShapes
  <2>2. RunNode(g, run, inv) = Complete(g, run, n, inv.input, output)
    BY <1>1, <1>6, <2>1 DEF RunNode
  <2> QED BY <1>2, <2>2, CompleteOK
<1>7. CASE ~inv.skipped /\ ~Disabled(g, n) /\ g.nodes[n].pinned
  <2>1. PICK output \in OutputOf(g, n) : output = PassedThrough(g, n, g.items)
    BY <1>4, OutputShapes
  <2>2. RunNode(g, run, inv) = Complete(g, run, n, inv.input, output)
    BY <1>1, <1>7, <2>1 DEF RunNode
  <2> QED BY <1>2, <2>2, CompleteOK
<1>8. CASE ~inv.skipped /\ ~Disabled(g, n) /\ ~g.nodes[n].pinned
  <2>1. RunNode(g, run, inv) = IF PerItem(g, n, input)
                                 THEN FinishItems(g, run, n, input, 1, NoOutput(g, n))
                                 ELSE InvokeWhole(g, run, n, input)
    BY <1>1, <1>3, <1>8 DEF RunNode
  <2>2. CASE PerItem(g, n, input)
    <3>1. PICK output \in OutputOf(g, n) : output = NoOutput(g, n)
      BY OutputShapes
    <3>2. PICK one \in Nat : one = 1
      OBVIOUS
    <3>3. RunNode(g, run, inv) = FinishItems(g, run, n, input, one, output)
      BY <2>1, <2>2, <3>1, <3>2
    <3>4. one # 0
      BY <3>2
    <3> QED BY <3>3, <3>4, FinishItemsOK
  <2>3. CASE ~PerItem(g, n, input)
    BY <2>1, <2>3, InvokeOK
  <2> QED BY <2>2, <2>3
<1> QED BY <1>2, <1>5, <1>6, <1>7, <1>8

-----------------------------------------------------------------------------
(* The invocation a run takes next. *)

\* A sequence with one element taken out.
LEMMA RemovesOne ==
    ASSUME NEW T, NEW s \in Seq(T), NEW i \in 1 .. Len(s)
    PROVE  RemoveAt(s, i) \in Seq(T)
<1>1. Len(s) \in Nat
  OBVIOUS
<1>2. \A j \in 1 .. (i - 1) : s[j] \in T
  BY <1>1
<1>3. SubSeq(s, 1, i - 1) \in Seq(T)
  BY <1>1, <1>2, SubSeqProperties
<1>4. \A j \in (i + 1) .. Len(s) : s[j] \in T
  BY <1>1
<1>5. SubSeq(s, i + 1, Len(s)) \in Seq(T)
  BY <1>1, <1>4, SubSeqProperties
<1> QED BY <1>3, <1>5, ConcatProperties DEF RemoveAt

LEMMA TakenOK ==
    ASSUME NEW g, NEW run, RunOK(g, run), NEW i \in 0 .. Len(run.pending)
    PROVE  /\ RunOK(g, Taken(run, i)) /\ Taken(run, i).rows = run.rows
           /\ Taken(run, i).status = run.status
           /\ Taken(run, i).completed = run.completed /\ Taken(run, i).loops = run.loops
<1>1. CASE i = 0
  BY <1>1 DEF Taken
<1>2. CASE i # 0
  <2>1. PICK status, stack, completed, loops, rows :
          run = [status |-> status, pending |-> stack, completed |-> completed,
                 loops |-> loops, rows |-> rows]
    BY DEF RunOK
  <2>2. stack \in Seq(Entry(g)) /\ i \in 1 .. Len(stack) /\ Len(stack) \in Nat
    BY <1>2, <2>1 DEF RunOK
  <2>3. PICK rest : rest = RemoveAt(stack, i)
    OBVIOUS
  <2>4. rest \in Seq(Entry(g))
    BY <2>2, <2>3, RemovesOne
  <2>5. Taken(run, i) = [run EXCEPT !.pending = RemoveAt(@, i)]
    BY <1>2, <2>2 DEF Taken
  <2>6. Taken(run, i) = [status |-> status, pending |-> rest, completed |-> completed,
                         loops |-> loops, rows |-> rows]
    BY <2>1, <2>3, <2>5
  <2> QED BY <2>1, <2>4, <2>6 DEF RunOK
<1> QED BY <1>1, <1>2

\* nodeInput gives each port a stream, and items to a port some item edge has items for.
LEMMA NodeInputIs ==
    ASSUME NEW g, GraphOK(g), NEW run, RunOK(g, run), NEW n \in g.active,
           DependenciesComplete(g, run, n)
    PROVE  /\ NodeInput(g, run, n) \in Input
           /\ \A e \in ItemIncoming(g, n) :
                 e.port \in 1 .. 2 /\ run.completed[e.from][e.out] # <<>> =>
                    NodeInput(g, run, n)[e.port] # <<>>
<1>1. PICK parts : parts = [p \in 1 .. 2 |-> [i \in DOMAIN Sources(g, n, p) |->
                      run.completed[Sources(g, n, p)[i].from][Sources(g, n, p)[i].out]]]
  OBVIOUS
<1>2. PICK input : input = NodeInput(g, run, n)
  OBVIOUS
<1>3. input = [p \in 1 .. 2 |-> FlattenSeq(parts[p])]
  BY <1>1, <1>2 DEF NodeInput
<1>4. \A e \in ItemIncoming(g, n) : run.completed[e.from][e.out] \in Seq(Nat)
  <2>1. TAKE e \in ItemIncoming(g, n)
  <2>2. e \in g.edges /\ e \in Incoming(g, n)
    BY DEF ItemIncoming, Incoming
  <2>3. e.out \in 1 .. Outputs(g, e.from)
    BY <2>2 DEF GraphOK
  <2>4. e.from \in DOMAIN run.completed
    BY <2>2 DEF DependenciesComplete, Completed
  <2>5. run.completed[e.from] \in OutputOf(g, e.from)
    BY <2>4 DEF RunOK
  <2> QED BY <2>3, <2>5 DEF OutputOf, Stream
<1>5. ASSUME NEW p \in 1 .. 2
      PROVE  /\ parts[p] \in Seq(Seq(Nat))
             /\ \A e \in ItemIncoming(g, n) : e.port = p =>
                   \E i \in DOMAIN parts[p] : parts[p][i] = run.completed[e.from][e.out]
  <2>1. PICK S : S = {e \in ItemIncoming(g, n) : e.port = p}
    OBVIOUS
  <2>2. PICK order : order = Sources(g, n, p)
    OBVIOUS
  <2>3. Lists(order, S)
    BY <2>1, <2>2, SourcesAre
  <2>4. PICK own : own = parts[p]
    OBVIOUS
  <2>5. own = [i \in DOMAIN order |-> run.completed[order[i].from][order[i].out]]
    BY <1>1, <2>2, <2>4
  <2>6. \A i \in DOMAIN order : order[i] \in S
    BY <2>3 DEF Lists
  <2>7. \A i \in DOMAIN order : own[i] \in Seq(Nat)
    BY <1>4, <2>1, <2>5, <2>6
  <2>8. own \in Seq(Seq(Nat))
    <3>1. PICK T : T = Seq(Nat)
      OBVIOUS
    <3>2. PICK m \in Nat : m = Len(order) /\ DOMAIN order = 1 .. m
      BY <2>3 DEF Lists
    <3>3. own \in [1 .. m -> T]
      BY <2>5, <2>7, <3>1, <3>2
    <3> QED BY <3>1, <3>3, IsASeq
  <2>9. ASSUME NEW e \in ItemIncoming(g, n), e.port = p
        PROVE  \E i \in DOMAIN own : own[i] = run.completed[e.from][e.out]
    <3>1. e \in S
      BY <2>1, <2>9
    <3>2. PICK i \in DOMAIN order : order[i] = e
      BY <2>3, <3>1 DEF Lists
    <3> QED BY <2>5, <3>2
  <2> QED BY <2>4, <2>8, <2>9
<1>6. \A p \in 1 .. 2 : input[p] = FlattenSeq(parts[p])
  BY <1>3
<1>7. \A p \in 1 .. 2 : input[p] \in Seq(Nat)
  BY <1>5, <1>6, Flattened
<1>8. input \in Input
  BY <1>3, <1>7 DEF Input, Stream
<1>9. ASSUME NEW e \in ItemIncoming(g, n), e.port \in 1 .. 2, run.completed[e.from][e.out] # <<>>
      PROVE  input[e.port] # <<>>
  <2>1. PICK p \in 1 .. 2 : p = e.port
    BY <1>9
  <2>2. PICK i \in DOMAIN parts[p] : parts[p][i] # <<>>
    BY <1>5, <1>9, <2>1
  <2>3. FlattenSeq(parts[p]) # <<>>
    BY <1>5, <2>2, Flattened
  <2> QED BY <1>6, <2>1, <2>3
<1> QED BY <1>2, <1>8, <1>9

\* next takes one invocation, of a node of the graph; a wait that is not skipped
\* has items to wait on.
LEMMA NextIs ==
    ASSUME NEW g, GraphOK(g), NEW run, RunOK(g, run), NEW i \in HasNext(g, run)
    PROVE  /\ i \in 0 .. Len(run.pending) /\ HasNext(g, run) = {i} /\ Min(HasNext(g, run)) = i
           /\ Invocation(g, run, i) \in Call(g)
           /\ KindOf(g, Invocation(g, run, i).node) = "wait" /\ ~Invocation(g, run, i).skipped =>
                 Invocation(g, run, i).input[1] # <<>>
<1>1. PICK stack \in Seq(Entry(g)) : stack = run.pending
  BY DEF RunOK
<1>2. Len(stack) \in Nat /\ DOMAIN stack = 1 .. Len(stack)
  OBVIOUS
<1>3. PICK inv : inv = Invocation(g, run, i)
  OBVIOUS
<1>4. CASE Runnable(g, run) # {}
  <2>1. PICK S : S = Runnable(g, run)
    OBVIOUS
  <2>2. S \in SUBSET (0 .. Len(stack)) /\ S # {} /\ 0 \notin S
    BY <1>1, <1>2, <1>4, <2>1 DEF Runnable
  <2>3. Max(S) \in S
    BY <1>2, <2>2, MaxIs
  <2>4. HasNext(g, run) = {Max(S)}
    BY <1>4, <2>1 DEF HasNext
  <2>5. i = Max(S)
    BY <2>4
  <2>6. i \in 1 .. Len(stack)
    <3>1. i \in S
      BY <2>3, <2>5
    <3>2. i \in 0 .. Len(stack) /\ i # 0
      BY <2>2, <3>1
    <3> QED BY <1>2, <3>2
  <2>7. inv = stack[i]
    BY <1>1, <1>2, <1>3, <2>6 DEF Invocation
  <2>8. inv \in Entry(g)
    BY <1>2, <2>6, <2>7
  <2>9. inv \in Call(g) /\ inv.input[2] = <<>> /\ inv.skipped = DeliveredNothing(g, inv)
    BY <2>8 DEF Entry
  <2>10. KindOf(g, inv.node) = "wait" /\ ~inv.skipped => inv.input[1] # <<>>
    <3>1. SUFFICES ASSUME KindOf(g, inv.node) = "wait", ~inv.skipped, inv.input[1] = <<>>
                   PROVE  FALSE
      OBVIOUS
    <3>2. inv.node \in g.active /\ inv.input \in Input
      BY <2>9 DEF Call
    <3>3. ItemIncoming(g, inv.node) # {}
      <4>1. ItemInputs[KindOf(g, inv.node)] = 1
        BY <3>1, <3>2, NodeFacts
      <4> QED BY <3>2, <4>1 DEF GraphOK
    <3>4. \A p \in DOMAIN inv.input : inv.input[p] = <<>>
      BY <2>9, <3>1, <3>2, InputIs
    <3>5. DeliveredNothing(g, inv)
      BY <3>3, <3>4 DEF DeliveredNothing
    <3> QED BY <2>9, <3>1, <3>5
  <2>11. i \in 0 .. Len(stack) /\ HasNext(g, run) = {i}
    BY <2>4, <2>5, <2>6
  <2>12. Min(HasNext(g, run)) = i
    <3>1. i \in Nat
      BY <1>2, <2>11
    <3>2. PICK one : one = {i}
      OBVIOUS
    <3>3. Min(one) \in one
      BY <3>1, <3>2, MinIs
    <3> QED BY <2>11, <3>2, <3>3
  <2> QED BY <1>1, <1>3, <2>9, <2>10, <2>11, <2>12
<1>5. CASE Runnable(g, run) = {}
  <2>1. PICK S : S = Fallback(g, run)
    OBVIOUS
  <2>2. HasNext(g, run) = {0} /\ S # {} /\ i = 0
    BY <1>5, <2>1 DEF HasNext
  <2>3. \A n \in S : n \in g.active /\ n \in Nat
    <3>1. \A n \in S : n \in g.active
      BY <2>1 DEF Fallback
    <3> QED BY <3>1, NodeFacts
  <2>4. PICK n \in S : n = Min(S)
    <3>1. S \in SUBSET Nat
      BY <2>3
    <3> QED BY <2>2, <3>1, MinIs
  <2>5. n \in g.active /\ DependenciesComplete(g, run, n) /\ Delivered(g, run, n)
    BY <2>1, <2>4 DEF Fallback
  <2>6. PICK input \in Input : input = NodeInput(g, run, n)
    BY <2>5, NodeInputIs
  <2>7. inv = [node |-> n, input |-> input, skipped |-> FALSE]
    <3>1. ~(i > 0)
      BY <2>2
    <3> QED BY <1>3, <2>1, <2>4, <2>6, <3>1 DEF Invocation
  <2>8. inv \in Call(g)
    BY <2>5, <2>7 DEF Call
  <2>9. ASSUME KindOf(g, n) = "wait" PROVE input[1] # <<>>
    <3>1. ItemIncoming(g, n) # {}
      <4>1. ItemInputs[KindOf(g, n)] = 1
        BY <2>5, <2>9, NodeFacts
      <4> QED BY <2>5, <4>1 DEF GraphOK
    <3>2. PICK e \in ItemIncoming(g, n) : run.completed[e.from][e.out] # <<>>
      BY <2>5, <3>1 DEF Delivered
    <3>3. e.port = 1
      <4>1. e \in g.edges /\ e.to = n /\ IsItemEdge(e)
        BY DEF ItemIncoming, Incoming
      <4>2. ItemInputs[KindOf(g, n)] = 1
        BY <2>5, <2>9, NodeFacts
      <4>3. e.port <= 1 /\ e \in Edge(Len(g.nodes))
        BY <4>1, <4>2 DEF GraphOK
      <4>4. e.port \in Nat
        BY <4>3 DEF Edge
      <4> QED BY <4>1, <4>3, <4>4 DEF IsItemEdge, Attachment
    <3>4. e.port \in 1 .. 2
      BY <3>3
    <3>5. input[e.port] # <<>>
      BY <2>5, <2>6, <3>2, <3>4, NodeInputIs
    <3> QED BY <3>3, <3>5
  <2>10. i \in 0 .. Len(stack) /\ HasNext(g, run) = {i}
    BY <1>2, <2>2
  <2>11. Min(HasNext(g, run)) = i
    <3>1. PICK one : one = {i}
      OBVIOUS
    <3>2. i \in Nat
      BY <2>2
    <3>3. Min(one) \in one
      BY <3>1, <3>2, MinIs
    <3> QED BY <2>10, <3>1, <3>3
  <2> QED BY <1>1, <1>3, <2>7, <2>8, <2>9, <2>10, <2>11
<1> QED BY <1>4, <1>5

\* Advance, for the graph g.
Onward(g, run) ==
    IF HasNext(g, run) = {} THEN RecordSkips(g, run)
    ELSE LET i == Min(HasNext(g, run))
         IN  RunNode(g, Taken(run, i), Invocation(g, run, i))

LEMMA OnwardOK ==
    ASSUME NEW g, GraphOK(g), NEW run, RunOK(g, run)
    PROVE  RunOK(g, Onward(g, run)) /\ Grows(run.rows, Onward(g, run).rows)
<1>1. CASE HasNext(g, run) = {}
  BY <1>1, RecordSkipsOK DEF Onward
<1>2. CASE HasNext(g, run) # {}
  <2>1. PICK i : i \in HasNext(g, run)
    BY <1>2
  <2>2. i \in 0 .. Len(run.pending) /\ Min(HasNext(g, run)) = i /\ Invocation(g, run, i) \in Call(g)
    BY <2>1, NextIs
  <2>3. PICK inv \in Call(g) : inv = Invocation(g, run, i)
    BY <2>2
  <2>4. PICK taken : taken = Taken(run, i)
    OBVIOUS
  <2>5. RunOK(g, taken) /\ taken.rows = run.rows
    BY <2>2, <2>4, TakenOK
  <2>6. Onward(g, run) = RunNode(g, taken, inv)
    BY <1>2, <2>2, <2>3, <2>4 DEF Onward
  <2> QED BY <2>5, <2>6, RunNodeOK
<1> QED BY <1>1, <1>2

-----------------------------------------------------------------------------
(* A checkpoint brings back the run it was taken from. *)

\* The checkpoint restores everything, the rows the store kept among it, and
\* knows a skipped delivery by what it delivered.
LEMMA RestoredIs ==
    ASSUME NEW g, NEW run, RunOK(g, run), run.status = "running",
           NEW n, NEW input, NEW whole, NEW position, NEW output,
           NEW cp, cp = Snapshot(run, n, input, whole, position, output)
    PROVE  /\ Restored(g, cp) = run
           /\ cp.node = n /\ cp.input = input /\ cp.whole = whole /\ cp.position = position
           /\ cp.output = output
<1>1. PICK kept : kept = [i \in DOMAIN run.pending |->
                    [node |-> run.pending[i].node, input |-> run.pending[i].input]]
  OBVIOUS
<1>2. cp = [node |-> n, input |-> input, whole |-> whole, position |-> position,
            output |-> output, rows |-> run.rows, completed |-> run.completed,
            loops |-> run.loops, pending |-> kept]
  BY <1>1 DEF Snapshot
<1>3. cp.completed = run.completed /\ cp.loops = run.loops /\ cp.pending = kept
      /\ cp.rows = run.rows
  BY <1>2
<1>4. PICK stack : stack = [i \in DOMAIN kept |->
        [node |-> kept[i].node, input |-> kept[i].input,
         skipped |-> DeliveredNothing(g, kept[i])]]
  OBVIOUS
<1>5. PICK old \in Seq(Entry(g)) : old = run.pending
  BY DEF RunOK
<1>6. DOMAIN kept = DOMAIN old /\ DOMAIN stack = DOMAIN old
  BY <1>1, <1>4, <1>5
<1>7. ASSUME NEW i \in DOMAIN old PROVE stack[i] = old[i]
  <2>1. PICK inv \in Entry(g) : inv = old[i]
    OBVIOUS
  <2>2. inv = [node |-> inv.node, input |-> inv.input, skipped |-> inv.skipped]
    BY DEF Entry, Call
  <2>3. inv.skipped = DeliveredNothing(g, inv)
    BY DEF Entry
  <2>4. PICK pair : pair = [node |-> inv.node, input |-> inv.input]
    OBVIOUS
  <2>5. kept[i] = pair /\ pair.node = inv.node /\ pair.input = inv.input
    BY <1>1, <1>5, <2>1, <2>4
  <2>6. DeliveredNothing(g, pair) = DeliveredNothing(g, inv)
    BY <2>5 DEF DeliveredNothing
  <2>7. stack[i] = [node |-> pair.node, input |-> pair.input,
                    skipped |-> DeliveredNothing(g, pair)]
    BY <1>4, <1>6, <2>5
  <2> QED BY <2>1, <2>2, <2>3, <2>5, <2>6, <2>7
<1>8. stack = old
  <2>1. stack = [i \in DOMAIN old |-> stack[i]]
    BY <1>4, <1>6
  <2>2. old = [i \in DOMAIN old |-> old[i]]
    OBVIOUS
  <2> QED BY <1>7, <2>1, <2>2
<1>9. Restored(g, cp)
        = [status |-> "running", completed |-> run.completed, loops |-> run.loops,
           rows |-> run.rows, pending |-> stack]
  BY <1>3, <1>4 DEF Restored
<1>10. run = [status |-> run.status, pending |-> run.pending, completed |-> run.completed,
              loops |-> run.loops, rows |-> run.rows]
  BY DEF RunOK
<1>11. Restored(g, cp) = run
  BY <1>5, <1>8, <1>9, <1>10
<1> QED BY <1>2, <1>11

\* Padding an output to the declared ports adds nothing to a merge, and is the
\* merge with an empty output.
LEMMA Padded ==
    ASSUME NEW g, GraphOK(g), NEW n \in g.active, NEW a \in OutputOf(g, n), NEW b \in Seq(Stream)
    PROVE  /\ MergeOutput(a, WithErrorPort(g, n, b)) = MergeOutput(a, b)
           /\ MergeOutput(NoOutput(g, n), b) = WithErrorPort(g, n, b)
<1>1. PICK m \in Nat : m = Outputs(g, n)
  BY NodeFacts
<1>2. PICK padded : padded = WithErrorPort(g, n, b)
  OBVIOUS
<1>3. padded = [o \in 1 .. m |-> IF o \in DOMAIN b THEN b[o] ELSE <<>>]
  BY <1>1, <1>2 DEF WithErrorPort
<1>4. DOMAIN a = 1 .. m
  BY <1>1 DEF OutputOf
<1>5. MergeOutput(a, padded) = MergeOutput(a, b)
  <2>1. \A o \in 1 .. m : a[o] \o (IF o \in DOMAIN padded THEN padded[o] ELSE <<>>)
                            = a[o] \o (IF o \in DOMAIN b THEN b[o] ELSE <<>>)
    BY <1>3
  <2> QED BY <1>4, <2>1 DEF MergeOutput
<1>6. MergeOutput(NoOutput(g, n), b) = padded
  <2>1. NoOutput(g, n) = [o \in 1 .. m |-> <<>>]
    BY <1>1 DEF NoOutput
  <2>2. \A o \in 1 .. m : (IF o \in DOMAIN b THEN b[o] ELSE <<>>) \in Seq(Nat)
    <3>1. <<>> \in Seq(Nat)
      OBVIOUS
    <3>2. \A o \in DOMAIN b : b[o] \in Seq(Nat)
      BY DEF Stream
    <3> QED BY <3>1, <3>2
  <2>3. \A o \in 1 .. m : <<>> \o (IF o \in DOMAIN b THEN b[o] ELSE <<>>)
                            = (IF o \in DOMAIN b THEN b[o] ELSE <<>>)
    BY <2>2, ConcatEmptySeq
  <2> QED BY <1>3, <2>1, <2>3 DEF MergeOutput
<1> QED BY <1>2, <1>5, <1>6

\* A wait that is given items hands the same items on.
LEMMA WaitPasses ==
    ASSUME NEW g, GraphOK(g), NEW n \in g.active, KindOf(g, n) = "wait",
           NEW items \in Stream, items # <<>>
    PROVE  /\ WithErrorPort(g, n, <<items>>) \in OutputOf(g, n)
           /\ WithEmptyItem(g, n, WithErrorPort(g, n, <<items>>)) = WithErrorPort(g, n, <<items>>)
<1>1. Outputs(g, n) \in 1 .. 2
  BY NodeFacts
<1>2. PICK output : output = WithErrorPort(g, n, <<items>>)
  OBVIOUS
<1>3. <<items>> \in Seq(Stream)
  OBVIOUS
<1>4. output \in OutputOf(g, n)
  BY <1>2, <1>3, OutputShapes
<1>5. output[1] = items
  <2>1. 1 \in 1 .. Outputs(g, n) /\ 1 \in DOMAIN <<items>>
    BY <1>1
  <2> QED BY <1>2, <2>1 DEF WithErrorPort
<1>6. WithEmptyItem(g, n, output) = output
  BY <1>5 DEF WithEmptyItem
<1> QED BY <1>2, <1>4, <1>6

\* Called whole, a wait that does not fail completes with its items.
LEMMA WaitWhole ==
    ASSUME NEW g, GraphOK(g), NEW run, RunOK(g, run), NEW n \in g.active, KindOf(g, n) = "wait",
           NEW input \in Input, input[1] # <<>>, ~WaitFails(input)
    PROVE  InvokeWhole(g, run, n, input)
             = Complete(g, run, n, input, WithErrorPort(g, n, <<input[1]>>))
<1>1. PICK loop \in LoopState : loop = run.loops[n]
  BY DEF RunOK
<1>2. PICK ran : ran = Execute(g, run, n, input)
  OBVIOUS
<1>3. ran.failed = FALSE /\ ran.output = <<input[1]>> /\ ran.loop = loop
  BY <1>1, <1>2, ExecuteIs
<1>4. PICK tried : tried = [run EXCEPT !.loops[n] = ran.loop,
                                       !.rows = IF ran.failed
                                                  THEN @ \o FailedAttempts(g, n, input) ELSE @]
  OBVIOUS
<1>5. tried = run
  <2>1. PICK status, stack, completed, old, rows :
          run = [status |-> status, pending |-> stack, completed |-> completed,
                 loops |-> old, rows |-> rows]
    BY DEF RunOK
  <2>2. old \in [g.active -> LoopState] /\ old[n] = loop
    BY <1>1, <2>1 DEF RunOK
  <2>3. PICK same : same = [old EXCEPT ![n] = loop]
    OBVIOUS
  <2>4. same = old
    BY <2>2, <2>3
  <2>5. PICK mid : mid = [run EXCEPT !.loops[n] = ran.loop]
    OBVIOUS
  <2>6. mid = [run EXCEPT !.loops = same]
    <3>1. run.loops = old
      BY <2>1
    <3> QED BY <1>3, <2>3, <2>5, <3>1, Zenon
  <2>7. mid = run
    BY <2>1, <2>4, <2>6
  <2>8. tried = [mid EXCEPT !.rows = IF ran.failed
                                       THEN @ \o FailedAttempts(g, n, input) ELSE @]
    BY <1>4, <2>5, Zenon
  <2>9. tried = [mid EXCEPT !.rows = mid.rows]
    BY <1>3, <2>8, Zenon
  <2> QED BY <2>1, <2>7, <2>9
<1>6. PICK items \in Stream : items = input[1]
  BY InputIs
<1>7. InvokeWhole(g, run, n, input)
        = Complete(g, tried, n, input,
                   WithEmptyItem(g, n, WithErrorPort(g, n, ran.output)))
  BY <1>2, <1>3, <1>4 DEF InvokeWhole
<1>8. WithEmptyItem(g, n, WithErrorPort(g, n, <<items>>)) = WithErrorPort(g, n, <<items>>)
  BY <1>6, WaitPasses
<1> QED BY <1>3, <1>5, <1>6, <1>7, <1>8

\* An item a wait does not fail on adds itself to the output, and no row.
LEMMA WaitItem ==
    ASSUME NEW g, GraphOK(g), NEW run, RunOK(g, run), NEW n \in g.active, KindOf(g, n) = "wait",
           NEW input \in Input, NEW p \in Nat, p # 0, NEW assembled, NEW w,
           ItemRun(g, run, n, input, p, assembled, w),
           NEW q \in DOMAIN input[1], q >= p, ~WaitFails(OneItem(input, q))
    PROVE  w[q] = [output |-> MergeOutput(w[q - 1].output, <<<<input[1][q]>>>>),
                   rows |-> w[q - 1].rows]
<1>0. input[1] \in Seq(Nat)
  BY InputIs DEF Stream
<1>1. PICK len \in Nat : len = Len(input[1]) /\ DOMAIN input[1] = 1 .. len
  BY <1>0
<1>2. q \in 0 .. len /\ q - 1 \in 0 .. len
  BY <1>1
<1>3. w[q] = ResolveItem(g, run, n, OneItem(input, q), w[q - 1])
  BY <1>1, <1>2 DEF ItemRun
<1>4. PICK acc \in Held(g, n) : acc = w[q - 1]
  BY <1>1, <1>2 DEF ItemRun
<1>5. PICK single \in Input : single = OneItem(input, q) /\ single[1] = <<input[1][q]>>
  BY <1>1, OneItemIs
<1>6. ResolveItem(g, run, n, single, acc)
        = [output |-> MergeOutput(acc.output, <<single[1]>>), rows |-> acc.rows]
  BY <1>5, ResolveItemIs
<1> QED BY <1>3, <1>4, <1>5, <1>6

\* A run whose trace is set back to rows.
WithRows(run, rows) == [run EXCEPT !.rows = rows]

LEMMA WithRowsIs ==
    ASSUME NEW g, NEW run, RunOK(g, run), NEW rows \in Seq(RowOf(g))
    PROVE  /\ RunOK(g, WithRows(run, rows)) /\ WithRows(run, rows).rows = rows
           /\ WithRows(run, rows).loops = run.loops
           /\ WithRows(run, rows).status = run.status
           /\ WithRows(run, run.rows) = run
<1>1. PICK status, stack, completed, loops, old :
        run = [status |-> status, pending |-> stack, completed |-> completed,
               loops |-> loops, rows |-> old]
  BY DEF RunOK
<1>2. PICK new : new = WithRows(run, rows)
  OBVIOUS
<1>3. new = [status |-> status, pending |-> stack, completed |-> completed,
             loops |-> loops, rows |-> rows]
  BY <1>1, <1>2 DEF WithRows
<1>4. RunOK(g, new)
  BY <1>1, <1>3 DEF RunOK
<1>5. WithRows(run, run.rows) = run
  BY <1>1 DEF WithRows
<1> QED BY <1>1, <1>2, <1>3, <1>4, <1>5

\* Interrupted after item k and taken up again from there, a per-item run holds after
\* every later item what it would have held.
LEMMA SplitItems ==
    ASSUME NEW g, GraphOK(g), NEW run, RunOK(g, run), NEW n \in g.active,
           NEW input \in Input, NEW p \in Nat, p # 0, NEW k \in p .. Len(input[1]),
           NEW assembled, NEW w, ItemRun(g, run, n, input, p, assembled, w),
           NEW other, other.loops = run.loops, other.rows = w[k].rows,
           NEW v, ItemRun(g, other, n, input, k + 1, w[k].output, v)
    PROVE  \A q \in k .. Len(input[1]) : v[q] = w[q]
<1>1. PICK len \in Nat : len = Len(input[1])
  BY InputIs DEF Stream
<1>2. k \in Nat /\ k \in 0 .. len
  BY <1>1
<1>3. \A q \in 0 .. len : q >= k + 1 =>
         /\ v[q] = ResolveItem(g, run, n, OneItem(input, q), v[q - 1])
         /\ w[q] = ResolveItem(g, run, n, OneItem(input, q), w[q - 1])
  <2>1. TAKE q \in 0 .. len
  <2>2. HAVE q >= k + 1
  <2>3. q >= p
    BY <1>2, <2>2
  <2>4. v[q] = ResolveItem(g, other, n, OneItem(input, q), v[q - 1])
    BY <1>1, <2>2 DEF ItemRun
  <2>5. w[q] = ResolveItem(g, run, n, OneItem(input, q), w[q - 1])
    BY <1>1, <2>3 DEF ItemRun
  <2>6. ResolveItem(g, other, n, OneItem(input, q), v[q - 1])
          = ResolveItem(g, run, n, OneItem(input, q), v[q - 1])
    BY ResolveSame
  <2> QED BY <2>4, <2>5, <2>6
<1>4. v[k] = w[k]
  <2>1. v[k] = [output |-> w[k].output, rows |-> other.rows]
    <3>1. k < k + 1
      BY <1>2
    <3> QED BY <1>1, <1>2, <3>1 DEF ItemRun
  <2>2. w[k] \in Held(g, n)
    BY <1>1, <1>2 DEF ItemRun
  <2> QED BY <2>1, <2>2 DEF Held
<1>5. PICK same : same = [q \in 0 .. len |-> IF q < k \/ v[q] = w[q] THEN 1 ELSE 0]
  OBVIOUS
<1>6. PICK U : U = {1}
  OBVIOUS
<1>7. same[0] \in U
  <2>1. 0 \in 0 .. len /\ (0 < k \/ 0 = k)
    BY <1>2
  <2> QED BY <1>4, <1>5, <1>6, <2>1
<1>8. \A q \in 1 .. len : same[q - 1] \in U => same[q] \in U
  <2>1. TAKE q \in 1 .. len
  <2>2. HAVE same[q - 1] \in U
  <2>3. q \in 0 .. len /\ q - 1 \in 0 .. len
    OBVIOUS
  <2>4. CASE q <= k
    <3>1. q < k \/ v[q] = w[q]
      BY <1>2, <1>4, <2>4
    <3> QED BY <1>5, <1>6, <2>3, <3>1
  <2>5. CASE q > k
    <3>1. q >= k + 1 /\ ~(q - 1 < k)
      BY <1>2, <2>5
    <3>2. v[q - 1] = w[q - 1]
      BY <1>5, <1>6, <2>2, <2>3, <3>1
    <3>3. v[q] = w[q]
      BY <1>3, <2>3, <3>1, <3>2
    <3> QED BY <1>5, <1>6, <2>3, <3>3
  <2> QED BY <1>2, <2>4, <2>5
<1>9. \A q \in 0 .. len : same[q] \in U
  BY <1>7, <1>8, StaysIn
<1>10. ASSUME NEW q \in k .. len PROVE v[q] = w[q]
  <2>1. q \in 0 .. len /\ ~(q < k)
    BY <1>2
  <2> QED BY <1>5, <1>6, <1>9, <2>1
<1> QED BY <1>1, <1>10

\* The checkpoint a wait that runs for run's next invocation may suspend with.
ItemsWait(g, taken, n, input, cp) ==
    \E p \in DOMAIN input[1] :
        /\ ~WaitFails(OneItem(input, p))
        /\ cp = ItemCheckpoint(g, taken, n, input, p, 1, NoOutput(g, n))
WaitsWith(g, run, cp) ==
    \E i \in HasNext(g, run) :
        LET inv == Invocation(g, run, i)
            taken == Taken(run, i)
            n == inv.node
            input == Seen(g, inv)
        IN  /\ Suspends(g, inv)
            /\ IF PerItem(g, n, input) THEN ItemsWait(g, taken, n, input, cp)
               ELSE ~WaitFails(input) /\ cp = Snapshot(taken, n, input, input, 0, NoOutput(g, n))

\* What the live run is once it resumes from cp.
Resumed(g, cp) ==
    IF cp.position = 0
      THEN Complete(g, Restored(g, cp), cp.node, cp.input, ResumeOutput(g, cp))
      ELSE FinishItems(g, Restored(g, cp), cp.node, cp.whole, cp.position + 1,
                       ResumedOutput(g, cp))

\* A per-item wait, suspended on any item, resumes to what it would have been, or waits
\* again as it could have waited in the first place.
LEMMA ItemsResume ==
    ASSUME NEW g, GraphOK(g), NEW run, RunOK(g, run), run.status = "running",
           NEW n \in g.active, KindOf(g, n) = "wait", NEW input \in Input,
           PerItem(g, n, input), NEW cp, ItemsWait(g, run, n, input, cp)
    PROVE  /\ cp.node = n
           /\ Resumed(g, cp) = FinishItems(g, run, n, input, 1, NoOutput(g, n))
           /\ cp.position > 0 =>
                 \A p \in (cp.position + 1) .. Len(cp.whole[1]) :
                    ~WaitFails(OneItem(cp.whole, p)) =>
                    ItemsWait(g, run, n, input,
                              ItemCheckpoint(g, Restored(g, cp), cp.node, cp.whole, p,
                                             cp.position + 1, ResumedOutput(g, cp)))
<1>1. PICK k \in DOMAIN input[1] : /\ ~WaitFails(OneItem(input, k))
                                 /\ cp = ItemCheckpoint(g, run, n, input, k, 1, NoOutput(g, n))
  BY DEF ItemsWait
<1>2. PICK len \in Nat : len = Len(input[1]) /\ DOMAIN input[1] = 1 .. len /\ input[1] \in Seq(Nat)
  BY InputIs DEF Stream
<1>3. PICK base \in OutputOf(g, n) : base = NoOutput(g, n)
  BY OutputShapes
<1>4. PICK one \in Nat : one = 1
  OBVIOUS
<1>5. PICK w : ItemRun(g, run, n, input, one, base, w)
  BY <1>4, ItemRuns
<1>6. \A q \in 0 .. len : ResolveItems(g, run, n, input, 1, q, base) = w[q]
  BY <1>2, <1>4, <1>5 DEF ItemRun
<1>7. w[k] = [output |-> MergeOutput(w[k - 1].output, <<<<input[1][k]>>>>),
              rows |-> w[k - 1].rows]
  BY <1>1, <1>2, <1>4, <1>5, WaitItem
<1>8. \A q \in 0 .. len : /\ w[q] \in Held(g, n) /\ w[q].output \in OutputOf(g, n)
                          /\ w[q].rows \in Seq(RowOf(g))
  BY <1>2, <1>5 DEF ItemRun, Held
<1>9. PICK position : position = IF len > 1 THEN k ELSE 0
  OBVIOUS
<1>r. PICK other : other = WithRows(run, w[k - 1].rows)
  OBVIOUS
<1>s. /\ RunOK(g, other) /\ other.rows = w[k - 1].rows /\ other.loops = run.loops
      /\ other.status = "running"
      /\ \A more : [other EXCEPT !.rows = more] = [run EXCEPT !.rows = more]
  <2>1. k - 1 \in 0 .. len
    BY <1>2
  <2>2. PICK rows \in Seq(RowOf(g)) : rows = w[k - 1].rows
    BY <1>8, <2>1
  <2>3. other = WithRows(run, rows)
    BY <1>r, <2>2
  <2>4. /\ RunOK(g, other) /\ other.rows = rows /\ other.loops = run.loops
        /\ other.status = run.status
    BY <2>3, WithRowsIs
  <2>5. \A more : [other EXCEPT !.rows = more] = [run EXCEPT !.rows = more]
    <3>1. PICK status, stack, completed, loops, old :
            run = [status |-> status, pending |-> stack, completed |-> completed,
                   loops |-> loops, rows |-> old]
      BY DEF RunOK
    <3>2. other = [status |-> status, pending |-> stack, completed |-> completed,
                   loops |-> loops, rows |-> rows]
      BY <2>3, <3>1 DEF WithRows
    <3> QED BY <3>1, <3>2
  <2>6. other.status = "running"
    BY <2>4
  <2> QED BY <2>2, <2>4, <2>5, <2>6, Zenon
<1>10. /\ Restored(g, cp) = other
       /\ cp.node = n /\ cp.input = OneItem(input, k) /\ cp.whole = input
       /\ cp.position = position /\ cp.output = w[k - 1].output
  <2>1. k - 1 \in 0 .. len
    BY <1>2
  <2>2. cp = Snapshot(other, n, OneItem(input, k), input, position, w[k - 1].output)
    BY <1>1, <1>2, <1>3, <1>6, <1>9, <1>r, <2>1 DEF ItemCheckpoint, WithRows
  <2> QED BY <1>s, <2>2, RestoredIs
<1>11. PICK item \in Stream : item = <<input[1][k]>>
  <2>1. input[1][k] \in Nat
    BY <1>2
  <2>2. <<input[1][k]>> \in Seq(Nat)
    BY <2>1
  <2> QED BY <2>2 DEF Stream
<1>12. OneItem(input, k) \in Input /\ OneItem(input, k)[1] = item
  BY <1>2, <1>11, OneItemIs
<1>13. ResumeOutput(g, cp) = WithErrorPort(g, n, <<item>>)
  BY <1>10, <1>12 DEF ResumeOutput
<1>14. <<item>> \in Seq(Stream)
  OBVIOUS
<1>15. ResumedOutput(g, cp) = w[k].output
  <2>1. k \in 0 .. len /\ k - 1 \in 0 .. len /\ k >= 1
    BY <1>2
  <2>2. MergeOutput(w[k - 1].output, WithErrorPort(g, n, <<item>>))
          = MergeOutput(w[k - 1].output, <<item>>)
    BY <1>8, <1>14, <2>1, Padded
  <2>3. w[k].output = MergeOutput(w[k - 1].output, <<item>>)
    <3>1. PICK more : more = MergeOutput(w[k - 1].output, <<<<input[1][k]>>>>)
      OBVIOUS
    <3>2. w[k] = [output |-> more, rows |-> w[k - 1].rows]
      BY <1>7, <3>1
    <3>3. w[k].output = more
      BY <3>2
    <3> QED BY <1>11, <3>1, <3>3
  <2> QED BY <1>10, <1>13, <2>2, <2>3 DEF ResumedOutput
<1>16. PICK done : done = ResolveItems(g, run, n, input, 1, len, base)
  OBVIOUS
<1>17. done = w[len]
  <2>1. len \in 0 .. len
    OBVIOUS
  <2> QED BY <1>6, <1>16, <2>1
<1>18. w[k].rows = other.rows
  BY <1>7, <1>s
<1>19. FinishItems(g, run, n, input, 1, base)
         = Complete(g, [run EXCEPT !.rows = w[len].rows], n, input,
                    WithEmptyItem(g, n, w[len].output))
  BY <1>2, <1>16, <1>17 DEF FinishItems
<1>20. CASE len = 1
  <2>1. k = 1 /\ position = 0
    BY <1>2, <1>9, <1>20
  <2>2. OneItem(input, k) = input
    <3>1. input[1] = item
      BY <1>2, <1>11, <1>20, <2>1
    <3>2. OneItem(input, k) = [input EXCEPT ![1] = item]
      BY <1>11 DEF OneItem
    <3>3. PICK S : S = Stream
      OBVIOUS
    <3>4. input \in [1 .. 2 -> S]
      BY <3>3 DEF Input
    <3> QED BY <3>1, <3>2, <3>4
  <2>3. PICK output : output = WithErrorPort(g, n, <<item>>)
    OBVIOUS
  <2>4. Resumed(g, cp) = Complete(g, other, n, input, output)
    BY <1>10, <1>13, <2>1, <2>2, <2>3 DEF Resumed
  <2>5. w[len].output = output
    <3>1. 0 \in 0 .. len /\ 1 \in 0 .. len /\ 0 < one
      BY <1>4, <1>20
    <3>2. w[0].output = base
      BY <1>2, <1>5, <3>1 DEF ItemRun
    <3>3. w[1].output = MergeOutput(w[0].output, <<item>>)
      <4>1. PICK more : more = MergeOutput(w[0].output, <<<<input[1][1]>>>>)
        OBVIOUS
      <4>2. w[1] = [output |-> more, rows |-> w[0].rows]
        <5>1. w[1] = [output |-> MergeOutput(w[1 - 1].output, <<<<input[1][1]>>>>),
                      rows |-> w[1 - 1].rows]
          BY <1>7, <2>1
        <5> QED BY <4>1, <5>1
      <4>3. w[1].output = more
        BY <4>2
      <4> QED BY <1>11, <2>1, <4>1, <4>3
    <3>4. MergeOutput(NoOutput(g, n), <<item>>) = output
      BY <1>3, <1>14, <2>3, Padded
    <3> QED BY <1>3, <1>20, <3>2, <3>3, <3>4
  <2>6. WithEmptyItem(g, n, output) = output
    <3>1. item # <<>>
      BY <1>11
    <3> QED BY <2>3, <3>1, WaitPasses
  <2>7. [run EXCEPT !.rows = w[len].rows] = other
    <3>1. k - 1 = 0 /\ len = k
      BY <1>20, <2>1
    <3>2. [run EXCEPT !.rows = w[k].rows] = other
      BY <1>18, <1>r, <1>s DEF WithRows
    <3> QED BY <3>1, <3>2
  <2> QED BY <1>3, <1>10, <1>19, <2>1, <2>4, <2>5, <2>6, <2>7
<1>21. CASE len # 1
  <2>1. len > 1 /\ position = k
    <3>1. k \in 1 .. len
      BY <1>2
    <3>2. len > 1
      BY <1>21, <3>1
    <3> QED BY <1>9, <3>2
  <2>2. PICK next \in Nat : next = k + 1
    BY <1>2
  <2>3. PICK v : ItemRun(g, other, n, input, next, w[k].output, v)
    BY <1>2, <1>8, <1>s, <2>2, ItemRuns
  <2>4. \A q \in k .. len : v[q] = w[q]
    <3>1. ItemRun(g, other, n, input, k + 1, w[k].output, v)
      BY <2>2, <2>3
    <3>2. k \in one .. Len(input[1]) /\ one # 0
      BY <1>2, <1>4
    <3>3. \A q \in k .. Len(input[1]) : v[q] = w[q]
      BY <1>5, <1>18, <1>s, <3>1, <3>2, SplitItems
    <3> QED BY <1>2, <3>3
  <2>5. \A q \in k .. len : ResolveItems(g, other, n, input, next, q, w[k].output) = w[q]
    BY <1>2, <2>3, <2>4 DEF ItemRun
  <2>6. Resumed(g, cp) = FinishItems(g, other, n, input, next, w[k].output)
    BY <1>2, <1>10, <1>15, <2>1, <2>2 DEF Resumed
  <2>7. FinishItems(g, other, n, input, next, w[k].output)
          = Complete(g, [run EXCEPT !.rows = w[len].rows], n, input,
                     WithEmptyItem(g, n, w[len].output))
    <3>1. ResolveItems(g, other, n, input, next, len, w[k].output) = w[len]
      BY <1>2, <2>5
    <3> QED BY <1>2, <1>s, <3>1 DEF FinishItems
  <2>8. ASSUME NEW p \in (cp.position + 1) .. Len(cp.whole[1]),
               ~WaitFails(OneItem(cp.whole, p))
        PROVE  ItemsWait(g, run, n, input,
                         ItemCheckpoint(g, Restored(g, cp), cp.node, cp.whole, p,
                                        cp.position + 1, ResumedOutput(g, cp)))
    <3>1. p \in (k + 1) .. len
      BY <1>2, <1>10, <2>1
    <3>2. PICK again : again = ItemCheckpoint(g, other, n, input, p, next, w[k].output)
      OBVIOUS
    <3>3. again = ItemCheckpoint(g, run, n, input, p, 1, base)
      <4>1. p - 1 \in k .. len /\ p - 1 \in 0 .. len
        BY <1>2, <3>1
      <4>2. ResolveItems(g, other, n, input, next, p - 1, w[k].output)
              = ResolveItems(g, run, n, input, 1, p - 1, base)
        BY <1>6, <2>5, <4>1
      <4>3. PICK rows, output : /\ rows = ResolveItems(g, run, n, input, 1, p - 1, base).rows
                                /\ output = ResolveItems(g, run, n, input, 1, p - 1, base).output
        OBVIOUS
      <4>4. [other EXCEPT !.rows = rows] = [run EXCEPT !.rows = rows]
        BY <1>s
      <4> QED BY <3>2, <4>2, <4>3, <4>4 DEF ItemCheckpoint
    <3>4. ItemsWait(g, run, n, input, again)
      <4>1. p \in DOMAIN input[1]
        BY <1>2, <3>1
      <4>2. ~WaitFails(OneItem(input, p))
        BY <1>10, <2>8
      <4> QED BY <1>3, <3>3, <4>1, <4>2 DEF ItemsWait
    <3>5. ItemCheckpoint(g, Restored(g, cp), cp.node, cp.whole, p,
                         cp.position + 1, ResumedOutput(g, cp)) = again
      BY <1>10, <1>15, <2>1, <2>2, <3>2
    <3> QED BY <3>4, <3>5
  <2> QED BY <1>3, <1>10, <1>19, <2>6, <2>7, <2>8
<1> QED BY <1>20, <1>21

\* Whatever a wait suspended with, resuming it is what running it through would have been,
\* and it may wait again only as it could have waited in the first place.
LEMMA WaitResumes ==
    ASSUME NEW g, GraphOK(g), NEW run, RunOK(g, run), run.status = "running",
           NEW cp, WaitsWith(g, run, cp)
    PROVE  /\ cp.node \in g.active /\ cp.node # 0
           /\ Resumed(g, cp) = Onward(g, run)
           /\ cp.position > 0 =>
                 \A p \in (cp.position + 1) .. Len(cp.whole[1]) :
                    ~WaitFails(OneItem(cp.whole, p)) =>
                    WaitsWith(g, run,
                              ItemCheckpoint(g, Restored(g, cp), cp.node, cp.whole, p,
                                             cp.position + 1, ResumedOutput(g, cp)))
<1> DEFINE inv(i) == Invocation(g, run, i)
           Whole(i) == Snapshot(Taken(run, i), inv(i).node, Seen(g, inv(i)), Seen(g, inv(i)), 0,
                                NoOutput(g, inv(i).node))
<1>1. PICK i \in HasNext(g, run) :
        /\ Suspends(g, inv(i))
        /\ IF PerItem(g, inv(i).node, Seen(g, inv(i)))
             THEN ItemsWait(g, Taken(run, i), inv(i).node, Seen(g, inv(i)), cp)
             ELSE ~WaitFails(Seen(g, inv(i))) /\ cp = Whole(i)
  BY DEF WaitsWith
<1>2. PICK call : call = inv(i)
  OBVIOUS
<1>3. PICK taken : taken = Taken(run, i)
  OBVIOUS
<1>4. /\ i \in 0 .. Len(run.pending) /\ Min(HasNext(g, run)) = i /\ call \in Call(g)
      /\ KindOf(g, call.node) = "wait" /\ ~call.skipped => call.input[1] # <<>>
  BY <1>2, NextIs
<1>5. RunOK(g, taken) /\ taken.rows = run.rows /\ taken.status = "running"
  BY <1>3, <1>4, TakenOK
<1>6. PICK n \in g.active : n = call.node
  BY <1>4 DEF Call
<1>7. /\ KindOf(g, n) = "wait" /\ ~call.skipped /\ ~Disabled(g, n) /\ ~g.nodes[n].pinned
  BY <1>1, <1>2, <1>6 DEF Suspends
<1>8. PICK input \in Input : input = Seen(g, call) /\ input[1] # <<>>
  <2>1. call.input \in Input /\ call.input[1] # <<>>
    BY <1>4, <1>6, <1>7 DEF Call
  <2> QED BY <2>1, SeenIs
<1>9. Onward(g, run) = RunNode(g, taken, call)
  BY <1>1, <1>2, <1>3, <1>4 DEF Onward
<1>10. Onward(g, run) = IF PerItem(g, n, input)
                          THEN FinishItems(g, taken, n, input, 1, NoOutput(g, n))
                          ELSE InvokeWhole(g, taken, n, input)
  BY <1>6, <1>7, <1>8, <1>9 DEF RunNode
<1>11. n # 0
  BY NodeFacts
<1>12. CASE PerItem(g, n, input)
  <2>1. ItemsWait(g, taken, n, input, cp)
    BY <1>1, <1>2, <1>3, <1>6, <1>8, <1>12
  <2> DEFINE next(p) == ItemCheckpoint(g, Restored(g, cp), cp.node, cp.whole, p,
                                       cp.position + 1, ResumedOutput(g, cp))
  <2>2. /\ cp.node = n
        /\ Resumed(g, cp) = FinishItems(g, taken, n, input, 1, NoOutput(g, n))
        /\ cp.position > 0 => \A p \in (cp.position + 1) .. Len(cp.whole[1]) :
                                 ~WaitFails(OneItem(cp.whole, p)) =>
                                    ItemsWait(g, taken, n, input, next(p))
    BY <1>5, <1>7, <1>12, <2>1, ItemsResume
  <2>3. \A c : ItemsWait(g, taken, n, input, c) => WaitsWith(g, run, c)
    BY <1>1, <1>2, <1>3, <1>6, <1>8, <1>12 DEF WaitsWith
  <2> HIDE DEF next
  <2>4. cp.position > 0 => \A p \in (cp.position + 1) .. Len(cp.whole[1]) :
                              ~WaitFails(OneItem(cp.whole, p)) => WaitsWith(g, run, next(p))
    BY <2>2, <2>3
  <2> QED BY <1>10, <1>11, <1>12, <2>2, <2>4 DEF next
<1>13. CASE ~PerItem(g, n, input)
  <2>1. ~WaitFails(input) /\ cp = Snapshot(taken, n, input, input, 0, NoOutput(g, n))
    BY <1>1, <1>2, <1>3, <1>6, <1>8, <1>13
  <2>2. /\ Restored(g, cp) = taken
        /\ cp.node = n /\ cp.input = input /\ cp.position = 0
    BY <1>5, <2>1, RestoredIs
  <2>3. Resumed(g, cp)
          = Complete(g, taken, n, input, WithErrorPort(g, n, <<input[1]>>))
    BY <2>2 DEF Resumed, ResumeOutput
  <2>4. InvokeWhole(g, taken, n, input)
          = Complete(g, taken, n, input, WithErrorPort(g, n, <<input[1]>>))
    BY <1>5, <1>7, <1>8, <2>1, WaitWhole
  <2> QED BY <1>10, <1>11, <1>13, <2>2, <2>3, <2>4
<1> QED BY <1>12, <1>13

-----------------------------------------------------------------------------
(* The inductive invariant. *)

\* The states s[0] to s[N] of an uninterrupted run.
Orbit(g, s, N) ==
    /\ s[0] = NewRun(g)
    /\ \A i \in 0 .. N : RunOK(g, s[i]) /\ Grows(s[i].rows, s[N].rows)
    /\ \A i \in 1 .. N : /\ s[i - 1].status = "running" /\ s[i] = Onward(g, s[i - 1])

\* A run the worker has let go of.
Parked(g, rows) ==
    [status |-> "waiting", pending |-> <<>>, completed |-> <<>>,
     loops |-> [n \in g.active |-> NewLoop], rows |-> rows]

\* The live run is at state k of the plain one, or waits to go on from there.
Follows(g, s, N, k, run, cp) ==
    \/ run = s[k] /\ cp = NoCheckpoint
    \/ k < N /\ run = Parked(g, s[k].rows) /\ WaitsWith(g, s[k], cp)

\* The plain run is at the end of its orbit, and the live run somewhere along it: at its
\* start until the plain run has ended.
Along(g, s, N, k) ==
    /\ Orbit(g, s, N) /\ plain = s[N]
    /\ Follows(g, s, N, k, live, checkpoint)
    /\ ~Ended(plain) => k = 0 /\ live = s[0] /\ checkpoint = NoCheckpoint

OrbitInv ==
    /\ GraphOK(graph)
    /\ \E N \in Nat : \E s : \E k \in 0 .. N : Along(graph, s, N, k)

LEMMA AdvanceIs == \A run : Advance(run) = Onward(graph, run)
  BY DEF Advance, Onward

LEMMA OrbitInit ==
    ASSUME Init
    PROVE  OrbitInv
<1>1. PICK d \in Graph : Compiles(d) /\ Starts(d) /\ graph = PrepareGraph(d)
  BY DEF Init
<1>2. PICK g : g = graph
  OBVIOUS
<1>3. GraphOK(g)
  BY <1>1, <1>2, Prepared
<1>4. PICK s : s = [i \in 0 .. 0 |-> NewRun(g)]
  OBVIOUS
<1>5. s[0] = NewRun(g)
  BY <1>4
<1>6. RunOK(g, s[0]) /\ Grows(s[0].rows, s[0].rows)
  <2>1. RunOK(g, s[0])
    BY <1>3, <1>5, SeedOK
  <2>2. Len(s[0].rows) \in Nat
    BY <2>1 DEF RunOK
  <2> QED BY <2>1, <2>2 DEF Grows
<1>7. Orbit(g, s, 0)
  BY <1>5, <1>6 DEF Orbit
<1>8. plain = s[0] /\ live = s[0] /\ checkpoint = NoCheckpoint
  BY <1>2, <1>5 DEF Init
<1>9. Along(g, s, 0, 0)
  BY <1>7, <1>8 DEF Along, Follows
<1>10. 0 \in Nat /\ 0 \in 0 .. 0
  OBVIOUS
<1> QED BY <1>2, <1>3, <1>9, <1>10 DEF OrbitInv

\* What a suspension leaves of a run whose rows are kept.
LEMMA ParkedIs ==
    ASSUME NEW g, NEW run,
           run = [status |-> run.status, pending |-> run.pending, completed |-> run.completed,
                  loops |-> run.loops, rows |-> run.rows]
    PROVE  [run EXCEPT !.status = "waiting", !.pending = <<>>, !.completed = <<>>,
                       !.loops = [n \in g.active |-> NewLoop]] = Parked(g, run.rows)
<1>1. PICK status, stack, completed, loops, rows :
        run = [status |-> status, pending |-> stack, completed |-> completed,
               loops |-> loops, rows |-> rows]
  OBVIOUS
<1>2. PICK fresh : fresh = [n \in g.active |-> NewLoop]
  OBVIOUS
<1>3. [run EXCEPT !.status = "waiting", !.pending = <<>>, !.completed = <<>>, !.loops = fresh]
        = [status |-> "waiting", pending |-> <<>>, completed |-> <<>>, loops |-> fresh,
           rows |-> rows]
  <2>1. PICK empty : empty = <<>>
    OBVIOUS
  <2>2. [run EXCEPT !.status = "waiting", !.pending = empty, !.completed = empty,
                    !.loops = fresh]
          = [status |-> "waiting", pending |-> empty, completed |-> empty, loops |-> fresh,
             rows |-> rows]
    <3>1. PICK one : one = [run EXCEPT !.status = "waiting", !.pending = empty]
      OBVIOUS
    <3>2. one = [status |-> "waiting", pending |-> empty, completed |-> completed,
                 loops |-> loops, rows |-> rows]
      BY <1>1, <3>1
    <3>3. PICK two : two = [one EXCEPT !.completed = empty]
      OBVIOUS
    <3>4. two = [status |-> "waiting", pending |-> empty, completed |-> empty,
                 loops |-> loops, rows |-> rows]
      BY <3>2, <3>3
    <3>5. [two EXCEPT !.loops = fresh]
            = [status |-> "waiting", pending |-> empty, completed |-> empty, loops |-> fresh,
               rows |-> rows]
      BY <3>4
    <3> QED BY <3>1, <3>3, <3>5, Zenon
  <2> QED BY <2>1, <2>2, Zenon
<1>4. run.rows = rows
  BY <1>1
<1> QED BY <1>2, <1>3, <1>4 DEF Parked

\* A live run that is not parked is a state of the plain one, and short of its end while
\* it goes on and the plain run has ended.
LEMMA LiveIs ==
    ASSUME NEW g, NEW s, NEW N \in Nat, NEW k \in 0 .. N, Along(g, s, N, k)
    PROVE  /\ RunOK(g, s[k]) /\ s[k].status # "waiting"
           /\ live.status = "waiting" => /\ k < N /\ live = Parked(g, s[k].rows)
                                         /\ WaitsWith(g, s[k], checkpoint)
           /\ live.status # "waiting" => live = s[k] /\ checkpoint = NoCheckpoint
           /\ Ended(plain) /\ live.status = "running" => k < N
           /\ k < N => /\ s[k].status = "running" /\ s[k + 1] = Onward(g, s[k])
                       /\ k + 1 \in 0 .. N
           /\ live.rows = s[k].rows
<1>1. RunOK(g, s[k]) /\ s[k].status # "waiting"
  BY DEF Along, Orbit, RunOK
<1>2. Follows(g, s, N, k, live, checkpoint)
  BY DEF Along
<1>3. Parked(g, s[k].rows).status = "waiting" /\ Parked(g, s[k].rows).rows = s[k].rows
  BY DEF Parked
<1>4. live.status = "waiting" => /\ k < N /\ live = Parked(g, s[k].rows)
                                 /\ WaitsWith(g, s[k], checkpoint)
  BY <1>1, <1>2 DEF Follows
<1>5. live.status # "waiting" => live = s[k] /\ checkpoint = NoCheckpoint
  BY <1>2, <1>3 DEF Follows
<1>6. Ended(plain) /\ live.status = "running" => k < N
  <2>1. SUFFICES ASSUME Ended(plain), live.status = "running", ~(k < N) PROVE FALSE
    OBVIOUS
  <2>2. k = N /\ live = s[k]
    BY <1>5, <2>1
  <2>3. plain = s[N]
    BY DEF Along
  <2> QED BY <2>1, <2>2, <2>3 DEF Ended
<1>7. ASSUME k < N
      PROVE  s[k].status = "running" /\ s[k + 1] = Onward(g, s[k]) /\ k + 1 \in 0 .. N
  <2>1. k + 1 \in 1 .. N /\ (k + 1) - 1 = k
    BY <1>7
  <2>2. \A i \in 1 .. N : s[i - 1].status = "running" /\ s[i] = Onward(g, s[i - 1])
    BY DEF Along, Orbit
  <2>3. s[(k + 1) - 1].status = "running" /\ s[k + 1] = Onward(g, s[(k + 1) - 1])
    BY <2>1, <2>2
  <2> QED BY <2>1, <2>3
<1>8. live.rows = s[k].rows
  BY <1>3, <1>4, <1>5
<1> QED BY <1>1, <1>4, <1>5, <1>6, <1>7, <1>8

LEMMA OrbitPlain ==
    ASSUME OrbitInv, PlainStep
    PROVE  OrbitInv'
<1>1. PICK g : g = graph
  OBVIOUS
<1>20. PICK N \in Nat : \E s : \E k \in 0 .. N : Along(g, s, N, k)
  BY <1>1 DEF OrbitInv
<1>2. PICK s : \E k \in 0 .. N : Along(g, s, N, k)
  BY <1>20
<1>3. PICK k \in 0 .. N : Along(g, s, N, k)
  BY <1>2
<1>4. /\ plain.status = "running" /\ plain' = Onward(g, plain)
      /\ graph' = g /\ live' = live /\ checkpoint' = checkpoint
  BY <1>1, AdvanceIs DEF PlainStep, Goes
<1>5. Orbit(g, s, N) /\ plain = s[N] /\ live = s[0] /\ checkpoint = NoCheckpoint
  BY <1>3, <1>4 DEF Along, Ended
<1>6. PICK next : next = Onward(g, plain)
  OBVIOUS
<1>7. N \in 0 .. N
  OBVIOUS
<1>8. RunOK(g, s[N]) /\ RunOK(g, next) /\ Grows(s[N].rows, next.rows)
  <2>1. RunOK(g, s[N])
    BY <1>5, <1>7 DEF Orbit
  <2>2. GraphOK(g)
    BY <1>1 DEF OrbitInv
  <2> QED BY <1>5, <1>6, <2>1, <2>2, OnwardOK
<1>9. PICK M \in Nat : M = N + 1
  OBVIOUS
<1>10. PICK t : t = [i \in 0 .. M |-> IF i = M THEN next ELSE s[i]]
  OBVIOUS
<1>11. t[M] = next /\ \A i \in 0 .. N : t[i] = s[i]
  BY <1>9, <1>10
<1>12. ASSUME NEW i \in 0 .. M PROVE RunOK(g, t[i]) /\ Grows(t[i].rows, t[M].rows)
  <2>1. CASE i = M
    <3>1. Len(next.rows) \in Nat
      BY <1>8 DEF RunOK
    <3>2. Grows(next.rows, next.rows)
      BY <3>1 DEF Grows
    <3> QED BY <1>8, <1>11, <2>1, <3>2
  <2>2. CASE i # M
    <3>1. i \in 0 .. N
      BY <1>9, <2>2
    <3>2. RunOK(g, s[i]) /\ Grows(s[i].rows, s[N].rows)
      BY <1>5, <3>1 DEF Orbit
    <3>3. /\ s[i].rows \in Seq(RowOf(g)) /\ s[N].rows \in Seq(RowOf(g))
          /\ next.rows \in Seq(RowOf(g))
      BY <1>8, <3>2 DEF RunOK
    <3>4. Grows(s[i].rows, next.rows)
      BY <1>8, <3>2, <3>3, GrowsOn
    <3> QED BY <1>11, <3>1, <3>2, <3>4
  <2> QED BY <2>1, <2>2
<1>13. ASSUME NEW i \in 1 .. M
       PROVE  t[i - 1].status = "running" /\ t[i] = Onward(g, t[i - 1])
  <2>1. i - 1 \in 0 .. N
    BY <1>9
  <2>2. CASE i = M
    <3>1. t[i - 1] = s[N]
      BY <1>9, <1>11, <2>1, <2>2
    <3> QED BY <1>4, <1>5, <1>6, <1>11, <2>2, <3>1
  <2>3. CASE i # M
    <3>1. i \in 1 .. N /\ i \in 0 .. N
      BY <1>9, <2>3
    <3>2. s[i - 1].status = "running" /\ s[i] = Onward(g, s[i - 1])
      BY <1>5, <3>1 DEF Orbit
    <3> QED BY <1>11, <2>1, <3>1, <3>2
  <2> QED BY <2>2, <2>3
<1>14. t[0] = s[0]
  BY <1>11
<1>15. Orbit(g, t, M)
  BY <1>5, <1>12, <1>13, <1>14 DEF Orbit
<1>16. Along(g, t, M, 0)'
  <2>1. plain' = t[M] /\ live' = t[0] /\ checkpoint' = NoCheckpoint
    BY <1>4, <1>5, <1>6, <1>11, <1>14
  <2> QED BY <1>15, <2>1 DEF Along, Follows
<1>17. 0 \in 0 .. M
  OBVIOUS
<1>18. GraphOK(g)
  BY <1>1 DEF OrbitInv
<1> QED BY <1>4, <1>16, <1>17, <1>18 DEF OrbitInv

\* A step of the live run, on its own or from a checkpoint, is the plain run's next.
LEMMA OrbitMoves ==
    ASSUME NEW g, g = graph, NEW s, NEW N \in Nat, NEW k \in 0 .. N, Along(g, s, N, k),
           Ended(plain), OrbitInv, k < N, live' = s[k + 1], checkpoint' = NoCheckpoint,
           UNCHANGED <<graph, plain>>
    PROVE  OrbitInv'
<1>1. k + 1 \in 0 .. N
  OBVIOUS
<1>2. Along(g, s, N, k + 1)'
  <2>1. Orbit(g, s, N) /\ plain' = s[N]
    BY DEF Along
  <2>2. Ended(plain)'
    OBVIOUS
  <2> QED BY <2>1, <2>2 DEF Along, Follows
<1>3. graph' = g /\ GraphOK(g)
  BY DEF OrbitInv
<1> QED BY <1>1, <1>2, <1>3 DEF OrbitInv

LEMMA OrbitWaits ==
    ASSUME NEW g, g = graph, NEW s, NEW N \in Nat, NEW k \in 0 .. N, Along(g, s, N, k),
           Ended(plain), OrbitInv, k < N, live' = Parked(g, s[k].rows),
           WaitsWith(g, s[k], checkpoint'), UNCHANGED <<graph, plain>>
    PROVE  OrbitInv'
<1>1. Along(g, s, N, k)'
  <2>1. Orbit(g, s, N) /\ plain' = s[N]
    BY DEF Along
  <2>2. Ended(plain)'
    OBVIOUS
  <2> QED BY <2>1, <2>2 DEF Along, Follows
<1>2. graph' = g /\ GraphOK(g)
  BY DEF OrbitInv
<1> QED BY <1>1, <1>2 DEF OrbitInv

LEMMA OrbitLive ==
    ASSUME OrbitInv, LiveStep \/ LiveSuspend
    PROVE  OrbitInv'
<1>1. PICK g : g = graph
  OBVIOUS
<1>20. PICK N \in Nat : \E s : \E k \in 0 .. N : Along(g, s, N, k)
  BY <1>1 DEF OrbitInv
<1>2. PICK s : \E k \in 0 .. N : Along(g, s, N, k)
  BY <1>20
<1>3. PICK k \in 0 .. N : Along(g, s, N, k)
  BY <1>2
<1>4. Ended(plain) /\ live.status = "running" /\ graph' = graph /\ plain' = plain
  BY DEF LiveStep, LiveSuspend, Suspend, Goes
<1>5. live = s[k] /\ checkpoint = NoCheckpoint /\ k < N /\ s[k + 1] = Onward(g, s[k])
      /\ RunOK(g, s[k])
  BY <1>3, <1>4, LiveIs
<1>6. CASE LiveStep
  <2>1. live' = s[k + 1] /\ checkpoint' = NoCheckpoint
    BY <1>1, <1>5, <1>6, AdvanceIs DEF LiveStep
  <2> QED BY <1>1, <1>3, <1>4, <1>5, <2>1, OrbitMoves
<1>7. CASE LiveSuspend
  <2>1. PICK cp : Suspend(cp) /\ WaitsWith(g, s[k], cp)
    <3>1. PICK i \in HasNext(g, live) :
            LET inv == Invocation(g, live, i)
                run == Taken(live, i)
                n == inv.node
                input == Seen(g, inv)
            IN  /\ Suspends(g, inv)
                /\ IF PerItem(g, n, input)
                     THEN \E p \in DOMAIN input[1] :
                            /\ ~WaitFails(OneItem(input, p))
                            /\ Suspend(ItemCheckpoint(g, run, n, input, p, 1, NoOutput(g, n)))
                     ELSE /\ ~WaitFails(input)
                          /\ Suspend(Snapshot(run, n, input, input, 0, NoOutput(g, n)))
      BY <1>1, <1>7 DEF LiveSuspend
    <3>2. PICK inv : inv = Invocation(g, live, i)
      OBVIOUS
    <3>3. PICK run : run = Taken(live, i)
      OBVIOUS
    <3>4. PICK input : input = Seen(g, inv)
      OBVIOUS
    <3>5. CASE PerItem(g, inv.node, input)
      <4>1. PICK p \in DOMAIN input[1] :
              /\ ~WaitFails(OneItem(input, p))
              /\ Suspend(ItemCheckpoint(g, run, inv.node, input, p, 1, NoOutput(g, inv.node)))
        BY <3>1, <3>2, <3>3, <3>4, <3>5
      <4>2. PICK cp : cp = ItemCheckpoint(g, run, inv.node, input, p, 1, NoOutput(g, inv.node))
        OBVIOUS
      <4>3. ItemsWait(g, run, inv.node, input, cp)
        BY <4>1, <4>2 DEF ItemsWait
      <4>4. WaitsWith(g, live, cp)
        BY <3>1, <3>2, <3>3, <3>4, <3>5, <4>3 DEF WaitsWith
      <4>5. Suspend(cp)
        BY <4>1, <4>2
      <4> QED BY <1>5, <4>4, <4>5
    <3>6. CASE ~PerItem(g, inv.node, input)
      <4>1. PICK cp : cp = Snapshot(run, inv.node, input, input, 0, NoOutput(g, inv.node))
        OBVIOUS
      <4>2. Suspend(cp)
        BY <3>1, <3>2, <3>3, <3>4, <3>6, <4>1
      <4>3. WaitsWith(g, live, cp)
        BY <3>1, <3>2, <3>3, <3>4, <3>6, <4>1 DEF WaitsWith
      <4> QED BY <1>5, <4>2, <4>3
    <3> QED BY <3>5, <3>6
  <2>2. checkpoint' = cp /\ live' = Parked(g, s[k].rows)
    <3>1. live = [status |-> live.status, pending |-> live.pending,
                  completed |-> live.completed, loops |-> live.loops, rows |-> live.rows]
      BY <1>5 DEF RunOK
    <3>2. [live EXCEPT !.status = "waiting", !.pending = <<>>, !.completed = <<>>,
                       !.loops = [n \in g.active |-> NewLoop]] = Parked(g, live.rows)
      BY <3>1, ParkedIs
    <3> QED BY <1>1, <1>5, <2>1, <3>2 DEF Suspend
  <2> QED BY <1>1, <1>3, <1>4, <1>5, <2>1, <2>2, OrbitWaits
<1> QED BY <1>6, <1>7

LEMMA OrbitResume ==
    ASSUME OrbitInv, Resume \/ SuspendAgain
    PROVE  OrbitInv'
<1>1. PICK g : g = graph
  OBVIOUS
<1>20. PICK N \in Nat : \E s : \E k \in 0 .. N : Along(g, s, N, k)
  BY <1>1 DEF OrbitInv
<1>2. PICK s : \E k \in 0 .. N : Along(g, s, N, k)
  BY <1>20
<1>3. PICK k \in 0 .. N : Along(g, s, N, k)
  BY <1>2
<1>4. live.status = "waiting" /\ graph' = graph /\ plain' = plain
  BY DEF Resume, SuspendAgain, Suspend
<1>5. /\ RunOK(g, s[k]) /\ s[k].status = "running" /\ k < N
      /\ live = Parked(g, s[k].rows) /\ live.rows = s[k].rows
      /\ WaitsWith(g, s[k], checkpoint) /\ s[k + 1] = Onward(g, s[k])
  BY <1>3, <1>4, LiveIs
<1>6. Ended(plain)
  <2>1. s[k].status # "waiting"
    BY <1>5
  <2>2. live # s[0] \/ k # 0
    BY <1>4, <2>1
  <2> QED BY <1>3, <2>2 DEF Along
<1>7. PICK cp : cp = checkpoint
  OBVIOUS
<1>8. GraphOK(g)
  BY <1>1 DEF OrbitInv
<1>9. /\ Resumed(g, cp) = Onward(g, s[k])
      /\ cp.position > 0 =>
            \A p \in (cp.position + 1) .. Len(cp.whole[1]) :
               ~WaitFails(OneItem(cp.whole, p)) =>
               WaitsWith(g, s[k],
                         ItemCheckpoint(g, Restored(g, cp), cp.node, cp.whole, p,
                                        cp.position + 1, ResumedOutput(g, cp)))
  BY <1>5, <1>7, <1>8, WaitResumes
<1>10. CASE Resume
  <2>1. live' = Resumed(g, cp) /\ checkpoint' = NoCheckpoint
    BY <1>1, <1>7, <1>10 DEF Resume, Resumed
  <2>2. live' = s[k + 1]
    BY <1>5, <1>9, <2>1
  <2> QED BY <1>1, <1>3, <1>4, <1>5, <1>6, <2>1, <2>2, OrbitMoves
<1>11. CASE SuspendAgain
  <2>1. PICK p \in (cp.position + 1) .. Len(cp.whole[1]) :
          /\ cp.position > 0 /\ ~WaitFails(OneItem(cp.whole, p))
          /\ Suspend(ItemCheckpoint(g, Restored(g, cp), cp.node, cp.whole, p,
                                    cp.position + 1, ResumedOutput(g, cp)))
    BY <1>1, <1>5, <1>7, <1>11 DEF SuspendAgain
  <2>2. PICK again : again = ItemCheckpoint(g, Restored(g, cp), cp.node, cp.whole, p,
                                            cp.position + 1, ResumedOutput(g, cp))
    OBVIOUS
  <2>3. WaitsWith(g, s[k], again)
    BY <1>9, <2>1, <2>2
  <2>4. checkpoint' = again /\ live' = Parked(g, s[k].rows)
    <3>1. live = [status |-> live.status, pending |-> live.pending,
                  completed |-> live.completed, loops |-> live.loops, rows |-> live.rows]
      BY <1>5 DEF Parked
    <3>2. [live EXCEPT !.status = "waiting", !.pending = <<>>, !.completed = <<>>,
                       !.loops = [n \in g.active |-> NewLoop]] = Parked(g, live.rows)
      BY <3>1, ParkedIs
    <3> QED BY <1>1, <1>5, <2>1, <2>2, <3>2 DEF Suspend
  <2> QED BY <1>1, <1>3, <1>4, <1>5, <1>6, <2>3, <2>4, OrbitWaits
<1> QED BY <1>10, <1>11

\* Every state of the two runs lies on one orbit: the plain run at its end, the live run
\* at a state of it or waiting to go on from one, whatever suspends, resumes and waits
\* again.
THEOREM OrbitInvariant == Spec => []OrbitInv
<1>1. Init => OrbitInv
  BY OrbitInit
<1>2. OrbitInv /\ [Next]_vars => OrbitInv'
  <2>1. SUFFICES ASSUME OrbitInv, [Next]_vars PROVE OrbitInv'
    OBVIOUS
  <2>2. CASE PlainStep
    BY <2>1, <2>2, OrbitPlain
  <2>3. CASE LiveStep
    BY <2>1, <2>3, OrbitLive
  <2>4. CASE LiveSuspend
    BY <2>1, <2>4, OrbitLive
  <2>5. CASE Resume
    BY <2>1, <2>5, OrbitResume
  <2>6. CASE SuspendAgain
    BY <2>1, <2>6, OrbitResume
  <2>7. CASE UNCHANGED vars
    BY <2>1, <2>7 DEF vars, OrbitInv, Along, Follows, Ended
  <2> QED BY <2>1, <2>2, <2>3, <2>4, <2>5, <2>6, <2>7 DEF Next
<1> QED BY <1>1, <1>2, PTL DEF Spec

\* A run that suspends, on any items and any number of times, leaves the trace of one
\* that does not: the checkpoint carries all that the rest of the run depends on.
THEOREM ResumesTransparently == Spec => []ResumeIsTransparent
<1>1. OrbitInv => ResumeIsTransparent
  <2>1. SUFFICES ASSUME OrbitInv, Ended(plain)
                 PROVE  /\ IsPrefix(live.rows, plain.rows)
                        /\ Ended(live) => live.rows = plain.rows /\ live.status = plain.status
    BY DEF ResumeIsTransparent
  <2>2. PICK g : g = graph
    OBVIOUS
  <2>20. PICK N \in Nat : \E s : \E k \in 0 .. N : Along(g, s, N, k)
    BY <2>1, <2>2 DEF OrbitInv
  <2>3. PICK s : \E k \in 0 .. N : Along(g, s, N, k)
    BY <2>20
  <2>4. PICK k \in 0 .. N : Along(g, s, N, k)
    BY <2>3
  <2>5. Orbit(g, s, N) /\ plain = s[N]
    BY <2>4 DEF Along
  <2>6. live.rows = s[k].rows
    BY <2>4, LiveIs
  <2>7. IsPrefix(live.rows, plain.rows)
    <3>1. RunOK(g, s[k]) /\ RunOK(g, s[N]) /\ Grows(s[k].rows, s[N].rows)
      BY <2>5 DEF Orbit
    <3>2. s[k].rows \in Seq(RowOf(g)) /\ s[N].rows \in Seq(RowOf(g))
      BY <3>1 DEF RunOK
    <3>3. IsPrefix(s[k].rows, s[N].rows)
      BY <3>1, <3>2, PrefixIs
    <3> QED BY <2>5, <2>6, <3>3
  <2>8. ASSUME Ended(live) PROVE live.rows = plain.rows /\ live.status = plain.status
    <3>1. live = s[k] /\ live.status # "running"
      BY <2>4, <2>8, LiveIs DEF Ended
    <3>2. ~(k < N)
      BY <2>4, <3>1, LiveIs
    <3>3. k = N
      BY <3>2
    <3> QED BY <2>5, <3>1, <3>3
  <2> QED BY <2>7, <2>8
<1> QED BY <1>1, OrbitInvariant, PTL

LEMMA RunTypeIs ==
    ASSUME NEW run, RunOK(graph, run)
    PROVE  RunType(run)
<1>1. PICK g : g = graph
  OBVIOUS
<1>2. RunOK(g, run)
  BY <1>1
<1>3. \A i \in DOMAIN run.rows : run.rows[i] \in RowType
  <2>1. run.rows \in Seq(RowOf(g))
    BY <1>2 DEF RunOK
  <2>2. RowOf(g) = RowType
    BY <1>1 DEF RowOf, RowType, Stream, Item
  <2> QED BY <2>1, <2>2
<1>4. ASSUME NEW i \in DOMAIN run.pending
      PROVE  run.pending[i] \in [node : graph.active, input : Seq(Seq(Item)), skipped : BOOLEAN]
  <2>1. PICK inv \in Entry(g) : inv = run.pending[i]
    BY <1>2 DEF RunOK
  <2>2. inv \in Call(g)
    BY DEF Entry
  <2>3. inv.input \in Seq(Seq(Nat))
    BY <2>2, InputIs DEF Call, Stream
  <2>4. inv = [node |-> inv.node, input |-> inv.input, skipped |-> inv.skipped]
        /\ inv.node \in g.active /\ inv.skipped \in BOOLEAN
    BY <2>2 DEF Call
  <2> QED BY <1>1, <2>1, <2>3, <2>4 DEF Item
<1>5. /\ DOMAIN run.completed \subseteq graph.active
      /\ \A n \in DOMAIN run.completed : DOMAIN run.completed[n] = 1 .. Outputs(graph, n)
  BY <1>1, <1>2 DEF RunOK, OutputOf
<1>6. run.status \in {"running", "waiting", "succeeded", "failed"}
  BY <1>2 DEF RunOK
<1> QED BY <1>3, <1>4, <1>5, <1>6 DEF RunType

LEMMA OrbitTypes ==
    ASSUME OrbitInv
    PROVE  TypeOK
<1>20. PICK N \in Nat : \E s : \E k \in 0 .. N : Along(graph, s, N, k)
  BY DEF OrbitInv
<1>2. PICK s : \E k \in 0 .. N : Along(graph, s, N, k)
  BY <1>20
<1>3. PICK k \in 0 .. N : Along(graph, s, N, k)
  BY <1>2
<1>4. RunOK(graph, s[N]) /\ plain = s[N]
  <2>1. N \in 0 .. N
    OBVIOUS
  <2> QED BY <1>3, <2>1 DEF Along, Orbit
<1>5. RunType(plain)
  BY <1>4, RunTypeIs
<1>6. RunOK(graph, s[k]) /\ s[k].status # "waiting"
  BY <1>3, LiveIs
<1>7. CASE live.status = "waiting"
  <2>1. live = Parked(graph, s[k].rows) /\ k < N /\ WaitsWith(graph, s[k], checkpoint)
    BY <1>3, <1>7, LiveIs
  <2>2. live.rows = s[k].rows /\ live.pending = <<>> /\ live.completed = <<>>
    BY <2>1 DEF Parked
  <2>3. RunType(s[k])
    BY <1>6, RunTypeIs
  <2>4. RunType(live)
    <3>1. \A i \in DOMAIN live.rows : live.rows[i] \in RowType
      BY <2>2, <2>3 DEF RunType
    <3>2. DOMAIN live.pending = {} /\ DOMAIN live.completed = {}
      BY <2>2
    <3> QED BY <1>7, <3>1, <3>2 DEF RunType
  <2>5. checkpoint.node # 0
    <3>1. s[k].status = "running" /\ GraphOK(graph)
      BY <1>3, <2>1, LiveIs DEF OrbitInv
    <3> QED BY <1>6, <2>1, <3>1, WaitResumes
  <2> QED BY <1>5, <1>7, <2>4, <2>5 DEF TypeOK
<1>8. CASE live.status # "waiting"
  <2>1. live = s[k] /\ checkpoint = NoCheckpoint
    BY <1>3, <1>8, LiveIs
  <2>2. RunType(live)
    BY <1>6, <2>1, RunTypeIs
  <2>3. checkpoint.node = 0
    BY <2>1 DEF NoCheckpoint
  <2> QED BY <1>5, <1>8, <2>2, <2>3 DEF TypeOK
<1> QED BY <1>7, <1>8

\* Runs, rows and stack entries have the shape the runner reads, for every document
\* Compile accepts.
THEOREM TypeCorrect == Spec => []TypeOK
<1>1. OrbitInv => TypeOK
  BY OrbitTypes
<1> QED BY <1>1, OrbitInvariant, PTL

-----------------------------------------------------------------------------
(* Counting along a sequence. *)

\* How many entries of s are in A.
Hits(s, A) == Cardinality({i \in 1 .. Len(s) : s[i] \in A})

LEMMA HitsAre ==
    ASSUME NEW S, NEW s \in Seq(S), NEW A
    PROVE  /\ Hits(s, A) \in Nat /\ IsFiniteSet({i \in 1 .. Len(s) : s[i] \in A})
           /\ Hits(s, A) = 0 <=> \A i \in 1 .. Len(s) : s[i] \notin A
<1>1. PICK D : D = {i \in 1 .. Len(s) : s[i] \in A}
  OBVIOUS
<1>2. IsFiniteSet(1 .. Len(s)) /\ D \in SUBSET (1 .. Len(s))
  <2>1. Len(s) \in Int
    OBVIOUS
  <2>2. IsFiniteSet(1 .. Len(s))
    BY <2>1, FS_Interval
  <2> QED BY <1>1, <2>2
<1>3. IsFiniteSet(D)
  BY <1>2, FS_Subset
<1>4. Cardinality(D) \in Nat /\ (Cardinality(D) = 0 <=> D = {})
  BY <1>3, FS_CardinalityType, FS_EmptySet
<1>5. D = {} <=> \A i \in 1 .. Len(s) : s[i] \notin A
  BY <1>1
<1> QED BY <1>1, <1>3, <1>4, <1>5 DEF Hits

\* Moving a set of numbers keeps its size.
LEMMA Moved ==
    ASSUME NEW D \in SUBSET Nat, IsFiniteSet(D), NEW k \in Nat, NEW E,
           E = {i + k : i \in D}
    PROVE  IsFiniteSet(E) /\ Cardinality(E) = Cardinality(D)
<1>1. PICK f : f = [i \in D |-> i + k]
  OBVIOUS
<1>2. f \in [D -> E] /\ (\A e \in E : \E i \in D : f[i] = e)
  BY <1>1
<1>3. \A i, j \in D : f[i] = f[j] => i = j
  <2>1. TAKE i, j \in D
  <2>2. i \in Nat /\ j \in Nat
    OBVIOUS
  <2> QED BY <1>1, <2>2
<1>4. f \in Bijection(D, E)
  BY <1>2, <1>3 DEF Bijection, Injection, Surjection, IsInjective
<1>5. ExistsBijection(D, E)
  BY <1>4 DEF ExistsBijection
<1> QED BY <1>5, FS_Bijection

LEMMA HitsConcat ==
    ASSUME NEW S, NEW s \in Seq(S), NEW t \in Seq(S), NEW A
    PROVE  Hits(s \o t, A) = Hits(s, A) + Hits(t, A)
<1>1. PICK u : u = s \o t
  OBVIOUS
<1>2. PICK m \in Nat, k \in Nat : m = Len(s) /\ k = Len(t)
  OBVIOUS
<1>3. /\ Len(u) = m + k /\ u \in Seq(S)
      /\ \A i \in 1 .. m + k : u[i] = IF i <= m THEN s[i] ELSE t[i - m]
  BY <1>1, <1>2, ConcatProperties
<1>4. PICK D : D = {i \in 1 .. m : s[i] \in A}
  OBVIOUS
<1>5. PICK E : E = {i \in 1 .. k : t[i] \in A}
  OBVIOUS
<1>6. PICK F : F = {i + m : i \in E}
  OBVIOUS
<1>7. PICK U : U = {i \in 1 .. m + k : u[i] \in A}
  OBVIOUS
<1>8. IsFiniteSet(D) /\ IsFiniteSet(E)
  BY <1>2, <1>4, <1>5, HitsAre
<1>9. E \in SUBSET Nat /\ \A i \in E : i \in 1 .. k
  BY <1>5
<1>10. IsFiniteSet(F) /\ Cardinality(F) = Cardinality(E)
  BY <1>6, <1>8, <1>9, Moved
<1>11. U = D \cup F
  <2>1. ASSUME NEW i \in U PROVE i \in D \cup F
    <3>1. i \in 1 .. m + k /\ u[i] \in A
      BY <1>7
    <3>2. CASE i <= m
      BY <1>3, <1>4, <3>1, <3>2
    <3>3. CASE ~(i <= m)
      <4>1. PICK j \in 1 .. k : j = i - m
        BY <3>1, <3>3
      <4>2. t[j] \in A
        BY <1>3, <3>1, <3>3, <4>1
      <4>3. j \in E
        BY <1>5, <4>2
      <4>4. i = j + m
        BY <3>1, <4>1
      <4> QED BY <1>6, <4>3, <4>4
    <3> QED BY <3>2, <3>3
  <2>2. ASSUME NEW i \in D PROVE i \in U
    <3>1. i \in 1 .. m /\ s[i] \in A
      BY <1>4
    <3>2. i \in 1 .. m + k /\ i <= m
      BY <3>1
    <3> QED BY <1>3, <1>7, <3>1, <3>2
  <2>3. ASSUME NEW i \in F PROVE i \in U
    <3>1. PICK j \in E : i = j + m
      BY <1>6
    <3>2. j \in 1 .. k /\ t[j] \in A
      BY <1>5
    <3>3. i \in 1 .. m + k /\ ~(i <= m) /\ i - m = j
      BY <3>1, <3>2
    <3> QED BY <1>3, <1>7, <3>2, <3>3
  <2> QED BY <2>1, <2>2, <2>3
<1>12. D \cap F = {}
  <2>1. ASSUME NEW i \in D, i \in F PROVE FALSE
    <3>1. PICK j \in E : i = j + m
      BY <1>6, <2>1
    <3>2. j \in 1 .. k /\ i \in 1 .. m
      BY <1>4, <1>5
    <3> QED BY <3>1, <3>2
  <2> QED BY <2>1
<1>13. Cardinality(U) = Cardinality(D) + Cardinality(F) - Cardinality(D \cap F)
  BY <1>8, <1>10, <1>11, FS_Union
<1>14. Cardinality(D \cap F) = 0
  BY <1>12, FS_EmptySet
<1>15. Cardinality(D) \in Nat /\ Cardinality(F) \in Nat
  BY <1>8, <1>10, FS_CardinalityType
<1>16. Hits(s, A) = Cardinality(D) /\ Hits(t, A) = Cardinality(E) /\ Hits(u, A) = Cardinality(U)
  BY <1>2, <1>3, <1>4, <1>5, <1>7 DEF Hits
<1> QED BY <1>1, <1>10, <1>13, <1>14, <1>15, <1>16

LEMMA HitsOne ==
    ASSUME NEW S, NEW x \in S, NEW A
    PROVE  Hits(<<x>>, A) = IF x \in A THEN 1 ELSE 0
<1>1. PICK D : D = {i \in 1 .. 1 : <<x>>[i] \in A}
  OBVIOUS
<1>2. Hits(<<x>>, A) = Cardinality(D)
  <2>1. Len(<<x>>) = 1
    OBVIOUS
  <2> QED BY <1>1, <2>1 DEF Hits
<1>3. D = IF x \in A THEN {1} ELSE {}
  BY <1>1
<1> QED BY <1>2, <1>3, FS_Singleton, FS_EmptySet

\* Taking out an entry.
LEMMA HitsRemove ==
    ASSUME NEW S, NEW s \in Seq(S), NEW i \in 1 .. Len(s), NEW A
    PROVE  /\ RemoveAt(s, i) \in Seq(S)
           /\ Hits(s, A) = Hits(RemoveAt(s, i), A) + (IF s[i] \in A THEN 1 ELSE 0)
<1>1. PICK n \in Nat : n = Len(s)
  OBVIOUS
<1>2. PICK a : a = SubSeq(s, 1, i - 1)
  OBVIOUS
<1>3. PICK b : b = SubSeq(s, i + 1, n)
  OBVIOUS
<1>4. PICK x \in S : x = s[i]
  OBVIOUS
<1>5. /\ a \in Seq(S) /\ Len(a) = i - 1
      /\ \A j \in 1 .. i - 1 : a[j] = s[j]
  <2>1. \A j \in 1 .. (i - 1) : s[j] \in S
    BY <1>1
  <2>2. /\ a \in Seq(S) /\ Len(a) = IF 1 <= i - 1 THEN i - 1 - 1 + 1 ELSE 0
        /\ \A j \in 1 .. i - 1 - 1 + 1 : a[j] = s[1 + j - 1]
    BY <1>1, <1>2, <2>1, SubSeqProperties
  <2> QED BY <1>1, <2>2
<1>6. /\ b \in Seq(S) /\ Len(b) = n - i
      /\ \A j \in 1 .. n - i : b[j] = s[i + j]
  <2>1. \A j \in (i + 1) .. n : s[j] \in S
    BY <1>1
  <2>2. /\ b \in Seq(S) /\ Len(b) = IF i + 1 <= n THEN n - (i + 1) + 1 ELSE 0
        /\ \A j \in 1 .. n - (i + 1) + 1 : b[j] = s[(i + 1) + j - 1]
    BY <1>1, <1>3, <2>1, SubSeqProperties
  <2> QED BY <1>1, <2>2
<1>7. PICK c : c = a \o <<x>>
  OBVIOUS
<1>8. <<x>> \in Seq(S) /\ Len(<<x>>) = 1 /\ <<x>>[1] = x
  OBVIOUS
<1>9. /\ c \in Seq(S) /\ Len(c) = i
      /\ \A j \in 1 .. i : c[j] = IF j <= i - 1 THEN a[j] ELSE <<x>>[j - (i - 1)]
  <2>1. /\ c \in Seq(S) /\ Len(c) = Len(a) + Len(<<x>>)
        /\ \A j \in 1 .. Len(a) + Len(<<x>>) : c[j] = IF j <= Len(a) THEN a[j] ELSE <<x>>[j - Len(a)]
    BY <1>5, <1>7, <1>8, ConcatProperties
  <2> QED BY <1>1, <1>5, <1>8, <2>1
<1>10. PICK d : d = c \o b
  OBVIOUS
<1>11. /\ d \in Seq(S) /\ Len(d) = n
       /\ \A j \in 1 .. n : d[j] = IF j <= i THEN c[j] ELSE b[j - i]
  <2>1. /\ d \in Seq(S) /\ Len(d) = Len(c) + Len(b)
        /\ \A j \in 1 .. Len(c) + Len(b) : d[j] = IF j <= Len(c) THEN c[j] ELSE b[j - Len(c)]
    BY <1>6, <1>9, <1>10, ConcatProperties
  <2> QED BY <1>1, <1>6, <1>9, <2>1
<1>12. s = d
  <2>1. \A j \in 1 .. n : d[j] = s[j]
    <3>1. TAKE j \in 1 .. n
    <3>2. CASE j <= i - 1
      BY <1>1, <1>5, <1>9, <1>11, <3>2
    <3>3. CASE j = i
      <4>1. c[i] = <<x>>[i - (i - 1)]
        BY <1>1, <1>9
      <4>2. i - (i - 1) = 1
        BY <1>1
      <4> QED BY <1>1, <1>4, <1>8, <1>11, <3>3, <4>1, <4>2
    <3>4. CASE j > i
      <4>1. PICK k \in 1 .. n - i : k = j - i
        BY <1>1, <3>4
      <4> QED BY <1>1, <1>6, <1>11, <3>4, <4>1
    <3> QED BY <1>1, <3>2, <3>3, <3>4
  <2> QED BY <1>1, <1>11, <2>1, SeqEqual
<1>13. RemoveAt(s, i) = a \o b
  BY <1>1, <1>2, <1>3 DEF RemoveAt
<1>14. Hits(a \o b, A) = Hits(a, A) + Hits(b, A)
  BY <1>5, <1>6, HitsConcat
<1>15. Hits(d, A) = Hits(c, A) + Hits(b, A)
  BY <1>6, <1>9, <1>10, HitsConcat
<1>16. Hits(c, A) = Hits(a, A) + Hits(<<x>>, A)
  BY <1>5, <1>7, <1>8, HitsConcat
<1>17. Hits(<<x>>, A) = IF s[i] \in A THEN 1 ELSE 0
  BY <1>4, HitsOne
<1>18. Hits(a, A) \in Nat /\ Hits(b, A) \in Nat
  BY <1>5, <1>6, HitsAre
<1>19. a \o b \in Seq(S)
  BY <1>5, <1>6, ConcatProperties
<1> QED BY <1>12, <1>13, <1>14, <1>15, <1>16, <1>17, <1>18, <1>19

\* At most one entry of a kind.
LEMMA HitsOnce ==
    ASSUME NEW S, NEW s \in Seq(S), NEW A, NEW i \in 1 .. Len(s), s[i] \in A,
           \A j \in 1 .. Len(s) : s[j] \in A => j = i
    PROVE  Hits(s, A) = 1
<1>1. {j \in 1 .. Len(s) : s[j] \in A} = {i}
  OBVIOUS
<1> QED BY <1>1, FS_Singleton DEF Hits

-----------------------------------------------------------------------------
(* What a step adds to the trace. *)

FailedRows(g, n) == {row \in RowOf(g) : row.node = n /\ row.what = "failed"}

\* t is s and failed attempts of n.
OnlyFails(g, n, s, t) ==
    Grows(s, t) /\ \A i \in Len(s) + 1 .. Len(t) : t[i] \in FailedRows(g, n)

\* t is s, failed attempts of n, and row.
Adds(g, n, s, t, row) ==
    /\ Grows(s, t) /\ Len(s) < Len(t) /\ t[Len(t)] = row
    /\ \A i \in Len(s) + 1 .. Len(t) - 1 : t[i] \in FailedRows(g, n)

LEMMA FailsOn ==
    ASSUME NEW g, NEW n, NEW r \in Seq(RowOf(g)), NEW s \in Seq(RowOf(g)),
           NEW t \in Seq(RowOf(g)), OnlyFails(g, n, r, s), OnlyFails(g, n, s, t)
    PROVE  OnlyFails(g, n, r, t)
<1>1. Len(r) \in Nat /\ Len(s) \in Nat /\ Len(t) \in Nat
  OBVIOUS
<1>2. Grows(r, s) /\ Grows(s, t)
  BY DEF OnlyFails
<1>3. Grows(r, t)
  BY <1>2, GrowsOn
<1>4. ASSUME NEW i \in Len(r) + 1 .. Len(t) PROVE t[i] \in FailedRows(g, n)
  <2>1. CASE i <= Len(s)
    <3>1. i \in 1 .. Len(s) /\ i \in Len(r) + 1 .. Len(s)
      BY <1>1, <2>1
    <3>2. t[i] = s[i]
      BY <1>2, <3>1 DEF Grows
    <3> QED BY <3>1, <3>2 DEF OnlyFails
  <2>2. CASE ~(i <= Len(s))
    <3>1. i \in Len(s) + 1 .. Len(t)
      BY <1>1, <2>2
    <3> QED BY <3>1 DEF OnlyFails
  <2> QED BY <2>1, <2>2
<1> QED BY <1>3, <1>4 DEF OnlyFails

LEMMA ConcatFails ==
    ASSUME NEW g, NEW n, NEW s \in Seq(RowOf(g)), NEW f \in Seq(FailedRows(g, n))
    PROVE  s \o f \in Seq(RowOf(g)) /\ OnlyFails(g, n, s, s \o f)
<1>1. PICK T : T = FailedRows(g, n)
  OBVIOUS
<1>2. PICK S : S = RowOf(g)
  OBVIOUS
<1>3. f \in Seq(T) /\ s \in Seq(S) /\ T \in SUBSET S
  BY <1>1, <1>2 DEF FailedRows
<1>4. PICK m \in Nat, k \in Nat : m = Len(s) /\ k = Len(f)
  BY <1>3
<1>5. f \in Seq(S) /\ \A i \in 1 .. k : f[i] \in T
  BY <1>3, <1>4
<1>6. PICK t : t = s \o f
  OBVIOUS
<1>7. /\ t \in Seq(S) /\ Len(t) = m + k
      /\ \A i \in 1 .. m + k : t[i] = IF i <= m THEN s[i] ELSE f[i - m]
  BY <1>3, <1>4, <1>5, <1>6, ConcatProperties
<1>8. Grows(s, t)
  BY <1>4, <1>7 DEF Grows
<1>9. ASSUME NEW i \in m + 1 .. m + k PROVE t[i] \in T
  <2>1. i \in 1 .. m + k /\ ~(i <= m) /\ i - m \in 1 .. k
    BY <1>4
  <2> QED BY <1>5, <1>7, <2>1
<1> QED BY <1>1, <1>2, <1>4, <1>6, <1>7, <1>8, <1>9 DEF OnlyFails

LEMMA AppendAdds ==
    ASSUME NEW g, NEW n, NEW s \in Seq(RowOf(g)), NEW f \in Seq(RowOf(g)),
           OnlyFails(g, n, s, f), NEW row \in RowOf(g)
    PROVE  Append(f, row) \in Seq(RowOf(g)) /\ Adds(g, n, s, Append(f, row), row)
<1>1. PICK m \in Nat, k \in Nat : m = Len(s) /\ k = Len(f)
  OBVIOUS
<1>2. PICK t : t = Append(f, row)
  OBVIOUS
<1>3. PICK S : S = RowOf(g)
  OBVIOUS
<1>4. /\ t \in Seq(S) /\ Len(t) = k + 1 /\ t[k + 1] = row
      /\ \A i \in 1 .. k : t[i] = f[i]
  BY <1>1, <1>2, <1>3
<1>5. Grows(s, f) /\ m <= k /\ \A i \in m + 1 .. k : f[i] \in FailedRows(g, n)
  BY <1>1 DEF OnlyFails, Grows
<1>6. Grows(s, t)
  BY <1>1, <1>4, <1>5 DEF Grows
<1>7. \A i \in m + 1 .. (k + 1) - 1 : t[i] \in FailedRows(g, n)
  BY <1>1, <1>4, <1>5
<1> QED BY <1>1, <1>2, <1>3, <1>4, <1>5, <1>6, <1>7 DEF Adds

\* A set of rows without failed attempts is hit by the last row only.
LEMMA HitsAdds ==
    ASSUME NEW g, NEW n, NEW s \in Seq(RowOf(g)), NEW t \in Seq(RowOf(g)), NEW row,
           Adds(g, n, s, t, row), NEW A, \A r \in FailedRows(g, n) : r \notin A
    PROVE  Hits(t, A) = Hits(s, A) + (IF row \in A THEN 1 ELSE 0)
<1>1. PICK m \in Nat, k \in Nat : m = Len(s) /\ k = Len(t)
  OBVIOUS
<1>2. /\ m < k /\ t[k] = row /\ \A i \in 1 .. m : t[i] = s[i]
      /\ \A i \in m + 1 .. k - 1 : t[i] \notin A
  BY <1>1 DEF Adds, Grows
<1>3. PICK D : D = {i \in 1 .. m : s[i] \in A}
  OBVIOUS
<1>4. PICK E : E = {i \in 1 .. k : t[i] \in A}
  OBVIOUS
<1>5. IsFiniteSet(D)
  BY <1>1, <1>3, HitsAre
<1>6. E = IF row \in A THEN D \cup {k} ELSE D
  <2>1. ASSUME NEW i \in E PROVE i \in D \/ (i = k /\ row \in A)
    <3>1. i \in 1 .. k /\ t[i] \in A
      BY <1>4
    <3>2. CASE i <= m
      BY <1>2, <1>3, <3>1, <3>2
    <3>3. CASE ~(i <= m)
      BY <1>2, <3>1, <3>3
    <3> QED BY <3>2, <3>3
  <2>2. ASSUME NEW i \in D PROVE i \in E
    <3>1. i \in 1 .. m /\ s[i] \in A
      BY <1>3
    <3> QED BY <1>2, <1>4, <3>1
  <2>3. row \in A => k \in E
    BY <1>2, <1>4
  <2> QED BY <2>1, <2>2, <2>3
<1>7. k \notin D
  BY <1>2, <1>3
<1>8. Hits(s, A) = Cardinality(D) /\ Hits(t, A) = Cardinality(E)
  BY <1>1, <1>3, <1>4 DEF Hits
<1>9. Cardinality(D) \in Nat
  BY <1>5, FS_CardinalityType
<1>10. CASE row \in A
  <2>1. Cardinality(D \cup {k}) = Cardinality(D) + 1
    BY <1>5, <1>7, FS_AddElement
  <2> QED BY <1>6, <1>8, <1>10, <2>1
<1>11. CASE row \notin A
  BY <1>6, <1>8, <1>9, <1>11
<1> QED BY <1>10, <1>11

-----------------------------------------------------------------------------
(* Sequences run together. *)

\* w holds what the first k sequences make.
Folding(w, S, seqs) ==
    /\ \A k \in 0 .. Len(seqs) : w[k] \in Seq(S)
    /\ w[0] = <<>> /\ \A k \in 1 .. Len(seqs) : w[k] = w[k - 1] \o seqs[k]
    /\ FlattenSeq(seqs) = w[Len(seqs)]

LEMMA Folded ==
    ASSUME NEW S, NEW seqs \in Seq(Seq(S))
    PROVE  \E w : Folding(w, S, seqs)
<1>1. PICK n : n = Len(seqs)
  OBVIOUS
<1>2. n \in Nat /\ DOMAIN seqs = 1 .. n /\ \A k \in 1 .. n : seqs[k] \in Seq(S)
  BY <1>1
<1>s. <<>> \in Seq(S)
  OBVIOUS
<1>3. CASE n = 0
  <2>1. seqs = <<>>
    BY <1>1, <1>2, <1>3
  <2>2. FlattenSeq(seqs) = seqs
    BY <1>1, <1>3 DEF FlattenSeq
  <2>3. PICK w : w = [k \in 0 .. 0 |-> seqs]
    OBVIOUS
  <2>4. w[0] = seqs
    BY <2>3
  <2>5. \A k \in 0 .. 0 : w[k] \in Seq(S)
    <3>1. seqs \in Seq(S)
      BY <1>s, <2>1, Zenon
    <3> QED BY <2>4, <3>1
  <2> QED BY <1>1, <1>3, <2>1, <2>2, <2>4, <2>5 DEF Folding
<1>4. CASE n # 0
  <2>1. PICK T : T = [k \in 1 .. n |-> [v \in Seq(S) |-> v \o seqs[k]]]
    OBVIOUS
  <2>2. \A k \in 1 .. n : \A v \in Seq(S) : T[k][v] = v \o seqs[k] /\ T[k][v] \in Seq(S)
    BY <1>2, <2>1
  <2>3. Closed(n, Seq(S), T)
    BY <2>2 DEF Closed
  <2>4. PICK f : Iterates(f, n, Seq(S), <<>>, T)
    BY <1>2, <2>3, <1>s, Iterated
  <2> DEFINE Body(h, k) == IF k = 1 THEN seqs[k] ELSE h[k - 1] \o seqs[k]
             Walk(h) == h = [k \in 1 .. Len(seqs) |-> Body(h, k)]
  <2>5. PICK h : h = [k \in 1 .. Len(seqs) |-> f[k]]
    OBVIOUS
  <2>6. Walk(h)
    <3>1. ASSUME NEW k \in 1 .. n PROVE h[k] = Body(h, k)
      <4>1. h[k] = f[k] /\ k - 1 \in 0 .. n /\ f[k - 1] \in Seq(S)
        <5>1. f \in [0 .. n -> Seq(S)] /\ k - 1 \in 0 .. n
          BY <1>2, <2>4 DEF Iterates
        <5>2. h[k] = f[k]
          BY <1>1, <2>5
        <5> QED BY <5>1, <5>2
      <4>2. f[k] = f[k - 1] \o seqs[k]
        BY <2>2, <2>4, <4>1 DEF Iterates
      <4>3. CASE k = 1
        <5>1. f[k - 1] = <<>>
          BY <2>4, <4>3 DEF Iterates
        <5>2. <<>> \o seqs[k] = seqs[k]
          BY <1>2
        <5> QED BY <4>1, <4>2, <4>3, <5>1, <5>2
      <4>4. CASE k # 1
        <5>1. k - 1 \in 1 .. n
          BY <1>2, <4>4
        <5>2. h[k - 1] = f[k - 1]
          BY <1>1, <2>5, <5>1
        <5> QED BY <4>1, <4>2, <4>4, <5>2
      <4> QED BY <4>3, <4>4
    <3> HIDE DEF Body
    <3> QED BY <1>1, <2>5, <3>1
  <2>7. PICK w : w = (CHOOSE g : Walk(g))
    OBVIOUS
  <2>8. Walk(w)
    <3> HIDE DEF Walk
    <3> QED BY <2>6, <2>7
  <2>9. FlattenSeq(seqs) = w[n]
    BY <1>1, <1>4, <2>7 DEF FlattenSeq
  <2>10. w[1] = seqs[1] /\ \A k \in 1 .. n : k # 1 => w[k] = w[k - 1] \o seqs[k]
    <3>1. w = [k \in 1 .. n |-> Body(w, k)]
      BY <1>1, <2>8
    <3>2. \A k \in 1 .. n : w[k] = Body(w, k)
      <4> HIDE DEF Body
      <4> QED BY <3>1
    <3>3. 1 \in 1 .. n
      BY <1>2, <1>4
    <3> QED BY <3>2, <3>3
  <2> HIDE DEF Body, Walk
  <2>11. PICK empty : empty = <<>>
    OBVIOUS
  <2>12. PICK v : v = [k \in 0 .. n |-> IF k = 0 THEN empty ELSE w[k]]
    OBVIOUS
  <2>13. v[0] = empty /\ \A k \in 1 .. n : v[k] = w[k]
    BY <1>2, <2>12
  <2>14. \A k \in 1 .. n : v[k] = v[k - 1] \o seqs[k]
    <3>1. TAKE k \in 1 .. n
    <3>2. CASE k = 1
      <4>1. empty \o seqs[k] = seqs[k]
        BY <1>2, <2>11
      <4>2. k - 1 = 0
        BY <3>2
      <4> QED BY <2>10, <2>13, <3>2, <4>1, <4>2
    <3>3. CASE k # 1
      <4>1. k - 1 \in 1 .. n
        BY <1>2, <3>3
      <4>2. w[k] = w[k - 1] \o seqs[k]
        BY <2>10, <3>3
      <4> QED BY <2>13, <4>1, <4>2
    <3> QED BY <3>2, <3>3
  <2>15. \A k \in 0 .. n : v[k] \in Seq(S)
    <3>1. v[0] \in Seq(S)
      BY <1>s, <2>11, <2>13
    <3>2. \A k \in 1 .. n : v[k - 1] \in Seq(S) => v[k] \in Seq(S)
      <4>1. TAKE k \in 1 .. n
      <4>2. HAVE v[k - 1] \in Seq(S)
      <4>3. seqs[k] \in Seq(S) /\ v[k] = v[k - 1] \o seqs[k]
        BY <1>2, <2>14
      <4>4. v[k - 1] \o seqs[k] \in Seq(S)
        BY <4>2, <4>3, ConcatProperties
      <4> QED BY <4>3, <4>4
    <3> QED BY <1>2, <3>1, <3>2, StaysIn
  <2>16. FlattenSeq(seqs) = v[n]
    BY <1>2, <1>4, <2>9, <2>13
  <2> QED BY <1>1, <2>11, <2>13, <2>14, <2>15, <2>16 DEF Folding
<1> QED BY <1>3, <1>4

\* Nothing run together is nothing.
LEMMA FlattenedNothing ==
    ASSUME NEW S, NEW seqs \in Seq(Seq(S)), \A k \in 1 .. Len(seqs) : seqs[k] = <<>>
    PROVE  FlattenSeq(seqs) = <<>>
<1>1. PICK w : Folding(w, S, seqs)
  BY Folded
<1>2. PICK n \in Nat : n = Len(seqs)
  OBVIOUS
<1>3. PICK empty : empty = <<>>
  OBVIOUS
<1>4. empty \o empty = empty
  BY <1>3
<1>5. PICK U : U = {empty}
  OBVIOUS
<1>6. w[0] \in U
  BY <1>1, <1>3, <1>5 DEF Folding
<1>7. \A k \in 1 .. n : w[k - 1] \in U => w[k] \in U
  <2>1. TAKE k \in 1 .. n
  <2>2. HAVE w[k - 1] \in U
  <2>3. w[k] = w[k - 1] \o seqs[k] /\ seqs[k] = empty
    BY <1>1, <1>2, <1>3 DEF Folding
  <2> QED BY <1>4, <1>5, <2>2, <2>3
<1>8. \A k \in 0 .. n : w[k] \in U
  BY <1>6, <1>7, StaysIn
<1>9. n \in 0 .. n /\ FlattenSeq(seqs) = w[n]
  BY <1>1, <1>2 DEF Folding
<1> QED BY <1>3, <1>5, <1>8, <1>9

\* One more sequence goes to the end.
LEMMA FlattenedMore ==
    ASSUME NEW S, NEW seqs \in Seq(Seq(S)), NEW more \in Seq(Seq(S)),
           Len(more) = Len(seqs) + 1, \A k \in 1 .. Len(seqs) : more[k] = seqs[k]
    PROVE  FlattenSeq(more) = FlattenSeq(seqs) \o more[Len(more)]
<1>1. PICK w : Folding(w, S, seqs)
  BY Folded
<1>2. PICK v : Folding(v, S, more)
  BY Folded
<1>3. PICK n \in Nat : n = Len(seqs)
  OBVIOUS
<1>4. PICK U : U = {1}
  OBVIOUS
<1>5. PICK same : same = [k \in 0 .. n |-> IF v[k] = w[k] THEN 1 ELSE 0]
  OBVIOUS
<1>6. same[0] \in U
  BY <1>1, <1>2, <1>3, <1>4, <1>5 DEF Folding
<1>7. \A k \in 1 .. n : same[k - 1] \in U => same[k] \in U
  <2>1. TAKE k \in 1 .. n
  <2>2. HAVE same[k - 1] \in U
  <2>3. k - 1 \in 0 .. n /\ k \in 0 .. n /\ k \in 1 .. Len(more)
    BY <1>3
  <2>4. v[k - 1] = w[k - 1]
    BY <1>4, <1>5, <2>2, <2>3
  <2>5. v[k] = v[k - 1] \o more[k] /\ w[k] = w[k - 1] \o seqs[k] /\ more[k] = seqs[k]
    BY <1>1, <1>2, <1>3, <2>3 DEF Folding
  <2> QED BY <1>4, <1>5, <2>3, <2>4, <2>5
<1>8. \A k \in 0 .. n : same[k] \in U
  BY <1>6, <1>7, StaysIn
<1>9. v[n] = w[n]
  <2>1. n \in 0 .. n
    OBVIOUS
  <2> QED BY <1>4, <1>5, <1>8, <2>1
<1>10. PICK m \in Nat : m = n + 1
  OBVIOUS
<1>11. m = Len(more) /\ m \in 1 .. Len(more) /\ m - 1 = n
  BY <1>3, <1>10
<1>12. FlattenSeq(more) = v[m] /\ v[m] = v[m - 1] \o more[m] /\ FlattenSeq(seqs) = w[n]
  BY <1>1, <1>2, <1>3, <1>11 DEF Folding
<1> QED BY <1>9, <1>11, <1>12

-----------------------------------------------------------------------------
(* Deliveries. *)

\* What a delivery of edges to t carries, and when it is nothing.
LEMMA DeliveryIs ==
    ASSUME NEW g, GraphOK(g), NEW n \in g.active, NEW output \in OutputOf(g, n),
           NEW edges \in SUBSET Feeding(g, n, output), NEW t, \E e \in edges : e.to = t
    PROVE  /\ Delivery(edges, t, output) \in Entry(g)
           /\ Delivery(edges, t, output).node = t
           /\ DeliveredNothing(g, Delivery(edges, t, output))
                <=> \A e \in edges : e.to = t => output[e.out] = <<>>
<1>1. PICK e \in edges : e.to = t
  OBVIOUS
<1>2. e \in g.edges /\ IsItemEdge(e) /\ \A f \in edges : f \in g.edges /\ f.from = n
  BY DEF Feeding, Outgoing
<1>3. t \in g.active /\ e \in ItemIncoming(g, t)
  BY <1>1, <1>2 DEF GraphOK, ItemIncoming, Incoming
<1>4. PICK items : items = ItemsFor(edges, t, output)
  OBVIOUS
<1>5. PICK parts : parts = [o \in DOMAIN output |->
                              IF o \in OutputsTo(edges, t) THEN output[o] ELSE <<>>]
  OBVIOUS
<1>6. PICK m \in Nat : m = Outputs(g, n)
  BY NodeFacts
<1>7. DOMAIN output = 1 .. m /\ \A o \in 1 .. m : output[o] \in Seq(Nat)
  BY <1>6 DEF OutputOf, Stream
<1>8. \A o \in 1 .. m : /\ parts[o] = IF o \in OutputsTo(edges, t) THEN output[o] ELSE <<>>
                        /\ parts[o] \in Seq(Nat)
  <2>1. TAKE o \in 1 .. m
  <2>2. parts[o] = IF o \in OutputsTo(edges, t) THEN output[o] ELSE <<>>
    BY <1>5, <1>7
  <2>3. <<>> \in Seq(Nat)
    OBVIOUS
  <2> QED BY <1>7, <2>2, <2>3
<1>9. parts \in Seq(Seq(Nat)) /\ Len(parts) = m /\ DOMAIN parts = 1 .. m
  <2>1. PICK S : S = Seq(Nat)
    OBVIOUS
  <2>2. DOMAIN parts = 1 .. m /\ \A o \in 1 .. m : parts[o] \in S
    BY <1>5, <1>7, <1>8, <2>1
  <2>3. parts = [o \in 1 .. m |-> parts[o]]
    BY <1>5, <2>2
  <2>4. parts \in [1 .. m -> S]
    BY <2>2, <2>3
  <2>5. parts \in Seq(S)
    BY <2>4, IsASeq
  <2> QED BY <2>1, <2>2, <2>5
<1>10. items = FlattenSeq(parts)
  BY <1>4, <1>5 DEF ItemsFor
<1>11. items \in Stream
  BY <1>9, <1>10, Flattened DEF Stream
<1>12. \A f \in edges : f.out \in 1 .. m
  BY <1>2, <1>6 DEF GraphOK
<1>13. items = <<>> <=> \A f \in edges : f.to = t => output[f.out] = <<>>
  <2>1. ASSUME NEW f \in edges, f.to = t, output[f.out] # <<>> PROVE items # <<>>
    <3>1. f.out \in 1 .. m /\ f.out \in OutputsTo(edges, t)
      BY <1>12, <2>1 DEF OutputsTo
    <3>2. parts[f.out] # <<>>
      BY <1>8, <2>1, <3>1
    <3> QED BY <1>9, <1>10, <3>1, <3>2, Flattened
  <2>2. ASSUME \A f \in edges : f.to = t => output[f.out] = <<>> PROVE items = <<>>
    <3>1. ASSUME NEW o \in 1 .. m PROVE parts[o] = <<>>
      <4>1. CASE o \in OutputsTo(edges, t)
        <5>1. PICK f \in edges : f.to = t /\ f.out = o
          BY <4>1 DEF OutputsTo
        <5>2. output[o] = <<>>
          BY <2>2, <5>1
        <5> QED BY <1>8, <5>2
      <4>2. CASE o \notin OutputsTo(edges, t)
        BY <1>8, <4>2
      <4> QED BY <4>1, <4>2
    <3> QED BY <1>9, <1>10, <3>1, FlattenedNothing
  <2> QED BY <2>1, <2>2
<1>14. PICK inv : inv = Delivery(edges, t, output)
  OBVIOUS
<1>15. inv = [node |-> t, input |-> <<items, <<>>>>, skipped |-> (items = <<>>)]
  BY <1>4, <1>14 DEF Delivery
<1>16. PICK input : input = <<items, <<>>>>
  OBVIOUS
<1>17. input \in Input /\ input[1] = items /\ input[2] = <<>> /\ DOMAIN input = 1 .. 2
  <2>1. <<>> \in Stream
    BY DEF Stream
  <2>2. input \in Input
    BY <1>11, <1>16, <2>1, InputIs
  <2> QED BY <1>16, <2>2, InputIs
<1>18. PICK empty \in BOOLEAN : empty = (items = <<>>)
  OBVIOUS
<1>19. inv = [node |-> t, input |-> input, skipped |-> empty]
  BY <1>15, <1>16, <1>18
<1>20. inv \in Call(g)
  BY <1>3, <1>17, <1>19 DEF Call
<1>21. DeliveredNothing(g, inv) = empty
  <2>1. inv.node = t /\ inv.input = input
    BY <1>19
  <2>2. DeliveredNothing(g, inv) <=> \A p \in 1 .. 2 : input[p] = <<>>
    BY <1>3, <1>17, <2>1 DEF DeliveredNothing
  <2>3. DeliveredNothing(g, inv) <=> items = <<>>
    BY <1>17, <2>2
  <2>4. DeliveredNothing(g, inv) \in BOOLEAN
    BY DEF DeliveredNothing
  <2> QED BY <1>18, <2>3, <2>4
<1>22. inv.skipped = empty /\ inv.input[2] = <<>> /\ inv.node = t
  BY <1>17, <1>19
<1>23. inv \in Entry(g)
  BY <1>20, <1>21, <1>22 DEF Entry
<1>24. DeliveredNothing(g, inv) <=> \A f \in edges : f.to = t => output[f.out] = <<>>
  BY <1>13, <1>18, <1>21
<1> QED BY <1>14, <1>22, <1>23, <1>24

\* The stack's entries that hand n something.
OwedTo(g, n) == {inv \in Call(g) : inv.node = n /\ ~DeliveredNothing(g, inv)}

\* Whether output hands n something.
Hands(g, m, output, n) == \E e \in ItemIncoming(g, n) : e.from = m /\ output[e.out] # <<>>

\* A port that a dispatch holds back is empty, unless Always Output Data filled it.
HeldBack(g, m, output) ==
    KindOf(g, m) = "loop" /\ ~g.nodes[m].always => output[1] = <<>> \/ output[2] = <<>>

IsBelowDone(g, n) ==
    \E e \in ItemIncoming(g, n) :
        KindOf(g, e.from) = "loop" /\ e.out = 1 /\ g.nodes[e.from].always

\* An output owes a node with one item input one run if it has something for it.
LEMMA PushGives ==
    ASSUME NEW g, GraphOK(g), NEW m \in g.active, NEW output \in OutputOf(g, m),
           HeldBack(g, m, output),
           NEW n \in g.active, ~SeveralInputs(g, n), ~IsBelowDone(g, n)
    PROVE  Hits(Push(g, m, output), OwedTo(g, n)) = IF Hands(g, m, output, n) THEN 1 ELSE 0
<1>1. PICK edges : edges = Feeding(g, m, output)
  OBVIOUS
<1>2. /\ edges \in SUBSET g.edges /\ edges \in SUBSET Feeding(g, m, output)
      /\ \A e \in edges : IsItemEdge(e) /\ e.from = m
  BY <1>1 DEF Feeding, Outgoing
<1>3. PICK order : order = Targets(edges)
  OBVIOUS
<1>4. Lists(order, {e.to : e \in edges})
  BY <1>2, <1>3, TargetsAre
<1>5. PICK k \in Nat : k = Len(order) /\ DOMAIN order = 1 .. k
  BY <1>4 DEF Lists
<1>6. PICK all : all = [i \in DOMAIN order |-> Delivery(edges, order[i], output)]
  OBVIOUS
<1>7. \A i \in 1 .. k : \E e \in edges : e.to = order[i]
  BY <1>4, <1>5 DEF Lists
<1>8. \A i \in 1 .. k :
         /\ all[i] \in Entry(g) /\ all[i].node = order[i]
         /\ DeliveredNothing(g, all[i]) <=> \A e \in edges : e.to = order[i] => output[e.out] = <<>>
  <2>1. TAKE i \in 1 .. k
  <2>2. PICK t : t = order[i]
    OBVIOUS
  <2>3. \E e \in edges : e.to = t
    BY <1>7, <2>2
  <2>4. /\ Delivery(edges, t, output) \in Entry(g)
        /\ Delivery(edges, t, output).node = t
        /\ DeliveredNothing(g, Delivery(edges, t, output))
             <=> \A e \in edges : e.to = t => output[e.out] = <<>>
    BY <1>2, <2>3, DeliveryIs
  <2>5. all[i] = Delivery(edges, t, output)
    BY <1>5, <1>6, <2>2
  <2> QED BY <2>2, <2>4, <2>5
<1>9. PICK push : push = Push(g, m, output)
  OBVIOUS
<1>10. push \in Seq(Entry(g)) /\ Len(push) = k /\ \A i \in 1 .. k : push[i] = all[k - i + 1]
  <2>1. all \in Seq(Entry(g)) /\ Len(all) = k
    BY <1>5, <1>6, <1>8
  <2>2. push = [i \in 1 .. Len(all) |-> all[(Len(all) - i) + 1]]
    BY <1>1, <1>3, <1>6, <1>9 DEF Push, Reverse
  <2>3. push \in Seq(Entry(g))
    BY <1>9, PushIs
  <2> QED BY <2>1, <2>2, <2>3
<1>11. \A i \in 1 .. k : push[i] \in OwedTo(g, n) <=>
          order[k - i + 1] = n /\ \E e \in edges : e.to = n /\ output[e.out] # <<>>
  <2>1. TAKE i \in 1 .. k
  <2>2. PICK j \in 1 .. k : j = k - i + 1
    BY <1>5
  <2>3. push[i] = all[j] /\ all[j] \in Call(g)
    BY <1>8, <1>10, <2>2 DEF Entry
  <2> QED BY <1>8, <2>2, <2>3 DEF OwedTo
<1>12. (\E e \in edges : e.to = n /\ output[e.out] # <<>>) <=> Hands(g, m, output, n)
  <2>1. ASSUME NEW e \in edges, e.to = n, output[e.out] # <<>> PROVE Hands(g, m, output, n)
    BY <1>2, <2>1 DEF Hands, ItemIncoming, Incoming
  <2>2. ASSUME NEW e \in ItemIncoming(g, n), e.from = m, output[e.out] # <<>>
        PROVE  e \in edges /\ e.to = n
    <3>1. e \in g.edges /\ e.to = n /\ IsItemEdge(e)
      BY DEF ItemIncoming, Incoming
    <3>2. ~(KindOf(g, m) = "loop" /\ output[2] # <<>> /\ e.out = 1)
      <4>1. SUFFICES ASSUME KindOf(g, m) = "loop", output[2] # <<>>, e.out = 1 PROVE FALSE
        OBVIOUS
      <4>2. ~g.nodes[m].always
        BY <2>2, <4>1 DEF IsBelowDone
      <4>3. output[1] = <<>>
        BY <4>1, <4>2 DEF HeldBack
      <4> QED BY <2>2, <4>1, <4>3
    <3> QED BY <1>1, <2>2, <3>1, <3>2 DEF Feeding, Outgoing
  <2> QED BY <2>1, <2>2 DEF Hands
<1>13. CASE Hands(g, m, output, n)
  <2>1. PICK e \in edges : e.to = n /\ output[e.out] # <<>>
    BY <1>12, <1>13
  <2>2. PICK j \in 1 .. k : order[j] = n
    BY <1>4, <1>5, <2>1 DEF Lists
  <2>3. PICK i \in 1 .. k : i = k - j + 1
    BY <1>5
  <2>4. j = k - i + 1
    BY <1>5, <2>3
  <2>5. push[i] \in OwedTo(g, n)
    BY <1>11, <2>1, <2>2, <2>4
  <2>6. ASSUME NEW h \in 1 .. k, push[h] \in OwedTo(g, n) PROVE h = i
    <3>1. k - h + 1 \in 1 .. k /\ order[k - h + 1] = n
      BY <1>5, <1>11, <2>6
    <3>2. k - h + 1 = j
      BY <1>4, <1>5, <2>2, <3>1 DEF Lists
    <3> QED BY <1>5, <2>3, <3>2
  <2>7. Hits(push, OwedTo(g, n)) = 1
    BY <1>10, <2>5, <2>6, HitsOnce
  <2> QED BY <1>9, <1>13, <2>7
<1>14. CASE ~Hands(g, m, output, n)
  <2>1. \A i \in 1 .. Len(push) : push[i] \notin OwedTo(g, n)
    BY <1>10, <1>11, <1>12, <1>14
  <2>2. Hits(push, OwedTo(g, n)) = 0
    BY <1>10, <2>1, HitsAre
  <2> QED BY <1>9, <1>14, <2>2
<1> QED BY <1>13, <1>14

-----------------------------------------------------------------------------
(* The shape of a step. *)

LEMMA AttemptsFail ==
    ASSUME NEW g, NEW n \in g.active, NEW input \in Input
    PROVE  FailedAttempts(g, n, input) \in Seq(FailedRows(g, n))
<1>1. PICK m : m = (IF g.nodes[n].retry THEN Tries ELSE 1) - 1
  OBVIOUS
<1>2. m \in Nat
  BY <1>1, RunnerBounds
<1>3. FailedAttempts(g, n, input) = [i \in 1 .. m |-> Row(n, input, <<>>, "failed")]
  BY <1>1 DEF FailedAttempts
<1>4. Row(n, input, <<>>, "failed") \in FailedRows(g, n)
  <2>1. <<>> \in Seq(Stream)
    OBVIOUS
  <2>2. Row(n, input, <<>>, "failed") \in RowOf(g)
    BY <2>1, RowIs
  <2> QED BY <2>2 DEF FailedRows, Row
<1> QED BY <1>2, <1>3, <1>4

LEMMA NoneFail ==
    ASSUME NEW g, NEW n, NEW s \in Seq(RowOf(g))
    PROVE  OnlyFails(g, n, s, s)
<1>1. Len(s) \in Nat
  OBVIOUS
<1> QED BY <1>1 DEF OnlyFails, Grows

\* An item of a per-item run adds no rows but its failed attempts.
LEMMA ResolveFails ==
    ASSUME NEW g, GraphOK(g), NEW run, RunOK(g, run), NEW n \in g.active,
           NEW single \in Input, NEW acc \in Held(g, n)
    PROVE  OnlyFails(g, n, acc.rows, ResolveItem(g, run, n, single, acc).rows)
<1>1. PICK ran : ran = Execute(g, run, n, single)
  OBVIOUS
<1>2. ran.failed \in BOOLEAN
  <2>1. run.loops[n] \in LoopState
    BY DEF RunOK
  <2> QED BY <1>1, <2>1, ExecuteIs
<1>3. acc.rows \in Seq(RowOf(g)) /\ acc = [output |-> acc.output, rows |-> acc.rows]
  BY DEF Held
<1>4. CASE ran.failed
  <2>1. PICK output : output = MergeOutput(acc.output, ToleratedOutput(g, n, single))
    OBVIOUS
  <2>2. PICK rows : rows = acc.rows \o FailedAttempts(g, n, single)
    OBVIOUS
  <2>3. ResolveItem(g, run, n, single, acc) = [output |-> output, rows |-> rows]
    BY <1>1, <1>4, <2>1, <2>2 DEF ResolveItem
  <2>4. OnlyFails(g, n, acc.rows, rows)
    BY <1>3, <2>2, AttemptsFail, ConcatFails
  <2> QED BY <2>3, <2>4
<1>5. CASE ~ran.failed
  <2>1. PICK output : output = MergeOutput(acc.output, ran.output)
    OBVIOUS
  <2>2. ResolveItem(g, run, n, single, acc) = [acc EXCEPT !.output = output]
    BY <1>1, <1>5, <2>1, Zenon DEF ResolveItem
  <2>3. ResolveItem(g, run, n, single, acc).rows = acc.rows
    BY <1>3, <2>2
  <2> QED BY <1>3, <2>3, NoneFail
<1> QED BY <1>2, <1>4, <1>5

\* Nor does the whole of it.
LEMMA ItemsFail ==
    ASSUME NEW g, GraphOK(g), NEW run, RunOK(g, run), NEW n \in g.active, NEW input \in Input,
           NEW p \in Nat, p # 0, NEW assembled, NEW w,
           ItemRun(g, run, n, input, p, assembled, w)
    PROVE  \A q \in 0 .. Len(input[1]) : OnlyFails(g, n, run.rows, w[q].rows)
<1>1. PICK len \in Nat : len = Len(input[1])
  BY InputIs DEF Stream
<1>2. \A q \in 0 .. len : w[q] \in Held(g, n)
  BY <1>1 DEF ItemRun
<1>3. run.rows \in Seq(RowOf(g))
  BY DEF RunOK
<1>4. PICK U : U = {v \in Held(g, n) : OnlyFails(g, n, run.rows, v.rows)}
  OBVIOUS
<1>5. \A q \in 0 .. len : q < p => w[q] \in U
  <2>1. TAKE q \in 0 .. len
  <2>2. HAVE q < p
  <2>3. w[q] = [output |-> assembled, rows |-> run.rows]
    BY <1>1, <2>2 DEF ItemRun
  <2>4. OnlyFails(g, n, run.rows, w[q].rows)
    BY <1>3, <2>3, NoneFail
  <2> QED BY <1>2, <1>4, <2>4
<1>6. w[0] \in U
  BY <1>5
<1>7. \A q \in 1 .. len : w[q - 1] \in U => w[q] \in U
  <2>1. TAKE q \in 1 .. len
  <2>2. HAVE w[q - 1] \in U
  <2>3. q \in 0 .. len /\ q - 1 \in 0 .. len
    OBVIOUS
  <2>4. CASE q < p
    BY <1>5, <2>3, <2>4
  <2>5. CASE q >= p
    <3>1. w[q] = ResolveItem(g, run, n, OneItem(input, q), w[q - 1])
      BY <1>1, <2>3, <2>5 DEF ItemRun
    <3>2. PICK v \in Held(g, n) : v = w[q - 1]
      BY <1>2, <2>3
    <3>3. PICK u \in Held(g, n) : u = w[q]
      BY <1>2, <2>3
    <3>4. OneItem(input, q) \in Input
      BY <1>1, OneItemIs
    <3>5. OnlyFails(g, n, v.rows, u.rows)
      BY <3>1, <3>2, <3>3, <3>4, ResolveFails
    <3>6. OnlyFails(g, n, run.rows, v.rows)
      BY <1>4, <2>2, <3>2
    <3>7. v.rows \in Seq(RowOf(g)) /\ u.rows \in Seq(RowOf(g))
      BY DEF Held
    <3>8. OnlyFails(g, n, run.rows, u.rows)
      BY <1>3, <3>5, <3>6, <3>7, FailsOn
    <3> QED BY <1>4, <3>3, <3>8
  <2> QED BY <2>4, <2>5
<1>8. \A q \in 0 .. len : w[q] \in U
  BY <1>6, <1>7, StaysIn
<1> QED BY <1>1, <1>4, <1>8

\* What an invocation leaves of a run: the node skipped, finished with an output, or
\* the run stopped.
SkippedBy(g, run, inv, end) ==
    /\ inv.skipped /\ end.status = run.status /\ end.pending = run.pending
    /\ end.completed = Put(run.completed, inv.node, NoOutput(g, inv.node))
    /\ Adds(g, inv.node, run.rows, end.rows,
            Row(inv.node, inv.input, NoOutput(g, inv.node), "skipped"))
FinishedBy(g, run, inv, end, input, output) ==
    /\ ~inv.skipped /\ end.status = run.status
    /\ HeldBack(g, inv.node, output)
    /\ end.pending = run.pending \o Push(g, inv.node, output)
    /\ end.completed = Put(run.completed, inv.node, output)
    /\ Adds(g, inv.node, run.rows, end.rows, Row(inv.node, input, output, "ran"))
StoppedBy(g, run, inv, end, input) ==
    /\ ~inv.skipped /\ end.status = "failed" /\ end.pending = run.pending
    /\ end.completed = run.completed
    /\ Adds(g, inv.node, run.rows, end.rows, Row(inv.node, input, <<>>, "failed"))

Invoked(g, run, inv, end) ==
    \/ SkippedBy(g, run, inv, end)
    \/ \E input \in Input : \E output \in OutputOf(g, inv.node) :
          FinishedBy(g, run, inv, end, input, output)
    \/ \E input \in Input : StoppedBy(g, run, inv, end, input)

\* Complete, after failed attempts.
LEMMA CompleteIs ==
    ASSUME NEW g, GraphOK(g), NEW run, RunOK(g, run), NEW inv \in Call(g), ~inv.skipped,
           NEW input \in Input, NEW output \in OutputOf(g, inv.node),
           HeldBack(g, inv.node, output),
           NEW mid, RunOK(g, mid), mid.status = run.status, mid.pending = run.pending,
           mid.completed = run.completed, OnlyFails(g, inv.node, run.rows, mid.rows)
    PROVE  Invoked(g, run, inv, Complete(g, mid, inv.node, input, output))
<1>1. PICK n \in g.active : n = inv.node
  BY DEF Call
<1>2. PICK row : row = Row(n, input, output, "ran")
  OBVIOUS
<1>3. row \in RowOf(g)
  BY <1>1, <1>2, OutputShapes, RowIs
<1>4. PICK rows : rows = Append(mid.rows, row)
  OBVIOUS
<1>5. Adds(g, n, run.rows, rows, row)
  <2>1. run.rows \in Seq(RowOf(g)) /\ mid.rows \in Seq(RowOf(g))
    BY DEF RunOK
  <2> QED BY <1>1, <1>3, <1>4, <2>1, AppendAdds
<1>6. PICK put : put = Put(mid.completed, n, output)
  OBVIOUS
<1>7. PICK pending : pending = mid.pending \o Push(g, n, output)
  OBVIOUS
<1>8. PICK status, stack, completed, loops, old :
          mid = [status |-> status, pending |-> stack, completed |-> completed,
                 loops |-> loops, rows |-> old]
  BY DEF RunOK
<1>9. PICK end : end = Complete(g, mid, n, input, output)
  OBVIOUS
<1>10. end = [status |-> status, pending |-> pending, completed |-> put,
              loops |-> loops, rows |-> rows]
  <2>1. end = [mid EXCEPT !.completed = put, !.rows = rows, !.pending = pending]
    BY <1>2, <1>4, <1>6, <1>7, <1>9, Zenon DEF Complete
  <2> QED BY <1>8, <2>1
<1>11. /\ end.status = mid.status /\ end.pending = pending /\ end.completed = put
       /\ end.rows = rows
  BY <1>8, <1>10
<1>12. FinishedBy(g, run, inv, end, input, output)
  BY <1>1, <1>2, <1>5, <1>6, <1>7, <1>11 DEF FinishedBy
<1> QED BY <1>1, <1>9, <1>12 DEF Invoked

LEMMA SkipIs ==
    ASSUME NEW g, GraphOK(g), NEW run, RunOK(g, run), NEW inv \in Call(g), inv.skipped
    PROVE  Invoked(g, run, inv, Skip(g, run, inv.node, inv.input))
<1>1. PICK n \in g.active : n = inv.node
  BY DEF Call
<1>2. PICK row : row = Row(n, inv.input, NoOutput(g, n), "skipped")
  OBVIOUS
<1>3. row \in RowOf(g)
  <2>1. inv.input \in Input /\ NoOutput(g, n) \in Seq(Stream)
    BY OutputShapes DEF Call
  <2> QED BY <1>2, <2>1, RowIs
<1>4. PICK rows : rows = Append(run.rows, row)
  OBVIOUS
<1>5. Adds(g, n, run.rows, rows, row)
  <2>1. run.rows \in Seq(RowOf(g))
    BY DEF RunOK
  <2> QED BY <1>3, <1>4, <2>1, NoneFail, AppendAdds
<1>6. PICK put : put = Put(run.completed, n, NoOutput(g, n))
  OBVIOUS
<1>7. PICK status, stack, completed, loops, old :
          run = [status |-> status, pending |-> stack, completed |-> completed,
                 loops |-> loops, rows |-> old]
  BY DEF RunOK
<1>8. PICK end : end = Skip(g, run, n, inv.input)
  OBVIOUS
<1>9. end = [status |-> status, pending |-> stack, completed |-> put,
             loops |-> loops, rows |-> rows]
  <2>1. end = [run EXCEPT !.completed = put, !.rows = rows]
    BY <1>2, <1>4, <1>6, <1>8, Zenon DEF Skip
  <2> QED BY <1>7, <2>1
<1>10. /\ end.status = run.status /\ end.pending = run.pending /\ end.completed = put
       /\ end.rows = rows
  BY <1>7, <1>9
<1> QED BY <1>1, <1>2, <1>5, <1>6, <1>8, <1>10 DEF Invoked, SkippedBy

\* What a loop returns: what it has collected, at its end; nothing, when it gives up;
\* or a batch on its second port.
LoopCalled(loop, collected, ran) ==
    \/ ran = [failed |-> FALSE, output |-> <<collected, <<>>>>, loop |-> NewLoop]
    \/ ran = [failed |-> TRUE, output |-> NoInput, loop |-> loop]
    \/ \E batch, rest \in Stream : \E k \in Nat :
          /\ batch # <<>>
          /\ ran = [failed |-> FALSE, output |-> <<<<>>, batch>>,
                    loop |-> [on |-> TRUE, pending |-> rest, collected |-> collected,
                              iteration |-> k]]

LEMMA LoopIs ==
    ASSUME NEW loop \in LoopState, NEW items \in Stream, NEW collected,
           collected = IF loop.on THEN loop.collected \o items ELSE <<>>
    PROVE  collected \in Stream /\ LoopCalled(loop, collected, ExecuteLoop(loop, items))
<1>1. PICK on, work, got, k : loop = [on |-> on, pending |-> work, collected |-> got,
                                      iteration |-> k]
  BY DEF LoopState
<1>2. on \in BOOLEAN /\ work \in Seq(Nat) /\ got \in Seq(Nat) /\ k \in Nat /\ items \in Seq(Nat)
  BY <1>1 DEF LoopState, Stream
<1>3. collected \in Seq(Nat)
  <2>1. got \o items \in Seq(Nat)
    BY <1>2, ConcatProperties
  <2>2. <<>> \in Seq(Nat)
    OBVIOUS
  <2> QED BY <1>1, <2>1, <2>2
<1>4. PICK pending \in Seq(Nat) : pending = IF on THEN work ELSE items
  BY <1>2
<1>5. PICK iteration \in Nat : iteration = IF on THEN k ELSE 0
  BY <1>2
<1>6. PICK now : now = IF loop.on THEN [loop EXCEPT !.collected = @ \o items]
                       ELSE [NewLoop EXCEPT !.pending = items]
  OBVIOUS
<1>7. now.pending = pending /\ now.collected = collected /\ now.iteration = iteration
  <2>1. CASE on
    <3>1. loop.collected = got /\ loop.on
      BY <1>1, <2>1
    <3>2. collected = got \o items
      BY <3>1
    <3>3. now = [loop EXCEPT !.collected = collected]
      BY <1>6, <3>1, <3>2, Zenon
    <3> QED BY <1>1, <1>4, <1>5, <2>1, <3>3
  <2>2. CASE ~on
    <3>1. ~loop.on
      BY <1>1, <2>2
    <3>2. PICK empty : empty = <<>>
      OBVIOUS
    <3>3. now = [NewLoop EXCEPT !.pending = items]
      BY <1>6, <3>1
    <3>4. NewLoop = [on |-> FALSE, pending |-> empty, collected |-> empty, iteration |-> 0]
      BY <3>2, Zenon DEF NewLoop
    <3>5. collected = empty
      BY <3>1, <3>2
    <3> QED BY <1>4, <1>5, <2>2, <3>3, <3>4, <3>5
  <2> QED BY <1>2, <2>1, <2>2
<1>8. PICK size : size = Min({Batch, Len(now.pending)})
  OBVIOUS
<1>9. size \in 0 .. Len(pending) /\ (pending # <<>> => size # 0)
  <2>1. PICK two : two = {Batch, Len(pending)}
    OBVIOUS
  <2>2. two \in SUBSET Nat /\ two # {} /\ Len(pending) \in two
    BY <2>1, RunnerBounds
  <2>3. Min(two) \in two /\ \A x \in two : Min(two) <= x
    BY <2>2, MinIs
  <2>4. size = Min(two)
    BY <1>7, <1>8, <2>1
  <2>5. size \in Nat /\ size <= Len(pending) /\ Len(pending) \in Nat
    BY <2>2, <2>3, <2>4
  <2>6. pending # <<>> => size # 0
    BY <2>1, <2>3, <2>4, RunnerBounds
  <2> QED BY <2>5, <2>6
<1>10. PICK batch : batch = SubSeq(now.pending, 1, size)
  OBVIOUS
<1>11. batch \in Seq(Nat) /\ (pending # <<>> => batch # <<>>)
  <2>1. \A i \in 1 .. size : pending[i] \in Nat
    BY <1>9
  <2>2. size \in Nat
    BY <1>9
  <2>3. /\ SubSeq(pending, 1, size) \in Seq(Nat)
        /\ Len(SubSeq(pending, 1, size)) = IF 1 <= size THEN size - 1 + 1 ELSE 0
    BY <2>1, <2>2, SubSeqProperties
  <2>4. batch \in Seq(Nat) /\ Len(batch) = size
    BY <1>7, <1>9, <1>10, <2>3
  <2> QED BY <1>9, <2>4
<1>12. PICK rest : rest = SubSeq(now.pending, size + 1, Len(now.pending))
  OBVIOUS
<1>13. rest \in Seq(Nat)
  <2>1. \A i \in (size + 1) .. Len(pending) : pending[i] \in Nat
    BY <1>9
  <2>2. SubSeq(pending, size + 1, Len(pending)) \in Seq(Nat)
    BY <1>9, <2>1, SubSeqProperties
  <2> QED BY <1>7, <1>12, <2>2
<1>14. PICK ran : ran = ExecuteLoop(loop, items)
  OBVIOUS
<1>15. CASE now.pending = <<>>
  <2>1. ran = [failed |-> FALSE, output |-> <<now.collected, <<>>>>, loop |-> NewLoop]
    BY <1>6, <1>14, <1>15 DEF ExecuteLoop
  <2>2. ran = [failed |-> FALSE, output |-> <<collected, <<>>>>, loop |-> NewLoop]
    BY <1>7, <2>1
  <2> QED BY <1>3, <1>14, <2>2 DEF LoopCalled, Stream
<1>16. CASE now.pending # <<>> /\ now.iteration >= MaxIterations
  <2>1. ran = [failed |-> TRUE, output |-> NoInput, loop |-> loop]
    BY <1>6, <1>14, <1>16 DEF ExecuteLoop
  <2> QED BY <1>3, <1>14, <2>1 DEF LoopCalled, Stream
<1>17. CASE now.pending # <<>> /\ ~(now.iteration >= MaxIterations)
  <2>1. ran = [failed |-> FALSE, output |-> <<<<>>, batch>>,
               loop |-> [on |-> TRUE, iteration |-> now.iteration + 1, pending |-> rest,
                         collected |-> now.collected]]
    BY <1>6, <1>8, <1>10, <1>12, <1>14, <1>17 DEF ExecuteLoop
  <2>2. PICK j \in Nat : j = now.iteration + 1
    BY <1>7
  <2>3. ran = [failed |-> FALSE, output |-> <<<<>>, batch>>,
               loop |-> [on |-> TRUE, pending |-> rest, collected |-> collected,
                         iteration |-> j]]
    BY <1>7, <2>1, <2>2
  <2>4. batch \in Stream /\ rest \in Stream /\ batch # <<>>
    BY <1>7, <1>11, <1>13, <1>17 DEF Stream
  <2> QED BY <1>3, <1>14, <2>3, <2>4 DEF LoopCalled, Stream
<1> QED BY <1>15, <1>16, <1>17

LEMMA LoopPorts ==
    ASSUME NEW g, GraphOK(g), NEW n \in g.active, KindOf(g, n) = "loop"
    PROVE  Outputs(g, n) \in Nat /\ Outputs(g, n) >= 2
<1>1. PICK more \in Nat : more = ErrorPorts(g, n)
  BY DEF ErrorPorts
<1>2. Outputs(g, n) = 2 + more
  BY <1>1 DEF Outputs, ItemOutputs
<1> QED BY <1>2

LEMMA UnchangedOutput ==
    ASSUME NEW g, NEW n, ~g.nodes[n].always, NEW output
    PROVE  WithEmptyItem(g, n, output) = output
BY DEF WithEmptyItem

\* A loop puts items on one of its own ports at a time.
LEMMA PassedHeld ==
    ASSUME NEW g, GraphOK(g), NEW n \in g.active, NEW items
    PROVE  HeldBack(g, n, PassedThrough(g, n, items))
<1>1. SUFFICES ASSUME KindOf(g, n) = "loop" PROVE PassedThrough(g, n, items)[2] = <<>>
  BY DEF HeldBack
<1>2. 2 \in 1 .. Outputs(g, n)
  BY <1>1, LoopPorts
<1> QED BY <1>2 DEF PassedThrough

LEMMA ToleratedHeld ==
    ASSUME NEW g, GraphOK(g), NEW n \in g.active, NEW input
    PROVE  HeldBack(g, n, WithEmptyItem(g, n, ToleratedOutput(g, n, input)))
<1>1. SUFFICES ASSUME KindOf(g, n) = "loop", ~g.nodes[n].always
               PROVE  ToleratedOutput(g, n, input)[1] = <<>> \/ ToleratedOutput(g, n, input)[2] = <<>>
  BY UnchangedOutput DEF HeldBack
<1>2. 1 \in 1 .. Outputs(g, n) /\ 2 \in 1 .. Outputs(g, n)
  BY <1>1, LoopPorts
<1>3. PICK base : base = NoOutput(g, n)
  OBVIOUS
<1>4. DOMAIN base = 1 .. Outputs(g, n) /\ base[1] = <<>> /\ base[2] = <<>>
  BY <1>2, <1>3 DEF NoOutput
<1>5. PICK items : items = IF input[1] = <<>> THEN <<EmptyItem>> ELSE input[1]
  OBVIOUS
<1>6. PICK errors : errors = [i \in DOMAIN items |-> ErrorItem(items[i])]
  OBVIOUS
<1>7. ToleratedOutput(g, n, input) = [base EXCEPT ![FailurePort(g, n)] = errors]
  BY <1>3, <1>5, <1>6 DEF ToleratedOutput
<1>8. PICK port : port = FailurePort(g, n)
  OBVIOUS
<1>9. [base EXCEPT ![port] = errors][1] = <<>> \/ [base EXCEPT ![port] = errors][2] = <<>>
  <2>1. CASE port = 1
    <3>1. [base EXCEPT ![port] = errors][2] = base[2]
      BY <1>2, <1>4, <2>1
    <3> QED BY <1>4, <3>1
  <2>2. CASE port # 1
    <3>1. [base EXCEPT ![port] = errors][1] = base[1]
      BY <1>2, <1>4, <2>2
    <3> QED BY <1>4, <3>1
  <2> QED BY <2>1, <2>2
<1> QED BY <1>7, <1>8, <1>9

LEMMA ExecutedHeld ==
    ASSUME NEW g, GraphOK(g), NEW n \in g.active, NEW run, run.loops[n] \in LoopState,
           NEW input \in Input, NEW output,
           output = WithErrorPort(g, n, Execute(g, run, n, input).output)
    PROVE  HeldBack(g, n, WithEmptyItem(g, n, output))
<1>1. SUFFICES ASSUME KindOf(g, n) = "loop", ~g.nodes[n].always
               PROVE  output[1] = <<>> \/ output[2] = <<>>
  BY UnchangedOutput DEF HeldBack
<1>2. 1 \in 1 .. Outputs(g, n) /\ 2 \in 1 .. Outputs(g, n)
  BY <1>1, LoopPorts
<1>3. PICK loop \in LoopState : loop = run.loops[n]
  OBVIOUS
<1>4. PICK items \in Stream : items = input[1]
  BY InputIs
<1>5. PICK ran : ran = ExecuteLoop(loop, items)
  OBVIOUS
<1>6. Execute(g, run, n, input) = ran
  BY <1>1, <1>3, <1>4, <1>5 DEF Execute
<1>7. PICK collected : collected = IF loop.on THEN loop.collected \o items ELSE <<>>
  OBVIOUS
<1>8. LoopCalled(loop, collected, ran)
  BY <1>5, <1>7, LoopIs
<1>9. PICK parts : parts = ran.output
  OBVIOUS
<1>10. PICK empty : empty = <<>>
  OBVIOUS
<1>11. DOMAIN parts = 1 .. 2 /\ (parts[1] = empty \/ parts[2] = empty)
  <2>1. CASE parts = <<collected, empty>>
    BY <2>1
  <2>2. CASE parts = <<empty, empty>>
    BY <2>2
  <2>3. ASSUME NEW batch, parts = <<empty, batch>>
        PROVE  DOMAIN parts = 1 .. 2 /\ (parts[1] = empty \/ parts[2] = empty)
    BY <2>3
  <2>4. \/ parts = <<collected, empty>> \/ parts = <<empty, empty>>
        \/ \E batch : parts = <<empty, batch>>
    BY <1>8, <1>9, <1>10 DEF LoopCalled, NoInput
  <2> QED BY <2>1, <2>2, <2>3, <2>4
<1>12. \A o \in 1 .. Outputs(g, n) : output[o] = IF o \in DOMAIN parts THEN parts[o] ELSE <<>>
  BY <1>6, <1>9 DEF WithErrorPort
<1>13. output[1] = parts[1] /\ output[2] = parts[2]
  BY <1>2, <1>11, <1>12
<1> QED BY <1>10, <1>11, <1>13

LEMMA FinishIs ==
    ASSUME NEW g, GraphOK(g), NEW run, RunOK(g, run), NEW inv \in Call(g), ~inv.skipped,
           NEW input \in Input, KindOf(g, inv.node) # "loop"
    PROVE  Invoked(g, run, inv, FinishItems(g, run, inv.node, input, 1, NoOutput(g, inv.node)))
<1>1. PICK n \in g.active : n = inv.node
  BY DEF Call
<1>2. PICK one \in Nat : one = 1
  OBVIOUS
<1>3. one # 0
  BY <1>2
<1>4. PICK none \in OutputOf(g, n) : none = NoOutput(g, n)
  BY OutputShapes
<1>5. PICK done : done = ResolveItems(g, run, n, input, one, Len(input[1]), none)
  OBVIOUS
<1>6. done \in Held(g, n) /\ OnlyFails(g, n, run.rows, done.rows)
  <2>1. PICK w : ItemRun(g, run, n, input, one, none, w)
    BY <1>3, ItemRuns
  <2>2. Len(input[1]) \in Nat
    BY InputIs DEF Stream
  <2>3. \A q \in 0 .. Len(input[1]) : OnlyFails(g, n, run.rows, w[q].rows)
    BY <1>3, <2>1, ItemsFail
  <2>4. Len(input[1]) \in 0 .. Len(input[1])
    BY <2>2
  <2> QED BY <1>5, <2>1, <2>3, <2>4 DEF ItemRun
<1>7. PICK mid : mid = [run EXCEPT !.rows = done.rows]
  OBVIOUS
<1>8. /\ RunOK(g, mid) /\ mid.rows = done.rows /\ mid.status = run.status
      /\ mid.pending = run.pending /\ mid.completed = run.completed
  <2>1. PICK status, stack, completed, loops, old :
          run = [status |-> status, pending |-> stack, completed |-> completed,
                 loops |-> loops, rows |-> old]
    BY DEF RunOK
  <2>2. PICK rows \in Seq(RowOf(g)) : rows = done.rows
    BY <1>6 DEF Held
  <2>3. mid = [status |-> status, pending |-> stack, completed |-> completed,
               loops |-> loops, rows |-> rows]
    BY <1>7, <2>1, <2>2
  <2> QED BY <2>1, <2>2, <2>3 DEF RunOK
<1>9. PICK output \in OutputOf(g, n) : output = WithEmptyItem(g, n, done.output)
  BY <1>6, OutputShapes DEF Held
<1>10. FinishItems(g, run, n, input, one, none) = Complete(g, mid, n, input, output)
  BY <1>5, <1>7, <1>9 DEF FinishItems
<1>11. HeldBack(g, n, output)
  BY <1>1 DEF HeldBack
<1>12. OnlyFails(g, n, run.rows, mid.rows)
  BY <1>6, <1>8
<1>13. Invoked(g, run, inv, Complete(g, mid, n, input, output))
  BY <1>1, <1>8, <1>11, <1>12, CompleteIs
<1> QED BY <1>1, <1>2, <1>4, <1>10, <1>13

LEMMA InvokeIs ==
    ASSUME NEW g, GraphOK(g), NEW run, RunOK(g, run), NEW inv \in Call(g), ~inv.skipped,
           NEW input \in Input
    PROVE  Invoked(g, run, inv, InvokeWhole(g, run, inv.node, input))
<1>n. PICK n \in g.active : n = inv.node
  BY DEF Call
<1>1. PICK ran : ran = Execute(g, run, n, input)
  OBVIOUS
<1>l. run.loops[n] \in LoopState
  BY DEF RunOK
<1>2. ran.failed \in BOOLEAN /\ ran.output \in Seq(Stream) /\ ran.loop \in LoopState
  BY <1>1, <1>l, ExecuteIs
<1>3. PICK rows : rows = IF ran.failed THEN run.rows \o FailedAttempts(g, n, input) ELSE run.rows
  OBVIOUS
<1>r. run.rows \in Seq(RowOf(g))
  BY DEF RunOK
<1>4. rows \in Seq(RowOf(g)) /\ OnlyFails(g, n, run.rows, rows)
  <2>1. FailedAttempts(g, n, input) \in Seq(FailedRows(g, n))
    BY AttemptsFail
  <2>2. CASE ran.failed
    BY <1>3, <1>r, <2>1, <2>2, ConcatFails
  <2>3. CASE ~ran.failed
    BY <1>3, <1>r, <2>3, NoneFail
  <2> QED BY <2>2, <2>3
<1>5. PICK loops : loops = [run.loops EXCEPT ![n] = ran.loop]
  OBVIOUS
<1>6. loops \in [g.active -> LoopState]
  BY <1>2, <1>5 DEF RunOK
<1>7. PICK tried : tried = [run EXCEPT !.loops[n] = ran.loop,
                                       !.rows = IF ran.failed
                                                  THEN @ \o FailedAttempts(g, n, input) ELSE @]
  OBVIOUS
<1>8. PICK status, stack, completed, old, rest :
        run = [status |-> status, pending |-> stack, completed |-> completed,
               loops |-> old, rows |-> rest]
  BY DEF RunOK
<1>9. tried = [status |-> status, pending |-> stack, completed |-> completed,
               loops |-> loops, rows |-> rows]
  <2>1. tried = [run EXCEPT !.loops = loops, !.rows = rows]
    <3>1. run.loops = old /\ run.rows = rest
      BY <1>8
    <3>2. tried = [[run EXCEPT !.loops[n] = ran.loop] EXCEPT !.rows = rows]
      BY <1>3, <1>7, Zenon
    <3>3. [run EXCEPT !.loops[n] = ran.loop] = [run EXCEPT !.loops = loops]
      BY <1>5, Zenon
    <3> QED BY <3>2, <3>3, Zenon
  <2> QED BY <1>8, <2>1
<1>10. /\ RunOK(g, tried) /\ tried.rows = rows /\ tried.status = run.status
       /\ tried.pending = run.pending /\ tried.completed = run.completed
  BY <1>4, <1>6, <1>8, <1>9 DEF RunOK
<1>o. OnlyFails(g, n, run.rows, tried.rows)
  BY <1>4, <1>10
<1>11. CASE ~ran.failed
  <2>1. PICK output \in OutputOf(g, n) :
          output = WithEmptyItem(g, n, WithErrorPort(g, n, ran.output))
    BY <1>2, OutputShapes
  <2>2. InvokeWhole(g, run, n, input) = Complete(g, tried, n, input, output)
    BY <1>1, <1>7, <1>11, <2>1 DEF InvokeWhole
  <2>3. HeldBack(g, n, output)
    BY <1>1, <1>l, <2>1, ExecutedHeld
  <2>4. Invoked(g, run, inv, Complete(g, tried, n, input, output))
    BY <1>n, <1>10, <1>o, <2>3, CompleteIs
  <2> QED BY <1>n, <2>2, <2>4
<1>12. CASE ran.failed /\ g.nodes[n].onError = "stop"
  <2>1. PICK row : row = Row(n, input, <<>>, "failed")
    OBVIOUS
  <2>2. row \in RowOf(g)
    <3>1. <<>> \in Seq(Stream)
      OBVIOUS
    <3> QED BY <2>1, <3>1, RowIs
  <2>3. PICK last : last = Append(rows, row)
    OBVIOUS
  <2>4. Adds(g, n, run.rows, last, row)
    BY <1>4, <1>r, <2>2, <2>3, AppendAdds
  <2>5. InvokeWhole(g, run, n, input) = [tried EXCEPT !.status = "failed",
                                                      !.rows = Append(@, row)]
    BY <1>1, <1>7, <1>12, <2>1, Zenon DEF InvokeWhole
  <2>6. [tried EXCEPT !.status = "failed", !.rows = Append(@, row)]
          = [status |-> "failed", pending |-> stack, completed |-> completed,
             loops |-> loops, rows |-> last]
    <3>1. PICK mid : mid = [tried EXCEPT !.status = "failed"]
      OBVIOUS
    <3>2. mid = [status |-> "failed", pending |-> stack, completed |-> completed,
                 loops |-> loops, rows |-> rows]
      BY <1>9, <3>1
    <3>3. [tried EXCEPT !.status = "failed", !.rows = Append(@, row)]
            = [mid EXCEPT !.rows = Append(@, row)]
      BY <3>1, Zenon
    <3>4. mid.rows = rows
      BY <3>2
    <3>5. [mid EXCEPT !.rows = Append(@, row)] = [mid EXCEPT !.rows = last]
      BY <2>3, <3>4, Zenon
    <3>6. [mid EXCEPT !.rows = last]
            = [status |-> "failed", pending |-> stack, completed |-> completed,
               loops |-> loops, rows |-> last]
      BY <3>2
    <3> QED BY <3>3, <3>5, <3>6
  <2>7. PICK end : end = [status |-> "failed", pending |-> stack, completed |-> completed,
                          loops |-> loops, rows |-> last]
    OBVIOUS
  <2>8. /\ end.status = "failed" /\ end.pending = run.pending /\ end.completed = run.completed
        /\ end.rows = last
    BY <1>8, <2>7
  <2>9. StoppedBy(g, run, inv, end, input)
    BY <1>n, <2>1, <2>4, <2>8 DEF StoppedBy
  <2> QED BY <1>n, <2>5, <2>6, <2>7, <2>9 DEF Invoked
<1>13. CASE ran.failed /\ g.nodes[n].onError # "stop"
  <2>1. PICK output \in OutputOf(g, n) :
          output = WithEmptyItem(g, n, ToleratedOutput(g, n, input))
    BY ToleratedIs, OutputShapes
  <2>2. InvokeWhole(g, run, n, input) = Complete(g, tried, n, input, output)
    BY <1>1, <1>7, <1>13, <2>1 DEF InvokeWhole
  <2>3. HeldBack(g, n, output)
    BY <2>1, ToleratedHeld
  <2>4. Invoked(g, run, inv, Complete(g, tried, n, input, output))
    BY <1>n, <1>10, <1>o, <2>3, CompleteIs
  <2> QED BY <1>n, <2>2, <2>4
<1> QED BY <1>2, <1>11, <1>12, <1>13

LEMMA RunNodeIs ==
    ASSUME NEW g, GraphOK(g), NEW run, RunOK(g, run), NEW inv \in Call(g)
    PROVE  Invoked(g, run, inv, RunNode(g, run, inv))
<1>1. PICK n \in g.active : n = inv.node
  BY DEF Call
<1>2. inv.input \in Input /\ inv.input[1] \in Stream /\ inv.skipped \in BOOLEAN
  BY InputIs DEF Call
<1>3. PICK input \in Input : input = Seen(g, inv)
  BY <1>2, SeenIs
<1>4. g.items \in Stream
  BY DEF GraphOK, Stream
<1>r. run.rows \in Seq(RowOf(g))
  BY DEF RunOK
<1>s. OnlyFails(g, n, run.rows, run.rows)
  BY <1>r, NoneFail
<1>5. CASE inv.skipped
  <2>1. RunNode(g, run, inv) = Skip(g, run, n, inv.input)
    BY <1>1, <1>5 DEF RunNode
  <2> QED BY <1>1, <1>5, <2>1, SkipIs
<1>6. CASE ~inv.skipped /\ Disabled(g, n)
  <2>1. PICK output \in OutputOf(g, n) : output = PassedThrough(g, n, inv.input[1])
    BY <1>2, OutputShapes
  <2>2. RunNode(g, run, inv) = Complete(g, run, n, inv.input, output)
    BY <1>1, <1>6, <2>1 DEF RunNode
  <2>3. HeldBack(g, n, output)
    BY <2>1, PassedHeld
  <2> QED BY <1>1, <1>2, <1>6, <1>s, <2>2, <2>3, CompleteIs
<1>7. CASE ~inv.skipped /\ ~Disabled(g, n) /\ g.nodes[n].pinned
  <2>1. PICK output \in OutputOf(g, n) : output = PassedThrough(g, n, g.items)
    BY <1>4, OutputShapes
  <2>2. RunNode(g, run, inv) = Complete(g, run, n, inv.input, output)
    BY <1>1, <1>7, <2>1 DEF RunNode
  <2>3. HeldBack(g, n, output)
    BY <2>1, PassedHeld
  <2> QED BY <1>1, <1>2, <1>7, <1>s, <2>2, <2>3, CompleteIs
<1>8. CASE ~inv.skipped /\ ~Disabled(g, n) /\ ~g.nodes[n].pinned
  <2>1. RunNode(g, run, inv) = IF PerItem(g, n, input)
                                 THEN FinishItems(g, run, n, input, 1, NoOutput(g, n))
                                 ELSE InvokeWhole(g, run, n, input)
    BY <1>1, <1>3, <1>8 DEF RunNode
  <2>2. CASE PerItem(g, n, input)
    <3>1. KindOf(g, n) # "loop"
      BY <2>2 DEF PerItem
    <3> QED BY <1>1, <1>8, <2>1, <2>2, <3>1, FinishIs
  <2>3. CASE ~PerItem(g, n, input)
    BY <1>1, <1>8, <2>1, <2>3, InvokeIs
  <2> QED BY <2>2, <2>3
<1> QED BY <1>2, <1>5, <1>6, <1>7, <1>8

-----------------------------------------------------------------------------
(* Every delivery accounted for. *)

RanRows(g, n) == {row \in RowOf(g) : row.node = n /\ row.what = "ran"}
FeedingRows(g, n) == {row \in RowOf(g) : row.what = "ran" /\ Hands(g, row.node, row.output, n)}

Counted(g) == {n \in g.active : ItemInputs[KindOf(g, n)] = 1 /\ ~IsBelowDone(g, n)}

\* The rows that handed n something are its runs, what the stack owes it, and the call
\* the run stopped on.
Balanced(g, run) ==
    \A n \in Counted(g) :
        Hits(run.rows, FeedingRows(g, n))
          = Hits(run.rows, RanRows(g, n)) + Hits(run.pending, OwedTo(g, n)) + Stopped(run, n)

\* What a node is known to have put out, a row of it did.
IsBacked(g, run, m) ==
    \/ run.completed[m] = NoOutput(g, m)
    \/ \E i \in 1 .. Len(run.rows) :
          /\ run.rows[i].node = m /\ run.rows[i].what = "ran"
          /\ run.rows[i].output = run.completed[m]
Backed(g, run) == \A m \in DOMAIN run.completed : IsBacked(g, run, m)

RanAreCompleted(g, run) ==
    \A i \in 1 .. Len(run.rows) :
        run.rows[i].what = "ran" => run.rows[i].node \in DOMAIN run.completed

\* A node nothing feeds has run or is on the stack.
IsRoot(g, n) == Incoming(g, n) = {} /\ ~Disabled(g, n) /\ ~IsAnnotation(g, n)
IsStacked(run, n) == \E i \in 1 .. Len(run.pending) : run.pending[i].node = n
Rooted(g, run) ==
    run.status = "running" =>
        \A n \in g.active : IsRoot(g, n) => Completed(run, n) \/ IsStacked(run, n)

LacksConfig(g, n) == \E e \in Incoming(g, n) \ ItemIncoming(g, n) : Disabled(g, e.from)
Settled(g, run) ==
    run.status = "succeeded" =>
        \A n \in Counted(g) : Hits(run.pending, OwedTo(g, n)) = 0 \/ LacksConfig(g, n)

Accounts(g, run) ==
    /\ RunOK(g, run) /\ Balanced(g, run) /\ Backed(g, run) /\ RanAreCompleted(g, run)
    /\ Rooted(g, run) /\ Settled(g, run)

LEMMA CountedFacts ==
    ASSUME NEW g, GraphOK(g), NEW n \in Counted(g)
    PROVE  /\ n \in g.active /\ ~SeveralInputs(g, n) /\ ~IsBelowDone(g, n)
           /\ ItemIncoming(g, n) # {} /\ Incoming(g, n) # {}
<1>1. n \in g.active /\ ItemInputs[KindOf(g, n)] = 1 /\ ~IsBelowDone(g, n)
  BY DEF Counted
<1>2. ItemIncoming(g, n) # {}
  BY <1>1 DEF GraphOK
<1>3. Incoming(g, n) # {}
  BY <1>2 DEF ItemIncoming
<1> QED BY <1>1, <1>2, <1>3 DEF SeveralInputs

\* Nothing to run on the stack, and something owed: an attachment has not run.
LEMMA OwedWaits ==
    ASSUME NEW g, GraphOK(g), NEW run, RunOK(g, run), Runnable(g, run) = {}, NEW n,
           Hits(run.pending, OwedTo(g, n)) # 0
    PROVE  ~ConfigReady(g, run, n)
<1>1. PICK i \in 1 .. Len(run.pending) : run.pending[i] \in OwedTo(g, n)
  BY HitsAre DEF RunOK
<1>2. i \in DOMAIN run.pending /\ run.pending[i].node = n
  BY <1>1 DEF RunOK, OwedTo
<1> QED BY <1>2 DEF Runnable

LEMMA OwedIsNat ==
    ASSUME NEW g, NEW run, RunOK(g, run), NEW n
    PROVE  /\ Hits(run.pending, OwedTo(g, n)) \in Nat
           /\ Hits(run.rows, RanRows(g, n)) \in Nat /\ Hits(run.rows, FeedingRows(g, n)) \in Nat
BY HitsAre DEF RunOK

\* The fallback never starts a node whose deliveries are counted.
LEMMA FallbackSpares ==
    ASSUME NEW g, GraphOK(g), NEW run, Accounts(g, run), run.status = "running",
           Runnable(g, run) = {}, NEW n \in Fallback(g, run)
    PROVE  n \notin Counted(g)
<1>1. SUFFICES ASSUME n \in Counted(g) PROVE FALSE
  OBVIOUS
<1>2. /\ n \in g.active /\ ItemIncoming(g, n) # {}
  BY <1>1, CountedFacts
<1>3. ~Completed(run, n) /\ DependenciesComplete(g, run, n) /\ Delivered(g, run, n)
  BY DEF Fallback
<1>4. PICK e \in ItemIncoming(g, n) : run.completed[e.from][e.out] # <<>>
  BY <1>2, <1>3 DEF Delivered
<1>5. e \in Incoming(g, n) /\ e \in g.edges
  BY DEF ItemIncoming, Incoming
<1>6. PICK m : m = e.from
  OBVIOUS
<1>7. m \in DOMAIN run.completed /\ m \in g.active /\ e.out \in 1 .. Outputs(g, m)
  BY <1>3, <1>5, <1>6 DEF DependenciesComplete, Completed, GraphOK
<1>8. IsBacked(g, run, m)
  BY <1>7 DEF Accounts, Backed
<1>9. run.completed[m] # NoOutput(g, m)
  BY <1>4, <1>6, <1>7 DEF NoOutput
<1>10. PICK i \in 1 .. Len(run.rows) :
          /\ run.rows[i].node = m /\ run.rows[i].what = "ran"
          /\ run.rows[i].output = run.completed[m]
  BY <1>8, <1>9 DEF IsBacked
<1>11. run.rows[i] \in FeedingRows(g, n)
  <2>1. run.rows[i] \in RowOf(g)
    BY DEF Accounts, RunOK
  <2>2. Hands(g, run.rows[i].node, run.rows[i].output, n)
    BY <1>4, <1>6, <1>10 DEF Hands
  <2> QED BY <1>10, <2>1, <2>2 DEF FeedingRows
<1>r. RunOK(g, run) /\ run.rows \in Seq(RowOf(g))
  BY DEF Accounts, RunOK
<1>12. Hits(run.rows, FeedingRows(g, n)) # 0
  BY <1>r, <1>11, HitsAre
<1>13. Hits(run.rows, RanRows(g, n)) = 0
  <2>1. ASSUME NEW j \in 1 .. Len(run.rows) PROVE run.rows[j] \notin RanRows(g, n)
    BY <1>3 DEF Accounts, RanAreCompleted, RanRows, Completed
  <2> QED BY <1>r, <2>1, HitsAre
<1>14. Stopped(run, n) = 0
  BY DEF Stopped
<1>15. Hits(run.pending, OwedTo(g, n)) # 0
  <2>1. Hits(run.rows, FeedingRows(g, n))
          = Hits(run.rows, RanRows(g, n)) + Hits(run.pending, OwedTo(g, n)) + Stopped(run, n)
    BY <1>1 DEF Accounts, Balanced
  <2> QED BY <1>r, <1>12, <1>13, <1>14, <2>1, OwedIsNat
<1>16. ~ConfigReady(g, run, n)
  BY <1>r, <1>15, OwedWaits
<1> QED BY <1>3, <1>16 DEF ConfigReady, DependenciesComplete

\* Taking the next invocation takes what it owes its node off the stack.
LEMMA TakenOwes ==
    ASSUME NEW g, GraphOK(g), NEW run, Accounts(g, run), run.status = "running",
           NEW i \in HasNext(g, run), NEW n \in Counted(g), NEW inv, inv = Invocation(g, run, i)
    PROVE  Hits(run.pending, OwedTo(g, n))
             = Hits(Taken(run, i).pending, OwedTo(g, n))
                 + (IF ~inv.skipped /\ inv.node = n THEN 1 ELSE 0)
<1>1. RunOK(g, run) /\ run.pending \in Seq(Entry(g)) /\ i \in 0 .. Len(run.pending)
  BY NextIs DEF Accounts, RunOK
<1>2. CASE i = 0
  <2>1. Runnable(g, run) = {} /\ Fallback(g, run) # {}
    <3>1. CASE Runnable(g, run) # {}
      <4>1. Max(Runnable(g, run)) \in Runnable(g, run)
        <5>1. PICK n1 \in Nat : n1 = Len(run.pending)
          BY <1>1
        <5>2. Runnable(g, run) \in SUBSET (0 .. n1)
          BY <1>1, <5>1 DEF Runnable
        <5> QED BY <3>1, <5>2, MaxIs
      <4>2. i = Max(Runnable(g, run))
        BY <3>1 DEF HasNext
      <4>3. 0 \in DOMAIN run.pending
        BY <1>2, <4>1, <4>2 DEF Runnable
      <4> QED BY <1>1, <4>3
    <3>2. CASE Runnable(g, run) = {}
      BY <3>2 DEF HasNext
    <3> QED BY <3>1, <3>2
  <2>2. PICK S : S = Fallback(g, run)
    OBVIOUS
  <2>3. S \in SUBSET Nat /\ S # {}
    BY <2>1, <2>2, NodeFacts DEF Fallback
  <2>4. Min(S) \in S
    BY <2>3, MinIs
  <2>5. inv.node = Min(S)
    BY <1>2, <2>2 DEF Invocation
  <2>6. inv.node # n
    BY <2>1, <2>2, <2>4, <2>5, FallbackSpares
  <2>7. Taken(run, i) = run
    BY <1>2 DEF Taken
  <2> QED BY <1>1, <2>6, <2>7, OwedIsNat
<1>3. CASE i # 0
  <2>1. i \in 1 .. Len(run.pending) /\ i > 0
    BY <1>1, <1>3
  <2>2. inv = run.pending[i] /\ inv \in Entry(g)
    BY <1>1, <2>1 DEF Invocation
  <2>3. Taken(run, i).pending = RemoveAt(run.pending, i)
    <3>1. PICK status, stack, completed, loops, rows :
            run = [status |-> status, pending |-> stack, completed |-> completed,
                   loops |-> loops, rows |-> rows]
      BY <1>1 DEF RunOK
    <3>2. PICK rest : rest = RemoveAt(run.pending, i)
      OBVIOUS
    <3>3. Taken(run, i) = [run EXCEPT !.pending = rest]
      BY <2>1, <3>2, Zenon DEF Taken
    <3> QED BY <3>1, <3>2, <3>3
  <2>4. Hits(run.pending, OwedTo(g, n))
          = Hits(RemoveAt(run.pending, i), OwedTo(g, n))
              + (IF run.pending[i] \in OwedTo(g, n) THEN 1 ELSE 0)
    BY <1>1, <2>1, HitsRemove
  <2>5. inv \in OwedTo(g, n) <=> ~inv.skipped /\ inv.node = n
    BY <2>2 DEF OwedTo, Entry
  <2> QED BY <2>2, <2>3, <2>4, <2>5
<1> QED BY <1>2, <1>3

LEMMA FailedAreOthers ==
    ASSUME NEW g, NEW n, NEW m, NEW row \in FailedRows(g, m)
    PROVE  row \notin RanRows(g, n) /\ row \notin FeedingRows(g, n) /\ row.what = "failed"
BY DEF FailedRows, RanRows, FeedingRows

LEMMA BalancedOn ==
    ASSUME NEW g, GraphOK(g), NEW run, Accounts(g, run), run.status = "running",
           NEW i \in HasNext(g, run), NEW inv, inv = Invocation(g, run, i),
           NEW mid, mid = Taken(run, i), RunOK(g, mid),
           NEW end, RunOK(g, end), Invoked(g, mid, inv, end)
    PROVE  Balanced(g, end)
<1>1. inv \in Call(g)
  BY NextIs DEF Accounts
<1>2. PICK m \in g.active : m = inv.node
  BY <1>1 DEF Call
<1>r. /\ run.rows \in Seq(RowOf(g)) /\ end.rows \in Seq(RowOf(g)) /\ RunOK(g, run)
      /\ end.pending \in Seq(Entry(g)) /\ mid.pending \in Seq(Entry(g))
  BY DEF Accounts, RunOK
<1>3. mid.rows = run.rows /\ mid.status = "running"
  <2>1. i \in 0 .. Len(run.pending)
    BY NextIs DEF Accounts
  <2> QED BY <1>r, <2>1, TakenOK
<1>4. SUFFICES ASSUME NEW n \in Counted(g)
               PROVE  Hits(end.rows, FeedingRows(g, n))
                        = Hits(end.rows, RanRows(g, n)) + Hits(end.pending, OwedTo(g, n))
                            + Stopped(end, n)
  BY DEF Balanced
<1>5. n \in g.active /\ ~SeveralInputs(g, n) /\ ~IsBelowDone(g, n)
  BY CountedFacts
<1>6. PICK f \in Nat, r \in Nat, o \in Nat, o2 \in Nat, z \in Nat :
         /\ f = Hits(run.rows, FeedingRows(g, n)) /\ r = Hits(run.rows, RanRows(g, n))
         /\ o = Hits(run.pending, OwedTo(g, n)) /\ o2 = Hits(mid.pending, OwedTo(g, n))
         /\ z = Hits(end.pending, OwedTo(g, n))
  BY <1>r, OwedIsNat
<1>7. f = r + o
  <2>1. Stopped(run, n) = 0
    BY DEF Stopped
  <2>2. f = r + o + Stopped(run, n)
    BY <1>6 DEF Accounts, Balanced
  <2> QED BY <2>1, <2>2
<1>8. o = o2 + (IF ~inv.skipped /\ m = n THEN 1 ELSE 0)
  BY <1>2, <1>6, TakenOwes
<1>9. \A row \in FailedRows(g, m) : row \notin RanRows(g, n) /\ row \notin FeedingRows(g, n)
  BY FailedAreOthers
<1>10. ASSUME NEW row \in RowOf(g), Adds(g, m, run.rows, end.rows, row)
       PROVE  /\ Hits(end.rows, FeedingRows(g, n)) = f + (IF row \in FeedingRows(g, n) THEN 1 ELSE 0)
              /\ Hits(end.rows, RanRows(g, n)) = r + (IF row \in RanRows(g, n) THEN 1 ELSE 0)
  <2>1. Hits(end.rows, FeedingRows(g, n))
          = Hits(run.rows, FeedingRows(g, n)) + (IF row \in FeedingRows(g, n) THEN 1 ELSE 0)
    BY <1>r, <1>9, <1>10, HitsAdds
  <2>2. Hits(end.rows, RanRows(g, n))
          = Hits(run.rows, RanRows(g, n)) + (IF row \in RanRows(g, n) THEN 1 ELSE 0)
    BY <1>r, <1>9, <1>10, HitsAdds
  <2> QED BY <1>6, <2>1, <2>2
<1>11. CASE SkippedBy(g, mid, inv, end)
  <2>1. PICK row : row = Row(m, inv.input, NoOutput(g, m), "skipped")
    OBVIOUS
  <2>2. row \in RowOf(g) /\ row.what = "skipped"
    <3>1. inv.input \in Input /\ NoOutput(g, m) \in Seq(Stream)
      BY <1>1, OutputShapes DEF Call
    <3>2. row \in RowOf(g)
      BY <2>1, <3>1, RowIs
    <3> QED BY <2>1, <3>2 DEF Row
  <2>3. /\ inv.skipped /\ end.status = "running" /\ end.pending = mid.pending
        /\ Adds(g, m, run.rows, end.rows, row)
    BY <1>2, <1>3, <1>11, <2>1 DEF SkippedBy
  <2>4. row \notin FeedingRows(g, n) /\ row \notin RanRows(g, n)
    BY <2>2 DEF FeedingRows, RanRows
  <2>5. Hits(end.rows, FeedingRows(g, n)) = f /\ Hits(end.rows, RanRows(g, n)) = r
    BY <1>10, <2>2, <2>3, <2>4
  <2>6. Stopped(end, n) = 0
    BY <2>3 DEF Stopped
  <2>7. z = o2
    BY <1>6, <2>3
  <2>8. o = o2
    BY <1>8, <2>3
  <2> HIDE DEF Stopped
  <2> QED BY <1>6, <1>7, <2>5, <2>6, <2>7, <2>8
<1>12. ASSUME NEW input \in Input, NEW output \in OutputOf(g, m),
              FinishedBy(g, mid, inv, end, input, output)
       PROVE  Hits(end.rows, FeedingRows(g, n))
                = Hits(end.rows, RanRows(g, n)) + Hits(end.pending, OwedTo(g, n)) + Stopped(end, n)
  <2>1. PICK row : row = Row(m, input, output, "ran")
    OBVIOUS
  <2>2. row \in RowOf(g)
    BY <2>1, OutputShapes, RowIs
  <2>3. /\ ~inv.skipped /\ end.status = "running" /\ HeldBack(g, m, output)
        /\ end.pending = mid.pending \o Push(g, m, output)
        /\ Adds(g, m, run.rows, end.rows, row)
    BY <1>2, <1>3, <1>12, <2>1 DEF FinishedBy
  <2>4. row \in FeedingRows(g, n) <=> Hands(g, m, output, n)
    <3>1. row.what = "ran" /\ row.node = m /\ row.output = output
      BY <2>1 DEF Row
    <3> QED BY <2>2, <3>1 DEF FeedingRows
  <2>5. row \in RanRows(g, n) <=> m = n
    <3>1. row.what = "ran" /\ row.node = m
      BY <2>1 DEF Row
    <3> QED BY <2>2, <3>1 DEF RanRows
  <2>6. Hits(Push(g, m, output), OwedTo(g, n)) = IF Hands(g, m, output, n) THEN 1 ELSE 0
    BY <1>5, <2>3, PushGives
  <2>7. z = o2 + (IF Hands(g, m, output, n) THEN 1 ELSE 0)
    <3>1. Push(g, m, output) \in Seq(Entry(g))
      BY PushIs
    <3>2. Hits(mid.pending \o Push(g, m, output), OwedTo(g, n))
            = Hits(mid.pending, OwedTo(g, n)) + Hits(Push(g, m, output), OwedTo(g, n))
      BY <1>r, <3>1, HitsConcat
    <3> QED BY <1>6, <2>3, <2>6, <3>2
  <2>8. Stopped(end, n) = 0
    BY <2>3 DEF Stopped
  <2>9. /\ Hits(end.rows, FeedingRows(g, n)) = f + (IF Hands(g, m, output, n) THEN 1 ELSE 0)
        /\ Hits(end.rows, RanRows(g, n)) = r + (IF m = n THEN 1 ELSE 0)
    BY <1>10, <2>2, <2>3, <2>4, <2>5
  <2>10. o = o2 + (IF m = n THEN 1 ELSE 0)
    BY <1>8, <2>3
  <2> HIDE DEF Stopped
  <2> QED BY <1>6, <1>7, <2>7, <2>8, <2>9, <2>10
<1>13. ASSUME NEW input \in Input, StoppedBy(g, mid, inv, end, input)
       PROVE  Hits(end.rows, FeedingRows(g, n))
                = Hits(end.rows, RanRows(g, n)) + Hits(end.pending, OwedTo(g, n)) + Stopped(end, n)
  <2>1. PICK row : row = Row(m, input, <<>>, "failed")
    OBVIOUS
  <2>2. row \in RowOf(g) /\ row.what = "failed" /\ row.node = m
    <3>1. <<>> \in Seq(Stream)
      OBVIOUS
    <3>2. row \in RowOf(g)
      BY <2>1, <3>1, RowIs
    <3> QED BY <2>1, <3>2 DEF Row
  <2>3. /\ ~inv.skipped /\ end.status = "failed" /\ end.pending = mid.pending
        /\ Adds(g, m, run.rows, end.rows, row)
    BY <1>2, <1>3, <1>13, <2>1 DEF StoppedBy
  <2>4. row \notin FeedingRows(g, n) /\ row \notin RanRows(g, n)
    BY <2>2 DEF FeedingRows, RanRows
  <2>5. Hits(end.rows, FeedingRows(g, n)) = f /\ Hits(end.rows, RanRows(g, n)) = r
    BY <1>10, <2>2, <2>3, <2>4
  <2>6. Stopped(end, n) = IF m = n THEN 1 ELSE 0
    <3>1. end.rows[Len(end.rows)] = row
      BY <2>3 DEF Adds
    <3>2. Last(end.rows) = row
      BY <3>1 DEF Last
    <3> QED BY <2>2, <2>3, <3>2 DEF Stopped
  <2>7. z = o2
    BY <1>6, <2>3
  <2>8. o = o2 + (IF m = n THEN 1 ELSE 0)
    BY <1>8, <2>3
  <2> HIDE DEF Stopped
  <2> QED BY <1>6, <1>7, <2>5, <2>6, <2>7, <2>8
<1> QED BY <1>2, <1>11, <1>12, <1>13 DEF Invoked

\* Every row of t is one of s, a failed attempt, or the last.
Keeps(g, n, s, t, row) ==
    /\ \A i \in 1 .. Len(s) : i \in 1 .. Len(t) /\ t[i] = s[i]
    /\ Len(t) \in 1 .. Len(t) /\ t[Len(t)] = row
    /\ \A i \in 1 .. Len(t) : i \in 1 .. Len(s) \/ t[i] \in FailedRows(g, n) \/ t[i] = row

LEMMA AddsKeeps ==
    ASSUME NEW g, NEW n, NEW s \in Seq(RowOf(g)), NEW t \in Seq(RowOf(g)), NEW row,
           Adds(g, n, s, t, row)
    PROVE  Keeps(g, n, s, t, row)
<1>1. PICK m \in Nat, k \in Nat : m = Len(s) /\ k = Len(t)
  OBVIOUS
<1>2. /\ m < k /\ t[k] = row /\ \A i \in 1 .. m : t[i] = s[i]
      /\ \A i \in m + 1 .. k - 1 : t[i] \in FailedRows(g, n)
  BY <1>1 DEF Adds, Grows
<1>3. ASSUME NEW i \in 1 .. k PROVE i \in 1 .. m \/ t[i] \in FailedRows(g, n) \/ t[i] = row
  <2>1. CASE i <= m
    BY <2>1
  <2>2. CASE i > m /\ i < k
    BY <1>2, <2>2
  <2>3. CASE i = k
    BY <1>2, <2>3
  <2> QED BY <2>1, <2>2, <2>3
<1> QED BY <1>1, <1>2, <1>3 DEF Keeps

LEMMA PutAt ==
    \A completed, n, output :
        /\ \A m : m \in DOMAIN Put(completed, n, output) <=> m \in DOMAIN completed \/ m = n
        /\ Put(completed, n, output)[n] = output
        /\ \A m \in DOMAIN completed : m # n => Put(completed, n, output)[m] = completed[m]
BY DEF Put

LEMMA BackedOn ==
    ASSUME NEW g, GraphOK(g), NEW mid, RunOK(g, mid), Backed(g, mid), RanAreCompleted(g, mid),
           NEW inv \in Call(g), NEW end, RunOK(g, end), Invoked(g, mid, inv, end)
    PROVE  Backed(g, end) /\ RanAreCompleted(g, end)
<1>1. PICK m \in g.active : m = inv.node
  BY DEF Call
<1>2. mid.rows \in Seq(RowOf(g)) /\ end.rows \in Seq(RowOf(g))
  BY DEF RunOK
<1>3. PICK row :
        /\ Adds(g, m, mid.rows, end.rows, row)
        /\ \/ /\ end.completed = Put(mid.completed, m, NoOutput(g, m))
              /\ row.what = "skipped"
           \/ \E output : /\ end.completed = Put(mid.completed, m, output)
                          /\ row.what = "ran" /\ row.node = m /\ row.output = output
           \/ end.completed = mid.completed /\ row.what = "failed"
  <2>1. CASE SkippedBy(g, mid, inv, end)
    <3>1. Row(m, inv.input, NoOutput(g, m), "skipped").what = "skipped"
      BY DEF Row
    <3> QED BY <1>1, <2>1, <3>1 DEF SkippedBy
  <2>2. ASSUME NEW input \in Input, NEW output \in OutputOf(g, m),
               FinishedBy(g, mid, inv, end, input, output)
        PROVE  \E row : Adds(g, m, mid.rows, end.rows, row)
                        /\ \E out : /\ end.completed = Put(mid.completed, m, out)
                                    /\ row.what = "ran" /\ row.node = m /\ row.output = out
    <3>1. PICK row : row = Row(m, input, output, "ran")
      OBVIOUS
    <3>2. row.what = "ran" /\ row.node = m /\ row.output = output
      BY <3>1 DEF Row
    <3>3. /\ Adds(g, m, mid.rows, end.rows, row)
          /\ end.completed = Put(mid.completed, m, output)
      BY <1>1, <2>2, <3>1 DEF FinishedBy
    <3> QED BY <3>2, <3>3
  <2>3. ASSUME NEW input \in Input, StoppedBy(g, mid, inv, end, input)
        PROVE  \E row : /\ Adds(g, m, mid.rows, end.rows, row)
                        /\ end.completed = mid.completed /\ row.what = "failed"
    <3>1. PICK row : row = Row(m, input, <<>>, "failed")
      OBVIOUS
    <3>2. row.what = "failed"
      BY <3>1 DEF Row
    <3> QED BY <1>1, <2>3, <3>1, <3>2 DEF StoppedBy
  <2> QED BY <1>1, <2>1, <2>2, <2>3 DEF Invoked
<1>4. /\ \A i \in 1 .. Len(mid.rows) : i \in 1 .. Len(end.rows) /\ end.rows[i] = mid.rows[i]
      /\ Len(end.rows) \in 1 .. Len(end.rows) /\ end.rows[Len(end.rows)] = row
      /\ \A i \in 1 .. Len(end.rows) :
            i \in 1 .. Len(mid.rows) \/ end.rows[i] \in FailedRows(g, m) \/ end.rows[i] = row
  <2>1. PICK s \in Seq(RowOf(g)), t \in Seq(RowOf(g)) : s = mid.rows /\ t = end.rows
    BY <1>2
  <2>2. Adds(g, m, s, t, row)
    BY <1>3, <2>1
  <2>3. Keeps(g, m, s, t, row)
    BY <2>2, AddsKeeps
  <2> QED BY <2>1, <2>3 DEF Keeps
<1>5. /\ \A k \in DOMAIN mid.completed : k \in DOMAIN end.completed
      /\ \A k \in DOMAIN end.completed :
            \/ k \in DOMAIN mid.completed /\ end.completed[k] = mid.completed[k]
            \/ k = m
      /\ row.what = "ran" => m \in DOMAIN end.completed /\ row.node = m
  <2>1. CASE end.completed = mid.completed /\ row.what = "failed"
    BY <2>1
  <2>2. ASSUME NEW output, end.completed = Put(mid.completed, m, output)
        PROVE  /\ \A k \in DOMAIN mid.completed : k \in DOMAIN end.completed
               /\ \A k \in DOMAIN end.completed :
                     \/ k \in DOMAIN mid.completed /\ end.completed[k] = mid.completed[k]
                     \/ k = m
               /\ m \in DOMAIN end.completed
    <3>1. PICK old, put : old = mid.completed /\ put = end.completed
      OBVIOUS
    <3>2. put = Put(old, m, output)
      BY <2>2, <3>1
    <3>3. /\ \A k : k \in DOMAIN put <=> k \in DOMAIN old \/ k = m
          /\ \A k \in DOMAIN old : k # m => put[k] = old[k]
      BY <3>2, PutAt
    <3> QED BY <3>1, <3>3
  <2>3. \/ end.completed = mid.completed /\ row.what = "failed"
        \/ \E output : end.completed = Put(mid.completed, m, output)
    BY <1>3
  <2> QED BY <1>3, <2>1, <2>2, <2>3
<1>6. ASSUME NEW k \in DOMAIN end.completed PROVE IsBacked(g, end, k)
  <2>1. CASE k \in DOMAIN mid.completed /\ end.completed[k] = mid.completed[k]
    <3>1. IsBacked(g, mid, k)
      BY <2>1 DEF Backed
    <3> QED BY <1>4, <2>1, <3>1 DEF IsBacked
  <2>2. CASE ~(k \in DOMAIN mid.completed /\ end.completed[k] = mid.completed[k])
    <3>1. k = m /\ end.completed # mid.completed
      BY <1>5, <2>2
    <3>2. CASE end.completed = Put(mid.completed, m, NoOutput(g, m))
      <4>1. end.completed[m] = NoOutput(g, m)
        BY <3>2, PutAt
      <4> QED BY <3>1, <4>1 DEF IsBacked
    <3>3. ASSUME NEW output, end.completed = Put(mid.completed, m, output),
                 row.what = "ran", row.node = m, row.output = output
          PROVE  IsBacked(g, end, k)
      <4>1. end.completed[m] = output
        BY <3>3, PutAt
      <4> QED BY <1>4, <3>1, <3>3, <4>1 DEF IsBacked
    <3> QED BY <1>3, <3>1, <3>2, <3>3
  <2> QED BY <2>1, <2>2
<1>7. ASSUME NEW i \in 1 .. Len(end.rows), end.rows[i].what = "ran"
      PROVE  end.rows[i].node \in DOMAIN end.completed
  <2>1. CASE i \in 1 .. Len(mid.rows)
    BY <1>4, <1>5, <1>7, <2>1 DEF RanAreCompleted
  <2>2. CASE end.rows[i] \in FailedRows(g, m)
    BY <1>7, <2>2 DEF FailedRows
  <2>3. CASE end.rows[i] = row
    BY <1>5, <1>7, <2>3
  <2> QED BY <1>4, <2>1, <2>2, <2>3
<1> QED BY <1>6, <1>7 DEF Backed, RanAreCompleted

\* The entries of the stack for a node.
EntriesFor(g, n) == {inv \in Entry(g) : inv.node = n}

LEMMA StackedIs ==
    ASSUME NEW g, NEW run, run.pending \in Seq(Entry(g)), NEW n
    PROVE  IsStacked(run, n) <=> Hits(run.pending, EntriesFor(g, n)) # 0
<1>1. \A i \in 1 .. Len(run.pending) :
         run.pending[i] \in EntriesFor(g, n) <=> run.pending[i].node = n
  BY DEF EntriesFor
<1> QED BY <1>1, HitsAre DEF IsStacked

\* The node that runs completes; every other entry of the stack stays.
LEMMA RootedOn ==
    ASSUME NEW g, GraphOK(g), NEW run, RunOK(g, run), Rooted(g, run), run.status = "running",
           NEW i \in HasNext(g, run), NEW inv, inv = Invocation(g, run, i),
           NEW mid, mid = Taken(run, i), RunOK(g, mid),
           NEW end, RunOK(g, end), Invoked(g, mid, inv, end)
    PROVE  Rooted(g, end)
<1>1. SUFFICES ASSUME end.status = "running", NEW n \in g.active, IsRoot(g, n)
               PROVE  Completed(end, n) \/ IsStacked(end, n)
  BY DEF Rooted
<1>2. Completed(run, n) \/ IsStacked(run, n)
  BY <1>1 DEF Rooted
<1>3. i \in 0 .. Len(run.pending) /\ inv \in Call(g)
  BY NextIs
<1>4. mid.completed = run.completed
  BY <1>3, TakenOK
<1>5. \/ end.completed = Put(mid.completed, inv.node, NoOutput(g, inv.node))
         /\ end.pending = mid.pending
      \/ \E output \in OutputOf(g, inv.node) :
            /\ end.completed = Put(mid.completed, inv.node, output)
            /\ end.pending = mid.pending \o Push(g, inv.node, output)
  <2>1. \A input : ~StoppedBy(g, mid, inv, end, input)
    BY <1>1 DEF StoppedBy
  <2> QED BY <2>1 DEF Invoked, SkippedBy, FinishedBy
<1>6. \A k : k \in DOMAIN end.completed <=> k \in DOMAIN run.completed \/ k = inv.node
  <2>1. PICK output : end.completed = Put(run.completed, inv.node, output)
    BY <1>4, <1>5
  <2> QED BY <2>1, PutAt
<1>7. PICK A : A = EntriesFor(g, n)
  OBVIOUS
<1>8. /\ run.pending \in Seq(Entry(g)) /\ mid.pending \in Seq(Entry(g))
      /\ end.pending \in Seq(Entry(g))
  BY DEF RunOK
<1>9. Hits(mid.pending, A) # 0 => Hits(end.pending, A) # 0
  <2>1. CASE end.pending = mid.pending
    BY <2>1
  <2>2. ASSUME NEW output \in OutputOf(g, inv.node),
               end.pending = mid.pending \o Push(g, inv.node, output)
        PROVE  Hits(mid.pending, A) # 0 => Hits(end.pending, A) # 0
    <3>1. Push(g, inv.node, output) \in Seq(Entry(g))
      BY <1>3, PushIs DEF Call
    <3>2. Hits(end.pending, A) = Hits(mid.pending, A) + Hits(Push(g, inv.node, output), A)
      BY <1>8, <2>2, <3>1, HitsConcat
    <3>3. Hits(mid.pending, A) \in Nat /\ Hits(Push(g, inv.node, output), A) \in Nat
      BY <1>8, <3>1, HitsAre
    <3> QED BY <3>2, <3>3
  <2> QED BY <1>5, <2>1, <2>2
<1>10. Hits(run.pending, A) # 0 => Hits(mid.pending, A) # 0 \/ inv.node = n
  <2>1. CASE i = 0
    BY <2>1 DEF Taken
  <2>2. CASE i # 0
    <3>1. i \in 1 .. Len(run.pending) /\ i > 0
      BY <1>3, <1>8, <2>2
    <3>2. inv = run.pending[i]
      BY <3>1 DEF Invocation
    <3>3. mid.pending = RemoveAt(run.pending, i)
      <4>1. PICK status, stack, completed, loops, rows :
              run = [status |-> status, pending |-> stack, completed |-> completed,
                     loops |-> loops, rows |-> rows]
        BY DEF RunOK
      <4>2. PICK rest : rest = RemoveAt(run.pending, i)
        OBVIOUS
      <4>3. mid = [run EXCEPT !.pending = rest]
        BY <3>1, <4>2, Zenon DEF Taken
      <4> QED BY <4>1, <4>2, <4>3
    <3>4. Hits(run.pending, A)
            = Hits(RemoveAt(run.pending, i), A) + (IF run.pending[i] \in A THEN 1 ELSE 0)
      BY <1>8, <3>1, HitsRemove
    <3>5. run.pending[i] \in A => inv.node = n
      BY <1>7, <3>2 DEF EntriesFor
    <3>6. Hits(mid.pending, A) \in Nat
      BY <1>8, HitsAre
    <3> QED BY <3>3, <3>4, <3>5, <3>6
  <2> QED BY <2>1, <2>2
<1>11. IsStacked(run, n) <=> Hits(run.pending, A) # 0
  BY <1>7, <1>8, StackedIs
<1>12. IsStacked(end, n) <=> Hits(end.pending, A) # 0
  BY <1>7, <1>8, StackedIs
<1> QED BY <1>2, <1>6, <1>9, <1>10, <1>11, <1>12 DEF Completed

LEMMA StartAccounts ==
    ASSUME NEW g, GraphOK(g)
    PROVE  Accounts(g, NewRun(g))
<1>1. PICK run : run = NewRun(g)
  OBVIOUS
<1>2. /\ RunOK(g, run)
      /\ \A i \in 1 .. Len(run.pending) : Incoming(g, run.pending[i].node) = {}
      /\ \A n \in g.active : Incoming(g, n) = {} /\ ~Disabled(g, n) /\ ~IsAnnotation(g, n)
            => \E i \in 1 .. Len(run.pending) : run.pending[i].node = n
  BY <1>1, SeedOK
<1>3. PICK empty : empty = <<>>
  OBVIOUS
<1>4. run.status = "running" /\ run.completed = empty /\ run.rows = empty
  BY <1>1, <1>3, Zenon DEF NewRun
<1>5. DOMAIN empty = {} /\ Len(empty) = 0
  BY <1>3
<1>6. run.rows \in Seq(RowOf(g)) /\ run.pending \in Seq(Entry(g)) /\ Len(run.rows) = 0
  BY <1>2, <1>4, <1>5 DEF RunOK
<1>7. ASSUME NEW n \in Counted(g)
      PROVE  Hits(run.rows, FeedingRows(g, n))
               = Hits(run.rows, RanRows(g, n)) + Hits(run.pending, OwedTo(g, n)) + Stopped(run, n)
  <2>1. Hits(run.rows, FeedingRows(g, n)) = 0
    <3>1. \A i \in 1 .. Len(run.rows) : run.rows[i] \notin FeedingRows(g, n)
      BY <1>6
    <3> QED BY <1>6, <3>1, HitsAre
  <2>2. Hits(run.rows, RanRows(g, n)) = 0
    <3>1. \A i \in 1 .. Len(run.rows) : run.rows[i] \notin RanRows(g, n)
      BY <1>6
    <3> QED BY <1>6, <3>1, HitsAre
  <2>3. Hits(run.pending, OwedTo(g, n)) = 0
    <3>1. Incoming(g, n) # {}
      BY CountedFacts
    <3>2. \A i \in 1 .. Len(run.pending) : run.pending[i] \notin OwedTo(g, n)
      BY <1>2, <3>1 DEF OwedTo
    <3> QED BY <1>6, <3>2, HitsAre
  <2>4. Stopped(run, n) = 0
    BY <1>4 DEF Stopped
  <2> QED BY <2>1, <2>2, <2>3, <2>4
<1>8. Balanced(g, run)
  BY <1>7 DEF Balanced
<1>9. Backed(g, run) /\ RanAreCompleted(g, run)
  BY <1>4, <1>5, <1>6 DEF Backed, RanAreCompleted
<1>10. Rooted(g, run)
  BY <1>2 DEF Rooted, IsRoot, IsStacked
<1>11. Settled(g, run)
  BY <1>4 DEF Settled
<1> QED BY <1>1, <1>2, <1>8, <1>9, <1>10, <1>11 DEF Accounts

\* A node without item inputs has nothing before it.
LEMMA NoInputs ==
    ASSUME NEW g, GraphOK(g), NEW m \in g.active, ItemInputs[KindOf(g, m)] = 0
    PROVE  Incoming(g, m) = {}
<1>1. SUFFICES ASSUME NEW f \in g.edges, f.to = m PROVE FALSE
  BY DEF Incoming
<1>2. CASE IsItemEdge(f)
  <2>1. f.port <= ItemInputs[KindOf(g, m)] /\ f.port \in Nat
    BY <1>1, <1>2 DEF GraphOK, Edge
  <2> QED BY <1>2, <2>1 DEF IsItemEdge, Attachment
<1>3. CASE ~IsItemEdge(f)
  <2>1. KindOf(g, m) = "agent"
    BY <1>1, <1>3 DEF GraphOK
  <2> QED BY <2>1 DEF ItemInputs
<1> QED BY <1>2, <1>3

\* A root has run once the stack has nothing to run.
LEMMA RootsRun ==
    ASSUME NEW g, NEW run, RunOK(g, run), Rooted(g, run), run.status = "running",
           Runnable(g, run) = {}, NEW m \in g.active, IsRoot(g, m)
    PROVE  Completed(run, m)
<1>1. SUFFICES ASSUME IsStacked(run, m) PROVE FALSE
  BY DEF Rooted
<1>2. PICK i \in 1 .. Len(run.pending) : run.pending[i].node = m
  BY <1>1 DEF IsStacked
<1>3. i \in DOMAIN run.pending
  BY DEF RunOK
<1>4. ConfigReady(g, run, m)
  BY DEF ConfigReady, IsRoot
<1>5. i \in Runnable(g, run)
  BY <1>2, <1>3, <1>4 DEF Runnable
<1> QED BY <1>5

\* A stack that has nothing to run waits for attachments that are switched off.
LEMMA StuckLacks ==
    ASSUME NEW g, GraphOK(g), NEW run, RunOK(g, run), Rooted(g, run), run.status = "running",
           Runnable(g, run) = {}, NEW n, ~ConfigReady(g, run, n)
    PROVE  LacksConfig(g, n)
<1>4. PICK e \in Incoming(g, n) \ ItemIncoming(g, n) : ~Completed(run, e.from)
  BY DEF ConfigReady
<1>5. PICK m : m = e.from
  OBVIOUS
<1>6. e \in g.edges /\ ~IsItemEdge(e)
  BY <1>4 DEF Incoming, ItemIncoming
<1>7. m \in g.active /\ KindOf(g, m) = "model"
  BY <1>5, <1>6 DEF GraphOK
<1>8. Incoming(g, m) = {}
  BY <1>7, NoInputs DEF ItemInputs
<1>9. ~IsAnnotation(g, m)
  BY <1>7 DEF IsAnnotation
<1>10. CASE Disabled(g, m)
  BY <1>4, <1>5, <1>10 DEF LacksConfig
<1>11. CASE ~Disabled(g, m)
  <2>1. IsRoot(g, m)
    BY <1>8, <1>9, <1>11 DEF IsRoot
  <2>2. Completed(run, m)
    BY <1>7, <2>1, RootsRun
  <2> QED BY <1>4, <1>5, <2>2
<1> QED BY <1>10, <1>11

\* A run that ends owes nothing but to nodes whose attachment is switched off.
LEMMA EndSettles ==
    ASSUME NEW g, GraphOK(g), NEW run, Accounts(g, run), run.status = "running",
           HasNext(g, run) = {}, NEW n \in Counted(g), Hits(run.pending, OwedTo(g, n)) # 0
    PROVE  LacksConfig(g, n)
<1>1. RunOK(g, run) /\ Rooted(g, run)
  BY DEF Accounts
<1>2. Runnable(g, run) = {}
  BY DEF HasNext
<1>3. ~ConfigReady(g, run, n)
  BY <1>1, <1>2, OwedWaits
<1> QED BY <1>1, <1>2, <1>3, StuckLacks

LEMMA EndAccounts ==
    ASSUME NEW g, GraphOK(g), NEW run, Accounts(g, run), run.status = "running",
           HasNext(g, run) = {}
    PROVE  Accounts(g, RecordSkips(g, run))
<1>1. RunOK(g, run)
  BY DEF Accounts
<1>2. PICK end : end = RecordSkips(g, run)
  OBVIOUS
<1>3. RunOK(g, end) /\ end.status = "succeeded" /\ end.pending = run.pending
      /\ end.completed = run.completed
  BY <1>1, <1>2, RecordSkipsOK
<1>4. PICK more \in Seq(RowOf(g)) : /\ end.rows = run.rows \o more
                                    /\ \A i \in 1 .. Len(more) : more[i].what = "unreached"
  <2>1. AddsUnreached(g, run.rows, end.rows)
    BY <1>1, <1>2, RecordSkipsOK
  <2> QED BY <2>1 DEF AddsUnreached
<1>5. /\ run.rows \in Seq(RowOf(g)) /\ end.rows \in Seq(RowOf(g))
      /\ run.pending \in Seq(Entry(g))
  BY <1>1, <1>3 DEF RunOK
<1>6. ASSUME NEW A, \A i \in 1 .. Len(more) : more[i] \notin A
      PROVE  Hits(end.rows, A) = Hits(run.rows, A)
  <2>1. Hits(end.rows, A) = Hits(run.rows, A) + Hits(more, A)
    BY <1>4, <1>5, HitsConcat
  <2>2. Hits(more, A) = 0
    BY <1>6, HitsAre
  <2>3. Hits(run.rows, A) \in Nat
    BY <1>5, HitsAre
  <2> QED BY <2>1, <2>2, <2>3
<1>7. ASSUME NEW n \in Counted(g)
      PROVE  Hits(end.rows, FeedingRows(g, n))
               = Hits(end.rows, RanRows(g, n)) + Hits(end.pending, OwedTo(g, n)) + Stopped(end, n)
  <2>1. \A i \in 1 .. Len(more) : more[i] \notin FeedingRows(g, n)
    BY <1>4 DEF FeedingRows
  <2>2. \A i \in 1 .. Len(more) : more[i] \notin RanRows(g, n)
    BY <1>4 DEF RanRows
  <2>3. Hits(end.rows, FeedingRows(g, n)) = Hits(run.rows, FeedingRows(g, n))
    BY <1>6, <2>1
  <2>4. Hits(end.rows, RanRows(g, n)) = Hits(run.rows, RanRows(g, n))
    BY <1>6, <2>2
  <2>5. Stopped(end, n) = 0 /\ Stopped(run, n) = 0
    BY <1>3 DEF Stopped
  <2>6. Hits(run.rows, FeedingRows(g, n))
          = Hits(run.rows, RanRows(g, n)) + Hits(run.pending, OwedTo(g, n)) + Stopped(run, n)
    BY DEF Accounts, Balanced
  <2> QED BY <1>3, <2>3, <2>4, <2>5, <2>6
<1>8. Balanced(g, end)
  BY <1>7 DEF Balanced
<1>9. PICK len \in Nat, add \in Nat : len = Len(run.rows) /\ add = Len(more)
  BY <1>5
<1>10. /\ Len(end.rows) = len + add
       /\ \A i \in 1 .. len + add : end.rows[i] = IF i <= len THEN run.rows[i] ELSE more[i - len]
  BY <1>4, <1>5, <1>9, ConcatProperties
<1>11. \A i \in 1 .. len : i \in 1 .. Len(end.rows) /\ end.rows[i] = run.rows[i]
  BY <1>9, <1>10
<1>12. Backed(g, end)
  <2>1. SUFFICES ASSUME NEW m \in DOMAIN run.completed PROVE IsBacked(g, end, m)
    BY <1>3 DEF Backed
  <2>2. IsBacked(g, run, m)
    BY DEF Accounts, Backed
  <2> QED BY <1>3, <1>9, <1>11, <2>2 DEF IsBacked
<1>13. RanAreCompleted(g, end)
  <2>1. SUFFICES ASSUME NEW i \in 1 .. Len(end.rows), end.rows[i].what = "ran"
                 PROVE  end.rows[i].node \in DOMAIN run.completed
    BY <1>3 DEF RanAreCompleted
  <2>2. CASE i <= len
    <3>1. i \in 1 .. len
      BY <1>9, <1>10, <2>2
    <3>2. RanAreCompleted(g, run)
      BY DEF Accounts
    <3> QED BY <1>9, <1>11, <2>1, <3>1, <3>2 DEF RanAreCompleted
  <2>3. CASE ~(i <= len)
    <3>1. i - len \in 1 .. add /\ end.rows[i] = more[i - len]
      BY <1>9, <1>10, <2>3
    <3> QED BY <1>4, <1>9, <2>1, <3>1
  <2> QED BY <2>2, <2>3
<1>14. Rooted(g, end)
  BY <1>3 DEF Rooted
<1>15. Settled(g, end)
  <2>1. \A n \in Counted(g) : Hits(run.pending, OwedTo(g, n)) = 0 \/ LacksConfig(g, n)
    BY EndSettles
  <2> QED BY <1>3, <2>1 DEF Settled
<1> QED BY <1>2, <1>3, <1>8, <1>12, <1>13, <1>14, <1>15 DEF Accounts

LEMMA OnwardAccounts ==
    ASSUME NEW g, GraphOK(g), NEW run, Accounts(g, run), run.status = "running"
    PROVE  Accounts(g, Onward(g, run))
<1>1. CASE HasNext(g, run) = {}
  BY <1>1, EndAccounts DEF Onward
<1>2. CASE HasNext(g, run) # {}
  <2>1. RunOK(g, run)
    BY DEF Accounts
  <2>2. PICK i : i \in HasNext(g, run)
    BY <1>2
  <2>3. i \in 0 .. Len(run.pending) /\ Min(HasNext(g, run)) = i /\ Invocation(g, run, i) \in Call(g)
    BY <2>1, <2>2, NextIs
  <2>4. PICK inv \in Call(g) : inv = Invocation(g, run, i)
    BY <2>3
  <2>5. PICK mid : mid = Taken(run, i)
    OBVIOUS
  <2>6. /\ RunOK(g, mid) /\ mid.rows = run.rows /\ mid.completed = run.completed
        /\ mid.status = "running"
    BY <2>1, <2>3, <2>5, TakenOK
  <2>7. PICK end : end = RunNode(g, mid, inv)
    OBVIOUS
  <2>8. Onward(g, run) = end
    BY <1>2, <2>3, <2>4, <2>5, <2>7 DEF Onward
  <2>9. RunOK(g, end) /\ Invoked(g, mid, inv, end)
    BY <2>6, <2>7, RunNodeOK, RunNodeIs
  <2>10. Balanced(g, end)
    BY <2>2, <2>4, <2>5, <2>6, <2>9, BalancedOn
  <2>11. Backed(g, mid) /\ RanAreCompleted(g, mid)
    BY <2>6 DEF Accounts, Backed, IsBacked, RanAreCompleted
  <2>12. Backed(g, end) /\ RanAreCompleted(g, end)
    BY <2>6, <2>9, <2>11, BackedOn
  <2>13. Rooted(g, end)
    <3>1. Rooted(g, run)
      BY DEF Accounts
    <3> QED BY <2>1, <2>2, <2>4, <2>5, <2>6, <2>9, <3>1, RootedOn
  <2>14. Settled(g, end)
    <3>1. end.status # "succeeded"
      BY <2>6, <2>9 DEF Invoked, SkippedBy, FinishedBy, StoppedBy
    <3> QED BY <3>1 DEF Settled
  <2> QED BY <2>8, <2>9, <2>10, <2>12, <2>13, <2>14 DEF Accounts
<1> QED BY <1>1, <1>2

\* Every state of an uninterrupted run accounts for its deliveries.
LEMMA OrbitAccounts ==
    ASSUME NEW g, GraphOK(g), NEW N \in Nat, NEW s, Orbit(g, s, N)
    PROVE  \A k \in 0 .. N : Accounts(g, s[k])
<1>1. PICK U : U = {k \in 0 .. N : Accounts(g, s[k])}
  OBVIOUS
<1>2. PICK w : w = [k \in 0 .. N |-> k]
  OBVIOUS
<1>3. w[0] \in U
  <2>1. Accounts(g, s[0])
    BY StartAccounts DEF Orbit
  <2>2. 0 \in 0 .. N
    OBVIOUS
  <2> QED BY <1>1, <1>2, <2>1, <2>2
<1>4. \A k \in 1 .. N : w[k - 1] \in U => w[k] \in U
  <2>1. TAKE k \in 1 .. N
  <2>2. HAVE w[k - 1] \in U
  <2>3. k - 1 \in 0 .. N /\ k \in 0 .. N /\ w[k - 1] = k - 1 /\ w[k] = k
    BY <1>2
  <2>4. PICK run : run = s[k - 1]
    OBVIOUS
  <2>5. Accounts(g, run)
    BY <1>1, <2>2, <2>3, <2>4
  <2>6. run.status = "running" /\ s[k] = Onward(g, run)
    BY <2>4 DEF Orbit
  <2>7. Accounts(g, s[k])
    BY <2>5, <2>6, OnwardAccounts
  <2> QED BY <1>1, <2>3, <2>7
<1>5. \A k \in 0 .. N : w[k] \in U
  BY <1>3, <1>4, StaysIn
<1> QED BY <1>1, <1>2, <1>5

\* What a waiting run owes: the entries its checkpoint kept, and the node that waits.
OwedAt(g, cp, n) ==
    Cardinality({i \in DOMAIN cp.pending : cp.pending[i].node = n
                                           /\ ~DeliveredNothing(g, cp.pending[i])})
      + (IF cp.node = n THEN 1 ELSE 0)

LEMMA SnapshotOwes ==
    ASSUME NEW g, NEW run, RunOK(g, run), NEW n, NEW m, NEW input, NEW whole, NEW position,
           NEW output, NEW kept, kept.pending = run.pending,
           NEW cp, cp = Snapshot(kept, m, input, whole, position, output)
    PROVE  OwedAt(g, cp, n) = Hits(run.pending, OwedTo(g, n)) + (IF m = n THEN 1 ELSE 0)
<1>1. PICK len \in Nat : len = Len(run.pending) /\ DOMAIN run.pending = 1 .. len
  BY DEF RunOK
<1>2. PICK stack : stack = [i \in DOMAIN run.pending |->
                              [node |-> run.pending[i].node, input |-> run.pending[i].input]]
  OBVIOUS
<1>3. cp.pending = stack /\ cp.node = m
  <2>1. cp.pending = [i \in DOMAIN kept.pending |->
                        [node |-> kept.pending[i].node, input |-> kept.pending[i].input]]
        /\ cp.node = m
    BY DEF Snapshot
  <2> QED BY <1>2, <2>1
<1>4. DOMAIN stack = 1 .. len
  BY <1>1, <1>2
<1>5. ASSUME NEW i \in 1 .. len
      PROVE  stack[i].node = n /\ ~DeliveredNothing(g, stack[i]) <=> run.pending[i] \in OwedTo(g, n)
  <2>1. PICK inv \in Call(g) : inv = run.pending[i]
    BY <1>1 DEF RunOK, Entry
  <2>2. stack[i] = [node |-> inv.node, input |-> inv.input]
    BY <1>1, <1>2, <2>1
  <2>3. stack[i].node = inv.node /\ stack[i].input = inv.input
    BY <2>2
  <2>4. DeliveredNothing(g, stack[i]) <=> DeliveredNothing(g, inv)
    BY <2>3 DEF DeliveredNothing
  <2> QED BY <2>1, <2>3, <2>4 DEF OwedTo
<1>6. {i \in DOMAIN stack : stack[i].node = n /\ ~DeliveredNothing(g, stack[i])}
        = {i \in 1 .. len : run.pending[i] \in OwedTo(g, n)}
  BY <1>4, <1>5
<1> QED BY <1>1, <1>3, <1>6 DEF OwedAt, Hits

\* A wait owes its node what the run it suspended owed it.
LEMMA WaitOwes ==
    ASSUME NEW g, GraphOK(g), NEW run, Accounts(g, run), run.status = "running",
           NEW cp, WaitsWith(g, run, cp), NEW n \in Counted(g)
    PROVE  OwedAt(g, cp, n) = Hits(run.pending, OwedTo(g, n))
<1>1. PICK i \in HasNext(g, run) :
         LET inv == Invocation(g, run, i)
             taken == Taken(run, i)
             m == inv.node
             input == Seen(g, inv)
         IN  /\ Suspends(g, inv)
             /\ IF PerItem(g, m, input) THEN ItemsWait(g, taken, m, input, cp)
                ELSE ~WaitFails(input) /\ cp = Snapshot(taken, m, input, input, 0, NoOutput(g, m))
  BY DEF WaitsWith
<1>2. PICK inv : inv = Invocation(g, run, i)
  OBVIOUS
<1>3. PICK taken : taken = Taken(run, i)
  OBVIOUS
<1>4. PICK m : m = inv.node
  OBVIOUS
<1>5. RunOK(g, taken)
  <2>1. RunOK(g, run)
    BY DEF Accounts
  <2>2. i \in 0 .. Len(run.pending)
    BY <2>1, NextIs
  <2> QED BY <1>3, <2>1, <2>2, TakenOK
<1>6. ~inv.skipped
  BY <1>1, <1>2 DEF Suspends
<1>7. \E kept, input, whole, position, output :
         kept.pending = taken.pending /\ cp = Snapshot(kept, m, input, whole, position, output)
  <2>1. \A rows : [taken EXCEPT !.rows = rows].pending = taken.pending
    <3>1. PICK status, stack, completed, loops, old :
            taken = [status |-> status, pending |-> stack, completed |-> completed,
                     loops |-> loops, rows |-> old]
      BY <1>5 DEF RunOK
    <3> QED BY <3>1
  <2>2. PICK input : input = Seen(g, inv)
    OBVIOUS
  <2>3. CASE PerItem(g, m, input)
    <3>1. ItemsWait(g, taken, m, input, cp)
      BY <1>1, <1>2, <1>3, <1>4, <2>2, <2>3
    <3>2. PICK p : cp = ItemCheckpoint(g, taken, m, input, p, 1, NoOutput(g, m))
      BY <3>1 DEF ItemsWait
    <3>3. PICK rows, position, output :
            cp = Snapshot([taken EXCEPT !.rows = rows], m, OneItem(input, p), input, position,
                          output)
      BY <3>2 DEF ItemCheckpoint
    <3> QED BY <2>1, <3>3
  <2>4. CASE ~PerItem(g, m, input)
    <3>1. cp = Snapshot(taken, m, input, input, 0, NoOutput(g, m))
      BY <1>1, <1>2, <1>3, <1>4, <2>2, <2>4
    <3> QED BY <3>1
  <2> QED BY <2>3, <2>4
<1>8. OwedAt(g, cp, n) = Hits(taken.pending, OwedTo(g, n)) + (IF m = n THEN 1 ELSE 0)
  BY <1>5, <1>7, SnapshotOwes
<1>9. Hits(run.pending, OwedTo(g, n))
        = Hits(taken.pending, OwedTo(g, n)) + (IF ~inv.skipped /\ inv.node = n THEN 1 ELSE 0)
  BY <1>2, <1>3, TakenOwes
<1> QED BY <1>4, <1>6, <1>8, <1>9

\* The counts of the property, as hits.
LEMMA CountsAre ==
    ASSUME NEW rows \in Seq(RowOf(graph)), NEW n
    PROVE  /\ Count(rows, LAMBDA row : Feeds(row, n)) = Hits(rows, FeedingRows(graph, n))
           /\ Count(rows, LAMBDA row : row.node = n /\ row.what = "ran")
                = Hits(rows, RanRows(graph, n))
<1>1. \A i \in 1 .. Len(rows) : Feeds(rows[i], n) <=> rows[i] \in FeedingRows(graph, n)
  <2>1. TAKE i \in 1 .. Len(rows)
  <2>2. PICK row \in RowOf(graph) : row = rows[i]
    OBVIOUS
  <2>3. Feeds(row, n) <=> row \in FeedingRows(graph, n)
    BY DEF Feeds, FeedingRows, Hands
  <2> QED BY <2>2, <2>3
<1>2. \A i \in 1 .. Len(rows) :
         rows[i].node = n /\ rows[i].what = "ran" <=> rows[i] \in RanRows(graph, n)
  BY DEF RanRows
<1>3. DOMAIN rows = 1 .. Len(rows)
  OBVIOUS
<1>4. {i \in DOMAIN rows : Feeds(rows[i], n)} = {i \in 1 .. Len(rows) : rows[i] \in FeedingRows(graph, n)}
  BY <1>1, <1>3
<1>5. {i \in DOMAIN rows : rows[i].node = n /\ rows[i].what = "ran"}
        = {i \in 1 .. Len(rows) : rows[i] \in RanRows(graph, n)}
  BY <1>2, <1>3
<1> QED BY <1>4, <1>5 DEF Count, Hits

\* What a run that does not wait owes is on its stack.
LEMMA OwedIs ==
    ASSUME NEW run, RunOK(graph, run), run.status # "waiting", NEW n
    PROVE  Owed(run, n) = Hits(run.pending, OwedTo(graph, n))
<1>1. Owed(run, n) = Cardinality({i \in DOMAIN run.pending :
                         run.pending[i].node = n /\ ~DeliveredNothing(graph, run.pending[i])})
  BY DEF Owed, Count
<1>2. DOMAIN run.pending = 1 .. Len(run.pending)
  BY DEF RunOK
<1>3. ASSUME NEW i \in 1 .. Len(run.pending)
      PROVE  run.pending[i].node = n /\ ~DeliveredNothing(graph, run.pending[i])
               <=> run.pending[i] \in OwedTo(graph, n)
  <2>1. run.pending[i] \in Call(graph)
    BY DEF RunOK, Entry
  <2> QED BY <2>1 DEF OwedTo
<1>4. {i \in DOMAIN run.pending :
          run.pending[i].node = n /\ ~DeliveredNothing(graph, run.pending[i])}
        = {i \in 1 .. Len(run.pending) : run.pending[i] \in OwedTo(graph, n)}
  BY <1>2, <1>3
<1> QED BY <1>1, <1>4 DEF Hits

\* What a waiting run owes is in its checkpoint.
LEMMA WaitingOwes ==
    ASSUME NEW run, run.status = "waiting", NEW n
    PROVE  Owed(run, n) = OwedAt(graph, checkpoint, n)
BY DEF Owed, Count, OwedAt

\* A run's deliveries to n, its runs of it, and what it still owes it.
Delivers(run, n) ==
    /\ Hits(run.rows, FeedingRows(graph, n))
         = Hits(run.rows, RanRows(graph, n)) + Owed(run, n) + Stopped(run, n)
    /\ run.status = "succeeded" => Owed(run, n) = 0 \/ NeverConfigured(n)

LEMMA RunDelivers ==
    ASSUME NEW run, Accounts(graph, run), run.status # "waiting", NEW n \in Counted(graph)
    PROVE  Delivers(run, n)
<1>1. RunOK(graph, run) /\ Balanced(graph, run) /\ Settled(graph, run)
  BY DEF Accounts
<1>2. Owed(run, n) = Hits(run.pending, OwedTo(graph, n))
  BY <1>1, OwedIs
<1>3. Hits(run.rows, FeedingRows(graph, n))
        = Hits(run.rows, RanRows(graph, n)) + Owed(run, n) + Stopped(run, n)
  BY <1>1, <1>2 DEF Balanced
<1>4. LacksConfig(graph, n) <=> NeverConfigured(n)
  BY DEF LacksConfig, NeverConfigured
<1>5. run.status = "succeeded" => Owed(run, n) = 0 \/ NeverConfigured(n)
  BY <1>1, <1>2, <1>4 DEF Settled
<1> QED BY <1>3, <1>5 DEF Delivers

LEMMA ParkedDelivers ==
    ASSUME GraphOK(graph), NEW run, Accounts(graph, run), run.status = "running",
           WaitsWith(graph, run, checkpoint), live = Parked(graph, run.rows),
           NEW n \in Counted(graph)
    PROVE  Delivers(live, n)
<1>1. PICK cp : cp = checkpoint
  OBVIOUS
<1>2. live.status = "waiting" /\ live.rows = run.rows
  BY DEF Parked
<1>3. Owed(live, n) = OwedAt(graph, cp, n)
  BY <1>1, <1>2, WaitingOwes
<1>4. OwedAt(graph, cp, n) = Hits(run.pending, OwedTo(graph, n))
  BY <1>1, WaitOwes
<1>5. Stopped(run, n) = 0 /\ Stopped(live, n) = 0
  BY <1>2 DEF Stopped
<1>6. Hits(run.rows, FeedingRows(graph, n))
        = Hits(run.rows, RanRows(graph, n)) + Hits(run.pending, OwedTo(graph, n)) + Stopped(run, n)
  BY DEF Accounts, Balanced
<1>7. Hits(live.rows, FeedingRows(graph, n))
        = Hits(live.rows, RanRows(graph, n)) + Owed(live, n) + Stopped(live, n)
  BY <1>2, <1>3, <1>4, <1>5, <1>6
<1> QED BY <1>2, <1>7 DEF Delivers

\* Both runs, wherever the live one is.
LEMMA OrbitDelivers ==
    ASSUME OrbitInv, NEW n \in Counted(graph)
    PROVE  Delivers(plain, n) /\ Delivers(live, n)
<1>1. GraphOK(graph)
  BY DEF OrbitInv
<1>20. PICK N \in Nat : \E s : \E k \in 0 .. N : Along(graph, s, N, k)
  BY DEF OrbitInv
<1>2. PICK s : \E k \in 0 .. N : Along(graph, s, N, k)
  BY <1>20
<1>3. PICK k \in 0 .. N : Along(graph, s, N, k)
  BY <1>2
<1>4. Orbit(graph, s, N) /\ plain = s[N]
  BY <1>3 DEF Along
<1>5. \A i \in 0 .. N : Accounts(graph, s[i])
  BY <1>1, <1>4, OrbitAccounts
<1>6. Accounts(graph, plain) /\ Accounts(graph, s[k])
  BY <1>4, <1>5
<1>7. plain.status # "waiting"
  BY <1>6 DEF Accounts, RunOK
<1>8. Delivers(plain, n)
  BY <1>6, <1>7, RunDelivers
<1>9. CASE live.status = "waiting"
  <2>1. k < N /\ live = Parked(graph, s[k].rows) /\ WaitsWith(graph, s[k], checkpoint)
    BY <1>3, <1>9, LiveIs
  <2>2. s[k].status = "running"
    BY <1>3, <2>1, LiveIs
  <2> QED BY <1>1, <1>6, <1>8, <2>1, <2>2, ParkedDelivers
<1>10. CASE live.status # "waiting"
  <2>1. live = s[k]
    BY <1>3, <1>10, LiveIs
  <2> QED BY <1>6, <1>8, <1>10, <2>1, RunDelivers
<1> QED BY <1>9, <1>10

LEMMA OrbitRows ==
    ASSUME OrbitInv
    PROVE  plain.rows \in Seq(RowOf(graph)) /\ live.rows \in Seq(RowOf(graph))
<1>1. PICK N \in Nat : \E s : \E k \in 0 .. N : Along(graph, s, N, k)
  BY DEF OrbitInv
<1>2. PICK s : \E k \in 0 .. N : Along(graph, s, N, k)
  BY <1>1
<1>3. PICK k \in 0 .. N : Along(graph, s, N, k)
  BY <1>2
<1>4. RunOK(graph, s[N]) /\ plain = s[N]
  BY <1>3 DEF Along, Orbit
<1>5. RunOK(graph, s[k]) /\ live.rows = s[k].rows
  BY <1>3, LiveIs
<1> QED BY <1>4, <1>5 DEF RunOK

\* What the property says of a run's deliveries to a node.
LEMMA DeliversSays ==
    ASSUME NEW run, run.rows \in Seq(RowOf(graph)), NEW n, Delivers(run, n)
    PROVE  /\ Count(run.rows, LAMBDA row : Feeds(row, n))
                = Count(run.rows, LAMBDA row : row.node = n /\ row.what = "ran")
                    + Owed(run, n) + Stopped(run, n)
           /\ run.status = "succeeded" => Owed(run, n) = 0 \/ NeverConfigured(n)
<1>1. PICK rows : rows = run.rows
  OBVIOUS
<1>2. PICK total : total = Owed(run, n) + Stopped(run, n)
  OBVIOUS
<1> QED BY CountsAre DEF Delivers

\* Every delivery of items to a node with one item input is one run of it, for every
\* graph, in a run that suspends as in one that does not.
THEOREM DeliveriesRunOnce == Spec => []OneRunPerDelivery
<1>1. OrbitInv => OneRunPerDelivery
  <2>1. SUFFICES ASSUME OrbitInv PROVE OneRunPerDelivery
    OBVIOUS
  <2>2. TypeOK
    BY <2>1, OrbitTypes
  <2>3. ASSUME NEW run \in {plain, live}, NEW n \in graph.active,
               ItemInputs[KindOf(graph, n)] = 1 /\ ~BelowDone(n)
        PROVE  /\ Count(run.rows, LAMBDA row : Feeds(row, n))
                    = Count(run.rows, LAMBDA row : row.node = n /\ row.what = "ran")
                        + Owed(run, n) + Stopped(run, n)
               /\ run.status = "succeeded" => Owed(run, n) = 0 \/ NeverConfigured(n)
    <3>1. n \in Counted(graph)
      BY <2>3 DEF Counted, BelowDone, IsBelowDone
    <3>2. Delivers(run, n)
      BY <2>1, <3>1, OrbitDelivers
    <3>3. run.rows \in Seq(RowOf(graph))
      BY <2>1, OrbitRows
    <3> QED BY <3>2, <3>3, DeliversSays
  <2> QED BY <2>2, <2>3 DEF OneRunPerDelivery
<1> QED BY <1>1, OrbitInvariant, PTL

-----------------------------------------------------------------------------
(* What leads to a node. *)

Follow(E, X) == \A e \in E : e.from \in X => e.to \in X

\* The walk of ReachableFrom has seen everything by the time it stops: while it has
\* not, each step finds one more node.
LEMMA ReachableCloses ==
    ASSUME NEW g, GraphOK(g), NEW S, S \in SUBSET (1 .. Len(g.nodes))
    PROVE  LET W == ReachableFrom(g, g.edges, S)
           IN  S \subseteq W /\ Follow(g.edges, W)
<1>1. PICK n \in Nat : n = Len(g.nodes)
  BY DEF GraphOK
<1>2. PICK E : E = g.edges
  OBVIOUS
<1>3. PICK w : Walks(g, E, S, w)
  BY <1>1, Walked
<1>4. /\ ReachableFrom(g, E, S) = w[n] /\ w[0] = S
      /\ \A k \in 1 .. n : w[k] = w[k - 1] \cup {e.to : e \in {f \in E : f.from \in w[k - 1]}}
  BY <1>1, <1>3 DEF Walks
<1>5. \A e \in E : e.from \in 1 .. n /\ e.to \in 1 .. n
  BY <1>1, <1>2 DEF GraphOK, Edge
<1>6. PICK V : V = 1 .. n
  OBVIOUS
<1>7. IsFiniteSet(V) /\ Cardinality(V) = n
  BY <1>6, FS_Interval
<1>8. PICK U : U = {k \in 0 .. n : /\ w[k] \in SUBSET V /\ S \subseteq w[k]
                                   /\ Follow(E, w[k]) \/ Cardinality(w[k]) > k}
  OBVIOUS
<1>9. PICK v : v = [k \in 0 .. n |-> k]
  OBVIOUS
<1>10. v[0] \in U
  <2>1. w[0] \in SUBSET V
    BY <1>1, <1>4, <1>6
  <2>0. 0 \in 0 .. n /\ v[0] = 0 /\ S \subseteq w[0]
    BY <1>4, <1>9
  <2>2. CASE S = {}
    <3>1. Follow(E, w[0])
      BY <1>4, <2>2 DEF Follow
    <3> QED BY <1>8, <2>0, <2>1, <3>1
  <2>3. CASE S # {}
    <3>1. IsFiniteSet(w[0])
      BY <1>7, <2>1, FS_Subset
    <3>2. Cardinality(w[0]) \in Nat /\ Cardinality(w[0]) # 0
      BY <1>4, <2>3, <3>1, FS_EmptySet, FS_CardinalityType
    <3>3. Cardinality(w[0]) > 0
      BY <3>2
    <3> QED BY <1>8, <2>0, <2>1, <3>3
  <2> QED BY <2>2, <2>3
<1>11. \A k \in 1 .. n : v[k - 1] \in U => v[k] \in U
  <2>1. TAKE k \in 1 .. n
  <2>2. HAVE v[k - 1] \in U
  <2>3. k \in 0 .. n /\ k - 1 \in 0 .. n /\ v[k - 1] = k - 1 /\ v[k] = k
    BY <1>9
  <2>4. PICK X : X = w[k - 1]
    OBVIOUS
  <2>5. PICK Y : Y = w[k]
    OBVIOUS
  <2>6. X \in SUBSET V /\ S \subseteq X /\ (Follow(E, X) \/ Cardinality(X) > k - 1)
    BY <1>8, <2>2, <2>3, <2>4
  <2>7. Y = X \cup {e.to : e \in {f \in E : f.from \in X}}
    BY <1>4, <2>4, <2>5
  <2>8. Y \in SUBSET V /\ S \subseteq Y /\ X \subseteq Y
    BY <1>5, <1>6, <2>6, <2>7
  <2>9. Follow(E, Y) \/ Cardinality(Y) > k
    <3>1. CASE Follow(E, X)
      <4>1. Y = X
        BY <2>7, <3>1 DEF Follow
      <4> QED BY <3>1, <4>1
    <3>2. CASE ~Follow(E, X)
      <4>1. PICK e \in E : e.from \in X /\ e.to \notin X
        BY <3>2 DEF Follow
      <4>2. PICK m : m = e.to
        OBVIOUS
      <4>3. m \in Y /\ m \notin X
        BY <2>7, <4>1, <4>2
      <4>4. IsFiniteSet(Y)
        BY <1>7, <2>8, FS_Subset
      <4>5. IsFiniteSet(X) /\ Cardinality(X) < Cardinality(Y)
        <5>1. X # Y
          BY <4>3
        <5>2. IsFiniteSet(X) /\ Cardinality(X) <= Cardinality(Y)
              /\ (Cardinality(X) = Cardinality(Y) => X = Y)
          BY <2>8, <4>4, FS_Subset
        <5> QED BY <4>4, <5>1, <5>2, FS_CardinalityType
      <4>6. Cardinality(X) \in Nat /\ Cardinality(Y) \in Nat
        BY <4>4, <4>5, FS_CardinalityType
      <4> QED BY <2>6, <3>2, <4>5, <4>6
    <3> QED BY <3>1, <3>2
  <2> QED BY <1>8, <2>3, <2>5, <2>8, <2>9
<1>12. \A k \in 0 .. n : v[k] \in U
  BY <1>10, <1>11, StaysIn
<1>13. n \in U
  <2>1. n \in 0 .. n /\ v[n] = n
    BY <1>9
  <2> QED BY <1>12, <2>1
<1>14. PICK W : W = w[n]
  OBVIOUS
<1>15. W \in SUBSET V /\ S \subseteq W /\ (Follow(E, W) \/ Cardinality(W) > n)
  BY <1>8, <1>13, <1>14
<1>16. Cardinality(W) <= n /\ Cardinality(W) \in Nat
  BY <1>7, <1>15, FS_Subset, FS_CardinalityType
<1>17. Follow(E, W)
  BY <1>15, <1>16
<1> QED BY <1>2, <1>4, <1>14, <1>15, <1>17

\* And nothing but what follows from the start.
LEMMA ReachableLeast ==
    ASSUME NEW g, GraphOK(g), NEW S, NEW X, S \subseteq X, Follow(g.edges, X)
    PROVE  ReachableFrom(g, g.edges, S) \subseteq X
<1>1. PICK n \in Nat : n = Len(g.nodes)
  BY DEF GraphOK
<1>2. PICK w : Walks(g, g.edges, S, w)
  BY <1>1, Walked
<1>3. PICK U : U = SUBSET X
  OBVIOUS
<1>4. w[0] \in U
  BY <1>2, <1>3 DEF Walks
<1>5. \A k \in 1 .. n : w[k - 1] \in U => w[k] \in U
  BY <1>1, <1>2, <1>3 DEF Walks, Follow
<1>6. \A k \in 0 .. n : w[k] \in U
  BY <1>4, <1>5, StaysIn
<1>7. w[n] \in U
  BY <1>6
<1> QED BY <1>1, <1>2, <1>3, <1>7 DEF Walks

\* What leads to n leads there from any node before it.
LEMMA LeadsBack ==
    ASSUME NEW g, GraphOK(g), NEW e \in g.edges, NEW n, Reaches(g, g.edges, e.to, n)
    PROVE  Reaches(g, g.edges, e.from, n)
<1> DEFINE After(m) == {f.to : f \in {h \in g.edges : h.from = m}}
<1>1. \A m : After(m) \in SUBSET (1 .. Len(g.nodes))
  BY DEF GraphOK, Edge
<1>2. PICK W : W = ReachableFrom(g, g.edges, After(e.from))
  OBVIOUS
<1>3. After(e.from) \subseteq W /\ Follow(g.edges, W)
  <2>1. After(e.from) \in SUBSET (1 .. Len(g.nodes))
    BY <1>1
  <2> HIDE DEF After
  <2> QED BY <1>2, <2>1, ReachableCloses
<1>4. e.to \in W
  BY <1>3
<1>5. After(e.to) \subseteq W
  BY <1>3, <1>4 DEF Follow
<1>6. ReachableFrom(g, g.edges, After(e.to)) \subseteq W
  <2> HIDE DEF After
  <2> QED BY <1>3, <1>5, ReachableLeast
<1>7. n \in ReachableFrom(g, g.edges, After(e.to))
  BY DEF Reaches
<1>8. n \in W
  BY <1>6, <1>7
<1> QED BY <1>2, <1>8 DEF Reaches

-----------------------------------------------------------------------------
(* Merges. *)

\* The nodes the fallback starts alone, with nothing above them that it starts.
Firsts(g) ==
    {n \in g.active : /\ SeveralInputs(g, n)
                      /\ \A m \in g.active : Reaches(g, g.edges, m, n) =>
                            ~SeveralInputs(g, m) /\ ~IsBelowDone(g, m)}

\* What the stack holds: no node of several inputs, and nothing that is switched off
\* from the start.
StackOK(g, run) ==
    \A i \in 1 .. Len(run.pending) :
        /\ ~SeveralInputs(g, run.pending[i].node)
        /\ Incoming(g, run.pending[i].node) # {} \/ ~Disabled(g, run.pending[i].node)

\* A root that is switched off does not run.
OffStaysOff(g, run) ==
    \A m \in DOMAIN run.completed : Incoming(g, m) # {} \/ ~Disabled(g, m)

\* Above a first Merge that has run, nothing is left that could.
Quiet(g, run) ==
    \A n \in Firsts(g) : n \in DOMAIN run.completed =>
        \A i \in 1 .. Len(run.pending) :
            Reaches(g, g.edges, run.pending[i].node, n) => LacksConfig(g, run.pending[i].node)

\* The trace, of a Merge's row and a later one.
OnceIn(g, rows) ==
    \A j \in 1 .. Len(rows) : \A i \in 1 .. j - 1 :
        SeveralInputs(g, rows[i].node) /\ rows[i].what = "ran" =>
            /\ rows[j].node = rows[i].node => rows[j].what # "ran"
            /\ rows[i].node \in Firsts(g) /\ rows[j].what \in {"ran", "skipped"} =>
                  ~Reaches(g, g.edges, rows[j].node, rows[i].node)

Merges(g, run) ==
    StackOK(g, run) /\ OffStaysOff(g, run) /\ Quiet(g, run) /\ OnceIn(g, run.rows)

\* The fallback starts nothing above a first Merge.
LEMMA FallbackBelow ==
    ASSUME NEW g, GraphOK(g), NEW run, Accounts(g, run), run.status = "running",
           Runnable(g, run) = {}, NEW x \in Fallback(g, run), NEW n \in Firsts(g)
    PROVE  ~Reaches(g, g.edges, x, n)
<1>1. SUFFICES ASSUME Reaches(g, g.edges, x, n) PROVE FALSE
  OBVIOUS
<1>2. x \in g.active /\ ~Completed(run, x) /\ ~Disabled(g, x) /\ ~IsAnnotation(g, x)
  BY DEF Fallback
<1>3. ~SeveralInputs(g, x) /\ ~IsBelowDone(g, x)
  BY <1>1, <1>2 DEF Firsts
<1>4. ItemInputs[KindOf(g, x)] \in 0 .. 2 /\ ~(ItemInputs[KindOf(g, x)] > 1)
  BY <1>2, <1>3, NodeFacts DEF SeveralInputs
<1>5. CASE ItemInputs[KindOf(g, x)] = 1
  <2>1. x \in Counted(g)
    BY <1>2, <1>3, <1>5 DEF Counted
  <2> QED BY <2>1, FallbackSpares
<1>6. CASE ItemInputs[KindOf(g, x)] = 0
  <2>1. IsRoot(g, x)
    BY <1>2, <1>6, NoInputs DEF IsRoot
  <2>2. RunOK(g, run) /\ Rooted(g, run)
    BY DEF Accounts
  <2> QED BY <1>2, <2>1, <2>2, RootsRun
<1> QED BY <1>4, <1>5, <1>6

\* The stack runs nothing above a first Merge that has run.
LEMMA StackBelow ==
    ASSUME NEW g, GraphOK(g), NEW run, RunOK(g, run), Merges(g, run),
           NEW i \in Runnable(g, run), NEW n \in Firsts(g), n \in DOMAIN run.completed
    PROVE  ~Reaches(g, g.edges, run.pending[i].node, n)
<1>1. SUFFICES ASSUME Reaches(g, g.edges, run.pending[i].node, n) PROVE FALSE
  OBVIOUS
<1>2. PICK x : x = run.pending[i].node
  OBVIOUS
<1>3. i \in 1 .. Len(run.pending) /\ ConfigReady(g, run, x)
  BY <1>2 DEF Runnable, RunOK
<1>4. LacksConfig(g, x)
  BY <1>1, <1>2, <1>3 DEF Merges, Quiet
<1>5. PICK e \in Incoming(g, x) \ ItemIncoming(g, x) : Disabled(g, e.from)
  BY <1>4 DEF LacksConfig
<1>6. e.from \in DOMAIN run.completed
  BY <1>3, <1>5 DEF ConfigReady, Completed
<1>7. e \in g.edges /\ ~IsItemEdge(e)
  BY <1>5 DEF Incoming, ItemIncoming
<1>8. e.from \in g.active /\ KindOf(g, e.from) = "model"
  BY <1>7 DEF GraphOK
<1>9. Incoming(g, e.from) = {}
  BY <1>8, NoInputs DEF ItemInputs
<1> QED BY <1>5, <1>6, <1>9 DEF Merges, OffStaysOff

\* What is on one stack is on the other.
Within(s, t) == \A j \in 1 .. Len(s) : \E k \in 1 .. Len(t) : s[j] = t[k]

\* Where the next invocation comes from, and what it leaves on the stack.
LEMMA NextFrom ==
    ASSUME NEW g, GraphOK(g), NEW run, RunOK(g, run), NEW i \in HasNext(g, run),
           NEW inv, inv = Invocation(g, run, i), NEW mid, mid = Taken(run, i)
    PROVE  /\ \/ i \in Runnable(g, run) /\ inv = run.pending[i] /\ i \in 1 .. Len(run.pending)
              \/ Runnable(g, run) = {} /\ inv.node \in Fallback(g, run) /\ ~inv.skipped
                 /\ mid = run
           /\ Within(mid.pending, run.pending)
<1>1. run.pending \in Seq(Entry(g)) /\ i \in 0 .. Len(run.pending) /\ Len(run.pending) \in Nat
  <2>1. run.pending \in Seq(Entry(g))
    BY DEF RunOK
  <2>2. i \in 0 .. Len(run.pending)
    BY NextIs
  <2> QED BY <2>1, <2>2
<1>2. CASE Runnable(g, run) # {}
  <2>1. i \in Runnable(g, run)
    <3>1. PICK n \in Nat : n = Len(run.pending)
      BY <1>1
    <3>2. Runnable(g, run) \in SUBSET (0 .. n)
      BY <1>1, <3>1 DEF Runnable
    <3>3. Max(Runnable(g, run)) \in Runnable(g, run)
      BY <1>2, <3>2, MaxIs
    <3>4. i = Max(Runnable(g, run))
      BY <1>2 DEF HasNext
    <3> QED BY <3>3, <3>4
  <2>2. i \in 1 .. Len(run.pending) /\ i > 0
    BY <1>1, <2>1 DEF Runnable
  <2>3. inv = run.pending[i]
    BY <2>2 DEF Invocation
  <2>4. mid.pending = RemoveAt(run.pending, i)
    <3>1. PICK status, stack, completed, loops, rows :
            run = [status |-> status, pending |-> stack, completed |-> completed,
                   loops |-> loops, rows |-> rows]
      BY DEF RunOK
    <3>2. PICK rest : rest = RemoveAt(run.pending, i)
      OBVIOUS
    <3>3. mid = [run EXCEPT !.pending = rest]
      BY <2>2, <3>2, Zenon DEF Taken
    <3> QED BY <3>1, <3>2, <3>3
  <2>5. PICK T : T = {run.pending[k] : k \in 1 .. Len(run.pending)}
    OBVIOUS
  <2>6. run.pending \in Seq(T)
    BY <1>1, <2>5
  <2>7. mid.pending \in Seq(T)
    BY <2>2, <2>4, <2>6, RemovesOne
  <2>8. \A j \in 1 .. Len(mid.pending) : mid.pending[j] \in T
    BY <2>7
  <2>9. Within(mid.pending, run.pending)
    BY <2>5, <2>8 DEF Within
  <2> QED BY <2>1, <2>2, <2>3, <2>9
<1>3. CASE Runnable(g, run) = {}
  <2>1. Fallback(g, run) # {} /\ i = 0
    BY <1>3 DEF HasNext
  <2>2. mid = run
    BY <2>1 DEF Taken
  <2>3. PICK S : S = Fallback(g, run)
    OBVIOUS
  <2>4. S \in SUBSET Nat /\ S # {}
    BY <2>1, <2>3, NodeFacts DEF Fallback
  <2>5. Min(S) \in S
    BY <2>4, MinIs
  <2>6. inv = [node |-> Min(S), input |-> NodeInput(g, run, Min(S)), skipped |-> FALSE]
    BY <2>1, <2>3 DEF Invocation
  <2>7. inv.node \in Fallback(g, run) /\ ~inv.skipped
    BY <2>3, <2>5, <2>6
  <2>8. Within(mid.pending, run.pending)
    BY <2>2 DEF Within
  <2> QED BY <1>3, <2>2, <2>7, <2>8
<1> QED BY <1>2, <1>3

\* A node right below x, which x's output starts.
IsFed(g, x, t) == \E e \in g.edges : e.from = x /\ e.to = t /\ ~SeveralInputs(g, t)

LEMMA PushFeeds ==
    ASSUME NEW g, GraphOK(g), NEW x \in g.active, NEW output \in OutputOf(g, x)
    PROVE  \A i \in 1 .. Len(Push(g, x, output)) : IsFed(g, x, Push(g, x, output)[i].node)
<1>1. PICK edges : edges = Feeding(g, x, output)
  OBVIOUS
<1>2. edges \in SUBSET g.edges /\ \A e \in edges : e.from = x /\ ~SeveralInputs(g, e.to)
  BY <1>1 DEF Feeding, Outgoing
<1>3. PICK order : order = Targets(edges)
  OBVIOUS
<1>4. Lists(order, {e.to : e \in edges})
  BY <1>2, <1>3, TargetsAre
<1>5. PICK m \in Nat : m = Len(order) /\ DOMAIN order = 1 .. m
  BY <1>4 DEF Lists
<1>6. \A j \in 1 .. m : IsFed(g, x, order[j])
  <2>1. TAKE j \in 1 .. m
  <2>2. PICK e \in edges : e.to = order[j]
    BY <1>4, <1>5 DEF Lists
  <2> QED BY <1>2, <2>2 DEF IsFed
<1>7. PICK all : all = [j \in DOMAIN order |-> Delivery(edges, order[j], output)]
  OBVIOUS
<1>8. Len(all) = m /\ \A j \in 1 .. m : all[j].node = order[j]
  <2>1. Len(all) = m /\ \A j \in 1 .. m : all[j] = Delivery(edges, order[j], output)
    BY <1>5, <1>7
  <2> QED BY <2>1 DEF Delivery
<1>9. Push(g, x, output) = Reverse(all)
  BY <1>1, <1>3, <1>7 DEF Push
<1>10. Reverse(all) = [j \in 1 .. m |-> all[(m - j) + 1]]
  BY <1>8 DEF Reverse
<1>11. PICK push : push = Push(g, x, output)
  OBVIOUS
<1>12. Len(push) = m /\ \A j \in 1 .. m : push[j] = all[(m - j) + 1]
  BY <1>9, <1>10, <1>11
<1>13. \A j \in 1 .. m : IsFed(g, x, push[j].node)
  <2>1. TAKE j \in 1 .. m
  <2>2. (m - j) + 1 \in 1 .. m
    OBVIOUS
  <2> QED BY <1>6, <1>8, <1>12, <2>2
<1> QED BY <1>11, <1>12, <1>13

\* What an invocation leaves on the stack, and which nodes it leaves completed.
Leaves(g, mid, inv, end) ==
    /\ \A j \in 1 .. Len(end.pending) :
          \/ \E k \in 1 .. Len(mid.pending) : end.pending[j] = mid.pending[k]
          \/ IsFed(g, inv.node, end.pending[j].node)
    /\ \A m : m \in DOMAIN mid.completed => m \in DOMAIN end.completed
    /\ \A m : m \in DOMAIN end.completed => m \in DOMAIN mid.completed \/ m = inv.node
    /\ \E row : /\ Adds(g, inv.node, mid.rows, end.rows, row) /\ row.node = inv.node
                /\ row.what = "ran" => ~inv.skipped

LEMMA InvokedLeaves ==
    ASSUME NEW g, GraphOK(g), NEW mid, RunOK(g, mid), NEW inv \in Call(g),
           NEW end, RunOK(g, end), Invoked(g, mid, inv, end)
    PROVE  Leaves(g, mid, inv, end)
<1>1. PICK x \in g.active : x = inv.node
  BY DEF Call
<1>2. mid.pending \in Seq(Entry(g))
  BY DEF RunOK
<1>3. CASE SkippedBy(g, mid, inv, end)
  <2>1. PICK row : row = Row(x, inv.input, NoOutput(g, x), "skipped")
    OBVIOUS
  <2>2. Adds(g, x, mid.rows, end.rows, row) /\ row.node = x /\ row.what # "ran"
    BY <1>1, <1>3, <2>1 DEF SkippedBy, Row
  <2>3. end.pending = mid.pending /\ end.completed = Put(mid.completed, x, NoOutput(g, x))
    BY <1>1, <1>3 DEF SkippedBy
  <2>4. \A m : m \in DOMAIN end.completed <=> m \in DOMAIN mid.completed \/ m = x
    BY <2>3, PutAt
  <2> QED BY <1>1, <2>2, <2>3, <2>4 DEF Leaves
<1>4. ASSUME NEW input \in Input, NEW output \in OutputOf(g, x),
             FinishedBy(g, mid, inv, end, input, output)
      PROVE  Leaves(g, mid, inv, end)
  <2>1. PICK row : row = Row(x, input, output, "ran")
    OBVIOUS
  <2>2. Adds(g, x, mid.rows, end.rows, row) /\ row.node = x /\ ~inv.skipped
    BY <1>1, <1>4, <2>1 DEF FinishedBy, Row
  <2>3. PICK push : push = Push(g, x, output)
    OBVIOUS
  <2>4. end.pending = mid.pending \o push /\ end.completed = Put(mid.completed, x, output)
    BY <1>1, <1>4, <2>3 DEF FinishedBy
  <2>5. \A m : m \in DOMAIN end.completed <=> m \in DOMAIN mid.completed \/ m = x
    BY <2>4, PutAt
  <2>6. push \in Seq(Entry(g))
    BY <2>3, PushIs
  <2>7. PICK a \in Nat, b \in Nat : a = Len(mid.pending) /\ b = Len(push)
    BY <1>2, <2>6
  <2>8. /\ Len(end.pending) = a + b
        /\ \A j \in 1 .. a + b :
              end.pending[j] = IF j <= a THEN mid.pending[j] ELSE push[j - a]
    BY <1>2, <2>4, <2>6, <2>7, ConcatProperties
  <2>9. \A j \in 1 .. b : IsFed(g, x, push[j].node)
    BY <2>3, <2>7, PushFeeds
  <2>10. ASSUME NEW j \in 1 .. Len(end.pending)
         PROVE  \/ \E k \in 1 .. Len(mid.pending) : end.pending[j] = mid.pending[k]
                \/ IsFed(g, x, end.pending[j].node)
    <3>1. CASE j <= a
      BY <2>7, <2>8, <3>1
    <3>2. CASE ~(j <= a)
      <4>1. j - a \in 1 .. b /\ end.pending[j] = push[j - a]
        BY <2>8, <3>2
      <4> QED BY <2>9, <4>1
    <3> QED BY <3>1, <3>2
  <2> QED BY <1>1, <2>2, <2>5, <2>10 DEF Leaves
<1>5. ASSUME NEW input \in Input, StoppedBy(g, mid, inv, end, input)
      PROVE  Leaves(g, mid, inv, end)
  <2>1. PICK row : row = Row(x, input, <<>>, "failed")
    OBVIOUS
  <2>2. Adds(g, x, mid.rows, end.rows, row) /\ row.node = x /\ row.what # "ran"
    BY <1>1, <1>5, <2>1 DEF StoppedBy, Row
  <2>3. end.pending = mid.pending /\ end.completed = mid.completed
    BY <1>5 DEF StoppedBy
  <2> QED BY <1>1, <2>2, <2>3 DEF Leaves
<1> QED BY <1>1, <1>3, <1>4, <1>5 DEF Invoked

\* What a run takes next is not above a first Merge that has run.
IsAside(g, run, x) ==
    \A n \in Firsts(g) : n \in DOMAIN run.completed => ~Reaches(g, g.edges, x, n)

LEMMA NextAside ==
    ASSUME NEW g, GraphOK(g), NEW run, Accounts(g, run), Merges(g, run),
           run.status = "running", NEW i \in HasNext(g, run),
           NEW inv, inv = Invocation(g, run, i)
    PROVE  /\ IsAside(g, run, inv.node)
           /\ Incoming(g, inv.node) # {} \/ ~Disabled(g, inv.node)
           /\ SeveralInputs(g, inv.node) =>
                 /\ Runnable(g, run) = {} /\ inv.node \notin DOMAIN run.completed
                 /\ Taken(run, i) = run
<1>1. RunOK(g, run)
  BY DEF Accounts
<1>2. PICK mid : mid = Taken(run, i)
  OBVIOUS
<1>3. \/ i \in Runnable(g, run) /\ inv = run.pending[i] /\ i \in 1 .. Len(run.pending)
      \/ Runnable(g, run) = {} /\ inv.node \in Fallback(g, run) /\ mid = run
  BY <1>1, <1>2, NextFrom
<1>4. CASE i \in Runnable(g, run) /\ inv = run.pending[i] /\ i \in 1 .. Len(run.pending)
  <2>1. IsAside(g, run, inv.node)
    BY <1>1, <1>4, StackBelow DEF IsAside
  <2>2. StackOK(g, run)
    BY DEF Merges
  <2> QED BY <1>4, <2>1, <2>2 DEF StackOK
<1>5. CASE Runnable(g, run) = {} /\ inv.node \in Fallback(g, run) /\ mid = run
  <2>1. IsAside(g, run, inv.node)
    BY <1>5, FallbackBelow DEF IsAside
  <2> QED BY <1>2, <1>5, <2>1 DEF Fallback, Completed
<1> QED BY <1>3, <1>4, <1>5

\* The trace stays in order.
LEMMA OnceOn ==
    ASSUME NEW g, GraphOK(g), NEW run, RunOK(g, run), RanAreCompleted(g, run),
           OnceIn(g, run.rows), NEW x, IsAside(g, run, x),
           SeveralInputs(g, x) => x \notin DOMAIN run.completed,
           NEW rows \in Seq(RowOf(g)), NEW row, Adds(g, x, run.rows, rows, row), row.node = x
    PROVE  OnceIn(g, rows)
<1>1. run.rows \in Seq(RowOf(g))
  BY DEF RunOK
<1>2. PICK m \in Nat, k \in Nat : m = Len(run.rows) /\ k = Len(rows)
  BY <1>1
<1>3. /\ m < k /\ rows[k] = row /\ \A i \in 1 .. m : rows[i] = run.rows[i]
      /\ \A i \in m + 1 .. k - 1 : rows[i] \in FailedRows(g, x)
  BY <1>2 DEF Adds, Grows
<1>4. SUFFICES ASSUME NEW j \in 1 .. k, NEW i \in 1 .. j - 1,
                      SeveralInputs(g, rows[i].node), rows[i].what = "ran"
               PROVE  /\ rows[j].node = rows[i].node => rows[j].what # "ran"
                      /\ rows[i].node \in Firsts(g) /\ rows[j].what \in {"ran", "skipped"} =>
                            ~Reaches(g, g.edges, rows[j].node, rows[i].node)
  BY <1>2 DEF OnceIn
<1>5. i \in 1 .. m
  <2>1. CASE i <= m
    BY <2>1
  <2>2. CASE ~(i <= m)
    <3>1. i \in m + 1 .. k - 1
      BY <2>2
    <3>2. rows[i].what = "failed"
      BY <1>3, <3>1 DEF FailedRows
    <3> QED BY <1>4, <3>2
  <2> QED BY <2>1, <2>2
<1>6. rows[i] = run.rows[i] /\ rows[i].node \in DOMAIN run.completed
  BY <1>2, <1>3, <1>4, <1>5 DEF RanAreCompleted
<1>7. CASE j <= m
  <2>1. j \in 1 .. m /\ rows[j] = run.rows[j]
    BY <1>3, <1>7
  <2> QED BY <1>2, <1>4, <1>6, <2>1 DEF OnceIn
<1>8. CASE j > m /\ j < k
  <2>1. j \in m + 1 .. k - 1
    BY <1>8
  <2>2. rows[j].what = "failed"
    BY <1>3, <2>1 DEF FailedRows
  <2> QED BY <2>2
<1>9. CASE j = k
  <2>1. rows[j].node = x
    BY <1>3, <1>9
  <2>2. rows[i].node # x
    BY <1>4, <1>6
  <2>3. rows[i].node \in Firsts(g) => ~Reaches(g, g.edges, x, rows[i].node)
    BY <1>6 DEF IsAside
  <2> QED BY <2>1, <2>2, <2>3
<1> QED BY <1>2, <1>7, <1>8, <1>9

\* A step keeps what lies above a first Merge quiet.
LEMMA QuietOn ==
    ASSUME NEW g, GraphOK(g), NEW run, Accounts(g, run), Merges(g, run),
           run.status = "running", NEW mid, RunOK(g, mid), mid.completed = run.completed,
           Within(mid.pending, run.pending), NEW inv \in Call(g), IsAside(g, run, inv.node),
           SeveralInputs(g, inv.node) => Runnable(g, run) = {},
           NEW end, RunOK(g, end), Leaves(g, mid, inv, end)
    PROVE  Quiet(g, end)
<1>1. PICK x \in g.active : x = inv.node
  BY DEF Call
<1>2. SUFFICES ASSUME NEW n \in Firsts(g), n \in DOMAIN end.completed,
                      NEW j \in 1 .. Len(end.pending),
                      Reaches(g, g.edges, end.pending[j].node, n)
               PROVE  LacksConfig(g, end.pending[j].node)
  BY DEF Quiet
<1>3. PICK t : t = end.pending[j].node
  OBVIOUS
<1>4. n \in DOMAIN run.completed \/ n = x
  BY <1>1, <1>2 DEF Leaves
<1>5. ~Reaches(g, g.edges, x, n)
  <2>1. CASE n \in DOMAIN run.completed
    BY <1>1, <2>1 DEF IsAside
  <2>2. CASE n = x
    BY <1>2, <2>2 DEF Firsts
  <2> QED BY <1>4, <2>1, <2>2
<1>6. ~IsFed(g, x, t)
  <2>1. SUFFICES ASSUME NEW e \in g.edges, e.from = x, e.to = t PROVE FALSE
    BY DEF IsFed
  <2>2. Reaches(g, g.edges, e.to, n)
    BY <1>2, <1>3, <2>1
  <2>3. Reaches(g, g.edges, e.from, n)
    BY <2>2, LeadsBack
  <2> QED BY <1>5, <2>1, <2>3
<1>7. PICK k \in 1 .. Len(run.pending) : end.pending[j] = run.pending[k]
  <2>1. PICK l \in 1 .. Len(mid.pending) : end.pending[j] = mid.pending[l]
    BY <1>1, <1>2, <1>3, <1>6 DEF Leaves
  <2> QED BY <2>1 DEF Within
<1>8. CASE n \in DOMAIN run.completed
  BY <1>2, <1>7, <1>8 DEF Merges, Quiet
<1>9. CASE n \notin DOMAIN run.completed
  <2>1. n = x /\ SeveralInputs(g, n)
    BY <1>2, <1>4, <1>9 DEF Firsts
  <2>2. Runnable(g, run) = {}
    BY <1>1, <2>1
  <2>3. RunOK(g, run) /\ Rooted(g, run)
    BY DEF Accounts
  <2>4. k \in DOMAIN run.pending
    BY <2>3 DEF RunOK
  <2>5. ~ConfigReady(g, run, t)
    BY <1>3, <1>7, <2>2, <2>4 DEF Runnable
  <2> QED BY <1>3, <2>2, <2>3, <2>5, StuckLacks
<1> QED BY <1>8, <1>9

LEMMA InvokedMerges ==
    ASSUME NEW g, GraphOK(g), NEW run, Accounts(g, run), Merges(g, run),
           run.status = "running", NEW i \in HasNext(g, run),
           NEW inv \in Call(g), inv = Invocation(g, run, i),
           NEW mid, mid = Taken(run, i), RunOK(g, mid), mid.completed = run.completed,
           mid.rows = run.rows, NEW end, RunOK(g, end), Invoked(g, mid, inv, end)
    PROVE  Merges(g, end)
<1>1. PICK x \in g.active : x = inv.node
  BY DEF Call
<1>2. RunOK(g, run) /\ RanAreCompleted(g, run)
  BY DEF Accounts
<1>3. Leaves(g, mid, inv, end)
  BY InvokedLeaves
<1>4. /\ IsAside(g, run, x)
      /\ Incoming(g, x) # {} \/ ~Disabled(g, x)
      /\ SeveralInputs(g, x) => /\ Runnable(g, run) = {}
                                /\ x \notin DOMAIN run.completed
  BY <1>1, NextAside
<1>5. Within(mid.pending, run.pending)
  BY <1>2, NextFrom
<1>6. StackOK(g, end)
  <2>1. SUFFICES ASSUME NEW j \in 1 .. Len(end.pending)
                 PROVE  /\ ~SeveralInputs(g, end.pending[j].node)
                        /\ \/ Incoming(g, end.pending[j].node) # {}
                           \/ ~Disabled(g, end.pending[j].node)
    BY DEF StackOK
  <2>2. CASE IsFed(g, x, end.pending[j].node)
    BY <2>2 DEF IsFed, Incoming
  <2>3. CASE ~IsFed(g, x, end.pending[j].node)
    <3>1. PICK l \in 1 .. Len(mid.pending) : end.pending[j] = mid.pending[l]
      BY <1>1, <1>3, <2>3 DEF Leaves
    <3>2. PICK k \in 1 .. Len(run.pending) : end.pending[j] = run.pending[k]
      BY <1>5, <3>1 DEF Within
    <3>3. StackOK(g, run)
      BY DEF Merges
    <3> QED BY <3>2, <3>3 DEF StackOK
  <2> QED BY <2>2, <2>3
<1>7. OffStaysOff(g, end)
  <2>1. SUFFICES ASSUME NEW m \in DOMAIN end.completed
                 PROVE  Incoming(g, m) # {} \/ ~Disabled(g, m)
    BY DEF OffStaysOff
  <2>2. m \in DOMAIN run.completed \/ m = x
    BY <1>1, <1>3 DEF Leaves
  <2> QED BY <1>4, <2>2 DEF Merges, OffStaysOff
<1>8. Quiet(g, end)
  <2>1. IsAside(g, run, inv.node) /\ (SeveralInputs(g, inv.node) => Runnable(g, run) = {})
    BY <1>1, <1>4
  <2> QED BY <1>3, <1>5, <2>1, QuietOn
<1>9. OnceIn(g, end.rows)
  <2>1. PICK row : Adds(g, x, run.rows, end.rows, row) /\ row.node = x
    BY <1>1, <1>3 DEF Leaves
  <2>2. end.rows \in Seq(RowOf(g)) /\ OnceIn(g, run.rows)
    BY DEF RunOK, Merges
  <2>3. IsAside(g, run, x) /\ (SeveralInputs(g, x) => x \notin DOMAIN run.completed)
    BY <1>4
  <2> QED BY <1>2, <2>1, <2>2, <2>3, OnceOn
<1> QED BY <1>6, <1>7, <1>8, <1>9 DEF Merges

LEMMA StartMerges ==
    ASSUME NEW g, GraphOK(g)
    PROVE  Merges(g, NewRun(g))
<1>1. PICK run : run = NewRun(g)
  OBVIOUS
<1>2. /\ RunOK(g, run)
      /\ \A i \in 1 .. Len(run.pending) : /\ Incoming(g, run.pending[i].node) = {}
                                          /\ ~Disabled(g, run.pending[i].node)
  BY <1>1, SeedOK
<1>3. PICK empty : empty = <<>>
  OBVIOUS
<1>4. run.completed = empty /\ run.rows = empty
  BY <1>1, <1>3, Zenon DEF NewRun
<1>5. DOMAIN empty = {} /\ Len(empty) = 0
  BY <1>3
<1>6. StackOK(g, run)
  <2>1. SUFFICES ASSUME NEW i \in 1 .. Len(run.pending)
                 PROVE  /\ ~SeveralInputs(g, run.pending[i].node)
                        /\ \/ Incoming(g, run.pending[i].node) # {}
                           \/ ~Disabled(g, run.pending[i].node)
    BY DEF StackOK
  <2>2. PICK n \in g.active : n = run.pending[i].node
    BY <1>2 DEF RunOK, Entry, Call
  <2>3. ItemIncoming(g, n) = {}
    BY <1>2, <2>2 DEF ItemIncoming
  <2>4. ItemInputs[KindOf(g, n)] = 0
    BY <2>3 DEF GraphOK
  <2> QED BY <1>2, <2>2, <2>4 DEF SeveralInputs
<1>7. OffStaysOff(g, run) /\ Quiet(g, run)
  BY <1>4, <1>5 DEF OffStaysOff, Quiet
<1>8. OnceIn(g, run.rows)
  BY <1>4, <1>5 DEF OnceIn
<1> QED BY <1>1, <1>6, <1>7, <1>8 DEF Merges

LEMMA EndMerges ==
    ASSUME NEW g, GraphOK(g), NEW run, RunOK(g, run), Merges(g, run)
    PROVE  Merges(g, RecordSkips(g, run))
<1>1. PICK end : end = RecordSkips(g, run)
  OBVIOUS
<1>2. RunOK(g, end) /\ end.pending = run.pending /\ end.completed = run.completed
  BY <1>1, RecordSkipsOK
<1>3. PICK more \in Seq(RowOf(g)) : /\ end.rows = run.rows \o more
                                    /\ \A i \in 1 .. Len(more) : more[i].what = "unreached"
  <2>1. AddsUnreached(g, run.rows, end.rows)
    BY <1>1, RecordSkipsOK
  <2> QED BY <2>1 DEF AddsUnreached
<1>4. run.rows \in Seq(RowOf(g))
  BY DEF RunOK
<1>5. PICK len \in Nat, add \in Nat : len = Len(run.rows) /\ add = Len(more)
  BY <1>4
<1>6. /\ Len(end.rows) = len + add
      /\ \A i \in 1 .. len + add : end.rows[i] = IF i <= len THEN run.rows[i] ELSE more[i - len]
  BY <1>3, <1>4, <1>5, ConcatProperties
<1>7. \A i \in 1 .. len + add : \/ i \in 1 .. len /\ end.rows[i] = run.rows[i]
                                \/ end.rows[i].what = "unreached"
  <2>1. TAKE i \in 1 .. len + add
  <2>2. CASE i <= len
    BY <1>6, <2>2
  <2>3. CASE ~(i <= len)
    <3>1. i - len \in 1 .. add /\ end.rows[i] = more[i - len]
      BY <1>6, <2>3
    <3> QED BY <1>3, <1>5, <3>1
  <2> QED BY <2>2, <2>3
<1>8. OnceIn(g, end.rows)
  <2>1. SUFFICES ASSUME NEW j \in 1 .. len + add, NEW i \in 1 .. j - 1,
                        SeveralInputs(g, end.rows[i].node), end.rows[i].what = "ran"
                 PROVE  /\ end.rows[j].node = end.rows[i].node => end.rows[j].what # "ran"
                        /\ end.rows[i].node \in Firsts(g)
                             /\ end.rows[j].what \in {"ran", "skipped"} =>
                              ~Reaches(g, g.edges, end.rows[j].node, end.rows[i].node)
    BY <1>6 DEF OnceIn
  <2>2. i \in 1 .. len /\ end.rows[i] = run.rows[i]
    <3>1. i \in 1 .. len + add
      OBVIOUS
    <3> QED BY <1>7, <2>1, <3>1
  <2>3. CASE j \in 1 .. len /\ end.rows[j] = run.rows[j]
    <3>1. OnceIn(g, run.rows)
      BY DEF Merges
    <3> QED BY <1>5, <2>1, <2>2, <2>3, <3>1 DEF OnceIn
  <2>4. CASE end.rows[j].what = "unreached"
    BY <2>4
  <2> QED BY <1>7, <2>3, <2>4
<1>9. StackOK(g, end) /\ OffStaysOff(g, end) /\ Quiet(g, end)
  BY <1>2 DEF Merges, StackOK, OffStaysOff, Quiet
<1> QED BY <1>1, <1>8, <1>9 DEF Merges

LEMMA OnwardMerges ==
    ASSUME NEW g, GraphOK(g), NEW run, Accounts(g, run), Merges(g, run), run.status = "running"
    PROVE  Merges(g, Onward(g, run))
<1>0. RunOK(g, run)
  BY DEF Accounts
<1>1. CASE HasNext(g, run) = {}
  BY <1>0, <1>1, EndMerges DEF Onward
<1>2. CASE HasNext(g, run) # {}
  <2>2. PICK i : i \in HasNext(g, run)
    BY <1>2
  <2>3. i \in 0 .. Len(run.pending) /\ Min(HasNext(g, run)) = i /\ Invocation(g, run, i) \in Call(g)
    BY <1>0, <2>2, NextIs
  <2>4. PICK inv \in Call(g) : inv = Invocation(g, run, i)
    BY <2>3
  <2>5. PICK mid : mid = Taken(run, i)
    OBVIOUS
  <2>6. RunOK(g, mid) /\ mid.rows = run.rows /\ mid.completed = run.completed
    BY <1>0, <2>3, <2>5, TakenOK
  <2>7. PICK end : end = RunNode(g, mid, inv)
    OBVIOUS
  <2>8. Onward(g, run) = end
    BY <1>2, <2>3, <2>4, <2>5, <2>7 DEF Onward
  <2>9. RunOK(g, end) /\ Invoked(g, mid, inv, end)
    BY <2>6, <2>7, RunNodeOK, RunNodeIs
  <2>10. Merges(g, end)
    BY <2>2, <2>4, <2>5, <2>6, <2>9, InvokedMerges
  <2> QED BY <2>8, <2>10
<1> QED BY <1>1, <1>2

\* In every state of an uninterrupted run the Merges are in order.
LEMMA OrbitMerges ==
    ASSUME NEW g, GraphOK(g), NEW N \in Nat, NEW s, Orbit(g, s, N)
    PROVE  \A k \in 0 .. N : Merges(g, s[k])
<1>1. PICK U : U = {k \in 0 .. N : Merges(g, s[k])}
  OBVIOUS
<1>2. PICK w : w = [k \in 0 .. N |-> k]
  OBVIOUS
<1>3. w[0] \in U
  <2>1. Merges(g, s[0])
    BY StartMerges DEF Orbit
  <2>2. 0 \in 0 .. N
    OBVIOUS
  <2> QED BY <1>1, <1>2, <2>1, <2>2
<1>4. \A k \in 1 .. N : w[k - 1] \in U => w[k] \in U
  <2>1. TAKE k \in 1 .. N
  <2>2. HAVE w[k - 1] \in U
  <2>3. k - 1 \in 0 .. N /\ k \in 0 .. N /\ w[k - 1] = k - 1 /\ w[k] = k
    BY <1>2
  <2>4. PICK run : run = s[k - 1]
    OBVIOUS
  <2>5. Merges(g, run) /\ Accounts(g, run)
    BY <1>1, <2>2, <2>3, <2>4, OrbitAccounts
  <2>6. run.status = "running" /\ s[k] = Onward(g, run)
    BY <2>4 DEF Orbit
  <2>7. Merges(g, s[k])
    BY <2>5, <2>6, OnwardMerges
  <2> QED BY <1>1, <2>3, <2>7
<1>5. \A k \in 0 .. N : w[k] \in U
  BY <1>3, <1>4, StaysIn
<1> QED BY <1>1, <1>2, <1>5

\* What the property says of one run.
MergesOf(run) ==
    \A i \in DOMAIN run.rows :
        LET n == run.rows[i].node
        IN  SeveralInputs(graph, n) /\ run.rows[i].what = "ran" =>
               \A j \in i + 1 .. Len(run.rows) :
                  /\ run.rows[j].node = n => run.rows[j].what # "ran"
                  /\ IsFirstMerge(n) /\ run.rows[j].what \in {"ran", "skipped"} =>
                        ~Reaches(graph, graph.edges, run.rows[j].node, n)

LEMMA OnceSays ==
    ASSUME NEW run, run.rows \in Seq(RowOf(graph)), OnceIn(graph, run.rows)
    PROVE  MergesOf(run)
<1>1. PICK rows \in Seq(RowOf(graph)) : rows = run.rows
  OBVIOUS
<1>2. SUFFICES ASSUME NEW i \in 1 .. Len(rows), SeveralInputs(graph, rows[i].node),
                      rows[i].what = "ran", NEW j \in i + 1 .. Len(rows)
               PROVE  /\ rows[j].node = rows[i].node => rows[j].what # "ran"
                      /\ IsFirstMerge(rows[i].node) /\ rows[j].what \in {"ran", "skipped"} =>
                            ~Reaches(graph, graph.edges, rows[j].node, rows[i].node)
  BY <1>1 DEF MergesOf
<1>3. j \in 1 .. Len(rows) /\ i \in 1 .. j - 1
  OBVIOUS
<1>4. IsFirstMerge(rows[i].node) => rows[i].node \in Firsts(graph)
  <2>1. rows[i].node \in graph.active
    <3>1. rows[i] \in RowOf(graph)
      OBVIOUS
    <3> QED BY <3>1 DEF RowOf
  <2> QED BY <2>1 DEF IsFirstMerge, Firsts, BelowDone, IsBelowDone
<1> QED BY <1>1, <1>2, <1>3, <1>4 DEF OnceIn

\* A Merge runs at most once, and one with nothing above it that the fallback starts
\* runs after all that leads to it, for every graph.
THEOREM MergesComeLast == Spec => []MergesRunLast
<1>1. OrbitInv => MergesRunLast
  <2>1. SUFFICES ASSUME OrbitInv PROVE MergesOf(plain) /\ MergesOf(live)
    BY DEF MergesRunLast, MergesOf
  <2>20. PICK N \in Nat : \E s : \E k \in 0 .. N : Along(graph, s, N, k)
    BY <2>1 DEF OrbitInv
  <2>2. PICK s : \E k \in 0 .. N : Along(graph, s, N, k)
    BY <2>20
  <2>3. PICK k \in 0 .. N : Along(graph, s, N, k)
    BY <2>2
  <2>4. Orbit(graph, s, N) /\ plain = s[N] /\ GraphOK(graph)
    BY <2>1, <2>3 DEF Along, OrbitInv
  <2>5. live.rows = s[k].rows
    BY <2>3, LiveIs
  <2>6. Merges(graph, s[N]) /\ Merges(graph, s[k])
    <3>1. \A i \in 0 .. N : Merges(graph, s[i])
      BY <2>4, OrbitMerges
    <3> QED BY <3>1
  <2>7. OnceIn(graph, plain.rows) /\ OnceIn(graph, live.rows)
    BY <2>4, <2>5, <2>6 DEF Merges
  <2>8. plain.rows \in Seq(RowOf(graph)) /\ live.rows \in Seq(RowOf(graph))
    BY <2>1, OrbitRows
  <2> QED BY <2>7, <2>8, OnceSays
<1> QED BY <1>1, OrbitInvariant, PTL

-----------------------------------------------------------------------------
(* What comes back to a loop. *)

Increases(s) == \A i, j \in 1 .. Len(s) : i < j => s[i] < s[j]
Covers(s, t) == \A i \in 1 .. Len(t) : \E j \in 1 .. Len(s) : s[j] = t[i]

LEMMA Tabled ==
    ASSUME NEW m \in Nat, NEW S, NEW f \in [1 .. m -> S]
    PROVE  f \in Seq(S)
OBVIOUS

\* There is one way to list numbers upwards.
LEMMA OneOrder ==
    ASSUME NEW s \in Seq(Nat), NEW t \in Seq(Nat), Len(s) = Len(t), Increases(s), Increases(t),
           Covers(s, t), Covers(t, s)
    PROVE  \A k \in 1 .. Len(s) : s[k] = t[k]
<1>1. PICK n \in Nat : n = Len(s) /\ n = Len(t)
  OBVIOUS
<1>2. PICK bad : bad = {k \in 1 .. n : s[k] # t[k]}
  OBVIOUS
<1>3. SUFFICES ASSUME bad # {} PROVE FALSE
  BY <1>1, <1>2
<1>4. bad \in SUBSET Nat
  BY <1>2
<1>5. PICK k \in bad : \A j \in bad : k <= j
  BY <1>3, <1>4, Least
<1>6. k \in 1 .. n /\ s[k] # t[k] /\ \A j \in 1 .. n : j < k => s[j] = t[j]
  <2>1. k \in 1 .. n /\ s[k] # t[k]
    BY <1>2
  <2>2. ASSUME NEW j \in 1 .. n, j < k PROVE s[j] = t[j]
    <3>1. j \notin bad
      BY <1>4, <1>5, <2>1, <2>2
    <3> QED BY <1>2, <3>1
  <2> QED BY <2>1, <2>2
<1>7. \A j \in 1 .. n : s[j] \in Nat /\ t[j] \in Nat
  BY <1>1
<1>8. PICK i \in 1 .. n : t[i] = s[k]
  BY <1>1, <1>6 DEF Covers
<1>9. PICK j \in 1 .. n : s[j] = t[k]
  BY <1>1, <1>6 DEF Covers
<1>10. ~(i < k) /\ i # k
  <2>1. i # k
    BY <1>6, <1>8
  <2>2. ASSUME i < k PROVE FALSE
    <3>1. s[i] = s[k]
      BY <1>6, <1>8, <2>2
    <3>2. s[i] < s[k]
      BY <1>1, <1>6, <2>2 DEF Increases
    <3> QED BY <1>6, <1>7, <3>1, <3>2
  <2> QED BY <2>1, <2>2
<1>11. ~(j < k) /\ j # k
  <2>1. j # k
    BY <1>6, <1>9
  <2>2. ASSUME j < k PROVE FALSE
    <3>1. t[j] = t[k]
      BY <1>6, <1>9, <2>2
    <3>2. t[j] < t[k]
      BY <1>1, <1>6, <2>2 DEF Increases
    <3> QED BY <1>6, <1>7, <3>1, <3>2
  <2> QED BY <2>1, <2>2
<1>12. t[k] < t[i] /\ s[k] < s[j]
  <2>1. k < i /\ k < j
    BY <1>6, <1>10, <1>11
  <2> QED BY <1>1, <1>6, <2>1 DEF Increases
<1> QED BY <1>6, <1>7, <1>8, <1>9, <1>12

\* A number above all of S comes last.
LEMMA OneMore ==
    ASSUME NEW S, IsFiniteSet(S), NEW m \in Nat, \A x \in S : x \in Nat /\ x < m,
           NEW old, old = Upwards(S), NEW new, new = Upwards(S \cup {m})
    PROVE  /\ Len(old) \in Nat /\ Len(new) = Len(old) + 1 /\ new[Len(new)] = m
           /\ \A k \in 1 .. Len(old) : new[k] = old[k] /\ old[k] \in S
<1>1. PICK T : T = S \cup {m}
  OBVIOUS
<1>2. IsFiniteSet(T) /\ Cardinality(T) = Cardinality(S) + 1 /\ \A x \in T : x \in Nat
  <2>1. m \notin S
    OBVIOUS
  <2> QED BY <1>1, <2>1, FS_AddElement
<1>3. Lists(old, S) /\ Len(old) = Cardinality(S) /\ Increases(old)
  BY OrderedUp DEF Increases
<1>4. Lists(new, T) /\ Len(new) = Cardinality(T) /\ Increases(new)
  BY <1>1, <1>2, OrderedUp DEF Increases
<1>5. PICK n \in Nat : n = Len(old)
  BY <1>3 DEF Lists
<1>6. /\ Len(new) = n + 1 /\ \A k \in 1 .. n : old[k] \in S
      /\ \A x \in S : \E k \in 1 .. n : old[k] = x
      /\ old \in Seq(S)
  BY <1>2, <1>3, <1>4, <1>5 DEF Lists
<1>7. PICK all : all = Append(old, m)
  OBVIOUS
<1>8. old \in Seq(Nat)
  <2>1. old \in [1 .. n -> Nat]
    BY <1>3, <1>5, <1>6, LenProperties
  <2> QED BY <2>1
<1>9. all \in Seq(Nat) /\ Len(all) = n + 1 /\ all[n + 1] = m /\ \A k \in 1 .. n : all[k] = old[k]
  BY <1>5, <1>7, <1>8
<1>10. Increases(all)
  <2>1. SUFFICES ASSUME NEW i \in 1 .. n + 1, NEW j \in 1 .. n + 1, i < j PROVE all[i] < all[j]
    BY <1>9 DEF Increases
  <2>2. i \in 1 .. n
    BY <2>1
  <2>3. CASE j = n + 1
    BY <1>6, <1>9, <2>2, <2>3
  <2>4. CASE j # n + 1
    <3>1. j \in 1 .. n
      BY <2>4
    <3> QED BY <1>3, <1>5, <1>9, <2>1, <2>2, <3>1 DEF Increases
  <2> QED BY <2>3, <2>4
<1>11. new \in Seq(Nat)
  <2>1. new \in Seq(T)
    BY <1>4 DEF Lists
  <2>2. new \in [1 .. n + 1 -> T]
    BY <1>6, <2>1, LenProperties
  <2>3. PICK l \in Nat : l = n + 1
    OBVIOUS
  <2>4. new \in [1 .. l -> Nat]
    BY <1>2, <2>2, <2>3
  <2> QED BY <2>4, Tabled
<1>12. Covers(new, all)
  <2>1. SUFFICES ASSUME NEW i \in 1 .. n + 1 PROVE \E j \in 1 .. Len(new) : new[j] = all[i]
    BY <1>9 DEF Covers
  <2>2. all[i] \in T
    <3>1. CASE i = n + 1
      BY <1>1, <1>9, <3>1
    <3>2. CASE i # n + 1
      <4>1. i \in 1 .. n
        BY <3>2
      <4> QED BY <1>1, <1>6, <1>9, <4>1
    <3> QED BY <3>1, <3>2
  <2> QED BY <1>4, <2>2 DEF Lists
<1>13. Covers(all, new)
  <2>1. SUFFICES ASSUME NEW i \in 1 .. n + 1 PROVE \E j \in 1 .. n + 1 : all[j] = new[i]
    BY <1>6, <1>9 DEF Covers
  <2>2. new[i] \in T
    BY <1>4, <1>6 DEF Lists
  <2>3. CASE new[i] = m
    <3>1. n + 1 \in 1 .. n + 1
      OBVIOUS
    <3> QED BY <1>9, <2>3, <3>1
  <2>4. CASE new[i] \in S
    <3>1. PICK k \in 1 .. n : old[k] = new[i]
      BY <1>6, <2>4
    <3>2. k \in 1 .. n + 1
      OBVIOUS
    <3> QED BY <1>9, <3>1, <3>2
  <2> QED BY <1>1, <2>2, <2>3, <2>4
<1>14. \A k \in 1 .. n + 1 : new[k] = all[k]
  <2>1. Len(new) = Len(all)
    BY <1>6, <1>9
  <2>2. \A k \in 1 .. Len(new) : new[k] = all[k]
    BY <1>4, <1>9, <1>10, <1>11, <1>12, <1>13, <2>1, OneOrder
  <2> QED BY <1>6, <2>2
<1>15. new[n + 1] = m /\ \A k \in 1 .. n : new[k] = old[k]
  <2>1. n + 1 \in 1 .. n + 1 /\ \A k \in 1 .. n : k \in 1 .. n + 1
    OBVIOUS
  <2> QED BY <1>9, <1>14, <2>1
<1> QED BY <1>5, <1>6, <1>15

\* What the rows of S were given, the first of them left out.
Collected(rows, S) ==
    LET pass == Upwards(S)
    IN  FlattenSeq([x \in 1 .. Len(pass) - 1 |-> rows[pass[x + 1]].input[1]])

\* The rows of S exist, and were given items.
GivenItems(rows, S) == \A x \in S : x \in Nat /\ rows[x].input[1] \in Stream

\* What is collected depends on the rows of S alone.
LEMMA CollectedSame ==
    ASSUME NEW S, IsFiniteSet(S), \A x \in S : x \in Nat, NEW rows, NEW more,
           \A x \in S : more[x] = rows[x]
    PROVE  Collected(more, S) = Collected(rows, S)
<1>1. PICK pass : pass = Upwards(S)
  OBVIOUS
<1>2. Lists(pass, S)
  BY <1>1, OrderedUp
<1>3. PICK n \in Nat : n = Len(pass)
  BY <1>2 DEF Lists
<1>4. \A x \in 1 .. n - 1 : more[pass[x + 1]] = rows[pass[x + 1]]
  <2>1. TAKE x \in 1 .. n - 1
  <2>2. x + 1 \in 1 .. n
    OBVIOUS
  <2>3. pass[x + 1] \in S
    BY <1>2, <1>3, <2>2 DEF Lists
  <2> QED BY <2>3
<1>5. [x \in 1 .. n - 1 |-> more[pass[x + 1]].input[1]]
        = [x \in 1 .. n - 1 |-> rows[pass[x + 1]].input[1]]
  BY <1>4
<1> QED BY <1>1, <1>3, <1>5, Zenon DEF Collected

\* The first row of a pass returns nothing, each later one adds its input.
LEMMA CollectedMore ==
    ASSUME NEW S, IsFiniteSet(S), NEW m \in Nat, \A x \in S : x \in Nat /\ x < m,
           NEW rows, GivenItems(rows, S \cup {m})
    PROVE  /\ S = {} => Collected(rows, S \cup {m}) = <<>>
           /\ S # {} => Collected(rows, S \cup {m}) = Collected(rows, S) \o rows[m].input[1]
<1>1. PICK old : old = Upwards(S)
  OBVIOUS
<1>2. PICK new : new = Upwards(S \cup {m})
  OBVIOUS
<1>3. /\ Len(old) \in Nat /\ Len(new) = Len(old) + 1 /\ new[Len(new)] = m
      /\ \A k \in 1 .. Len(old) : new[k] = old[k] /\ old[k] \in S
  BY <1>1, <1>2, OneMore
<1>4. PICK n \in Nat : n = Len(old)
  BY <1>3
<1>5. PICK given : given = [x \in 1 .. n |-> rows[new[x + 1]].input[1]]
  OBVIOUS
<1>6. Collected(rows, S \cup {m}) = FlattenSeq(given)
  <2>1. 1 .. Len(new) - 1 = 1 .. n
    BY <1>3, <1>4
  <2> QED BY <1>2, <1>5, <2>1, Zenon DEF Collected
<1>7. \A x \in 1 .. n : rows[new[x + 1]].input[1] \in Stream
  <2>1. TAKE x \in 1 .. n
  <2>2. CASE x = n
    <3>1. new[x + 1] = m
      BY <1>3, <1>4, <2>2
    <3> QED BY <3>1 DEF GivenItems
  <2>3. CASE x # n
    <3>1. x + 1 \in 1 .. n
      BY <2>3
    <3>2. new[x + 1] \in S
      BY <1>3, <1>4, <3>1
    <3> QED BY <3>2 DEF GivenItems
  <2> QED BY <2>2, <2>3
<1>8. given \in Seq(Stream) /\ Len(given) = n
  BY <1>5, <1>7
<1>9. Lists(old, S)
  BY <1>1, OrderedUp
<1>10. CASE S = {}
  <2>1. n = 0
    <3>1. CASE n # 0
      <4>1. old[1] \in S
        BY <1>3, <1>4, <3>1
      <4> QED BY <1>10, <4>1
    <3> QED BY <3>1
  <2>2. \A k \in 1 .. Len(given) : given[k] = <<>>
    BY <1>8, <2>1
  <2>3. FlattenSeq(given) = <<>>
    <3>1. given \in Seq(Seq(Nat))
      BY <1>8 DEF Stream
    <3> QED BY <2>2, <3>1, FlattenedNothing
  <2> QED BY <1>6, <1>10, <2>3
<1>11. CASE S # {}
  <2>1. n # 0
    <3>1. PICK i \in 1 .. n : old[i] = old[i]
      BY <1>4, <1>9, <1>11 DEF Lists
    <3> QED BY <3>1
  <2>2. PICK got : got = [x \in 1 .. n - 1 |-> rows[old[x + 1]].input[1]]
    OBVIOUS
  <2>3. Collected(rows, S) = FlattenSeq(got)
    BY <1>1, <1>4, <2>2, Zenon DEF Collected
  <2>4. \A x \in 1 .. n - 1 : old[x + 1] = new[x + 1] /\ x \in 1 .. n
    <3>1. TAKE x \in 1 .. n - 1
    <3>2. x + 1 \in 1 .. n
      OBVIOUS
    <3> QED BY <1>3, <1>4, <3>2
  <2>5. got = [x \in 1 .. n - 1 |-> rows[new[x + 1]].input[1]]
    BY <2>2, <2>4
  <2>6. got \in Seq(Stream) /\ Len(got) = n - 1 /\ \A k \in 1 .. n - 1 : given[k] = got[k]
    BY <1>5, <1>7, <2>1, <2>4, <2>5
  <2>7. got \in Seq(Seq(Nat)) /\ given \in Seq(Seq(Nat))
    BY <1>8, <2>6 DEF Stream
  <2>8. Len(given) = Len(got) + 1
    BY <1>8, <2>1, <2>6
  <2>9. FlattenSeq(given) = FlattenSeq(got) \o given[Len(given)]
    BY <2>6, <2>7, <2>8, FlattenedMore
  <2>10. given[Len(given)] = rows[m].input[1]
    BY <1>3, <1>4, <1>5, <1>8, <2>1
  <2> QED BY <1>6, <1>11, <2>3, <2>9, <2>10
<1> QED BY <1>10, <1>11

\* The runs of n up to row i, and those of the pass they leave open: the ones after
\* the last that ended.
Turns(rows, n, i) == {j \in 1 .. i : rows[j].node = n /\ rows[j].what = "ran"}
OpenAt(rows, n, i) ==
    {j \in Turns(rows, n, i) : \A k \in Turns(rows, n, i) : rows[k].output[2] = <<>> => k < j}

LEMMA OpenIs ==
    ASSUME NEW rows, NEW n, NEW i \in Nat
    PROVE  /\ IsFiniteSet(OpenAt(rows, n, i))
           /\ \A x \in OpenAt(rows, n, i) : /\ x \in 1 .. i /\ rows[x].node = n
                                            /\ rows[x].what = "ran"
<1>1. \A x \in OpenAt(rows, n, i) : x \in 1 .. i /\ rows[x].node = n /\ rows[x].what = "ran"
  BY DEF OpenAt, Turns
<1>2. IsFiniteSet(1 .. i)
  BY FS_Interval
<1>3. OpenAt(rows, n, i) \subseteq 1 .. i
  BY <1>1
<1> QED BY <1>1, <1>2, <1>3, FS_Subset

\* Rows that are not the node's runs change nothing.
LEMMA OpenAside ==
    ASSUME NEW rows, NEW more, NEW n, NEW i \in Nat, NEW j \in Nat, i <= j,
           \A k \in 1 .. i : more[k] = rows[k],
           \A k \in i + 1 .. j : ~(more[k].node = n /\ more[k].what = "ran")
    PROVE  OpenAt(more, n, j) = OpenAt(rows, n, i)
<1>1. Turns(more, n, j) = Turns(rows, n, i)
  <2>1. ASSUME NEW k \in Turns(more, n, j) PROVE k \in Turns(rows, n, i)
    <3>1. k \in 1 .. j /\ more[k].node = n /\ more[k].what = "ran"
      BY <2>1 DEF Turns
    <3>2. ~(k \in i + 1 .. j)
      BY <3>1
    <3>3. k \in 1 .. i
      BY <3>1, <3>2
    <3> QED BY <3>1, <3>3 DEF Turns
  <2>2. ASSUME NEW k \in Turns(rows, n, i) PROVE k \in Turns(more, n, j)
    <3>1. k \in 1 .. i /\ k \in 1 .. j
      BY <2>2 DEF Turns
    <3> QED BY <2>2, <3>1 DEF Turns
  <2> QED BY <2>1, <2>2
<1>2. \A k \in Turns(rows, n, i) : more[k] = rows[k]
  BY DEF Turns
<1> QED BY <1>1, <1>2 DEF OpenAt

\* A run of the node starts a pass or goes on with it, or ends it.
LEMMA OpenOnward ==
    ASSUME NEW rows, NEW n, NEW i \in Nat, NEW row, rows[i + 1] = row,
           row.node = n, row.what = "ran"
    PROVE  /\ row.output[2] = <<>> => OpenAt(rows, n, i + 1) = {}
           /\ row.output[2] # <<>> => OpenAt(rows, n, i + 1) = OpenAt(rows, n, i) \cup {i + 1}
<1>1. PICK m \in Nat : m = i + 1
  OBVIOUS
<1>2. Turns(rows, n, m) = Turns(rows, n, i) \cup {m}
  <2>1. \A k : k \in 1 .. m <=> k \in 1 .. i \/ k = m
    BY <1>1
  <2>2. \A k : k \in Turns(rows, n, m) <=> k \in Turns(rows, n, i) \/ k = m
    BY <1>1, <2>1 DEF Turns
  <2> QED BY <2>2
<1>3. \A k \in Turns(rows, n, i) : k < m
  BY <1>1 DEF Turns
<1>4. CASE row.output[2] = <<>>
  <2>1. SUFFICES ASSUME NEW j \in OpenAt(rows, n, m) PROVE FALSE
    BY <1>1, <1>4
  <2>2. m \in Turns(rows, n, m) /\ rows[m].output[2] = <<>>
    BY <1>1, <1>2, <1>4
  <2>3. m < j
    BY <2>1, <2>2 DEF OpenAt
  <2>4. j \in 1 .. m
    BY <2>1 DEF OpenAt, Turns
  <2> QED BY <2>3, <2>4
<1>5. CASE row.output[2] # <<>>
  <2>1. PICK ended : ended = {k \in Turns(rows, n, i) : rows[k].output[2] = <<>>}
    OBVIOUS
  <2>2. OpenAt(rows, n, i) = {j \in Turns(rows, n, i) : \A k \in ended : k < j}
    BY <2>1 DEF OpenAt
  <2>3. ended = {k \in Turns(rows, n, m) : rows[k].output[2] = <<>>}
    <3>1. rows[m].output[2] # <<>>
      BY <1>1, <1>5
    <3> QED BY <1>2, <2>1, <3>1
  <2>4. OpenAt(rows, n, m) = {j \in Turns(rows, n, m) : \A k \in ended : k < j}
    BY <2>3 DEF OpenAt
  <2>5. \A k \in ended : k < m
    BY <1>3, <2>1
  <2> QED BY <1>1, <1>2, <1>5, <2>2, <2>4, <2>5
<1> QED BY <1>4, <1>5

-----------------------------------------------------------------------------
(* What a loop keeps. *)

\* A loop that runs, on its own items, and fails the run if it fails.
IsLoopNode(g, n) ==
    /\ KindOf(g, n) = "loop" /\ ~Disabled(g, n) /\ ~g.nodes[n].pinned
    /\ ~g.nodes[n].always /\ g.nodes[n].onError = "stop"
LoopNodes(g) == {n \in g.active : IsLoopNode(g, n)}

\* The loop holds what came back to it in the pass its runs leave open.
HoldsReturns(rows, n, loop) ==
    /\ loop.on <=> OpenAt(rows, n, Len(rows)) # {}
    /\ loop.on => loop.collected = Collected(rows, OpenAt(rows, n, Len(rows)))

\* Each run that ended a pass handed on what came back in it.
HandsOn(rows, n) ==
    \A i \in 1 .. Len(rows) :
        rows[i].node = n /\ rows[i].what = "ran" /\ rows[i].output[2] = <<>> =>
            rows[i].output[1] = Collected(rows, OpenAt(rows, n, i - 1) \cup {i})

LoopKept(rows, n, loop) ==
    /\ HoldsReturns(rows, n, loop) /\ HandsOn(rows, n)
    /\ GivenItems(rows, Turns(rows, n, Len(rows)))

Loops(g, run) == \A n \in LoopNodes(g) : LoopKept(run.rows, n, run.loops[n])

\* A step that is not a run of the loop, and one that is.
NoTurn(rows, more, n) ==
    /\ Grows(rows, more)
    /\ \A k \in Len(rows) + 1 .. Len(more) : ~(more[k].node = n /\ more[k].what = "ran")
Aside(rows, more, n, loop, next) == NoTurn(rows, more, n) /\ next = loop
Turn(g, rows, more, n, loop, next) ==
    \E row \in RowOf(g) : \E collected :
        /\ more = Append(rows, row) /\ row.node = n /\ row.what = "ran"
        /\ row.input[1] \in Stream
        /\ collected = IF loop.on THEN loop.collected \o row.input[1] ELSE <<>>
        /\ \/ row.output[2] = <<>> /\ row.output[1] = collected /\ ~next.on
           \/ row.output[2] # <<>> /\ next.on /\ next.collected = collected

LEMMA AsideKeeps ==
    ASSUME NEW g, NEW rows \in Seq(RowOf(g)), NEW more \in Seq(RowOf(g)), NEW n, NEW loop,
           NEW next, Aside(rows, more, n, loop, next), LoopKept(rows, n, loop)
    PROVE  LoopKept(more, n, next)
<1>1. PICK i \in Nat, j \in Nat : i = Len(rows) /\ j = Len(more)
  OBVIOUS
<1>2. /\ i <= j /\ next = loop /\ \A k \in 1 .. i : more[k] = rows[k]
      /\ \A k \in i + 1 .. j : ~(more[k].node = n /\ more[k].what = "ran")
  BY <1>1 DEF Aside, NoTurn, Grows
<1>3. PICK open : open = OpenAt(rows, n, i)
  OBVIOUS
<1>4. OpenAt(more, n, j) = open
  BY <1>2, <1>3, OpenAside
<1>5. IsFiniteSet(open) /\ \A x \in open : x \in 1 .. i
  BY <1>3, OpenIs
<1>6. Collected(more, open) = Collected(rows, open)
  <2>1. \A x \in open : x \in Nat /\ more[x] = rows[x]
    BY <1>2, <1>5
  <2> QED BY <1>5, <2>1, CollectedSame
<1>7. HoldsReturns(more, n, next)
  BY <1>1, <1>2, <1>3, <1>4, <1>6 DEF LoopKept, HoldsReturns
<1>8. HandsOn(more, n)
  <2>1. SUFFICES ASSUME NEW m \in 1 .. j, more[m].node = n, more[m].what = "ran",
                        more[m].output[2] = <<>>
                 PROVE  more[m].output[1] = Collected(more, OpenAt(more, n, m - 1) \cup {m})
    BY <1>1 DEF HandsOn
  <2>2. m \in 1 .. i /\ more[m] = rows[m]
    <3>1. ~(m \in i + 1 .. j)
      BY <1>2, <2>1
    <3>2. m \in 1 .. i
      BY <3>1
    <3> QED BY <1>2, <3>2
  <2>3. PICK S : S = OpenAt(rows, n, m - 1) \cup {m}
    OBVIOUS
  <2>4. rows[m].output[1] = Collected(rows, S)
    <3>1. HandsOn(rows, n)
      BY DEF LoopKept
    <3> QED BY <1>1, <2>1, <2>2, <2>3, <3>1 DEF HandsOn
  <2>5. m - 1 \in Nat /\ \A k \in 1 .. m - 1 : more[k] = rows[k]
    BY <1>2, <2>2
  <2>6. OpenAt(more, n, m - 1) = OpenAt(rows, n, m - 1)
    BY <2>5, OpenAside
  <2>7. IsFiniteSet(S) /\ \A x \in S : x \in Nat /\ more[x] = rows[x]
    <3>1. IsFiniteSet(OpenAt(rows, n, m - 1)) /\ \A x \in OpenAt(rows, n, m - 1) : x \in 1 .. m - 1
      BY <2>5, OpenIs
    <3>2. IsFiniteSet(S)
      BY <2>3, <3>1, FS_AddElement
    <3> QED BY <2>2, <2>3, <2>5, <3>1, <3>2
  <2>8. Collected(more, S) = Collected(rows, S)
    BY <2>7, CollectedSame
  <2> QED BY <2>2, <2>3, <2>4, <2>6, <2>8
<1>9. GivenItems(more, Turns(more, n, j))
  <2>1. SUFFICES ASSUME NEW x \in Turns(more, n, j)
                 PROVE  x \in Nat /\ more[x].input[1] \in Stream
    BY DEF GivenItems
  <2>2. x \in 1 .. j /\ more[x].node = n /\ more[x].what = "ran"
    BY DEF Turns
  <2>3. x \in 1 .. i
    <3>1. ~(x \in i + 1 .. j)
      BY <1>2, <2>2
    <3> QED BY <2>2, <3>1
  <2>4. x \in Turns(rows, n, i) /\ more[x] = rows[x]
    BY <1>2, <2>2, <2>3 DEF Turns
  <2> QED BY <1>1, <2>4 DEF LoopKept, GivenItems
<1> QED BY <1>1, <1>7, <1>8, <1>9 DEF LoopKept

LEMMA TurnKeeps ==
    ASSUME NEW g, NEW rows \in Seq(RowOf(g)), NEW more, NEW n, NEW loop, NEW next,
           Turn(g, rows, more, n, loop, next), LoopKept(rows, n, loop)
    PROVE  LoopKept(more, n, next)
<1>1. PICK row \in RowOf(g) : \E collected :
        /\ more = Append(rows, row) /\ row.node = n /\ row.what = "ran"
        /\ row.input[1] \in Stream
        /\ collected = IF loop.on THEN loop.collected \o row.input[1] ELSE <<>>
        /\ \/ row.output[2] = <<>> /\ row.output[1] = collected /\ ~next.on
           \/ row.output[2] # <<>> /\ next.on /\ next.collected = collected
  BY DEF Turn
<1>2. PICK collected :
        /\ more = Append(rows, row) /\ row.node = n /\ row.what = "ran"
        /\ row.input[1] \in Stream
        /\ collected = IF loop.on THEN loop.collected \o row.input[1] ELSE <<>>
        /\ \/ row.output[2] = <<>> /\ row.output[1] = collected /\ ~next.on
           \/ row.output[2] # <<>> /\ next.on /\ next.collected = collected
  BY <1>1
<1>3. PICK i \in Nat : i = Len(rows)
  OBVIOUS
<1>4. PICK m \in Nat : m = i + 1
  OBVIOUS
<1>5. /\ Len(more) = m /\ more[m] = row /\ \A k \in 1 .. i : more[k] = rows[k]
  BY <1>2, <1>3, <1>4
<1>6. PICK open : open = OpenAt(rows, n, i)
  OBVIOUS
<1>7. OpenAt(more, n, i) = open
  <2>1. \A k \in i + 1 .. i : ~(more[k].node = n /\ more[k].what = "ran")
    OBVIOUS
  <2> QED BY <1>5, <1>6, <2>1, OpenAside
<1>8. IsFiniteSet(open) /\ \A x \in open : x \in 1 .. i /\ rows[x].node = n /\ rows[x].what = "ran"
  BY <1>6, OpenIs
<1>9. GivenItems(more, Turns(more, n, m))
  <2>1. SUFFICES ASSUME NEW x \in Turns(more, n, m)
                 PROVE  x \in Nat /\ more[x].input[1] \in Stream
    BY DEF GivenItems
  <2>2. x \in 1 .. m /\ more[x].node = n /\ more[x].what = "ran"
    BY DEF Turns
  <2>3. CASE x = m
    BY <1>2, <1>5, <2>3
  <2>4. CASE x # m
    <3>1. x \in 1 .. i
      BY <1>4, <2>2, <2>4
    <3>2. x \in Turns(rows, n, i) /\ more[x] = rows[x]
      BY <1>5, <2>2, <3>1 DEF Turns
    <3> QED BY <1>3, <3>2 DEF LoopKept, GivenItems
  <2> QED BY <2>3, <2>4
<1>10. PICK all : all = open \cup {m}
  OBVIOUS
<1>11. Collected(more, all) = collected
  <2>1. loop.on <=> open # {}
    BY <1>3, <1>6 DEF LoopKept, HoldsReturns
  <2>2. \A x \in open : x \in Nat /\ x < m
    BY <1>4, <1>8
  <2>3. GivenItems(more, all)
    <3>1. ASSUME NEW x \in all PROVE x \in Turns(more, n, m)
      <4>1. CASE x = m
        BY <1>2, <1>4, <1>5, <4>1 DEF Turns
      <4>2. CASE x \in open
        <5>1. x \in 1 .. m /\ more[x] = rows[x]
          BY <1>4, <1>5, <1>8, <4>2
        <5> QED BY <1>8, <4>2, <5>1 DEF Turns
      <4> QED BY <1>10, <4>1, <4>2
    <3> QED BY <1>9, <3>1 DEF GivenItems
  <2>4. /\ open = {} => Collected(more, all) = <<>>
        /\ open # {} => Collected(more, all) = Collected(more, open) \o more[m].input[1]
    BY <1>8, <1>10, <2>2, <2>3, CollectedMore
  <2>5. Collected(more, open) = Collected(rows, open)
    <3>1. \A x \in open : x \in Nat /\ more[x] = rows[x]
      BY <1>5, <1>8
    <3> QED BY <1>8, <3>1, CollectedSame
  <2>6. loop.on => loop.collected = Collected(rows, open)
    BY <1>3, <1>6 DEF LoopKept, HoldsReturns
  <2>7. CASE open = {}
    BY <1>2, <2>1, <2>4, <2>7
  <2>8. CASE open # {}
    BY <1>2, <1>5, <2>1, <2>4, <2>5, <2>6, <2>8
  <2> QED BY <2>7, <2>8
<1>12. /\ row.output[2] = <<>> => OpenAt(more, n, m) = {}
       /\ row.output[2] # <<>> => OpenAt(more, n, m) = all
  <2>1. more[i + 1] = row
    BY <1>4, <1>5
  <2>2. /\ row.output[2] = <<>> => OpenAt(more, n, i + 1) = {}
        /\ row.output[2] # <<>> => OpenAt(more, n, i + 1) = OpenAt(more, n, i) \cup {i + 1}
    BY <1>2, <2>1, OpenOnward
  <2> QED BY <1>4, <1>7, <1>10, <2>2
<1>13. HoldsReturns(more, n, next)
  <2>1. CASE row.output[2] = <<>>
    BY <1>2, <1>5, <1>12, <2>1 DEF HoldsReturns
  <2>2. CASE row.output[2] # <<>>
    <3>1. next.on /\ next.collected = collected /\ OpenAt(more, n, m) = all /\ all # {}
      BY <1>2, <1>10, <1>12, <2>2
    <3> QED BY <1>5, <1>11, <3>1 DEF HoldsReturns
  <2> QED BY <2>1, <2>2
<1>14. HandsOn(more, n)
  <2>1. SUFFICES ASSUME NEW x \in 1 .. m, more[x].node = n, more[x].what = "ran",
                        more[x].output[2] = <<>>
                 PROVE  more[x].output[1] = Collected(more, OpenAt(more, n, x - 1) \cup {x})
    BY <1>5 DEF HandsOn
  <2>2. CASE x = m
    <3>1. OpenAt(more, n, x - 1) \cup {x} = all
      BY <1>4, <1>7, <1>10, <2>2
    <3>2. more[x].output[1] = collected
      BY <1>2, <1>5, <2>1, <2>2
    <3> QED BY <1>11, <3>1, <3>2
  <2>3. CASE x # m
    <3>1. x \in 1 .. i /\ more[x] = rows[x]
      <4>1. x \in 1 .. i
        BY <1>4, <2>3
      <4> QED BY <1>5, <4>1
    <3>2. PICK S : S = OpenAt(rows, n, x - 1) \cup {x}
      OBVIOUS
    <3>3. rows[x].output[1] = Collected(rows, S)
      <4>1. HandsOn(rows, n)
        BY DEF LoopKept
      <4> QED BY <1>3, <2>1, <3>1, <3>2, <4>1 DEF HandsOn
    <3>4. x - 1 \in Nat /\ \A k \in 1 .. x - 1 : more[k] = rows[k]
      BY <1>5, <3>1
    <3>5. OpenAt(more, n, x - 1) = OpenAt(rows, n, x - 1)
      <4>1. PICK l \in Nat : l = x - 1
        BY <3>4
      <4>2. \A k \in l + 1 .. l : ~(more[k].node = n /\ more[k].what = "ran")
        OBVIOUS
      <4>3. OpenAt(more, n, l) = OpenAt(rows, n, l)
        BY <3>4, <4>1, <4>2, OpenAside
      <4> QED BY <4>1, <4>3
    <3>6. IsFiniteSet(S) /\ \A y \in S : y \in Nat /\ more[y] = rows[y]
      <4>1. /\ IsFiniteSet(OpenAt(rows, n, x - 1))
            /\ \A y \in OpenAt(rows, n, x - 1) : y \in 1 .. x - 1
        BY <3>4, OpenIs
      <4>2. IsFiniteSet(S)
        BY <3>2, <4>1, FS_AddElement
      <4> QED BY <3>1, <3>2, <3>4, <4>1, <4>2
    <3>7. Collected(more, S) = Collected(rows, S)
      BY <3>6, CollectedSame
    <3> QED BY <3>1, <3>2, <3>3, <3>5, <3>7
  <2> QED BY <2>2, <2>3
<1> QED BY <1>5, <1>9, <1>13, <1>14 DEF LoopKept

\* What a finished and a skipped node leave of the loops.
LEMMA CompletedLoops ==
    ASSUME NEW g, NEW run, RunOK(g, run), NEW n, NEW input, NEW output
    PROVE  /\ Complete(g, run, n, input, output).loops = run.loops
           /\ Complete(g, run, n, input, output).rows
                = Append(run.rows, Row(n, input, output, "ran"))
<1>1. PICK row : row = Row(n, input, output, "ran")
  OBVIOUS
<1>2. PICK rows : rows = Append(run.rows, row)
  OBVIOUS
<1>3. PICK put : put = Put(run.completed, n, output)
  OBVIOUS
<1>4. PICK pending : pending = run.pending \o Push(g, n, output)
  OBVIOUS
<1>5. PICK status, stack, completed, loops, old :
        run = [status |-> status, pending |-> stack, completed |-> completed,
               loops |-> loops, rows |-> old]
  BY DEF RunOK
<1>6. PICK end : end = Complete(g, run, n, input, output)
  OBVIOUS
<1>7. end = [run EXCEPT !.completed = put, !.rows = rows, !.pending = pending]
  BY <1>1, <1>2, <1>3, <1>4, <1>6, Zenon DEF Complete
<1>8. end.loops = run.loops /\ end.rows = rows
  BY <1>5, <1>7
<1> QED BY <1>1, <1>2, <1>6, <1>8

LEMMA SkippedLoops ==
    ASSUME NEW g, NEW run, RunOK(g, run), NEW n, NEW input
    PROVE  Skip(g, run, n, input).loops = run.loops
<1>1. PICK no : no = Put(run.completed, n, NoOutput(g, n))
  OBVIOUS
<1>2. PICK more : more = Append(run.rows, Row(n, input, NoOutput(g, n), "skipped"))
  OBVIOUS
<1>3. PICK status, stack, completed, loops, old :
        run = [status |-> status, pending |-> stack, completed |-> completed,
               loops |-> loops, rows |-> old]
  BY DEF RunOK
<1>4. PICK over : over = Skip(g, run, n, input)
  OBVIOUS
<1>5. over = [run EXCEPT !.completed = no, !.rows = more]
  BY <1>1, <1>2, <1>4, Zenon DEF Skip
<1> QED BY <1>3, <1>4, <1>5

\* The run once a node has been called: its loop and its failed attempts.
Called(g, run, n, input, ran, tried) ==
    /\ RunOK(g, tried) /\ tried.status = run.status
    /\ tried.loops = [run.loops EXCEPT ![n] = ran.loop]
    /\ ~ran.failed => tried.rows = run.rows

LEMMA CalledIs ==
    ASSUME NEW g, GraphOK(g), NEW run, RunOK(g, run), NEW n \in g.active, NEW input \in Input,
           NEW ran, ran = Execute(g, run, n, input)
    PROVE  \E tried :
             /\ Called(g, run, n, input, ran, tried)
             /\ ~ran.failed => InvokeWhole(g, run, n, input)
                    = Complete(g, tried, n, input, WithEmptyItem(g, n, WithErrorPort(g, n, ran.output)))
             /\ ran.failed /\ g.nodes[n].onError = "stop" =>
                    /\ InvokeWhole(g, run, n, input).status = "failed"
                    /\ InvokeWhole(g, run, n, input).loops = tried.loops
             /\ ran.failed /\ g.nodes[n].onError # "stop" => InvokeWhole(g, run, n, input)
                    = Complete(g, tried, n, input, WithEmptyItem(g, n, ToleratedOutput(g, n, input)))
<1>1. run.loops[n] \in LoopState
  BY DEF RunOK
<1>2. ran.failed \in BOOLEAN /\ ran.output \in Seq(Stream) /\ ran.loop \in LoopState
  BY <1>1, ExecuteIs
<1>3. PICK rows : rows = IF ran.failed THEN run.rows \o FailedAttempts(g, n, input) ELSE run.rows
  OBVIOUS
<1>r. run.rows \in Seq(RowOf(g))
  BY DEF RunOK
<1>4. rows \in Seq(RowOf(g))
  <2>1. FailedAttempts(g, n, input) \in Seq(RowOf(g))
    BY ToleratedIs
  <2>2. CASE ran.failed
    BY <1>3, <1>r, <2>1, <2>2, ConcatProperties
  <2>3. CASE ~ran.failed
    BY <1>3, <1>r, <2>3
  <2> QED BY <2>2, <2>3
<1>5. PICK loops : loops = [run.loops EXCEPT ![n] = ran.loop]
  OBVIOUS
<1>6. loops \in [g.active -> LoopState]
  BY <1>2, <1>5 DEF RunOK
<1>7. PICK tried : tried = [run EXCEPT !.loops[n] = ran.loop,
                                       !.rows = IF ran.failed
                                                  THEN @ \o FailedAttempts(g, n, input) ELSE @]
  OBVIOUS
<1>8. PICK status, stack, completed, old, rest :
        run = [status |-> status, pending |-> stack, completed |-> completed,
               loops |-> old, rows |-> rest]
  BY DEF RunOK
<1>9. tried = [status |-> status, pending |-> stack, completed |-> completed,
               loops |-> loops, rows |-> rows]
  <2>1. run.loops = old /\ run.rows = rest
    BY <1>8
  <2>2. tried = [[run EXCEPT !.loops[n] = ran.loop] EXCEPT !.rows = rows]
    BY <1>3, <1>7, Zenon
  <2>3. [run EXCEPT !.loops[n] = ran.loop] = [run EXCEPT !.loops = loops]
    BY <1>5, Zenon
  <2>4. tried = [[run EXCEPT !.loops = loops] EXCEPT !.rows = rows]
    BY <2>2, <2>3, Zenon
  <2> QED BY <1>8, <2>4
<1>10. Called(g, run, n, input, ran, tried)
  <2>1. RunOK(g, tried)
    BY <1>4, <1>6, <1>8, <1>9 DEF RunOK
  <2>2. tried.status = run.status /\ tried.loops = loops /\ tried.rows = rows
    BY <1>8, <1>9
  <2> QED BY <1>3, <1>5, <2>1, <2>2 DEF Called
<1>11. ASSUME ~ran.failed
       PROVE  InvokeWhole(g, run, n, input)
                = Complete(g, tried, n, input, WithEmptyItem(g, n, WithErrorPort(g, n, ran.output)))
  BY <1>7, <1>11 DEF InvokeWhole
<1>12. ASSUME ran.failed, g.nodes[n].onError # "stop"
       PROVE  InvokeWhole(g, run, n, input)
                = Complete(g, tried, n, input, WithEmptyItem(g, n, ToleratedOutput(g, n, input)))
  BY <1>7, <1>12 DEF InvokeWhole
<1>13. ASSUME ran.failed, g.nodes[n].onError = "stop"
       PROVE  /\ InvokeWhole(g, run, n, input).status = "failed"
              /\ InvokeWhole(g, run, n, input).loops = tried.loops
  <2>1. PICK last : last = Append(tried.rows, Row(n, input, <<>>, "failed"))
    OBVIOUS
  <2>2. PICK end : end = InvokeWhole(g, run, n, input)
    OBVIOUS
  <2>3. end = [tried EXCEPT !.status = "failed",
                            !.rows = Append(@, Row(n, input, <<>>, "failed"))]
    BY <1>7, <1>13, <2>2, Zenon DEF InvokeWhole
  <2>4. end = [[tried EXCEPT !.status = "failed"] EXCEPT !.rows = last]
    <3>1. [tried EXCEPT !.status = "failed"].rows = tried.rows
      BY <1>9
    <3> QED BY <2>1, <2>3, <3>1, Zenon
  <2> QED BY <1>9, <2>2, <2>4
<1> QED BY <1>2, <1>10, <1>11, <1>12, <1>13

LEMMA FinishedLoops ==
    ASSUME NEW g, GraphOK(g), NEW run, RunOK(g, run), NEW n \in g.active, NEW input \in Input,
           NEW assembled \in OutputOf(g, n)
    PROVE  FinishItems(g, run, n, input, 1, assembled).loops = run.loops
<1>1. PICK one \in Nat : one = 1
  OBVIOUS
<1>2. PICK done : done = ResolveItems(g, run, n, input, one, Len(input[1]), assembled)
  OBVIOUS
<1>3. done \in Held(g, n)
  <2>1. PICK w : ItemRun(g, run, n, input, one, assembled, w)
    BY <1>1, ItemRuns
  <2>2. Len(input[1]) \in Nat
    BY InputIs DEF Stream
  <2> QED BY <1>2, <2>1, <2>2 DEF ItemRun
<1>4. PICK mid : mid = [run EXCEPT !.rows = done.rows]
  OBVIOUS
<1>5. RunOK(g, mid) /\ mid.loops = run.loops
  <2>1. PICK status, stack, completed, loops, old :
          run = [status |-> status, pending |-> stack, completed |-> completed,
                 loops |-> loops, rows |-> old]
    BY DEF RunOK
  <2>2. PICK rows \in Seq(RowOf(g)) : rows = done.rows
    BY <1>3 DEF Held
  <2>3. mid = [status |-> status, pending |-> stack, completed |-> completed,
               loops |-> loops, rows |-> rows]
    BY <1>4, <2>1, <2>2
  <2> QED BY <2>1, <2>2, <2>3 DEF RunOK
<1>6. PICK output : output = WithEmptyItem(g, n, done.output)
  OBVIOUS
<1>7. FinishItems(g, run, n, input, one, assembled) = Complete(g, mid, n, input, output)
  BY <1>2, <1>4, <1>6 DEF FinishItems
<1> QED BY <1>1, <1>5, <1>7, CompletedLoops

\* A node's run leaves the loops of the others alone.
LEMMA OthersLoops ==
    ASSUME NEW g, GraphOK(g), NEW run, RunOK(g, run), NEW inv \in Call(g),
           NEW n \in g.active, n # inv.node
    PROVE  RunNode(g, run, inv).loops[n] = run.loops[n]
<1>1. PICK x \in g.active : x = inv.node
  BY DEF Call
<1>2. inv.input \in Input /\ inv.skipped \in BOOLEAN
  BY DEF Call
<1>3. PICK input \in Input : input = Seen(g, inv)
  BY <1>2, SeenIs
<1>4. CASE inv.skipped
  <2>1. RunNode(g, run, inv) = Skip(g, run, x, inv.input)
    BY <1>1, <1>4 DEF RunNode
  <2> QED BY <2>1, SkippedLoops
<1>5. CASE ~inv.skipped /\ (Disabled(g, x) \/ g.nodes[x].pinned)
  <2>1. CASE Disabled(g, x)
    BY <1>1, <1>5, <2>1, CompletedLoops DEF RunNode
  <2>2. CASE ~Disabled(g, x) /\ g.nodes[x].pinned
    BY <1>1, <1>5, <2>2, CompletedLoops DEF RunNode
  <2> QED BY <1>5, <2>1, <2>2
<1>6. CASE ~inv.skipped /\ ~Disabled(g, x) /\ ~g.nodes[x].pinned
  <2>1. RunNode(g, run, inv) = IF PerItem(g, x, input)
                                 THEN FinishItems(g, run, x, input, 1, NoOutput(g, x))
                                 ELSE InvokeWhole(g, run, x, input)
    BY <1>1, <1>3, <1>6 DEF RunNode
  <2>2. CASE PerItem(g, x, input)
    <3>1. NoOutput(g, x) \in OutputOf(g, x)
      BY OutputShapes
    <3>2. FinishItems(g, run, x, input, 1, NoOutput(g, x)).loops = run.loops
      BY <3>1, FinishedLoops
    <3> QED BY <2>1, <2>2, <3>2
  <2>3. CASE ~PerItem(g, x, input)
    <3>1. PICK ran : ran = Execute(g, run, x, input)
      OBVIOUS
    <3>2. run.loops[x] \in LoopState /\ run.loops \in [g.active -> LoopState]
      BY DEF RunOK
    <3>3. ran.failed \in BOOLEAN
      BY <3>1, <3>2, ExecuteIs
    <3>4. PICK tried :
             /\ Called(g, run, x, input, ran, tried)
             /\ ~ran.failed => InvokeWhole(g, run, x, input)
                    = Complete(g, tried, x, input, WithEmptyItem(g, x, WithErrorPort(g, x, ran.output)))
             /\ ran.failed /\ g.nodes[x].onError = "stop" =>
                    /\ InvokeWhole(g, run, x, input).status = "failed"
                    /\ InvokeWhole(g, run, x, input).loops = tried.loops
             /\ ran.failed /\ g.nodes[x].onError # "stop" => InvokeWhole(g, run, x, input)
                    = Complete(g, tried, x, input, WithEmptyItem(g, x, ToleratedOutput(g, x, input)))
      BY <3>1, CalledIs
    <3>5. RunOK(g, tried) /\ tried.loops[n] = run.loops[n]
      BY <1>1, <3>2, <3>4 DEF Called
    <3>6. InvokeWhole(g, run, x, input).loops = tried.loops
      <4>1. CASE ~ran.failed
        BY <3>4, <3>5, <4>1, CompletedLoops
      <4>2. CASE ran.failed /\ g.nodes[x].onError = "stop"
        BY <3>4, <4>2
      <4>3. CASE ran.failed /\ g.nodes[x].onError # "stop"
        BY <3>4, <3>5, <4>3, CompletedLoops
      <4> QED BY <3>3, <4>1, <4>2, <4>3
    <3> QED BY <2>1, <2>3, <3>5, <3>6
  <2> QED BY <2>2, <2>3
<1> QED BY <1>2, <1>4, <1>5, <1>6

LEMMA AddsOnly ==
    ASSUME NEW g, NEW x, NEW s \in Seq(RowOf(g)), NEW t \in Seq(RowOf(g)), NEW row, row.node = x,
           Adds(g, x, s, t, row), NEW n, n # x \/ row.what # "ran"
    PROVE  NoTurn(s, t, n)
<1>1. PICK i \in Nat, j \in Nat : i = Len(s) /\ j = Len(t)
  OBVIOUS
<1>2. ASSUME NEW k \in i + 1 .. j PROVE ~(t[k].node = n /\ t[k].what = "ran")
  <2>1. CASE k = j
    BY <1>1, <2>1 DEF Adds
  <2>2. CASE k # j
    <3>1. k \in i + 1 .. j - 1
      BY <2>2
    <3>2. t[k] \in FailedRows(g, x)
      BY <1>1, <3>1 DEF Adds
    <3> QED BY <3>2 DEF FailedRows
  <2> QED BY <2>1, <2>2
<1> QED BY <1>1, <1>2 DEF Adds, NoTurn

\* A call of a loop that does not fail is a turn of it.
LEMMA LoopEnds ==
    ASSUME NEW g, GraphOK(g), NEW run, RunOK(g, run), NEW n \in LoopNodes(g),
           NEW input \in Input, NEW ran, ran = Execute(g, run, n, input), ~ran.failed
    PROVE  LET end == InvokeWhole(g, run, n, input)
           IN  Turn(g, run.rows, end.rows, n, run.loops[n], end.loops[n])
<1>n. n \in g.active /\ KindOf(g, n) = "loop" /\ ~g.nodes[n].always
  BY DEF LoopNodes, IsLoopNode
<1>1. PICK loop \in LoopState : loop = run.loops[n]
  BY <1>n DEF RunOK
<1>2. PICK items \in Stream : items = input[1]
  BY InputIs
<1>3. ran = ExecuteLoop(loop, items)
  BY <1>n, <1>1, <1>2 DEF Execute
<1>4. PICK collected : collected = IF loop.on THEN loop.collected \o items ELSE <<>>
  OBVIOUS
<1>5. collected \in Stream /\ LoopCalled(loop, collected, ran)
  BY <1>3, <1>4, LoopIs
<1>6. ran.output \in Seq(Stream)
  BY <1>n, <1>1, ExecuteIs
<1>7. PICK output \in OutputOf(g, n) : output = WithErrorPort(g, n, ran.output)
  BY <1>n, <1>6, OutputShapes
<1>8. WithEmptyItem(g, n, output) = output
  BY <1>n, UnchangedOutput
<1>9. PICK tried : /\ Called(g, run, n, input, ran, tried)
                   /\ InvokeWhole(g, run, n, input) = Complete(g, tried, n, input, output)
  <2>1. PICK t :
             /\ Called(g, run, n, input, ran, t)
             /\ ~ran.failed => InvokeWhole(g, run, n, input)
                    = Complete(g, t, n, input, WithEmptyItem(g, n, WithErrorPort(g, n, ran.output)))
             /\ ran.failed /\ g.nodes[n].onError = "stop" =>
                    /\ InvokeWhole(g, run, n, input).status = "failed"
                    /\ InvokeWhole(g, run, n, input).loops = t.loops
             /\ ran.failed /\ g.nodes[n].onError # "stop" => InvokeWhole(g, run, n, input)
                    = Complete(g, t, n, input, WithEmptyItem(g, n, ToleratedOutput(g, n, input)))
    BY <1>n, CalledIs
  <2> QED BY <1>7, <1>8, <2>1
<1>10. PICK end : end = InvokeWhole(g, run, n, input)
  OBVIOUS
<1>11. PICK row : row = Row(n, input, output, "ran")
  OBVIOUS
<1>12. /\ row \in RowOf(g) /\ row.node = n /\ row.what = "ran" /\ row.input[1] \in Stream
       /\ row.input[1] = items /\ row.output = output
  <2>1. output \in Seq(Stream)
    BY <1>n, OutputShapes
  <2>2. row \in RowOf(g)
    BY <1>n, <1>11, <2>1, RowIs
  <2> QED BY <1>2, <1>11, <2>2 DEF Row
<1>13. end.rows = Append(run.rows, row) /\ end.loops[n] = ran.loop
  <2>1. RunOK(g, tried) /\ tried.rows = run.rows /\ tried.loops = [run.loops EXCEPT ![n] = ran.loop]
    BY <1>9 DEF Called
  <2>2. end.rows = Append(tried.rows, row) /\ end.loops = tried.loops
    BY <1>9, <1>10, <1>11, <2>1, CompletedLoops
  <2>3. run.loops \in [g.active -> LoopState]
    BY DEF RunOK
  <2> QED BY <1>n, <2>1, <2>2, <2>3
<1>14. 1 \in 1 .. Outputs(g, n) /\ 2 \in 1 .. Outputs(g, n)
  BY <1>n, LoopPorts
<1>15. output = [o \in 1 .. Outputs(g, n) |-> IF o \in DOMAIN ran.output THEN ran.output[o] ELSE <<>>]
  BY <1>7 DEF WithErrorPort
<1>16. \/ output[2] = <<>> /\ output[1] = collected /\ ~end.loops[n].on
       \/ output[2] # <<>> /\ end.loops[n].on /\ end.loops[n].collected = collected
  <2>1. CASE ran = [failed |-> FALSE, output |-> <<collected, <<>>>>, loop |-> NewLoop]
    <3>1. PICK empty : empty = <<>>
      OBVIOUS
    <3>2. PICK pair : pair = <<collected, empty>>
      OBVIOUS
    <3>3. ran.output = pair /\ ran.loop = NewLoop
      BY <2>1, <3>1, <3>2
    <3>4. DOMAIN pair = 1 .. 2 /\ pair[1] = collected /\ pair[2] = empty
      BY <3>2
    <3>5. output[1] = collected /\ output[2] = empty
      BY <1>14, <1>15, <3>3, <3>4
    <3>6. ~end.loops[n].on
      BY <1>13, <3>3 DEF NewLoop
    <3> QED BY <3>1, <3>5, <3>6
  <2>2. CASE ran = [failed |-> TRUE, output |-> NoInput, loop |-> loop]
    BY <2>2
  <2>3. ASSUME NEW batch \in Stream, NEW rest \in Stream, NEW k \in Nat, batch # <<>>,
               ran = [failed |-> FALSE, output |-> <<<<>>, batch>>,
                      loop |-> [on |-> TRUE, pending |-> rest, collected |-> collected,
                                iteration |-> k]]
        PROVE  output[2] # <<>> /\ end.loops[n].on /\ end.loops[n].collected = collected
    <3>1. PICK pair : pair = <<<<>>, batch>>
      OBVIOUS
    <3>2. ran.output = pair
      BY <2>3, <3>1
    <3>3. DOMAIN pair = 1 .. 2 /\ pair[2] = batch
      BY <3>1
    <3>4. output[2] = batch
      BY <1>14, <1>15, <3>2, <3>3
    <3>5. end.loops[n].on /\ end.loops[n].collected = collected
      BY <1>13, <2>3
    <3> QED BY <2>3, <3>4, <3>5
  <2> QED BY <1>5, <2>1, <2>2, <2>3 DEF LoopCalled
<1>17. Turn(g, run.rows, end.rows, n, loop, end.loops[n])
  <2>1. collected = IF loop.on THEN loop.collected \o row.input[1] ELSE <<>>
    BY <1>4, <1>12
  <2>2. \/ row.output[2] = <<>> /\ row.output[1] = collected /\ ~end.loops[n].on
        \/ row.output[2] # <<>> /\ end.loops[n].on /\ end.loops[n].collected = collected
    BY <1>12, <1>16
  <2>3. \E c : /\ end.rows = Append(run.rows, row) /\ row.node = n /\ row.what = "ran"
               /\ row.input[1] \in Stream
               /\ c = IF loop.on THEN loop.collected \o row.input[1] ELSE <<>>
               /\ \/ row.output[2] = <<>> /\ row.output[1] = c /\ ~end.loops[n].on
                  \/ row.output[2] # <<>> /\ end.loops[n].on /\ end.loops[n].collected = c
    BY <1>12, <1>13, <2>1, <2>2
  <2> QED BY <1>12, <2>3 DEF Turn
<1> QED BY <1>1, <1>10, <1>17

\* A step of a run is a turn of a loop, or leaves it aside.
LEMMA LoopTurns ==
    ASSUME NEW g, GraphOK(g), NEW run, RunOK(g, run), run.status = "running",
           NEW inv \in Call(g), NEW n \in LoopNodes(g), NEW end, end = RunNode(g, run, inv)
    PROVE  \/ Aside(run.rows, end.rows, n, run.loops[n], end.loops[n])
           \/ Turn(g, run.rows, end.rows, n, run.loops[n], end.loops[n])
<1>n. /\ n \in g.active /\ KindOf(g, n) = "loop" /\ ~Disabled(g, n) /\ ~g.nodes[n].pinned
      /\ g.nodes[n].onError = "stop"
  BY DEF LoopNodes, IsLoopNode
<1>1. RunOK(g, end) /\ Invoked(g, run, inv, end)
  BY RunNodeOK, RunNodeIs
<1>r. run.rows \in Seq(RowOf(g)) /\ end.rows \in Seq(RowOf(g))
  BY <1>1 DEF RunOK
<1>2. CASE n # inv.node
  <2>1. end.loops[n] = run.loops[n]
    BY <1>n, <1>2, OthersLoops
  <2>2. PICK row : Adds(g, inv.node, run.rows, end.rows, row) /\ row.node = inv.node
    BY <1>1, InvokedLeaves DEF Leaves
  <2>3. NoTurn(run.rows, end.rows, n)
    BY <1>r, <1>2, <2>2, AddsOnly
  <2> QED BY <2>1, <2>3 DEF Aside
<1>3. CASE n = inv.node /\ inv.skipped
  <2>1. end = Skip(g, run, n, inv.input)
    BY <1>3 DEF RunNode
  <2>2. end.loops[n] = run.loops[n]
    BY <2>1, SkippedLoops
  <2>3. SkippedBy(g, run, inv, end)
    BY <1>1, <1>3 DEF Invoked, FinishedBy, StoppedBy
  <2>4. PICK row : row = Row(n, inv.input, NoOutput(g, n), "skipped")
    OBVIOUS
  <2>5. Adds(g, n, run.rows, end.rows, row) /\ row.node = n /\ row.what # "ran"
    BY <1>3, <2>3, <2>4 DEF SkippedBy, Row
  <2>6. NoTurn(run.rows, end.rows, n)
    BY <1>r, <2>5, AddsOnly
  <2> QED BY <2>2, <2>6 DEF Aside
<1>4. CASE n = inv.node /\ ~inv.skipped
  <2>1. PICK input \in Input : input = Seen(g, inv)
    BY SeenIs DEF Call
  <2>2. ~PerItem(g, n, input)
    BY <1>n DEF PerItem
  <2>3. end = InvokeWhole(g, run, n, input)
    BY <1>n, <1>4, <2>1, <2>2 DEF RunNode
  <2>4. PICK ran : ran = Execute(g, run, n, input)
    OBVIOUS
  <2>5. PICK loop \in LoopState : loop = run.loops[n]
    BY <1>n DEF RunOK
  <2>6. ran.failed \in BOOLEAN
    BY <1>n, <2>4, <2>5, ExecuteIs
  <2>7. CASE ~ran.failed
    BY <2>3, <2>4, <2>7, LoopEnds
  <2>8. CASE ran.failed
    <3>1. ran.loop = loop
      <4>1. PICK items \in Stream : items = input[1]
        BY InputIs
      <4>2. ran = ExecuteLoop(loop, items)
        BY <1>n, <2>4, <2>5, <4>1 DEF Execute
      <4>3. PICK collected : collected = IF loop.on THEN loop.collected \o items ELSE <<>>
        OBVIOUS
      <4>4. LoopCalled(loop, collected, ran)
        BY <4>2, <4>3, LoopIs
      <4> QED BY <2>8, <4>4 DEF LoopCalled
    <3>2. PICK tried :
             /\ Called(g, run, n, input, ran, tried)
             /\ ~ran.failed => InvokeWhole(g, run, n, input)
                    = Complete(g, tried, n, input, WithEmptyItem(g, n, WithErrorPort(g, n, ran.output)))
             /\ ran.failed /\ g.nodes[n].onError = "stop" =>
                    /\ InvokeWhole(g, run, n, input).status = "failed"
                    /\ InvokeWhole(g, run, n, input).loops = tried.loops
             /\ ran.failed /\ g.nodes[n].onError # "stop" => InvokeWhole(g, run, n, input)
                    = Complete(g, tried, n, input, WithEmptyItem(g, n, ToleratedOutput(g, n, input)))
      BY <1>n, <2>4, CalledIs
    <3>3. end.status = "failed" /\ end.loops = [run.loops EXCEPT ![n] = loop]
      BY <1>n, <2>3, <2>8, <3>1, <3>2 DEF Called
    <3>4. end.loops[n] = loop
      BY <1>n, <3>3 DEF RunOK
    <3>5. PICK given \in Input : StoppedBy(g, run, inv, end, given)
      BY <1>1, <3>3 DEF Invoked, SkippedBy, FinishedBy
    <3>6. PICK row : row = Row(n, given, <<>>, "failed")
      OBVIOUS
    <3>7. Adds(g, n, run.rows, end.rows, row) /\ row.node = n /\ row.what # "ran"
      BY <1>4, <3>5, <3>6 DEF StoppedBy, Row
    <3>8. NoTurn(run.rows, end.rows, n)
      BY <1>r, <3>7, AddsOnly
    <3> QED BY <2>5, <3>4, <3>8 DEF Aside
  <2> QED BY <2>6, <2>7, <2>8
<1>5. inv.skipped \in BOOLEAN
  BY DEF Call
<1> QED BY <1>2, <1>3, <1>4, <1>5

LEMMA StartLoops ==
    ASSUME NEW g, GraphOK(g)
    PROVE  Loops(g, NewRun(g))
<1>1. PICK empty : empty = <<>>
  OBVIOUS
<1>2. PICK run : run = NewRun(g)
  OBVIOUS
<1>3. run.rows = empty /\ Len(empty) = 0 /\ \A n \in g.active : run.loops[n] = NewLoop
  <2>1. run.rows = empty /\ run.loops = [n \in g.active |-> NewLoop]
    BY <1>1, <1>2, Zenon DEF NewRun
  <2> QED BY <1>1, <2>1
<1>4. SUFFICES ASSUME NEW n \in LoopNodes(g) PROVE LoopKept(empty, n, NewLoop)
  BY <1>2, <1>3 DEF Loops, LoopNodes
<1>5. Turns(empty, n, 0) = {} /\ OpenAt(empty, n, 0) = {}
  <2>1. Turns(empty, n, 0) = {}
    BY DEF Turns
  <2> QED BY <2>1 DEF OpenAt
<1>6. HoldsReturns(empty, n, NewLoop)
  BY <1>3, <1>5 DEF HoldsReturns, NewLoop
<1>7. HandsOn(empty, n)
  BY <1>3 DEF HandsOn
<1>8. GivenItems(empty, Turns(empty, n, Len(empty)))
  BY <1>3, <1>5 DEF GivenItems
<1> QED BY <1>6, <1>7, <1>8 DEF LoopKept

LEMMA RecordedLoops ==
    ASSUME NEW g, GraphOK(g), NEW run, RunOK(g, run)
    PROVE  RecordSkips(g, run).loops = run.loops
<1>1. PICK order : order = Upwards({n \in g.active : ~Completed(run, n) /\ ~IsAnnotation(g, n)})
  OBVIOUS
<1>2. PICK rows : rows = run.rows \o [i \in DOMAIN order |->
                            Row(order[i], NoInput, NoOutput(g, order[i]), "unreached")]
  OBVIOUS
<1>3. PICK status, stack, completed, loops, old :
        run = [status |-> status, pending |-> stack, completed |-> completed,
               loops |-> loops, rows |-> old]
  BY DEF RunOK
<1>4. PICK end : end = RecordSkips(g, run)
  OBVIOUS
<1>5. end = [[run EXCEPT !.status = "succeeded"] EXCEPT !.rows = rows]
  <2>1. [run EXCEPT !.status = "succeeded"].rows = run.rows
    BY <1>3
  <2> QED BY <1>1, <1>2, <1>4, <2>1, Zenon DEF RecordSkips
<1> QED BY <1>3, <1>4, <1>5

LEMMA EndLoops ==
    ASSUME NEW g, GraphOK(g), NEW run, RunOK(g, run), Loops(g, run)
    PROVE  Loops(g, RecordSkips(g, run))
<1>1. PICK end : end = RecordSkips(g, run)
  OBVIOUS
<1>2. end.loops = run.loops
  BY <1>1, RecordedLoops
<1>3. run.rows \in Seq(RowOf(g)) /\ end.rows \in Seq(RowOf(g))
  BY <1>1, RecordSkipsOK DEF RunOK
<1>4. PICK more \in Seq(RowOf(g)) : /\ end.rows = run.rows \o more
                                    /\ \A i \in 1 .. Len(more) : more[i].what = "unreached"
  <2>1. AddsUnreached(g, run.rows, end.rows)
    BY <1>1, RecordSkipsOK
  <2> QED BY <2>1 DEF AddsUnreached
<1>5. PICK i \in Nat, j \in Nat : i = Len(run.rows) /\ j = Len(more)
  BY <1>3
<1>6. /\ Len(end.rows) = i + j
      /\ \A k \in 1 .. i + j : end.rows[k] = IF k <= i THEN run.rows[k] ELSE more[k - i]
  BY <1>3, <1>4, <1>5, ConcatProperties
<1>7. \A k \in i + 1 .. i + j : end.rows[k].what # "ran"
  <2>1. TAKE k \in i + 1 .. i + j
  <2>2. k - i \in 1 .. j /\ k \in 1 .. i + j /\ ~(k <= i)
    OBVIOUS
  <2>3. end.rows[k] = more[k - i]
    BY <1>6, <2>2
  <2> QED BY <1>4, <1>5, <2>2, <2>3
<1>8. Grows(run.rows, end.rows)
  BY <1>3, <1>4, AppendGrows
<1>9. \A n \in LoopNodes(g) : LoopKept(end.rows, n, end.loops[n])
  <2>1. TAKE n \in LoopNodes(g)
  <2>2. LoopKept(run.rows, n, run.loops[n])
    BY DEF Loops
  <2>3. Aside(run.rows, end.rows, n, run.loops[n], end.loops[n])
    BY <1>2, <1>5, <1>6, <1>7, <1>8 DEF Aside, NoTurn
  <2> QED BY <1>3, <2>2, <2>3, AsideKeeps
<1> QED BY <1>1, <1>9 DEF Loops

LEMMA OnwardLoops ==
    ASSUME NEW g, GraphOK(g), NEW run, RunOK(g, run), Loops(g, run), run.status = "running"
    PROVE  Loops(g, Onward(g, run))
<1>1. CASE HasNext(g, run) = {}
  BY <1>1, EndLoops DEF Onward
<1>2. CASE HasNext(g, run) # {}
  <2>2. PICK i : i \in HasNext(g, run)
    BY <1>2
  <2>3. i \in 0 .. Len(run.pending) /\ Min(HasNext(g, run)) = i /\ Invocation(g, run, i) \in Call(g)
    BY <2>2, NextIs
  <2>4. PICK inv \in Call(g) : inv = Invocation(g, run, i)
    BY <2>3
  <2>5. PICK mid : mid = Taken(run, i)
    OBVIOUS
  <2>6. RunOK(g, mid) /\ mid.rows = run.rows /\ mid.status = run.status
    BY <2>3, <2>5, TakenOK
  <2>7. mid.loops = run.loops
    BY <2>3, <2>5, TakenOK
  <2>8. PICK end : end = RunNode(g, mid, inv)
    OBVIOUS
  <2>9. Onward(g, run) = end
    BY <1>2, <2>3, <2>4, <2>5, <2>8 DEF Onward
  <2>10. RunOK(g, end)
    BY <2>6, <2>8, RunNodeOK
  <2>11. run.rows \in Seq(RowOf(g)) /\ end.rows \in Seq(RowOf(g))
    BY <2>10 DEF RunOK
  <2>12. \A n \in LoopNodes(g) : LoopKept(end.rows, n, end.loops[n])
    <3>1. TAKE n \in LoopNodes(g)
    <3>2. LoopKept(run.rows, n, run.loops[n])
      BY DEF Loops
    <3>3. \/ Aside(run.rows, end.rows, n, run.loops[n], end.loops[n])
          \/ Turn(g, run.rows, end.rows, n, run.loops[n], end.loops[n])
      BY <2>6, <2>7, <2>8, LoopTurns
    <3> QED BY <2>11, <3>2, <3>3, AsideKeeps, TurnKeeps
  <2> QED BY <2>9, <2>12 DEF Loops
<1> QED BY <1>1, <1>2

\* In every state of an uninterrupted run the loops hold what came back to them.
LEMMA OrbitLoops ==
    ASSUME NEW g, GraphOK(g), NEW N \in Nat, NEW s, Orbit(g, s, N)
    PROVE  \A k \in 0 .. N : Loops(g, s[k])
<1>1. PICK U : U = {k \in 0 .. N : Loops(g, s[k])}
  OBVIOUS
<1>2. PICK w : w = [k \in 0 .. N |-> k]
  OBVIOUS
<1>3. w[0] \in U
  <2>1. Loops(g, s[0])
    BY StartLoops DEF Orbit
  <2>2. 0 \in 0 .. N
    OBVIOUS
  <2> QED BY <1>1, <1>2, <2>1, <2>2
<1>4. \A k \in 1 .. N : w[k - 1] \in U => w[k] \in U
  <2>1. TAKE k \in 1 .. N
  <2>2. HAVE w[k - 1] \in U
  <2>3. k - 1 \in 0 .. N /\ k \in 0 .. N /\ w[k - 1] = k - 1 /\ w[k] = k
    BY <1>2
  <2>4. PICK run : run = s[k - 1]
    OBVIOUS
  <2>5. Loops(g, run) /\ RunOK(g, run)
    BY <1>1, <2>2, <2>3, <2>4 DEF Orbit
  <2>6. run.status = "running" /\ s[k] = Onward(g, run)
    BY <2>4 DEF Orbit
  <2>7. Loops(g, s[k])
    BY <2>5, <2>6, OnwardLoops
  <2> QED BY <1>1, <2>3, <2>7
<1>5. \A k \in 0 .. N : w[k] \in U
  BY <1>3, <1>4, StaysIn
<1> QED BY <1>1, <1>2, <1>5

\* What came back in the pass that row i ends is what the passes before it left open.
LEMMA ReturnedIs ==
    ASSUME NEW rows, NEW i \in Nat, i # 0, NEW n, n = rows[i].node, rows[i].what = "ran"
    PROVE  ReturnedTo(rows, i) = Collected(rows, OpenAt(rows, n, i - 1) \cup {i})
<1>1. PICK mine : mine = {j \in 1 .. i : rows[j].node = rows[i].node /\ rows[j].what = "ran"}
  OBVIOUS
<1>2. PICK ended : ended = {j \in mine \ {i} : rows[j].output[2] = <<>>}
  OBVIOUS
<1>3. PICK all : all = {j \in mine : \A k \in ended : k < j}
  OBVIOUS
<1>4. ReturnedTo(rows, i) = Collected(rows, all)
  BY <1>1, <1>2, <1>3, Zenon DEF ReturnedTo, Collected
<1>5. PICK h \in Nat : h = i - 1
  OBVIOUS
<1>6. \A j : j \in mine <=> j \in Turns(rows, n, h) \/ j = i
  <2>1. \A j : j \in 1 .. i <=> j \in 1 .. h \/ j = i
    BY <1>5
  <2>2. \A j : j \in mine <=> j \in 1 .. i /\ rows[j].node = n /\ rows[j].what = "ran"
    BY <1>1
  <2>3. \A j : j \in Turns(rows, n, h) <=> j \in 1 .. h /\ rows[j].node = n /\ rows[j].what = "ran"
    BY DEF Turns
  <2> QED BY <2>1, <2>2, <2>3
<1>7. \A j \in Turns(rows, n, h) : j < i /\ j # i
  BY <1>5 DEF Turns
<1>8. \A j : j \in ended <=> j \in Turns(rows, n, h) /\ rows[j].output[2] = <<>>
  BY <1>2, <1>6, <1>7
<1>9. \A j : j \in all <=> j \in OpenAt(rows, n, h) \/ j = i
  <2>1. ASSUME NEW j \in all PROVE j \in OpenAt(rows, n, h) \/ j = i
    BY <1>3, <1>6, <1>8, <2>1 DEF OpenAt
  <2>2. ASSUME NEW j \in OpenAt(rows, n, h) PROVE j \in all
    BY <1>3, <1>6, <1>8, <2>2 DEF OpenAt
  <2>3. i \in all
    BY <1>3, <1>6, <1>7, <1>8
  <2> QED BY <2>1, <2>2, <2>3
<1>10. all = OpenAt(rows, n, h) \cup {i}
  BY <1>9
<1> QED BY <1>4, <1>5, <1>10

\* What the property says of one run.
LoopsOf(run) ==
    \A i \in DOMAIN run.rows :
        LET row == run.rows[i]
        IN  IsPlainLoop(row.node) /\ row.what = "ran" /\ row.output[2] = <<>>
              => row.output[1] = ReturnedTo(run.rows, i)

LEMMA LoopsSay ==
    ASSUME NEW run, run.rows \in Seq(RowOf(graph)), NEW other, other.rows = run.rows,
           Loops(graph, other)
    PROVE  LoopsOf(run)
<1>1. PICK rows \in Seq(RowOf(graph)) : rows = run.rows
  OBVIOUS
<1>2. SUFFICES ASSUME NEW i \in 1 .. Len(rows), IsPlainLoop(rows[i].node),
                      rows[i].what = "ran", rows[i].output[2] = <<>>
               PROVE  rows[i].output[1] = ReturnedTo(rows, i)
  BY <1>1 DEF LoopsOf
<1>3. PICK n : n = rows[i].node
  OBVIOUS
<1>4. n \in LoopNodes(graph)
  <2>1. n \in graph.active
    <3>1. rows[i] \in RowOf(graph)
      OBVIOUS
    <3> QED BY <1>3, <3>1 DEF RowOf
  <2> QED BY <1>2, <1>3, <2>1 DEF LoopNodes, IsLoopNode, IsPlainLoop
<1>5. HandsOn(rows, n)
  BY <1>1, <1>4 DEF Loops, LoopKept
<1>6. rows[i].output[1] = Collected(rows, OpenAt(rows, n, i - 1) \cup {i})
  BY <1>2, <1>3, <1>5 DEF HandsOn
<1>7. i \in Nat /\ i # 0
  OBVIOUS
<1> QED BY <1>2, <1>3, <1>6, <1>7, ReturnedIs

\* What a loop hands on at its end is what its body returned in that pass, whatever
\* suspended in between, for every graph, batch size and bound on iterations.
THEOREM LoopsHandOn == Spec => []LoopsHandOnTheirReturns
<1>1. OrbitInv => LoopsHandOnTheirReturns
  <2>1. SUFFICES ASSUME OrbitInv PROVE LoopsOf(plain) /\ LoopsOf(live)
    BY DEF LoopsHandOnTheirReturns, LoopsOf
  <2>20. PICK N \in Nat : \E s : \E k \in 0 .. N : Along(graph, s, N, k)
    BY <2>1 DEF OrbitInv
  <2>2. PICK s : \E k \in 0 .. N : Along(graph, s, N, k)
    BY <2>20
  <2>3. PICK k \in 0 .. N : Along(graph, s, N, k)
    BY <2>2
  <2>4. Orbit(graph, s, N) /\ plain = s[N] /\ GraphOK(graph)
    BY <2>1, <2>3 DEF Along, OrbitInv
  <2>5. live.rows = s[k].rows
    BY <2>3, LiveIs
  <2>6. Loops(graph, s[N]) /\ Loops(graph, s[k])
    <3>1. \A i \in 0 .. N : Loops(graph, s[i])
      BY <2>4, OrbitLoops
    <3> QED BY <3>1
  <2>8. plain.rows \in Seq(RowOf(graph)) /\ live.rows \in Seq(RowOf(graph))
    BY <2>1, OrbitRows
  <2>9. LoopsOf(plain)
    BY <2>4, <2>6, <2>8, LoopsSay
  <2>10. LoopsOf(live)
    BY <2>5, <2>6, <2>8, LoopsSay
  <2> QED BY <2>9, <2>10
<1> QED BY <1>1, OrbitInvariant, PTL

=============================================================================
