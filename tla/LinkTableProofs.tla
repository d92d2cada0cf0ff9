---------------------------- MODULE LinkTableProofs ----------------------------
(***************************************************************************)
(* Proofs about LinkTable: memory and database agree, whatever is set,     *)
(* renamed or removed, and after a statement has failed a restart makes    *)
(* them agree again.                                                       *)
(***************************************************************************)
EXTENDS LinkTable, FiniteSetTheorems, SequenceTheorems, WellFoundedInduction, TLAPS

-------------------------------------------------------------------------------
(* Numbers and loops *)

LEMMA Least ==
    ASSUME NEW S \in SUBSET Nat, S # {}
    PROVE  \E x \in S : \A y \in S : x <= y
  <1>1. PICK x \in S : \A y \in S : ~ (<<y, x>> \in OpToRel(<, Nat))
    BY NatLessThanWellFounded, WFMin
  <1>2. \A y \in S : ~ (y < x)
    BY <1>1 DEF OpToRel
  <1>. QED BY <1>2

LEMMA Greatest ==
    ASSUME NEW n \in Nat, NEW S \in SUBSET (0..n), S # {}
    PROVE  Max(S) \in S /\ \A y \in S : Max(S) >= y
  <1>. DEFINE D == {d \in 0..n : n - d \in S}
  <1>1. D \in SUBSET Nat /\ D # {}
    <2>1. PICK y \in S : y \in 0..n
      OBVIOUS
    <2>2. n - y \in 0..n /\ n - (n - y) = y
      BY <2>1
    <2>3. n - y \in D
      BY <2>1, <2>2
    <2>4. D \in SUBSET Nat
      OBVIOUS
    <2>. HIDE DEF D
    <2>. QED BY <2>3, <2>4
  <1>2. PICK d \in D : \A e \in D : d <= e
    BY <1>1, Least
  <1>3. PICK x \in S : d = n - x /\ d \in 0..n
    <2>1. n - d \in S /\ d \in 0..n /\ d = n - (n - d)
      BY <1>2
    <2>. QED BY <2>1
  <1>4. \A y \in S : x >= y
    <2>. SUFFICES ASSUME NEW y \in S PROVE x >= y
      OBVIOUS
    <2>1. y \in 0..n /\ n - y \in 0..n /\ n - (n - y) = y
      OBVIOUS
    <2>2. n - y \in D
      BY <2>1
    <2>3. d <= n - y /\ x = n - d /\ d \in 0..n
      BY <1>2, <1>3, <2>2
    <2>. HIDE DEF D
    <2>. QED BY <2>1, <2>3
  <1>5. \E z \in S : \A y \in S : z >= y
    BY <1>4
  <1>. QED BY <1>5 DEF Max

LEMMA Interval ==
    ASSUME NEW n \in Nat
    PROVE  IsFiniteSet(1..n) /\ Cardinality(1..n) = n
  BY FS_Interval

\* What a loop makes of S[0] is in S[k] after k rounds.
LEMMA Rounds ==
    ASSUME NEW n \in Nat, NEW S, NEW r, r[0] \in S[0],
           \A k \in 1..n : r[k - 1] \in S[k - 1] => r[k] \in S[k]
    PROVE  \A k \in 0..n : r[k] \in S[k]
  <1>. DEFINE Bad == {k \in 0..n : r[k] \notin S[k]}
  <1>. SUFFICES ASSUME Bad # {} PROVE FALSE
    OBVIOUS
  <1>0. Bad \in SUBSET Nat
    OBVIOUS
  <1>1. PICK k \in Bad : \A j \in Bad : k <= j
    <2>. HIDE DEF Bad
    <2>. QED BY <1>0, Least
  <1>2. k \in 1..n /\ k - 1 \in 0..n
    BY <1>1
  <1>3. k - 1 \notin Bad
    BY <1>1, <1>2
  <1>. QED BY <1>1, <1>2, <1>3

Steps(n, T, S, s, G) ==
    /\ n \in Nat /\ S \in [0..n -> SUBSET T] /\ s \in S[0]
    /\ \A k \in 1..n : \A t \in S[k - 1] : G[k][t] \in S[k]

Runs(n, T, S, s, G) ==
    \E f \in [0..n -> T] :
        f[0] = s /\ \A k \in 1..n : f[k - 1] \in S[k - 1] /\ f[k] = G[k][f[k - 1]]

LEMMA Recursion ==
    ASSUME NEW n, NEW T, NEW S, NEW s, NEW G, Steps(n, T, S, s, G)
    PROVE  Runs(n, T, S, s, G)
  <1>. /\ n \in Nat /\ S \in [0..n -> SUBSET T] /\ s \in S[0]
       /\ \A k \in 1..n : \A t \in S[k - 1] : G[k][t] \in S[k]
    BY DEF Steps
  <1>. DEFINE Run(f, m) == /\ f \in [0..m -> T] /\ f[0] = s
                           /\ \A k \in 0..m : f[k] \in S[k]
                           /\ \A k \in 1..m : f[k] = G[k][f[k - 1]]
              Ends == {m \in 0..n : \E f : Run(f, m)}
              B == [m \in 0..n |-> Ends]
              r == [m \in 0..n |-> m]
  <1>1. 0 \in Ends
    <2>. DEFINE e == [k \in 0..0 |-> s]
    <2>1. Run(e, 0)
      OBVIOUS
    <2>. HIDE DEF e, Run
    <2>. QED BY <2>1
  <1>2. ASSUME NEW m \in 1..n, m - 1 \in Ends PROVE m \in Ends
    <2>1. PICK f : Run(f, m - 1)
      BY <1>2
    <2>. DEFINE g == [k \in 0..m |-> IF k = m THEN G[m][f[m - 1]] ELSE f[k]]
    <2>2. /\ g[m] = G[m][f[m - 1]] /\ f[m - 1] \in S[m - 1] /\ g[m] \in S[m]
          /\ \A k \in 0..(m - 1) : g[k] = f[k] /\ k \in 0..n
      BY <2>1
    <2>3. g[0] = s /\ \A k \in 0..m : g[k] \in S[k] /\ S[k] \subseteq T
      BY <2>1, <2>2
    <2>4. g \in [0..m -> T]
      BY <2>3
    <2>5. \A k \in 1..m : g[k] = G[k][g[k - 1]]
      <3>. SUFFICES ASSUME NEW k \in 1..m PROVE g[k] = G[k][g[k - 1]]
        OBVIOUS
      <3>. HIDE DEF g
      <3>1. CASE k = m
        BY <2>2, <3>1
      <3>2. CASE k # m
        BY <2>1, <2>2, <3>2
      <3>. QED BY <3>1, <3>2
    <2>. HIDE DEF g
    <2>6. Run(g, m)
      BY <2>3, <2>4, <2>5
    <2>. QED BY <2>6
  <1>3. \A k \in 0..n : r[k] \in B[k]
    <2>. HIDE DEF Ends
    <2>1. r[0] \in B[0] /\ \A k \in 1..n : r[k - 1] \in B[k - 1] => r[k] \in B[k]
      BY <1>1, <1>2
    <2>. HIDE DEF r, B
    <2>. QED BY <2>1, Rounds
  <1>4. n \in Ends
    <2>. HIDE DEF Ends
    <2>. QED BY <1>3
  <1>5. PICK f : Run(f, n)
    <2>. HIDE DEF Run
    <2>. QED BY <1>4
  <1>6. \A k \in 1..n : k - 1 \in 0..n
    OBVIOUS
  <1>. QED BY <1>5, <1>6 DEF Runs

-------------------------------------------------------------------------------
(* Ascending order *)

LEMMA InOrderFacts ==
    ASSUME NEW m \in Nat, NEW S \in SUBSET (1..m)
    PROVE  /\ Cardinality(S) \in Nat
           /\ InOrder(S) \in [1..Cardinality(S) -> S]
           /\ \A j, k \in 1..Cardinality(S) : j < k => InOrder(S)[j] < InOrder(S)[k]
           /\ \A x \in S : \E k \in 1..Cardinality(S) : InOrder(S)[k] = x
           /\ \A x \in S, k \in 1..Cardinality(S) :
                Cardinality({y \in S : y < x}) = k - 1 => InOrder(S)[k] = x
  <1>. DEFINE Below(x) == {y \in S : y < x}
              n == Cardinality(S)
              rank == [x \in S |-> Cardinality(Below(x))]
  <1>0. IsFiniteSet(1..m) /\ \A y \in S : y \in Nat
    BY FS_Interval
  <1>1. IsFiniteSet(S) /\ n \in Nat
    BY <1>0, FS_Subset, FS_CardinalityType
  <1>2. \A x \in S : IsFiniteSet(Below(x)) /\ rank[x] \in Nat
    BY <1>1, FS_Subset, FS_CardinalityType
  <1>3. ASSUME NEW x \in S, NEW z \in S, x < z PROVE rank[x] < rank[z]
    <2>1. Below(x) \subseteq Below(z) /\ x \in Below(z) /\ x \notin Below(x)
      <3>1. \A y \in S : y < x => y < z
        <4>. \A y \in S : y \in Nat
          BY <1>0
        <4>. HIDE DEF rank, Below
        <4>. QED BY <1>3
      <3>2. ~ x < x
        BY <1>0
      <3>. QED BY <1>3, <3>1, <3>2
    <2>2. Cardinality(Below(x)) <= Cardinality(Below(z))
          /\ Cardinality(Below(x)) # Cardinality(Below(z))
      BY <1>2, <2>1, FS_Subset
    <2>. HIDE DEF Below
    <2>. QED BY <1>2, <2>2
  <1>4. ASSUME NEW x \in S PROVE rank[x] \in 0..(n - 1)
    <2>1. Below(x) \subseteq S /\ x \notin Below(x)
      OBVIOUS
    <2>2. Cardinality(Below(x)) <= n /\ Cardinality(Below(x)) # n
      BY <1>1, <2>1, FS_Subset
    <2>. HIDE DEF Below, n
    <2>. QED BY <1>1, <1>2, <2>2
  <1>5. rank \in Injection(S, 0..(n - 1))
    <2>1. \A x, z \in S : rank[x] = rank[z] => x = z
      <3>. SUFFICES ASSUME NEW x \in S, NEW z \in S, x # z PROVE rank[x] # rank[z]
        OBVIOUS
      <3>1. x < z \/ z < x
        BY <1>0
      <3>2. rank[x] \in Nat /\ rank[z] \in Nat
        BY <1>2
      <3>3. rank[x] < rank[z] \/ rank[z] < rank[x]
        <4>. HIDE DEF rank
        <4>. QED BY <1>3, <3>1
      <3>. HIDE DEF rank
      <3>. QED BY <3>2, <3>3
    <2>2. rank \in [S -> 0..(n - 1)]
      BY <1>4
    <2>. QED BY <2>1, <2>2 DEF Injection, IsInjective
  <1>6. Cardinality(0..(n - 1)) = n /\ IsFiniteSet(0..(n - 1))
    BY <1>1, FS_Interval
  <1>7. rank \in Surjection(S, 0..(n - 1))
    BY <1>1, <1>5, <1>6, FS_Injection
  <1>8. \A k \in 1..n : \E x \in S : rank[x] = k - 1
    <2>. HIDE DEF rank, n
    <2>1. \A k \in 1..n : k - 1 \in 0..(n - 1)
      BY <1>1
    <2>. QED BY <1>7, <2>1 DEF Surjection
  <1>9. \A k \in 1..n : InOrder(S)[k] \in S /\ rank[InOrder(S)[k]] = k - 1
    <2>1. \A k \in 1..n : \E x \in S : Cardinality({y \in S : y < x}) = k - 1
      BY <1>8
    <2>. QED BY <2>1 DEF InOrder
  <1>10. \A x, z \in S : rank[x] = rank[z] => x = z
    BY <1>5 DEF Injection, IsInjective
  <1>11. \A x \in S, k \in 1..n : Cardinality({y \in S : y < x}) = k - 1 => InOrder(S)[k] = x
    <2>1. \A x \in S : rank[x] = Cardinality({y \in S : y < x})
      OBVIOUS
    <2>. HIDE DEF rank
    <2>2. ASSUME NEW x \in S, NEW k \in 1..n, Cardinality({y \in S : y < x}) = k - 1
          PROVE  InOrder(S)[k] = x
      <3>1. rank[x] = k - 1 /\ InOrder(S)[k] \in S /\ rank[InOrder(S)[k]] = k - 1
        BY <1>9, <2>1, <2>2
      <3>. QED BY <1>10, <3>1
    <2>. QED BY <2>2
  <1>12. InOrder(S) \in [1..n -> S]
    BY <1>9 DEF InOrder
  <1>13. ASSUME NEW j \in 1..n, NEW k \in 1..n, j < k
         PROVE  InOrder(S)[j] < InOrder(S)[k]
    <2>. PICK x, z : x = InOrder(S)[j] /\ z = InOrder(S)[k]
      OBVIOUS
    <2>1. x \in S /\ z \in S /\ rank[x] = j - 1 /\ rank[z] = k - 1 /\ j \in Nat /\ k \in Nat
      BY <1>1, <1>9
    <2>2. ~ z < x /\ z # x
      BY <1>3, <1>13, <2>1
    <2>. QED BY <2>1, <2>2
  <1>14. \A x \in S : rank[x] + 1 \in 1..n /\ InOrder(S)[rank[x] + 1] = x
    <2>. SUFFICES ASSUME NEW x \in S
                  PROVE  rank[x] + 1 \in 1..n /\ InOrder(S)[rank[x] + 1] = x
      OBVIOUS
    <2>1. rank[x] \in 0..(n - 1)
      BY <1>4
    <2>. HIDE DEF rank, n
    <2>2. rank[x] + 1 \in 1..n /\ rank[x] = (rank[x] + 1) - 1
      BY <1>1, <2>1
    <2>3. InOrder(S)[rank[x] + 1] \in S /\ rank[InOrder(S)[rank[x] + 1]] = rank[x]
      BY <1>9, <2>2
    <2>. QED BY <1>10, <2>2, <2>3
  <1>. QED BY <1>1, <1>11, <1>12, <1>13, <1>14

\* An increasing sequence of the members of S is InOrder(S).
LEMMA InOrderUnique ==
    ASSUME NEW m \in Nat, NEW S \in SUBSET (1..m), NEW n \in Nat, NEW f \in [1..n -> S],
           \A j, k \in 1..n : j < k => f[j] < f[k],
           \A x \in S : \E k \in 1..n : f[k] = x
    PROVE  Cardinality(S) = n /\ InOrder(S) = f
  <1>0. \A k \in 1..n : f[k] \in S /\ f[k] \in Nat
    <2>1. \A x \in S : x \in Nat
      OBVIOUS
    <2>. QED BY <2>1
  <1>1. \A j, k \in 1..n : f[j] = f[k] => j = k
    <2>1. \A j, k \in 1..n : j < k \/ k < j \/ j = k
      OBVIOUS
    <2>2. \A j \in 1..n : ~ f[j] < f[j]
      BY <1>0
    <2>. QED BY <2>1, <2>2
  <1>2. f \in Bijection(1..n, S)
    BY <1>1 DEF Bijection, Injection, IsInjective, Surjection
  <1>3. IsFiniteSet(1..n) /\ Cardinality(1..n) = n
    BY FS_Interval
  <1>4. Cardinality(S) = n
    BY <1>2, <1>3, FS_Bijection DEF ExistsBijection
  <1>5. ASSUME NEW k \in 1..n PROVE InOrder(S)[k] = f[k]
    <2>. DEFINE Below == {y \in S : y < f[k]}
                g == [j \in 1..(k - 1) |-> f[j]]
    <2>1. \A j \in 1..n : f[j] < f[k] <=> j < k
      <3>1. \A j \in 1..n : j < k \/ k < j \/ j = k
        OBVIOUS
      <3>2. \A j \in 1..n : j < k => f[j] < f[k]
        OBVIOUS
      <3>3. \A j \in 1..n : k < j => ~ f[j] < f[k]
        BY <1>0
      <3>4. ~ f[k] < f[k]
        BY <1>0
      <3>5. \A j \in 1..n : j < k => ~ (k < j \/ j = k)
        OBVIOUS
      <3>. QED BY <3>1, <3>2, <3>3, <3>4, <3>5
    <2>2. \A j \in 1..(k - 1) : j \in 1..n /\ j < k /\ g[j] = f[j]
      OBVIOUS
    <2>3. \A j \in 1..n : j < k => j \in 1..(k - 1)
      OBVIOUS
    <2>4. g \in [1..(k - 1) -> Below]
      BY <2>1, <2>2
    <2>5. g \in Bijection(1..(k - 1), Below)
      <3>1. \A i, j \in 1..(k - 1) : g[i] = g[j] => i = j
        BY <1>1, <2>2
      <3>2. \A y \in Below : \E j \in 1..(k - 1) : g[j] = y
        BY <2>1, <2>2, <2>3
      <3>. HIDE DEF g, Below
      <3>. QED BY <2>4, <3>1, <3>2 DEF Bijection, Injection, IsInjective, Surjection
    <2>6. IsFiniteSet(1..(k - 1)) /\ Cardinality(1..(k - 1)) = k - 1
      BY FS_Interval
    <2>7. Cardinality(Below) = k - 1
      <3>. HIDE DEF g, Below
      <3>. QED BY <2>5, <2>6, FS_Bijection DEF ExistsBijection
    <2>8. \A x \in S, l \in 1..Cardinality(S) :
             Cardinality({y \in S : y < x}) = l - 1 => InOrder(S)[l] = x
      BY InOrderFacts
    <2>. QED BY <1>0, <1>4, <2>7, <2>8
  <1>6. InOrder(S) \in [1..n -> S]
    BY <1>4, InOrderFacts
  <1>. QED BY <1>4, <1>5, <1>6

LEMMA InOrderAll ==
    ASSUME NEW n \in Nat, NEW S \in SUBSET (1..n), \A k \in 1..n : k \in S
    PROVE  InOrder(S) = [k \in 1..n |-> k] /\ Cardinality(S) = n
  <1>. DEFINE id == [k \in 1..n |-> k]
  <1>1. id \in [1..n -> S]
    OBVIOUS
  <1>2. /\ \A j, k \in 1..n : j < k => id[j] < id[k]
        /\ \A x \in S : \E k \in 1..n : id[k] = x
    OBVIOUS
  <1>. HIDE DEF id
  <1>3. InOrder(S) = id /\ Cardinality(S) = n
    BY <1>1, <1>2, InOrderUnique
  <1>. QED BY <1>3 DEF id

-------------------------------------------------------------------------------
(* Parts of a sequence *)

LEMMA AtFacts ==
    ASSUME NEW V, NEW q \in Seq(V), NEW P \in SUBSET DOMAIN q
    PROVE  /\ At(q, P) \in Seq(V) /\ Len(At(q, P)) <= Len(q)
           /\ Len(At(q, P)) = Cardinality(P) /\ Cardinality(P) \in Nat
           /\ \A k \in DOMAIN At(q, P) : InOrder(P)[k] \in P /\ At(q, P)[k] = q[InOrder(P)[k]]
           /\ \A j, k \in DOMAIN At(q, P) : j < k => InOrder(P)[j] < InOrder(P)[k]
           /\ \A x \in P : \E k \in DOMAIN At(q, P) : InOrder(P)[k] = x
           /\ ToSet(At(q, P)) = {q[k] : k \in P}
  <1>. PICK n \in Nat : n = Len(q)
    OBVIOUS
  <1>. DEFINE p == InOrder(P)
              c == Cardinality(P)
              w == At(q, P)
  <1>1. DOMAIN q = 1..n /\ P \in SUBSET (1..n)
    OBVIOUS
  <1>2. /\ c \in Nat /\ p \in [1..c -> P]
        /\ \A j, k \in 1..c : j < k => p[j] < p[k]
        /\ \A x \in P : \E k \in 1..c : p[k] = x
    BY <1>1, InOrderFacts, ZenonT(60)
  <1>3. c <= n
    <2>. HIDE DEF c, p, w
    <2>1. IsFiniteSet(1..n) /\ Cardinality(1..n) = n
      BY Interval
    <2>. QED BY <1>1, <2>1, FS_Subset DEF c
  <1>4. w = [k \in 1..c |-> q[p[k]]]
    BY DEF At
  <1>. HIDE DEF p, c, w
  <1>5. \A k \in 1..c : w[k] = q[p[k]] /\ w[k] \in V /\ p[k] \in P
    BY <1>1, <1>2, <1>4
  <1>6. w \in Seq(V) /\ Len(w) = c /\ DOMAIN w = 1..c
    <2>1. w \in [1..c -> V]
      BY <1>4, <1>5
    <2>. QED BY <1>2, <2>1
  <1>7. ToSet(w) = {q[k] : k \in P}
    <2>1. \A x \in ToSet(w) : x \in {q[k] : k \in P}
      BY <1>5, <1>6 DEF ToSet
    <2>2. ASSUME NEW x \in P PROVE q[x] \in ToSet(w)
      <3>1. PICK k \in 1..c : p[k] = x
        BY <1>2
      <3>2. w[k] = q[x] /\ k \in DOMAIN w
        BY <1>5, <1>6, <3>1
      <3>. QED BY <3>2 DEF ToSet
    <2>. QED BY <2>1, <2>2
  <1>. QED BY <1>2, <1>3, <1>5, <1>6, <1>7 DEF p, c, w

LEMMA WithoutFacts ==
    ASSUME NEW V, NEW q \in Seq(V), NEW X
    PROVE  /\ Without(q, X) \in Seq(V) /\ Len(Without(q, X)) <= Len(q)
           /\ ToSet(Without(q, X)) = ToSet(q) \ X
           /\ IsInjective(q) => IsInjective(Without(q, X))
  <1>. DEFINE P == {k \in DOMAIN q : q[k] \notin X}
              w == At(q, P)
              p == InOrder(P)
  <1>1. /\ w \in Seq(V) /\ Len(w) <= Len(q)
        /\ \A k \in DOMAIN w : p[k] \in P /\ w[k] = q[p[k]]
        /\ \A j, k \in DOMAIN w : j < k => p[j] < p[k]
        /\ ToSet(w) = {q[k] : k \in P}
    <2>1. P \in SUBSET DOMAIN q
      OBVIOUS
    <2>. HIDE DEF P
    <2>. QED BY <2>1, AtFacts
  <1>2. ToSet(w) = ToSet(q) \ X
    <2>1. {q[k] : k \in P} = ToSet(q) \ X
      BY DEF ToSet
    <2>. HIDE DEF P
    <2>. QED BY <1>1, <2>1
  <1>3. ASSUME IsInjective(q) PROVE IsInjective(w)
    <2>. SUFFICES ASSUME NEW j \in DOMAIN w, NEW k \in DOMAIN w, w[j] = w[k] PROVE j = k
      BY DEF IsInjective
    <2>1. p[j] = p[k] /\ p[j] \in DOMAIN q /\ p[k] \in DOMAIN q
      BY <1>1, <1>3 DEF IsInjective
    <2>2. p[j] \in Nat /\ (j < k \/ k < j \/ j = k)
      <3>. HIDE DEF w, p
      <3>1. DOMAIN q \subseteq Nat /\ DOMAIN w \subseteq Nat
        BY <1>1
      <3>. QED BY <2>1, <3>1
    <2>. HIDE DEF w, p
    <2>. QED BY <1>1, <2>1, <2>2
  <1>4. Without(q, X) = w
    BY DEF Without
  <1>. QED BY <1>1, <1>2, <1>3, <1>4

LEMMA WithoutNone ==
    ASSUME NEW V, NEW q \in Seq(V), NEW X, ToSet(q) \cap X = {}
    PROVE  Without(q, X) = q
  <1>. PICK n \in Nat : n = Len(q)
    OBVIOUS
  <1>. DEFINE id == [k \in 1..n |-> k]
  <1>1. {k \in DOMAIN q : q[k] \notin X} = 1..n
    BY DEF ToSet
  <1>2. InOrder(1..n) = id /\ Cardinality(1..n) = n
    <2>1. 1..n \in SUBSET (1..n) /\ \A k \in 1..n : k \in 1..n
      OBVIOUS
    <2>. QED BY <2>1, InOrderAll
  <1>3. Without(q, X) = [k \in 1..n |-> q[k]]
    BY <1>1, <1>2 DEF Without, At
  <1>. QED BY <1>3

LEMMA WithoutSame ==
    ASSUME NEW q, NEW X, NEW Y, \A v \in ToSet(q) : v \in X <=> v \in Y
    PROVE  Without(q, X) = Without(q, Y)
  <1>1. {k \in DOMAIN q : q[k] \notin X} = {k \in DOMAIN q : q[k] \notin Y}
    BY DEF ToSet
  <1>. QED BY <1>1 DEF Without

LEMMA WithoutTwice ==
    ASSUME NEW V, NEW q \in Seq(V), NEW X, NEW Y
    PROVE  Without(Without(q, X), Y) = Without(q, X \cup Y)
  <1>. PICK n \in Nat : n = Len(q)
    OBVIOUS
  <1>. DEFINE P == {k \in DOMAIN q : q[k] \notin X}
              p == InOrder(P)
              w == At(q, P)
              R == {k \in DOMAIN w : w[k] \notin Y}
              r == InOrder(R)
              v == At(w, R)
              Q == {k \in DOMAIN q : q[k] \notin X \cup Y}
  <1>1. /\ w \in Seq(V)
        /\ \A k \in DOMAIN w : p[k] \in P /\ w[k] = q[p[k]]
        /\ \A j, k \in DOMAIN w : j < k => p[j] < p[k]
        /\ \A x \in P : \E k \in DOMAIN w : p[k] = x
    <2>1. P \in SUBSET DOMAIN q
      OBVIOUS
    <2>. HIDE DEF P
    <2>. QED BY <2>1, AtFacts
  <1>2. R \subseteq DOMAIN w /\ \A k \in R : w[k] \notin Y
    OBVIOUS
  <1>3. Q = {p[k] : k \in R}
    BY <1>1
  <1>4. Without(Without(q, X), Y) = v /\ Without(q, X \cup Y) = At(q, Q)
    BY DEF Without
  <1>5. Q \in SUBSET (1..n) /\ \A x \in Q : \E k \in R : p[k] = x
    <2>1. Q \in SUBSET (1..n)
      OBVIOUS
    <2>. HIDE DEF Q, R, p
    <2>. QED BY <1>3, <2>1
  <1>. HIDE DEF w, p, P, R, Q
  <1>6. /\ v \in Seq(V) /\ Len(v) = Cardinality(R) /\ Cardinality(R) \in Nat
        /\ \A k \in DOMAIN v : r[k] \in R /\ v[k] = w[r[k]]
        /\ \A j, k \in DOMAIN v : j < k => r[j] < r[k]
        /\ \A x \in R : \E k \in DOMAIN v : r[k] = x
    BY <1>1, <1>2, AtFacts
  <1>. DEFINE c == Cardinality(R)
              f == [k \in 1..c |-> p[r[k]]]
  <1>7. DOMAIN v = 1..c
    BY <1>6
  <1>. HIDE DEF v, r, c
  <1>8. \A k \in 1..c : r[k] \in R /\ p[r[k]] \in Q /\ v[k] = q[p[r[k]]]
    BY <1>1, <1>2, <1>3, <1>6, <1>7
  <1>9. InOrder(Q) = f /\ Cardinality(Q) = c
    <2>1. f \in [1..c -> Q]
      BY <1>8
    <2>2. \A j, k \in 1..c : j < k => f[j] < f[k]
      BY <1>1, <1>2, <1>6, <1>7, <1>8
    <2>3. ASSUME NEW x \in Q PROVE \E k \in 1..c : f[k] = x
      <3>1. PICK j \in R : p[j] = x
        BY <1>5
      <3>2. PICK k \in 1..c : r[k] = j
        BY <1>6, <1>7
      <3>. QED BY <3>1, <3>2
    <2>4. c \in Nat
      BY <1>6 DEF c
    <2>. HIDE DEF f
    <2>. QED BY <1>5, <2>1, <2>2, <2>3, <2>4, InOrderUnique
  <1>10. At(q, Q) = [k \in 1..c |-> q[f[k]]]
    BY <1>9 DEF At
  <1>11. v = [k \in 1..c |-> v[k]]
    BY <1>7 DEF v, At
  <1>12. \A k \in 1..c : v[k] = q[f[k]]
    BY <1>8
  <1>13. v = [k \in 1..c |-> q[f[k]]]
    <2>. HIDE DEF f
    <2>. QED BY <1>11, <1>12
  <1>. QED BY <1>4, <1>10, <1>13

\* uniq() keeps every word once.
LEMMA UniqFacts ==
    ASSUME NEW vals \in Seq(Names), NEW w, w = uniq(vals, Lowered(vals))
    PROVE  /\ w \in Seq(Names) /\ Len(w) <= Len(vals)
           /\ \A j, k \in DOMAIN w : icu_lower(w[j]) = icu_lower(w[k]) => j = k
           /\ NewWords(w) = NewWords(vals)
  <1>. DEFINE keys == Lowered(vals)
              P == {k \in DOMAIN vals : \A j \in 1..(k - 1) : keys[j] # keys[k]}
              p == InOrder(P)
  <1>1. w = At(vals, P)
    BY DEF uniq
  <1>2. \A k \in DOMAIN vals : keys[k] = icu_lower(vals[k])
    BY DEF Lowered
  <1>3. DOMAIN vals = 1..Len(vals) /\ Len(vals) \in Nat
    OBVIOUS
  <1>. HIDE DEF keys
  <1>4. P \in SUBSET DOMAIN vals /\ P \subseteq Nat
    BY <1>3
  <1>5. \A j, k \in P : j < k => icu_lower(vals[j]) # icu_lower(vals[k])
    <2>. SUFFICES ASSUME NEW j \in P, NEW k \in P, j < k
                  PROVE  icu_lower(vals[j]) # icu_lower(vals[k])
      OBVIOUS
    <2>1. j \in 1..(k - 1)
      BY <1>3
    <2>. QED BY <1>2, <1>4, <2>1
  <1>6. ASSUME NEW k \in DOMAIN vals
        PROVE  \E j \in P : icu_lower(vals[j]) = icu_lower(vals[k])
    <2>. DEFINE D == {j \in DOMAIN vals : keys[j] = keys[k]}
    <2>1. D \in SUBSET Nat /\ D # {}
      BY <1>3
    <2>2. PICK j \in D : \A i \in D : j <= i
      <3>. HIDE DEF D
      <3>. QED BY <2>1, Least
    <2>3. \A i \in 1..(j - 1) : i \in DOMAIN vals /\ ~ j <= i
      BY <1>3
    <2>4. \A i \in 1..(j - 1) : keys[i] # keys[j]
      BY <2>2, <2>3
    <2>. QED BY <1>2, <2>4
  <1>. HIDE DEF P
  <1>7. /\ w \in Seq(Names) /\ Len(w) <= Len(vals)
        /\ \A k \in DOMAIN w : p[k] \in P /\ w[k] = vals[p[k]]
        /\ \A j, k \in DOMAIN w : j < k => p[j] < p[k]
        /\ ToSet(w) = {vals[k] : k \in P}
    BY <1>1, <1>4, AtFacts
  <1>8. NewWords(w) = NewWords(vals)
    <2>1. \A x \in NewWords(w) : x \in NewWords(vals)
      BY <1>4, <1>7 DEF NewWords, ToSet
    <2>2. ASSUME NEW k \in DOMAIN vals PROVE icu_lower(vals[k]) \in NewWords(w)
      <3>1. PICK j \in P : icu_lower(vals[j]) = icu_lower(vals[k])
        BY <1>6
      <3>2. vals[j] \in ToSet(w)
        BY <1>7
      <3>. QED BY <3>1, <3>2 DEF NewWords
    <2>3. \A x \in NewWords(vals) : x \in NewWords(w)
      BY <2>2 DEF NewWords, ToSet
    <2>. QED BY <2>1, <2>3
  <1>9. ASSUME NEW j \in DOMAIN w, NEW k \in DOMAIN w, icu_lower(w[j]) = icu_lower(w[k])
        PROVE  j = k
    <2>1. j < k \/ k < j \/ j = k
      <3>1. DOMAIN w \subseteq Nat
        BY <1>7
      <3>. QED BY <3>1
    <2>2. ~ p[j] < p[k] /\ ~ p[k] < p[j]
      BY <1>5, <1>7, <1>9
    <2>. QED BY <1>7, <2>1, <2>2
  <1>. QED BY <1>7, <1>8, <1>9

-------------------------------------------------------------------------------
(* What holds of the database and the memory at every statement *)

\* A database that a column with several values for a book (multi), or with
\* one, can have: no two items differ in case only.
Sound(multi, d) ==
    /\ d \in Database
    /\ \A i, j \in Rows(d) : icu_lower(d.rows[i]) = icu_lower(d.rows[j]) => i = j
    /\ \A b \in Books : IsInjective(d.links[b]) /\ ToSet(d.links[b]) \subseteq Rows(d)
    /\ ~ multi => \A b \in Books : Len(d.links[b]) <= 1

Agrees(m) ==
    /\ m \in Memory
    /\ \A i \in Items : m.col_book_map[i] = {b \in Books : i \in ToSet(m.book_col_map[b])}
    /\ \A b \in Books : ToSet(m.book_col_map[b]) \subseteq Known(m)

\* The statements that leave every book b with one of the sets of words A[b].
OnPath(multi, A) ==
    {st \in [mem : Memory, db : Database] :
        Agrees(st.mem) /\ Sound(multi, st.db) /\ \A b \in Books : Words(st.db, b) \in A[b]}

LastDb(d, statements) == IF statements = <<>> THEN d ELSE statements[Len(statements)].db

\* Calls under construction all of whose statements are on that path.
States(A) ==
    {s \in [mem : Memory, db : Database, statements : Seq(OnPath(Multiple, A)),
            dirtied : SUBSET Books] :
        /\ Agrees(s.mem) /\ Sound(Multiple, s.db)
        /\ \A b \in Books : Words(s.db, b) \in A[b]
        /\ s.db = LastDb(db, s.statements)}

LEMMA SoundAccepted ==
    ASSUME NEW multi, NEW d, Sound(multi, d)
    PROVE  Accepted(d)
  BY DEF Sound, Accepted, SameToSQLite

LEMMA ReadFacts ==
    ASSUME NEW multi, NEW d, Sound(multi, d)
    PROVE  /\ Agrees(Read(d)) /\ Known(Read(d)) = Rows(d) /\ Read(d).id_map = d.rows
           /\ Read(d).book_col_map = d.links
           /\ Read(d).col_book_map = [i \in Items |-> {b \in Books : i \in ToSet(d.links[b])}]
  <1>1. Known(Read(d)) = Rows(d)
    BY DEF Known, Rows, Read
  <1>2. Read(d) \in Memory
    BY DEF Sound, Read, Memory, Database
  <1>. QED BY <1>1, <1>2 DEF Agrees, Sound, Read

LEMMA ReadIs ==
    ASSUME NEW m, NEW d, Agrees(m), d \in Database, m.id_map = d.rows, m.book_col_map = d.links
    PROVE  m = Read(d)
  <1>1. m.col_book_map = [i \in Items |-> {b \in Books : i \in ToSet(d.links[b])}]
    BY DEF Agrees, Memory
  <1>2. m = [id_map |-> m.id_map, book_col_map |-> m.book_col_map,
             col_book_map |-> m.col_book_map]
    BY DEF Agrees, Memory
  <1>. QED BY <1>1, <1>2 DEF Read

LEMMA ExecuteFacts ==
    ASSUME NEW A, NEW s \in States(A), NEW d, Sound(Multiple, d),
           \A b \in Books : Words(d, b) \in A[b], NEW t, t = Execute(s, d)
    PROVE  t \in States(A) /\ t.mem = s.mem /\ t.db = d /\ t.dirtied = s.dirtied
  <1>1. CASE d = s.db
    BY <1>1 DEF Execute
  <1>2. CASE d # s.db
    <2>. DEFINE st == [mem |-> s.mem, db |-> d]
                seq == Append(s.statements, st)
    <2>1. st \in OnPath(Multiple, A)
      BY DEF OnPath, States, Sound
    <2>2. seq \in Seq(OnPath(Multiple, A)) /\ seq # <<>> /\ seq[Len(seq)] = st
      BY <2>1 DEF States
    <2>3. t = [s EXCEPT !.db = d, !.statements = seq]
      BY <1>2 DEF Execute
    <2>4. LastDb(db, seq) = d
      BY <2>2 DEF LastDb
    <2>5. s \in [mem : Memory, db : Database, statements : Seq(OnPath(Multiple, A)),
                 dirtied : SUBSET Books] /\ d \in Database /\ Agrees(s.mem)
      BY DEF States, Sound
    <2>. HIDE DEF seq
    <2>6. /\ t.db = d /\ t.statements = seq /\ t.mem = s.mem /\ t.dirtied = s.dirtied
          /\ t \in [mem : Memory, db : Database, statements : Seq(OnPath(Multiple, A)),
                    dirtied : SUBSET Books]
      BY <2>2, <2>3, <2>5
    <2>. QED BY <2>4, <2>5, <2>6 DEF States
  <1>. QED BY <1>1, <1>2

LEMMA MemFacts ==
    ASSUME NEW A, NEW s \in States(A), NEW m, Agrees(m), NEW t, t = [s EXCEPT !.mem = m]
    PROVE  t \in States(A) /\ t.mem = m /\ t.db = s.db /\ t.dirtied = s.dirtied
  BY DEF States, Agrees

LEMMA DirtyFacts ==
    ASSUME NEW A, NEW s \in States(A), NEW S \in SUBSET Books, NEW t, t = Dirty(s, S)
    PROVE  t \in States(A) /\ t.mem = s.mem /\ t.db = s.db /\ t.dirtied = s.dirtied \cup S
  BY DEF States, Dirty

LEMMA StateFacts ==
    ASSUME NEW A, NEW s \in States(A)
    PROVE  /\ Agrees(s.mem) /\ Sound(Multiple, s.db) /\ s.dirtied \in SUBSET Books
           /\ s = [mem |-> s.mem, db |-> s.db, statements |-> s.statements,
                   dirtied |-> s.dirtied]
           /\ \A b \in Books : Words(s.db, b) \in A[b]
  BY DEF States

LEMMA BeginFacts ==
    ASSUME NEW A, Sound(Multiple, db), mem = Read(db), \A b \in Books : Words(db, b) \in A[b]
    PROVE  /\ Begin(mem, db) \in States(A) /\ Begin(mem, db).mem = mem
           /\ Begin(mem, db).db = db /\ Begin(mem, db).dirtied = {}
  <1>1. Agrees(mem)
    BY ReadFacts
  <1>. QED BY <1>1 DEF States, Begin, LastDb, Sound, Agrees

LEMMA DeleteRowsFacts ==
    ASSUME NEW A, NEW s \in States(A), NEW S \in SUBSET Items,
           \A b \in Books : ToSet(s.db.links[b]) \cap S = {}, NEW t, t = DeleteRows(s, S)
    PROVE  /\ t \in States(A) /\ t.mem = s.mem /\ t.dirtied = s.dirtied
           /\ t.db.links = s.db.links /\ t.db.rows = Forget(s.db.rows, S, None)
           /\ t.db \in Database /\ \A b \in Books : Words(t.db, b) = Words(s.db, b)
  <1>. DEFINE d == [s.db EXCEPT !.rows = [i \in Items |-> IF i \in S THEN None ELSE @[i]]]
  <1>1. Sound(Multiple, s.db) /\ s.db \in Database
    BY DEF States
  <1>2. d \in Database /\ d.links = s.db.links /\ d.rows = Forget(s.db.rows, S, None)
    BY <1>1 DEF Database, Forget
  <1>3. t = Execute(s, d)
    BY DEF DeleteRows
  <1>. HIDE DEF d
  <1>4. \A i \in Items : d.rows[i] = IF i \in S THEN None ELSE s.db.rows[i]
    BY <1>2 DEF Forget
  <1>5. \A i \in Rows(d) : i \in Rows(s.db) /\ d.rows[i] = s.db.rows[i]
    BY <1>4 DEF Rows
  <1>6. ASSUME NEW b \in Books
        PROVE  \A i \in ToSet(d.links[b]) : i \in Rows(d) /\ d.rows[i] = s.db.rows[i]
    BY <1>1, <1>2, <1>4 DEF Sound, Rows
  <1>7. \A b \in Books : Words(d, b) = Words(s.db, b)
    BY <1>2, <1>6 DEF Words
  <1>8. Sound(Multiple, d)
    <2>1. \A i, j \in Rows(d) : icu_lower(d.rows[i]) = icu_lower(d.rows[j]) => i = j
      BY <1>1, <1>5 DEF Sound
    <2>. QED BY <1>1, <1>2, <1>6, <2>1 DEF Sound
  <1>9. \A b \in Books : Words(d, b) \in A[b]
    BY <1>7, StateFacts
  <1>. QED BY <1>2, <1>3, <1>7, <1>8, <1>9, ExecuteFacts

RowWordsOf(d, q) == {icu_lower(d.rows[i]) : i \in ToSet(q)}

LEMMA NewLinksFacts ==
    ASSUME NEW A, NEW s \in States(A), NEW links \in [Books -> Seq(Items)],
           \A b \in Books : IsInjective(links[b]) /\ ToSet(links[b]) \subseteq Rows(s.db),
           ~ Multiple => \A b \in Books : Len(links[b]) <= 1,
           \A b \in Books : RowWordsOf(s.db, links[b]) \in A[b],
           NEW t, t = Execute(s, [s.db EXCEPT !.links = links])
    PROVE  /\ t \in States(A) /\ t.mem = s.mem /\ t.dirtied = s.dirtied
           /\ t.db.links = links /\ t.db.rows = s.db.rows /\ t.db \in Database
  <1>. DEFINE d == [s.db EXCEPT !.links = links]
  <1>1. Sound(Multiple, s.db) /\ s.db \in Database
    BY DEF States
  <1>2. d \in Database /\ d.links = links /\ d.rows = s.db.rows /\ Rows(d) = Rows(s.db)
    BY <1>1 DEF Database, Rows
  <1>3. t = Execute(s, d)
    OBVIOUS
  <1>. HIDE DEF d
  <1>4. Sound(Multiple, d)
    BY <1>1, <1>2 DEF Sound
  <1>5. \A b \in Books : Words(d, b) \in A[b]
    BY <1>2 DEF Words, RowWordsOf
  <1>. QED BY <1>2, <1>3, <1>4, <1>5, ExecuteFacts

-------------------------------------------------------------------------------
(* The items of new names *)

RowWords(d) == {icu_lower(d.rows[i]) : i \in Rows(d)}

\* What get_db_id() has made of s, when the words V of the words W have their
\* items: there is room for the others, and no item of s has changed.
Added(A, s, W, V) ==
    {c \in [state : States(A), case_changes : [Items -> Names \cup {None}]] :
        /\ c.state.mem = Read(c.state.db)
        /\ c.state.dirtied = s.dirtied /\ c.state.db.links = s.db.links
        /\ \A i \in Rows(s.db) : c.state.db.rows[i] = s.db.rows[i]
        /\ Max(Rows(c.state.db) \cup {0}) + Cardinality(W \ RowWords(c.state.db)) <= MaxItem
        /\ V \subseteq RowWords(c.state.db)
        /\ \A i \in Items : c.case_changes[i] # None =>
                /\ i \in Rows(c.state.db)
                /\ icu_lower(c.case_changes[i]) = icu_lower(c.state.db.rows[i])}

LEMMA HasItemFacts ==
    ASSUME NEW multi, NEW d, Sound(multi, d), NEW n
    PROVE  /\ HasItem(Read(d), n) <=> icu_lower(n) \in RowWords(d)
           /\ HasItem(Read(d), n) =>
                /\ ItemOf(Read(d), n) \in Rows(d)
                /\ icu_lower(d.rows[ItemOf(Read(d), n)]) = icu_lower(n)
  <1>1. Known(Read(d)) = Rows(d) /\ Read(d).id_map = d.rows
    BY ReadFacts
  <1>. QED BY <1>1 DEF HasItem, ItemOf, RowWords

LEMMA NextId ==
    ASSUME NEW d
    PROVE  /\ Max(Rows(d) \cup {0}) \in 0..MaxItem
           /\ \A i \in Rows(d) : i <= Max(Rows(d) \cup {0})
           /\ \A k \in 0..MaxItem : \A e : Rows(e) = Rows(d) \cup {k} /\ k > Max(Rows(d) \cup {0})
                => Max(Rows(e) \cup {0}) = k
  <1>0. MaxItem \in Nat
    BY LinkTableAssumption
  <1>1. ASSUME NEW e
        PROVE  Rows(e) \cup {0} \in SUBSET (0..MaxItem) /\ Rows(e) \cup {0} # {}
    BY <1>0 DEF Rows, Items
  <1>2. ASSUME NEW e
        PROVE  Max(Rows(e) \cup {0}) \in Rows(e) \cup {0}
               /\ \A y \in Rows(e) \cup {0} : Max(Rows(e) \cup {0}) >= y
    BY <1>0, <1>1, Greatest
  <1>3. Max(Rows(d) \cup {0}) \in 0..MaxItem /\ \A i \in Rows(d) : i <= Max(Rows(d) \cup {0})
    BY <1>0, <1>1, <1>2
  <1>4. ASSUME NEW e, NEW k \in 0..MaxItem, Rows(e) = Rows(d) \cup {k},
               k > Max(Rows(d) \cup {0})
        PROVE  Max(Rows(e) \cup {0}) = k
    <2>. DEFINE x == Max(Rows(e) \cup {0})
                y == Max(Rows(d) \cup {0})
    <2>1. x \in Rows(d) \cup {k} \cup {0} /\ x >= k /\ x \in 0..MaxItem
      BY <1>1, <1>2, <1>4
    <2>2. k > y /\ y \in 0..MaxItem /\ \A i \in Rows(d) : i <= y
      BY <1>3, <1>4
    <2>. HIDE DEF x, y
    <2>3. x \notin Rows(d)
      BY <1>0, <1>4, <2>1, <2>2
    <2>4. x # 0
      BY <1>0, <1>4, <2>1, <2>2
    <2>. QED BY <2>1, <2>3, <2>4 DEF x
  <1>. QED BY <1>3, <1>4

LEMMA GetDbId ==
    ASSUME NEW A, NEW s \in States(A), NEW W, IsFiniteSet(W), NEW V,
           NEW c \in Added(A, s, W, V), NEW n \in Names, icu_lower(n) \in W
    PROVE  get_db_id(c, n) \in Added(A, s, W, V \cup {icu_lower(n)})
  <1>. DEFINE d == c.state.db
              w == icu_lower(n)
  <1>1. /\ c \in [state : States(A), case_changes : [Items -> Names \cup {None}]]
        /\ c.state.mem = Read(d) /\ Sound(Multiple, d) /\ d \in Database
        /\ Known(c.state.mem) = Rows(d) /\ c.state.mem.id_map = d.rows
    <2>1. c.state \in States(A) /\ c.state.mem = Read(d)
      BY DEF Added
    <2>2. Sound(Multiple, d)
      BY <2>1, StateFacts
    <2>3. Known(c.state.mem) = Rows(d) /\ c.state.mem.id_map = d.rows
      BY <2>1, <2>2, ReadFacts
    <2>. QED BY <2>1, <2>2, <2>3 DEF Added, Sound
  <1>2. CASE HasItem(c.state.mem, n)
    <2>. DEFINE i == ItemOf(c.state.mem, n)
    <2>1. i \in Rows(d) /\ icu_lower(d.rows[i]) = w /\ w \in RowWords(d) /\ i \in Items
      <3>. i \in Rows(d) /\ icu_lower(d.rows[i]) = w /\ w \in RowWords(d)
        BY <1>1, <1>2, HasItemFacts
      <3>. QED BY DEF Rows
    <2>2. CASE c.state.mem.id_map[i] = n
      <3>1. get_db_id(c, n) = c
        BY <1>2, <2>2 DEF get_db_id
      <3>. QED BY <2>1, <3>1 DEF Added
    <2>3. CASE c.state.mem.id_map[i] # n
      <3>. DEFINE e == [c EXCEPT !.case_changes[i] = n]
      <3>1. get_db_id(c, n) = e
        BY <1>2, <2>3 DEF get_db_id
      <3>2. e.state = c.state /\ e.case_changes = [c.case_changes EXCEPT ![i] = n]
            /\ e \in [state : States(A), case_changes : [Items -> Names \cup {None}]]
        BY <1>1
      <3>3. \A j \in Items : e.case_changes[j] = IF j = i THEN n ELSE c.case_changes[j]
        BY <1>1, <2>1, <3>2
      <3>. HIDE DEF e, i, w
      <3>. QED BY <2>1, <3>1, <3>2, <3>3 DEF Added, w
    <2>. QED BY <2>2, <2>3
  <1>3. CASE ~ HasItem(c.state.mem, n)
    <2>. DEFINE i == Max(Rows(d) \cup {0}) + 1
                dd == [d EXCEPT !.rows[i] = n]
                u == Execute(c.state, dd)
                m == [u.mem EXCEPT !.id_map[i] = n, !.col_book_map[i] = {}]
                t == [u EXCEPT !.mem = m]
    <2>1. w \notin RowWords(d)
      BY <1>1, <1>3, HasItemFacts
    <2>2. Cardinality(W \ RowWords(d)) \in Nat
          /\ Cardinality(W \ (RowWords(d) \cup {w})) = Cardinality(W \ RowWords(d)) - 1
      <3>1. W \ (RowWords(d) \cup {w}) = (W \ RowWords(d)) \ {w} /\ w \in W \ RowWords(d)
        BY <2>1
      <3>2. IsFiniteSet(W \ RowWords(d))
        BY FS_Difference
      <3>. HIDE DEF d, w
      <3>. QED BY <3>1, <3>2, FS_RemoveElement, FS_CardinalityType
    <2>3. i \in Items /\ i \notin Rows(d) /\ i \in 0..MaxItem
          /\ i + Cardinality(W \ (RowWords(d) \cup {w})) <= MaxItem
      <3>1. Max(Rows(d) \cup {0}) \in 0..MaxItem /\ MaxItem \in Nat
            /\ \A j \in Rows(d) : j <= Max(Rows(d) \cup {0})
        BY NextId, LinkTableAssumption
      <3>2. Max(Rows(d) \cup {0}) + Cardinality(W \ RowWords(d)) <= MaxItem
        BY DEF Added
      <3>3. Cardinality(W \ (RowWords(d) \cup {w})) \in Nat
        BY FS_Difference, FS_CardinalityType
      <3>. DEFINE x == Max(Rows(d) \cup {0})
                  y == Cardinality(W \ (RowWords(d) \cup {w}))
      <3>4. x \in 0..MaxItem /\ MaxItem \in Nat /\ y \in Nat /\ x + (y + 1) <= MaxItem
            /\ i = x + 1
        <4>. HIDE DEF d, w, i
        <4>1. Cardinality(W \ RowWords(d)) = y + 1
          BY <2>2, <3>3
        <4>. QED BY <3>1, <3>2, <3>3, <4>1 DEF i
      <3>5. \A j \in Rows(d) : j <= x
        BY <3>1
      <3>. HIDE DEF d, w, i, x, y
      <3>6. i \in 1..MaxItem /\ i + y <= MaxItem
        BY <3>4
      <3>7. i \notin Rows(d)
        BY <3>4, <3>5
      <3>. QED BY <3>6, <3>7 DEF Items, y
    <2>4. /\ dd \in Database /\ dd.links = d.links /\ Rows(dd) = Rows(d) \cup {i}
          /\ dd.rows = [d.rows EXCEPT ![i] = n]
          /\ \A j \in Rows(d) : dd.rows[j] = d.rows[j]
          /\ dd.rows[i] = n
      <3>0. n # None /\ n \in Names
        BY LinkTableAssumption
      <3>1. dd \in Database /\ dd.links = d.links /\ dd.rows = [d.rows EXCEPT ![i] = n]
        BY <1>1, <2>3, <3>0 DEF Database
      <3>2. \A j \in Items : dd.rows[j] = IF j = i THEN n ELSE d.rows[j]
        BY <1>1, <2>3, <3>1 DEF Database
      <3>. HIDE DEF dd, i, d
      <3>. QED BY <2>3, <3>0, <3>1, <3>2 DEF Rows
    <2>5. RowWords(dd) = RowWords(d) \cup {w}
      BY <2>4, SMTT(30) DEF RowWords
    <2>6. Sound(Multiple, dd)
      <3>1. \A j, k \in Rows(dd) : icu_lower(dd.rows[j]) = icu_lower(dd.rows[k]) => j = k
        <4>. HIDE DEF dd, i, d
        <4>. QED BY <1>1, <2>1, <2>4 DEF Sound, RowWords
      <3>. HIDE DEF dd, i, d, w
      <3>. QED BY <1>1, <2>4, <3>1 DEF Sound
    <2>7. \A b \in Books : Words(dd, b) = Words(d, b)
      <3>. HIDE DEF dd, i, d, w
      <3>. QED BY <1>1, <2>4 DEF Sound, Words
    <2>8. u \in States(A) /\ u.mem = c.state.mem /\ u.db = dd /\ u.dirtied = c.state.dirtied
      <3>1. \A b \in Books : Words(dd, b) \in A[b]
        BY <1>1, <2>7, StateFacts
      <3>. HIDE DEF dd
      <3>. QED BY <1>1, <2>6, <3>1, ExecuteFacts
    <2>9. Agrees(m) /\ m = Read(dd)
      <3>1. u.mem \in Memory /\ u.mem.id_map = d.rows /\ u.mem.book_col_map = d.links
            /\ u.mem.col_book_map[i] = {} /\ Agrees(u.mem)
        <4>1. Agrees(Read(d)) /\ Read(d).book_col_map = d.links
          BY <1>1, ReadFacts
        <4>2. \A b \in Books : i \notin ToSet(d.links[b])
          BY <1>1, <2>3 DEF Sound
        <4>. QED BY <1>1, <2>3, <2>8, <4>1, <4>2, ZenonT(60) DEF Agrees
      <3>. HIDE DEF u, dd, d, i
      <3>2. /\ m.id_map = dd.rows /\ m.book_col_map = dd.links
            /\ m.col_book_map = u.mem.col_book_map /\ m \in Memory
        <4>1. m = [u.mem EXCEPT !.id_map[i] = n, !.col_book_map[i] = {}]
          OBVIOUS
        <4>. HIDE DEF m
        <4>2. i \in Items /\ u.mem.col_book_map[i] = {} /\ u.mem \in Memory
          BY <2>3, <3>1
        <4>3. /\ m.id_map = [u.mem.id_map EXCEPT ![i] = n]
              /\ m.book_col_map = u.mem.book_col_map
              /\ m.col_book_map = u.mem.col_book_map /\ m \in Memory
          <5>. DEFINE f == u.mem.col_book_map
          <5>1. m = [id_map |-> [u.mem.id_map EXCEPT ![i] = n],
                     book_col_map |-> u.mem.book_col_map, col_book_map |-> [f EXCEPT ![i] = {}]]
            BY <4>1, <4>2 DEF Memory
          <5>2. [u.mem.id_map EXCEPT ![i] = n] \in [Items -> Names \cup {None}]
                /\ u.mem.book_col_map \in [Books -> Seq(Items)]
                /\ f \in [Items -> SUBSET Books]
            BY <4>2 DEF Memory
          <5>3. f[i] = {}
            BY <4>2
          <5>. HIDE DEF f
          <5>4. f = [f EXCEPT ![i] = {}]
            BY <5>2, <5>3
          <5>. QED BY <5>1, <5>2, <5>4 DEF Memory, f
        <4>. QED BY <2>4, <3>1, <4>3
      <3>3. Known(u.mem) \subseteq Known(m)
        BY <2>4, <3>1, <3>2 DEF Known, Rows
      <3>. HIDE DEF m
      <3>4. Agrees(m)
        BY <2>4, <3>1, <3>2, <3>3 DEF Agrees
      <3>. QED BY <2>4, <3>2, <3>4, ReadIs
    <2>10. t \in States(A) /\ t.mem = Read(dd) /\ t.db = dd /\ t.dirtied = c.state.dirtied
      <3>. HIDE DEF m, u, dd
      <3>. QED BY <2>8, <2>9, MemFacts
    <2>11. get_db_id(c, n) = [c EXCEPT !.state = t]
      BY <1>3, ZenonT(60) DEF get_db_id, InsertItem
    <2>12. Max(Rows(dd) \cup {0}) = i
      <3>1. i > Max(Rows(d) \cup {0})
        <4>. Max(Rows(d) \cup {0}) \in 0..MaxItem /\ MaxItem \in Nat
          BY NextId, LinkTableAssumption
        <4>. QED OBVIOUS
      <3>. HIDE DEF i, dd, d
      <3>. QED BY <2>3, <2>4, <3>1, NextId
    <2>. DEFINE e == [c EXCEPT !.state = t]
    <2>13. e \in [state : States(A), case_changes : [Items -> Names \cup {None}]]
           /\ e.state = t /\ e.case_changes = c.case_changes
      <3>. HIDE DEF t
      <3>. QED BY <1>1, <2>10
    <2>. HIDE DEF e, t, u, m, dd, i
    <2>14. e \in Added(A, s, W, V \cup {w})
      <3>1. /\ d.links = s.db.links /\ c.state.dirtied = s.dirtied
            /\ \A j \in Rows(s.db) : d.rows[j] = s.db.rows[j]
            /\ V \subseteq RowWords(d)
            /\ \A j \in Items : c.case_changes[j] # None =>
                /\ j \in Rows(d) /\ icu_lower(c.case_changes[j]) = icu_lower(d.rows[j])
        BY DEF Added
      <3>2. \A j \in Rows(s.db) : j \in Rows(d)
        BY <3>1 DEF Rows
      <3>. HIDE DEF d, w
      <3>3. \A j \in Rows(s.db) : dd.rows[j] = s.db.rows[j]
        BY <2>4, <3>1, <3>2
      <3>4. \A j \in Items : e.case_changes[j] # None =>
                /\ j \in Rows(dd) /\ icu_lower(e.case_changes[j]) = icu_lower(dd.rows[j])
        BY <2>4, <2>13, <3>1
      <3>. QED BY <2>3, <2>4, <2>5, <2>10, <2>12, <2>13, <3>1, <3>3, <3>4 DEF Added
    <2>. QED BY <2>11, <2>14 DEF e
  <1>. QED BY <1>2, <1>3

\* get_db_id() leads from what F has for some words to what it has for one more.
AddsNames(T, W, F) ==
    /\ F \in [SUBSET W -> SUBSET T]
    /\ \A V \in SUBSET W : \A c \in F[V], n \in Names :
            icu_lower(n) \in W => get_db_id(c, n) \in F[V \cup {icu_lower(n)}]

\* So do the loops that call it.
LEMMA AddNamesLoop ==
    ASSUME NEW T, NEW W, NEW F, AddsNames(T, W, F), NEW V \in SUBSET W, NEW c \in F[V],
           NEW seq \in Seq(Names), NewWords(seq) \subseteq W
    PROVE  AddNames(c, seq) \in F[V \cup NewWords(seq)]
  <1>f. /\ F \in [SUBSET W -> SUBSET T]
        /\ \A U \in SUBSET W : \A e \in F[U], n \in Names :
            icu_lower(n) \in W => get_db_id(e, n) \in F[U \cup {icu_lower(n)}]
    BY DEF AddsNames
  <1>. PICK n \in Nat : n = Len(seq)
    OBVIOUS
  <1>. DEFINE U(k) == V \cup {icu_lower(seq[j]) : j \in 1..k}
              S == [k \in 0..n |-> F[U(k)]]
              G == [k \in 1..n |-> [t \in T |-> get_db_id(t, seq[k])]]
              r == CHOOSE f : f = [k \in 0..n |-> IF k = 0 THEN c ELSE get_db_id(f[k - 1], seq[k])]
  <1>1. \A k \in 1..n : seq[k] \in Names /\ icu_lower(seq[k]) \in W
    BY DEF NewWords, ToSet
  <1>2. U(0) = V /\ U(n) = V \cup NewWords(seq)
        /\ \A k \in 1..n : U(k) = U(k - 1) \cup {icu_lower(seq[k])}
    <2>1. 1..0 = {} /\ \A k \in 1..n : 1..k = 1..(k - 1) \cup {k}
      OBVIOUS
    <2>2. U(n) = V \cup NewWords(seq)
      BY DEF NewWords, ToSet
    <2>. QED BY <2>1, <2>2
  <1>w. \A k \in 0..n : U(k) \in SUBSET W
    BY <1>1
  <1>. HIDE DEF U
  <1>3. \A k \in 0..n : S[k] = F[U(k)]
    OBVIOUS
  <1>4. S \in [0..n -> SUBSET T]
    BY <1>f, <1>w
  <1>5. \A k \in 1..n : k - 1 \in 0..n /\ k \in 0..n
    OBVIOUS
  <1>. HIDE DEF S
  <1>6. \A k \in 1..n : \A t \in S[k - 1] : get_db_id(t, seq[k]) \in S[k]
    BY <1>1, <1>2, <1>3, <1>5, <1>f, <1>w, SMTT(30)
  <1>7. \E f : f = [k \in 0..n |-> IF k = 0 THEN c ELSE get_db_id(f[k - 1], seq[k])]
    <2>1. \A k \in 1..n : \A t \in S[k - 1] : G[k][t] = get_db_id(t, seq[k]) /\ G[k][t] \in S[k]
      BY <1>4, <1>5, <1>6
    <2>2. c \in S[0]
      BY <1>2, <1>3
    <2>. HIDE DEF G, r
    <2>3. PICK f \in [0..n -> T] :
                  /\ f[0] = c
                  /\ \A k \in 1..n : f[k - 1] \in S[k - 1] /\ f[k] = G[k][f[k - 1]]
      <3>1. Steps(n, T, S, c, G)
        BY <1>4, <2>1, <2>2 DEF Steps
      <3>2. Runs(n, T, S, c, G)
        BY <3>1, Recursion
      <3>. QED BY <3>2 DEF Runs
    <2>4. \A k \in 0..n : f[k] = IF k = 0 THEN c ELSE get_db_id(f[k - 1], seq[k])
      BY <2>1, <2>3
    <2>5. f = [k \in 0..n |-> IF k = 0 THEN c ELSE get_db_id(f[k - 1], seq[k])]
      BY <2>3, <2>4
    <2>. QED BY <2>5
  <1>8. AddNames(c, seq) = r[n]
    BY DEF AddNames, Loop
  <1>9. r = [k \in 0..n |-> IF k = 0 THEN c ELSE get_db_id(r[k - 1], seq[k])]
    BY <1>7
  <1>. HIDE DEF r
  <1>10. r[0] = c /\ \A k \in 1..n : r[k] = get_db_id(r[k - 1], seq[k])
    <2>1. PICK q : q = [k \in 0..n |-> IF k = 0 THEN c ELSE get_db_id(r[k - 1], seq[k])]
      OBVIOUS
    <2>2. r = q
      BY <1>9, <2>1, Zenon
    <2>3. q[0] = c /\ \A k \in 1..n : q[k] = get_db_id(r[k - 1], seq[k])
      BY <2>1
    <2>. QED BY <2>2, <2>3
  <1>11. r[0] \in S[0] /\ \A k \in 1..n : r[k - 1] \in S[k - 1] => r[k] \in S[k]
    BY <1>2, <1>3, <1>6, <1>10
  <1>12. \A k \in 0..n : r[k] \in S[k]
    BY <1>11, Rounds
  <1>13. n \in 0..n
    OBVIOUS
  <1>. QED BY <1>2, <1>3, <1>8, <1>12, <1>13, ZenonT(60)

LEMMA InOrderSeq ==
    ASSUME NEW m \in Nat, NEW S \in SUBSET (1..m)
    PROVE  InOrder(S) \in Seq(S) /\ ToSet(InOrder(S)) = S
  <1>. PICK n : n = Cardinality(S)
    OBVIOUS
  <1>. DEFINE p == InOrder(S)
  <1>1. n \in Nat /\ p \in [1..n -> S] /\ \A x \in S : \E k \in 1..n : p[k] = x
    BY InOrderFacts, ZenonT(60)
  <1>. HIDE DEF p
  <1>2. p \in Seq(S) /\ DOMAIN p = 1..n
    BY <1>1
  <1>3. ToSet(p) = S
    <2>1. \A k \in 1..n : p[k] \in S
      BY <1>1
    <2>2. \A x \in S : x \in ToSet(p)
      BY <1>1, <1>2 DEF ToSet
    <2>3. \A x \in ToSet(p) : x \in S
      BY <1>2, <2>1 DEF ToSet
    <2>. QED BY <2>2, <2>3
  <1>. QED BY <1>2, <1>3 DEF p

LEMMA AddAllNamesLoop ==
    ASSUME NEW T, NEW W, NEW F, AddsNames(T, W, F), NEW X \in SUBSET Books,
           NEW vals \in [X -> Seq(Names)], \A b \in X : NewWords(vals[b]) \subseteq W,
           NEW s, NEW e, e = [state |-> s, case_changes |-> [i \in Items |-> None]],
           e \in F[{}], NEW V, V = UNION {NewWords(vals[b]) : b \in X}
    PROVE  AddAllNames(s, vals) \in F[V]
  <1>f. F \in [SUBSET W -> SUBSET T]
    BY DEF AddsNames
  <1>. DEFINE seq == InOrder(X)
  <1>0. seq \in Seq(X) /\ ToSet(seq) = X
    <2>. NBooks \in Nat /\ X \in SUBSET (1..NBooks)
      BY LinkTableAssumption DEF Books
    <2>. QED BY InOrderSeq
  <1>. HIDE DEF seq
  <1>. PICK n : n = Len(seq)
    OBVIOUS
  <1>n. n \in Nat /\ 0 \in 0..n
    BY <1>0
  <1>. DEFINE U(k) == UNION {NewWords(vals[seq[j]]) : j \in 1..k}
              S == [k \in 0..n |-> F[U(k)]]
              c == [state |-> s, case_changes |-> [i \in Items |-> None]]
              G == [k \in 1..n |-> [t \in T |-> AddNames(t, vals[seq[k]])]]
              r == CHOOSE f : f = [k \in 0..n |-> IF k = 0 THEN c
                                                  ELSE AddNames(f[k - 1], vals[seq[k]])]
  <1>1. \A k \in 1..n : seq[k] \in X /\ vals[seq[k]] \in Seq(Names)
                        /\ NewWords(vals[seq[k]]) \subseteq W
    BY <1>0
  <1>2. U(0) = {} /\ U(n) = UNION {NewWords(vals[b]) : b \in X}
        /\ \A k \in 1..n : U(k) = U(k - 1) \cup NewWords(vals[seq[k]])
    <2>1. 1..0 = {} /\ \A k \in 1..n : 1..k = 1..(k - 1) \cup {k}
      OBVIOUS
    <2>2. X = {seq[k] : k \in 1..n}
      BY <1>0 DEF ToSet
    <2>3. {NewWords(vals[b]) : b \in X} = {NewWords(vals[seq[j]]) : j \in 1..n}
      BY <2>2, SMTT(20)
    <2>4. U(0) = {} /\ \A k \in 1..n : U(k) = U(k - 1) \cup NewWords(vals[seq[k]])
      BY <2>1
    <2>. QED BY <2>3, <2>4
  <1>w. \A k \in 0..n : U(k) \in SUBSET W
    BY <1>1
  <1>. HIDE DEF U
  <1>3. \A k \in 0..n : S[k] = F[U(k)]
    OBVIOUS
  <1>4. S \in [0..n -> SUBSET T]
    BY <1>f, <1>w
  <1>5. \A k \in 1..n : k - 1 \in 0..n /\ k \in 0..n
    OBVIOUS
  <1>. HIDE DEF S
  <1>6. ASSUME NEW k \in 1..n, NEW t \in S[k - 1] PROVE AddNames(t, vals[seq[k]]) \in S[k]
    <2>1. t \in F[U(k - 1)] /\ S[k] = F[U(k)] /\ U(k - 1) \in SUBSET W
      BY <1>3, <1>5, <1>w
    <2>2. AddNames(t, vals[seq[k]]) \in F[U(k - 1) \cup NewWords(vals[seq[k]])]
      BY <1>1, <2>1, AddNamesLoop
    <2>. QED BY <1>2, <2>1, <2>2
  <1>7. c \in S[0]
    BY <1>n, <1>2, <1>3
  <1>8. \E f : f = [k \in 0..n |-> IF k = 0 THEN c ELSE AddNames(f[k - 1], vals[seq[k]])]
    <2>1. \A k \in 1..n : \A t \in S[k - 1] :
             G[k][t] = AddNames(t, vals[seq[k]]) /\ G[k][t] \in S[k]
      BY <1>4, <1>5, <1>6
    <2>. HIDE DEF G, r, c
    <2>2. PICK f \in [0..n -> T] :
                  /\ f[0] = c
                  /\ \A k \in 1..n : f[k - 1] \in S[k - 1] /\ f[k] = G[k][f[k - 1]]
      <3>1. \A k \in 1..n : \A t \in S[k - 1] : G[k][t] \in S[k]
        BY <2>1
      <3>2. Steps(n, T, S, c, G)
        BY <1>n, <1>4, <1>7, <3>1 DEF Steps
      <3>3. Runs(n, T, S, c, G)
        BY <3>2, Recursion
      <3>. QED BY <3>3 DEF Runs
    <2>. HIDE DEF S, U
    <2>3. \A k \in 0..n : f[k] = IF k = 0 THEN c ELSE AddNames(f[k - 1], vals[seq[k]])
      <3>1. \A k \in 1..n : f[k] = AddNames(f[k - 1], vals[seq[k]])
        BY <2>1, <2>2
      <3>2. \A k \in 0..n : k = 0 \/ k \in 1..n
        BY <1>n
      <3>3. \A k \in 1..n : k # 0
        BY <1>n
      <3>. QED BY <2>2, <3>1, <3>2, <3>3
    <2>4. f = [k \in 0..n |-> IF k = 0 THEN c ELSE AddNames(f[k - 1], vals[seq[k]])]
      BY <2>2, <2>3
    <2>. QED BY <2>4
  <1>9. AddAllNames(s, vals) = r[n]
    <2>1. DOMAIN vals = X
      OBVIOUS
    <2>2. InOrder(DOMAIN vals) = seq
      BY <2>1 DEF seq
    <2>. QED BY <2>2 DEF AddAllNames, Loop
  <1>. HIDE DEF c
  <1>10. r = [k \in 0..n |-> IF k = 0 THEN c ELSE AddNames(r[k - 1], vals[seq[k]])]
    BY <1>8
  <1>. HIDE DEF r
  <1>11. r[0] = c /\ \A k \in 1..n : r[k] = AddNames(r[k - 1], vals[seq[k]])
    <2>1. PICK q : q = [k \in 0..n |-> IF k = 0 THEN c ELSE AddNames(r[k - 1], vals[seq[k]])]
      OBVIOUS
    <2>2. r = q
      BY <1>10, <2>1, Zenon
    <2>3. q[0] = c /\ \A k \in 1..n : q[k] = AddNames(r[k - 1], vals[seq[k]])
      BY <2>1
    <2>. QED BY <2>2, <2>3
  <1>12. r[0] \in S[0] /\ \A k \in 1..n : r[k - 1] \in S[k - 1] => r[k] \in S[k]
    BY <1>6, <1>7, <1>11
  <1>13. \A k \in 0..n : r[k] \in S[k]
    BY <1>n, <1>12, Rounds
  <1>14. n \in 0..n
    BY <1>n
  <1>. QED BY <1>2, <1>3, <1>9, <1>13, <1>14

LEMMA AddAllNamesFacts ==
    ASSUME NEW A, NEW s \in States(A), NEW W, IsFiniteSet(W),
           s.mem = Read(s.db),
           Max(Rows(s.db) \cup {0}) + Cardinality(W \ RowWords(s.db)) <= MaxItem,
           NEW X \in SUBSET Books, NEW vals \in [X -> Seq(Names)],
           \A b \in X : NewWords(vals[b]) \subseteq W
    PROVE  AddAllNames(s, vals) \in Added(A, s, W, UNION {NewWords(vals[b]) : b \in X})
  <1>. DEFINE T == [state : States(A), case_changes : [Items -> Names \cup {None}]]
              F == [V \in SUBSET W |-> Added(A, s, W, V)]
              c == [state |-> s, case_changes |-> [i \in Items |-> None]]
              U == UNION {NewWords(vals[b]) : b \in X}
  <1>1. \A V \in SUBSET W : F[V] = Added(A, s, W, V) /\ Added(A, s, W, V) \subseteq T
    BY DEF Added
  <1>2. F \in [SUBSET W -> SUBSET T]
    BY <1>1
  <1>3. c \in F[{}]
    <2>1. c.state = s /\ c.case_changes = [i \in Items |-> None] /\ c \in T
      OBVIOUS
    <2>2. \A i \in Items : c.case_changes[i] = None
      BY <2>1
    <2>. HIDE DEF c
    <2>3. c \in Added(A, s, W, {})
      BY <2>1, <2>2 DEF Added
    <2>. HIDE DEF F
    <2>. QED BY <1>1, <2>3
  <1>. HIDE DEF F, T
  <1>4. ASSUME NEW V \in SUBSET W, NEW e \in F[V], NEW n \in Names, icu_lower(n) \in W
        PROVE  get_db_id(e, n) \in F[V \cup {icu_lower(n)}]
    <2>1. e \in Added(A, s, W, V) /\ V \cup {icu_lower(n)} \in SUBSET W
      BY <1>1, <1>4
    <2>2. get_db_id(e, n) \in Added(A, s, W, V \cup {icu_lower(n)})
      BY <1>4, <2>1, GetDbId
    <2>. QED BY <1>1, <2>1, <2>2
  <1>5. AddsNames(T, W, F)
    BY <1>2, <1>4 DEF AddsNames
  <1>6. c = [state |-> s, case_changes |-> [i \in Items |-> None]]
        /\ U = UNION {NewWords(vals[b]) : b \in X}
    OBVIOUS
  <1>. HIDE DEF c, U
  <1>7. AddAllNames(s, vals) \in F[U]
    BY <1>3, <1>5, <1>6, AddAllNamesLoop
  <1>. QED BY <1>1, <1>6, <1>7

LEMMA ChangeCaseFacts ==
    ASSUME NEW A, NEW s \in States(A), s.mem = Read(s.db),
           NEW changes \in [Items -> Names \cup {None}],
           \A i \in Items : changes[i] # None =>
                i \in Rows(s.db) /\ icu_lower(changes[i]) = icu_lower(s.db.rows[i]),
           NEW t, t = change_case(s, changes)
    PROVE  /\ t \in States(A) /\ t.mem = Read(t.db) /\ t.db.links = s.db.links
           /\ s.dirtied \subseteq t.dirtied /\ Rows(t.db) = Rows(s.db)
           /\ \A i \in Rows(t.db) : icu_lower(t.db.rows[i]) = icu_lower(s.db.rows[i])
           /\ \A b \in Books \ t.dirtied : \A i \in ToSet(s.db.links[b]) :
                t.db.rows[i] = s.db.rows[i]
  <1>. DEFINE d == s.db
              dd == [d EXCEPT !.rows = Respell(@, changes)]
              u == Execute(s, dd)
              m == [u.mem EXCEPT !.id_map = Respell(@, changes)]
              v == [u EXCEPT !.mem = m]
              D == UNION {s.mem.col_book_map[i] : i \in {j \in Items : changes[j] # None}}
  <1>1. /\ Sound(Multiple, d) /\ d \in Database
        /\ s.mem.id_map = d.rows /\ s.mem.book_col_map = d.links /\ Agrees(s.mem)
        /\ s.mem.col_book_map = [i \in Items |-> {b \in Books : i \in ToSet(d.links[b])}]
    <2>1. Sound(Multiple, d)
      BY StateFacts
    <2>. QED BY <2>1, ReadFacts, SMTT(20) DEF Sound
  <1>2. /\ dd \in Database /\ dd.links = d.links /\ dd.rows = Respell(d.rows, changes)
        /\ \A i \in Items : dd.rows[i] = IF changes[i] # None THEN changes[i] ELSE d.rows[i]
    BY <1>1 DEF Database, Respell
  <1>3. t = Dirty(v, D)
    BY DEF change_case, Respelled
  <1>. HIDE DEF dd, v, D
  <1>4. Rows(dd) = Rows(d) /\ \A i \in Rows(dd) : icu_lower(dd.rows[i]) = icu_lower(d.rows[i])
    BY <1>2 DEF Rows
  <1>5. Sound(Multiple, dd)
    BY <1>1, <1>2, <1>4 DEF Sound
  <1>6. \A b \in Books : Words(dd, b) = Words(d, b)
    <2>1. \A b \in Books : ToSet(d.links[b]) \subseteq Rows(dd)
      BY <1>1, <1>4 DEF Sound
    <2>. QED BY <1>2, <1>4, <2>1 DEF Words
  <1>7. u \in States(A) /\ u.mem = s.mem /\ u.db = dd /\ u.dirtied = s.dirtied
    <2>1. \A b \in Books : Words(dd, b) \in A[b]
      BY <1>6, StateFacts
    <2>. QED BY <1>5, <2>1, ExecuteFacts
  <1>8. Agrees(m) /\ m = Read(dd)
    <2>1. /\ m.id_map = Respell(u.mem.id_map, changes)
          /\ m.book_col_map = u.mem.book_col_map /\ m.col_book_map = u.mem.col_book_map
          /\ m = [id_map |-> m.id_map, book_col_map |-> m.book_col_map,
                  col_book_map |-> m.col_book_map]
      BY <1>1, <1>7 DEF Agrees, Memory
    <2>. HIDE DEF m, u
    <2>2. m.id_map = dd.rows /\ m.book_col_map = dd.links
      BY <1>1, <1>2, <1>7, <2>1
    <2>3. m \in Memory
      BY <1>1, <1>2, <1>7, <2>1, <2>2 DEF Memory, Database, Agrees
    <2>4. Known(m) = Rows(dd) /\ Known(u.mem) = Rows(d)
      BY <1>1, <1>7, <2>2 DEF Known, Rows
    <2>5. Agrees(m)
      BY <1>1, <1>4, <1>7, <2>1, <2>3, <2>4 DEF Agrees
    <2>. QED BY <1>2, <2>2, <2>5, ReadIs
  <1>9. v \in States(A) /\ v.mem = Read(dd) /\ v.db = dd /\ v.dirtied = s.dirtied
    <2>. HIDE DEF m, u
    <2>. QED BY <1>7, <1>8, MemFacts DEF v
  <1>10. D \in SUBSET Books
    BY <1>1 DEF D
  <1>11. t \in States(A) /\ t.mem = Read(dd) /\ t.db = dd /\ t.dirtied = s.dirtied \cup D
    BY <1>3, <1>9, <1>10, DirtyFacts
  <1>12. ASSUME NEW b \in Books \ t.dirtied, NEW i \in ToSet(d.links[b])
         PROVE  dd.rows[i] = d.rows[i]
    <2>1. i \in Items /\ b \notin D
      BY <1>1, <1>11 DEF Sound, Rows
    <2>2. b \in s.mem.col_book_map[i]
      BY <1>1, <2>1
    <2>3. changes[i] = None
      BY <2>1, <2>2 DEF D
    <2>. QED BY <1>2, <2>1, <2>3
  <1>. QED BY <1>2, <1>4, <1>11, <1>12

NamesAdded(A, s, X, vals, t) ==
    /\ t \in States(A) /\ t.mem = Read(t.db) /\ t.db.links = s.db.links
    /\ s.dirtied \subseteq t.dirtied
    /\ \A i \in Rows(s.db) :
         i \in Rows(t.db) /\ icu_lower(t.db.rows[i]) = icu_lower(s.db.rows[i])
    /\ \A b \in X : NewWords(vals[b]) \subseteq RowWords(t.db)
    /\ \A b \in Books \ t.dirtied : \A i \in ToSet(s.db.links[b]) :
         t.db.rows[i] = s.db.rows[i]

\* Every name has its item, in whose case it may be.
LEMMA AddedNamesFacts ==
    ASSUME NEW A, NEW s \in States(A), NEW W, IsFiniteSet(W),
           s.mem = Read(s.db),
           Max(Rows(s.db) \cup {0}) + Cardinality(W \ RowWords(s.db)) <= MaxItem,
           NEW X \in SUBSET Books, NEW vals \in [X -> Seq(Names)],
           \A b \in X : NewWords(vals[b]) \subseteq W,
           NEW allow \in BOOLEAN, NEW t, t = AddedNames(AddAllNames(s, vals), allow)
    PROVE  NamesAdded(A, s, X, vals, t)
  <1>. DEFINE c == AddAllNames(s, vals)
              V == UNION {NewWords(vals[b]) : b \in X}
  <1>1. c \in Added(A, s, W, V)
    BY AddAllNamesFacts, SMTT(30)
  <1>. HIDE DEF c
  <1>2. /\ c.state \in States(A) /\ c.case_changes \in [Items -> Names \cup {None}]
        /\ c.state.mem = Read(c.state.db)
        /\ c.state.dirtied = s.dirtied /\ c.state.db.links = s.db.links
        /\ \A i \in Rows(s.db) : c.state.db.rows[i] = s.db.rows[i]
        /\ V \subseteq RowWords(c.state.db)
        /\ \A i \in Items : c.case_changes[i] # None =>
                /\ i \in Rows(c.state.db)
                /\ icu_lower(c.case_changes[i]) = icu_lower(c.state.db.rows[i])
    BY <1>1 DEF Added
  <1>3. Sound(Multiple, s.db) /\ \A i \in Rows(s.db) : i \in Rows(c.state.db)
    <2>1. \A i \in Rows(s.db) : i \in Rows(c.state.db)
      BY <1>2 DEF Rows
    <2>. QED BY <2>1, StateFacts
  <1>4. \A b \in Books : \A i \in ToSet(s.db.links[b]) : c.state.db.rows[i] = s.db.rows[i]
    BY <1>2, <1>3 DEF Sound
  <1>5. \A b \in X : NewWords(vals[b]) \subseteq RowWords(c.state.db)
    BY <1>2
  <1>6. CASE ~ allow
    <2>1. t = c.state
      BY <1>6 DEF AddedNames, c
    <2>. QED BY <1>2, <1>3, <1>4, <1>5, <2>1 DEF NamesAdded
  <1>7. CASE allow
    <2>1. t = change_case(c.state, c.case_changes)
      BY <1>7 DEF AddedNames, c
    <2>2. /\ t \in States(A) /\ t.mem = Read(t.db) /\ t.db.links = c.state.db.links
          /\ c.state.dirtied \subseteq t.dirtied /\ Rows(t.db) = Rows(c.state.db)
          /\ \A i \in Rows(t.db) : icu_lower(t.db.rows[i]) = icu_lower(c.state.db.rows[i])
          /\ \A b \in Books \ t.dirtied : \A i \in ToSet(c.state.db.links[b]) :
                t.db.rows[i] = c.state.db.rows[i]
      BY <1>2, <2>1, ChangeCaseFacts, SMTT(30)
    <2>3. RowWords(t.db) = RowWords(c.state.db)
      BY <2>2 DEF RowWords
    <2>. QED BY <1>2, <1>3, <1>4, <1>5, <2>2, <2>3 DEF NamesAdded
  <1>. QED BY <1>6, <1>7

-------------------------------------------------------------------------------
(* Setting values *)

LinksSet(A, s, S, ids, t) ==
    /\ t \in States(A) /\ t.mem = s.mem /\ t.dirtied = s.dirtied
    /\ \A b \in S : t.db.links[b] = ids[b]
    /\ \A b \in Books \ S : t.db.links[b] = s.db.links[b]
    /\ t.db.rows = s.db.rows /\ t.db \in Database

LEMMA SetLinksFacts ==
    ASSUME NEW A, NEW s \in States(A), NEW S \in SUBSET Books, NEW ids,
           \A b \in S : ids[b] \in Seq(Items) /\ IsInjective(ids[b])
                        /\ ToSet(ids[b]) \subseteq Rows(s.db)
                        /\ RowWordsOf(s.db, ids[b]) \in A[b],
           ~ Multiple => \A b \in S : Len(ids[b]) <= 1,
           NEW t, t = Execute(s, SetLinks(s.db, S, ids))
    PROVE  LinksSet(A, s, S, ids, t)
  <1>. DEFINE links == [b \in Books |-> IF b \in S THEN ids[b] ELSE s.db.links[b]]
  <1>1. Sound(Multiple, s.db) /\ s.db \in Database
    BY DEF States
  <1>2. links \in [Books -> Seq(Items)]
    BY <1>1 DEF Database
  <1>3. \A b \in Books : IsInjective(links[b]) /\ ToSet(links[b]) \subseteq Rows(s.db)
    BY <1>1 DEF Sound
  <1>4. ~ Multiple => \A b \in Books : Len(links[b]) <= 1
    BY <1>1 DEF Sound
  <1>5. ASSUME NEW b \in Books
        PROVE  RowWordsOf(s.db, links[b]) \in A[b]
    <2>1. Words(s.db, b) \in A[b]
      BY StateFacts
    <2>. QED BY <2>1 DEF Words, RowWordsOf
  <1>6. t = Execute(s, [s.db EXCEPT !.links = links])
    BY <1>1 DEF SetLinks, Database
  <1>. HIDE DEF links
  <1>7. /\ t \in States(A) /\ t.mem = s.mem /\ t.dirtied = s.dirtied
        /\ t.db.links = links /\ t.db.rows = s.db.rows /\ t.db \in Database
    BY <1>2, <1>3, <1>4, <1>5, <1>6, NewLinksFacts
  <1>. QED BY <1>7 DEF links, LinksSet

Unlinks(A, s, S, t) ==
    /\ t \in States(A) /\ t.mem = s.mem /\ t.dirtied = s.dirtied
    /\ \A b \in S : t.db.links[b] = <<>>
    /\ \A b \in Books \ S : t.db.links[b] = s.db.links[b]
    /\ t.db.rows = s.db.rows /\ t.db \in Database

LEMMA UnlinkFacts ==
    ASSUME NEW A, NEW s \in States(A), NEW S \in SUBSET Books, \A b \in S : {} \in A[b],
           NEW t, t = DeleteBookLinks(s, S)
    PROVE  Unlinks(A, s, S, t)
  <1>. DEFINE links == [b \in Books |-> IF b \in S THEN <<>> ELSE s.db.links[b]]
  <1>1. Sound(Multiple, s.db) /\ s.db \in Database
    BY DEF States
  <1>2. ToSet(<<>>) = {} /\ <<>> \in Seq(Items) /\ IsInjective(<<>>) /\ Len(<<>>) <= 1
    BY DEF ToSet, IsInjective
  <1>3. links \in [Books -> Seq(Items)]
    BY <1>1 DEF Database
  <1>4. \A b \in Books : IsInjective(links[b]) /\ ToSet(links[b]) \subseteq Rows(s.db)
    BY <1>1, <1>2 DEF Sound
  <1>5. ~ Multiple => \A b \in Books : Len(links[b]) <= 1
    BY <1>1, <1>2 DEF Sound
  <1>6. ASSUME NEW b \in Books
        PROVE  RowWordsOf(s.db, links[b]) \in A[b]
    <2>1. Words(s.db, b) \in A[b]
      BY StateFacts
    <2>2. RowWordsOf(s.db, <<>>) = {}
      BY <1>2 DEF RowWordsOf
    <2>3. b \notin S => RowWordsOf(s.db, links[b]) = Words(s.db, b)
      BY DEF Words, RowWordsOf
    <2>. QED BY <2>1, <2>2, <2>3
  <1>7. t = Execute(s, [s.db EXCEPT !.links = links])
    BY <1>1 DEF DeleteBookLinks, SetLinks, Unlinked, Database
  <1>. HIDE DEF links
  <1>8. /\ t \in States(A) /\ t.mem = s.mem /\ t.dirtied = s.dirtied
        /\ t.db.links = links /\ t.db.rows = s.db.rows /\ t.db \in Database
    BY <1>3, <1>4, <1>5, <1>6, <1>7, NewLinksFacts
  <1>. QED BY <1>8 DEF links, Unlinks

\* Items without books may go, from memory and database, in whatever order.
LEMMA ForgetFacts ==
    ASSUME NEW A, NEW s \in States(A), NEW S \in SUBSET Items,
           \A b \in Books : ToSet(s.db.links[b]) \cap S = {},
           s.mem = Read(s.db), NEW t, t.mem \in Memory,
           t.mem.id_map = Forget(s.mem.id_map, S, None),
           t.mem.book_col_map = s.mem.book_col_map, t.mem.col_book_map = s.mem.col_book_map,
           t.db.rows = Forget(s.db.rows, S, None), t.db.links = s.db.links, t.db \in Database
    PROVE  t.mem = Read(t.db) /\ Agrees(t.mem)
  <1>1. /\ Sound(Multiple, s.db) /\ Agrees(s.mem)
        /\ s.mem.id_map = s.db.rows /\ s.mem.book_col_map = s.db.links
    BY StateFacts, ReadFacts
  <1>2. /\ t.mem.id_map = t.db.rows /\ t.mem.book_col_map = t.db.links
        /\ t.mem.col_book_map = s.mem.col_book_map /\ t.mem \in Memory
    BY <1>1 DEF Agrees, Memory, Database
  <1>3. \A i \in Items : t.mem.id_map[i] = IF i \in S THEN None ELSE s.mem.id_map[i]
    BY <1>1, <1>2 DEF Forget
  <1>4. \A b \in Books : ToSet(t.mem.book_col_map[b]) \subseteq Known(t.mem)
    BY <1>1, <1>2, <1>3 DEF Agrees, Known
  <1>5. Agrees(t.mem)
    BY <1>1, <1>2, <1>4 DEF Agrees
  <1>. QED BY <1>2, <1>5, ReadIs

LEMMA RemoveUnusedFacts ==
    ASSUME NEW A, NEW s \in States(A), s.mem = Read(s.db), NEW t, t = RemoveUnused(s)
    PROVE  /\ t \in States(A) /\ t.mem = Read(t.db) /\ t.dirtied = s.dirtied
           /\ t.db.links = s.db.links
           /\ \A b \in Books : \A i \in ToSet(s.db.links[b]) : t.db.rows[i] = s.db.rows[i]
  <1>. DEFINE unused == {i \in Known(s.mem) : s.mem.col_book_map[i] = {}}
              u == DeleteRows(s, unused)
  <1>1. /\ Sound(Multiple, s.db)
        /\ s.mem.col_book_map = [i \in Items |-> {b \in Books : i \in ToSet(s.db.links[b])}]
    BY StateFacts, ReadFacts
  <1>2. unused \in SUBSET Items
    BY DEF Known
  <1>3. \A b \in Books : ToSet(s.db.links[b]) \cap unused = {}
    BY <1>1, <1>2
  <1>4. t = [u EXCEPT !.mem.id_map = Forget(@, unused, None)]
    BY DEF RemoveUnused, RemoveItemsUnused
  <1>. HIDE DEF unused
  <1>5. /\ u \in States(A) /\ u.mem = s.mem /\ u.dirtied = s.dirtied
        /\ u.db.links = s.db.links /\ u.db.rows = Forget(s.db.rows, unused, None)
        /\ u.db \in Database
    BY <1>2, <1>3, DeleteRowsFacts
  <1>. HIDE DEF u
  <1>. DEFINE m == [u.mem EXCEPT !.id_map = Forget(@, unused, None)]
  <1>6. t = [u EXCEPT !.mem = m]
    BY <1>4
  <1>7. t.mem = m /\ t.db = u.db /\ t.dirtied = u.dirtied
    BY <1>5, <1>6 DEF States
  <1>8. t.mem = Read(t.db) /\ Agrees(t.mem)
    <2>1. /\ t.mem.id_map = Forget(s.mem.id_map, unused, None)
          /\ t.mem.book_col_map = s.mem.book_col_map
          /\ t.mem.col_book_map = s.mem.col_book_map /\ t.mem \in Memory
      <3>1. Agrees(s.mem) /\ m = [s.mem EXCEPT !.id_map = Forget(@, unused, None)]
        BY <1>5, StateFacts
      <3>. QED BY <1>7, <3>1, LinkTableAssumption DEF Agrees, Memory, Forget
    <2>2. t.db.rows = Forget(s.db.rows, unused, None) /\ t.db.links = s.db.links
          /\ t.db \in Database
      BY <1>5, <1>7
    <2>. QED BY <1>2, <1>3, <2>1, <2>2, ForgetFacts
  <1>9. t \in States(A)
    <2>. HIDE DEF m
    <2>. QED BY <1>5, <1>6, <1>7, <1>8, MemFacts
  <1>10. \A b \in Books : \A i \in ToSet(s.db.links[b]) : i \in Items /\ i \notin unused
    BY <1>1, <1>3 DEF Sound, Rows
  <1>. QED BY <1>5, <1>7, <1>8, <1>9, <1>10 DEF Forget

Assigned(m, S, ids, n) ==
    /\ Agrees(n) /\ n.id_map = m.id_map
    /\ \A b \in S : n.book_col_map[b] = ids[b]
    /\ \A b \in Books \ S : n.book_col_map[b] = m.book_col_map[b]

LEMMA AssignFacts ==
    ASSUME NEW m, Agrees(m), NEW S \in SUBSET Books, NEW ids,
           \A b \in S : ids[b] \in Seq(Items) /\ ToSet(ids[b]) \subseteq Known(m),
           NEW n, n = Assign(m, ids, S)
    PROVE  Assigned(m, S, ids, n)
  <1>1. /\ n.id_map = m.id_map
        /\ n.book_col_map = [b \in Books |-> IF b \in S THEN ids[b] ELSE m.book_col_map[b]]
        /\ n.col_book_map = [i \in Items |->
            (m.col_book_map[i] \ {b \in S : i \in ToSet(m.book_col_map[b])})
                \cup {b \in S : i \in ToSet(ids[b])}]
        /\ n = [id_map |-> n.id_map, book_col_map |-> n.book_col_map,
                col_book_map |-> n.col_book_map]
    BY DEF Agrees, Memory, Assign
  <1>2. n \in Memory
    <2>1. n.book_col_map \in [Books -> Seq(Items)]
      BY <1>1 DEF Agrees, Memory
    <2>2. n.col_book_map \in [Items -> SUBSET Books]
      BY <1>1 DEF Agrees, Memory
    <2>. QED BY <1>1, <2>1, <2>2 DEF Agrees, Memory
  <1>3. ASSUME NEW i \in Items
        PROVE  n.col_book_map[i] = {b \in Books : i \in ToSet(n.book_col_map[b])}
    <2>1. m.col_book_map[i] = {b \in Books : i \in ToSet(m.book_col_map[b])}
      BY DEF Agrees
    <2>. QED BY <1>1, <2>1
  <1>4. \A b \in Books : ToSet(n.book_col_map[b]) \subseteq Known(n)
    BY <1>1 DEF Agrees, Known
  <1>. QED BY <1>1, <1>2, <1>3, <1>4 DEF Agrees, Assigned

ItemsStored(A, s, S, ids, t) ==
    /\ t \in States(A) /\ t.mem = Read(t.db) /\ t.dirtied = s.dirtied \cup S
    /\ \A b \in S : t.db.links[b] = ids[b]
    /\ \A b \in Books \ S : t.db.links[b] = s.db.links[b]
    /\ \A b \in Books : \A i \in ToSet(t.db.links[b]) : t.db.rows[i] = s.db.rows[i]

LEMMA StoreItemsFacts ==
    ASSUME NEW A, NEW s \in States(A), s.mem = Read(s.db), NEW S \in SUBSET Books, NEW ids,
           \A b \in S : ids[b] \in Seq(Items) /\ IsInjective(ids[b])
                        /\ ToSet(ids[b]) \subseteq Rows(s.db)
                        /\ RowWordsOf(s.db, ids[b]) \in A[b],
           ~ Multiple => \A b \in S : Len(ids[b]) <= 1,
           Multiple => \A b \in S : {} \in A[b],
           NEW t, t = StoreItems(s, S, ids)
    PROVE  ItemsStored(A, s, S, ids, t)
  <1>. DEFINE m == Assign(s.mem, ids, S)
              s1 == [s EXCEPT !.mem = m]
              s2 == Dirty(s1, S)
              D == IF Multiple THEN S ELSE {b \in S : ids[b] = <<>>}
              s3 == DeleteBookLinks(s2, D)
              s4 == Execute(s3, SetLinks(s3.db, S, ids))
              links == [b \in Books |-> IF b \in S THEN ids[b] ELSE s.db.links[b]]
  <1>1. /\ Sound(Multiple, s.db) /\ Agrees(s.mem) /\ Known(s.mem) = Rows(s.db)
        /\ s.mem.id_map = s.db.rows /\ s.mem.book_col_map = s.db.links
    BY StateFacts, ReadFacts
  <1>0. m = Assign(s.mem, ids, S)
    OBVIOUS
  <1>2. t = RemoveUnused(s4)
    BY DEF StoreItems, StoreLinks, InsertLinks
  <1>3. Agrees(m) /\ m.id_map = s.db.rows /\ m.book_col_map = links
    <2>. HIDE DEF m
    <2>1. Assigned(s.mem, S, ids, m)
      <3>1. \A b \in S : ids[b] \in Seq(Items) /\ ToSet(ids[b]) \subseteq Known(s.mem)
        BY <1>1
      <3>. QED BY <1>0, <1>1, <3>1, AssignFacts
    <2>2. m.book_col_map = [b \in Books |-> m.book_col_map[b]]
      BY <2>1 DEF Assigned, Agrees, Memory
    <2>. QED BY <1>1, <2>1, <2>2 DEF Assigned
  <1>4. s1 \in States(A) /\ s1.mem = m /\ s1.db = s.db /\ s1.dirtied = s.dirtied
    <2>. HIDE DEF m
    <2>. QED BY <1>3, MemFacts
  <1>5. s2 \in States(A) /\ s2.mem = m /\ s2.db = s.db /\ s2.dirtied = s.dirtied \cup S
    <2>. HIDE DEF m, s1
    <2>. QED BY <1>4, DirtyFacts
  <1>6. D \in SUBSET Books /\ D \subseteq S /\ \A b \in D : {} \in A[b]
    <2>1. ToSet(<<>>) = {}
      BY DEF ToSet
    <2>2. \A b \in S : ids[b] = <<>> => RowWordsOf(s.db, ids[b]) = {}
      BY <2>1 DEF RowWordsOf
    <2>. QED BY <2>2
  <1>7. /\ s3 \in States(A) /\ s3.mem = m /\ s3.dirtied = s.dirtied \cup S
        /\ \A b \in D : s3.db.links[b] = <<>>
        /\ \A b \in Books \ D : s3.db.links[b] = s.db.links[b]
        /\ s3.db.rows = s.db.rows /\ s3.db \in Database
    <2>1. s3 = DeleteBookLinks(s2, D)
      OBVIOUS
    <2>. HIDE DEF s2, s3, D, m
    <2>2. Unlinks(A, s2, D, s3)
      BY <1>5, <1>6, <2>1, UnlinkFacts
    <2>. QED BY <1>5, <2>2 DEF Unlinks
  <1>8. /\ s4 \in States(A) /\ s4.mem = m /\ s4.dirtied = s.dirtied \cup S
        /\ s4.db.links = links /\ s4.db.rows = s.db.rows /\ s4.db \in Database
    <2>. HIDE DEF s2, s3, D, m
    <2>1. Rows(s3.db) = Rows(s.db)
      BY <1>7 DEF Rows
    <2>2. \A q : RowWordsOf(s3.db, q) = RowWordsOf(s.db, q)
      BY <1>7 DEF RowWordsOf
    <2>3. \A b \in S : ids[b] \in Seq(Items) /\ IsInjective(ids[b])
                       /\ ToSet(ids[b]) \subseteq Rows(s3.db)
                       /\ RowWordsOf(s3.db, ids[b]) \in A[b]
      BY <2>1, <2>2
    <2>4. s4 = Execute(s3, SetLinks(s3.db, S, ids))
      OBVIOUS
    <2>. HIDE DEF s4
    <2>5. LinksSet(A, s3, S, ids, s4)
      BY <1>7, <2>3, <2>4, SetLinksFacts
    <2>6. \A b \in Books : b \notin S => s4.db.links[b] = s.db.links[b]
      BY <1>6, <1>7, <2>5 DEF LinksSet
    <2>7. s4.db.links = [b \in Books |-> s4.db.links[b]]
      BY <2>5 DEF LinksSet, Database
    <2>. QED BY <1>7, <2>5, <2>6, <2>7 DEF LinksSet
  <1>. HIDE DEF s1, s2, s3, s4, m, D
  <1>9. s4.mem = Read(s4.db)
    BY <1>3, <1>8, ReadIs
  <1>10. /\ t \in States(A) /\ t.mem = Read(t.db) /\ t.dirtied = s4.dirtied
         /\ t.db.links = s4.db.links
         /\ \A b \in Books : \A i \in ToSet(s4.db.links[b]) : t.db.rows[i] = s4.db.rows[i]
    BY <1>2, <1>8, <1>9, RemoveUnusedFacts
  <1>. QED BY <1>8, <1>10 DEF ItemsStored

NamesStored(A, s, X, vals, t) ==
    /\ t \in States(A) /\ t.mem = Read(t.db) /\ s.dirtied \subseteq t.dirtied
    /\ \A b \in X : Words(t.db, b) = NewWords(vals[b])
    /\ \A b \in Books \ X : Words(t.db, b) = Words(s.db, b)
    /\ \A b \in Books \ t.dirtied : t.db.links[b] = s.db.links[b]
    /\ \A b \in Books : \A i \in ToSet(t.db.links[b]) : t.db.rows[i] = s.db.rows[i]

LEMMA StoreNamesFacts ==
    ASSUME NEW A, NEW s \in States(A), s.mem = Read(s.db),
           NEW X \in SUBSET Books, NEW vals \in [X -> Seq(Names)],
           \A b \in X : NewWords(vals[b]) \subseteq RowWords(s.db) /\ NewWords(vals[b]) \in A[b],
           \A b \in X : \A j, k \in DOMAIN vals[b] :
                icu_lower(vals[b][j]) = icu_lower(vals[b][k]) => j = k,
           ~ Multiple => \A b \in X : Len(vals[b]) <= 1,
           Multiple => \A b \in X : {} \in A[b],
           NEW t, t = StoreNames(s, vals)
    PROVE  NamesStored(A, s, X, vals, t)
  <1>. DEFINE ids == [b \in X |-> [k \in DOMAIN vals[b] |-> ItemOf(s.mem, vals[b][k])]]
              S == {b \in X : ids[b] # s.mem.book_col_map[b] \/ (Multiple /\ ids[b] = <<>>)}
  <1>1. Sound(Multiple, s.db) /\ s.mem.book_col_map = s.db.links /\ s.dirtied \subseteq Books
    BY StateFacts, ReadFacts
  <1>2. t = StoreItems(s, S, ids)
    BY DEF StoreNames, StoreChanges, Changed
  <1>3. \A b \in X : ids[b] = [k \in DOMAIN vals[b] |-> ItemOf(s.mem, vals[b][k])]
    OBVIOUS
  <1>. HIDE DEF ids
  <1>4. ASSUME NEW b \in X
        PROVE  /\ ids[b] \in Seq(Items) /\ IsInjective(ids[b]) /\ Len(ids[b]) = Len(vals[b])
               /\ ToSet(ids[b]) \subseteq Rows(s.db)
               /\ RowWordsOf(s.db, ids[b]) = NewWords(vals[b])
    <2>. PICK n : n = Len(vals[b])
      OBVIOUS
    <2>. PICK v : v = vals[b]
      OBVIOUS
    <2>. PICK q : q = ids[b]
      OBVIOUS
    <2>1. v \in Seq(Names) /\ n \in Nat /\ DOMAIN v = 1..n /\ Len(v) = n
      OBVIOUS
    <2>2. q = [k \in 1..n |-> ItemOf(s.mem, v[k])]
      BY <1>3, <2>1
    <2>3. \A k \in 1..n : /\ q[k] \in Rows(s.db) /\ q[k] \in Items
                          /\ icu_lower(s.db.rows[q[k]]) = icu_lower(v[k])
      <3>. SUFFICES ASSUME NEW k \in 1..n
                    PROVE  q[k] \in Rows(s.db) /\ icu_lower(s.db.rows[q[k]]) = icu_lower(v[k])
        BY DEF Rows
      <3>1. v[k] \in ToSet(v)
        BY <2>1 DEF ToSet
      <3>2. icu_lower(v[k]) \in RowWords(s.db)
        BY <3>1 DEF NewWords
      <3>. QED BY <1>1, <2>2, <3>2, HasItemFacts
    <2>4. q \in Seq(Items) /\ DOMAIN q = 1..n /\ Len(q) = n
      <3>1. q \in [1..n -> Items] /\ DOMAIN q = 1..n
        BY <2>2, <2>3
      <3>2. \A m \in Nat : \A f \in [1..m -> Items] : f \in Seq(Items) /\ Len(f) = m
        OBVIOUS
      <3>. QED BY <2>1, <3>1, <3>2
    <2>5. IsInjective(q)
      <3>1. \A j, k \in 1..n : q[j] = q[k] => icu_lower(v[j]) = icu_lower(v[k])
        BY <2>3
      <3>. QED BY <2>1, <2>4, <3>1 DEF IsInjective
    <2>6. ToSet(q) = {q[k] : k \in 1..n} /\ ToSet(v) = {v[k] : k \in 1..n}
      BY <2>1, <2>4 DEF ToSet
    <2>7. ToSet(q) \subseteq Rows(s.db)
      BY <2>3, <2>6
    <2>8. RowWordsOf(s.db, q) = NewWords(v)
      <3>1. \A x \in RowWordsOf(s.db, q) : x \in NewWords(v)
        BY <2>3, <2>6 DEF RowWordsOf, NewWords
      <3>2. \A x \in NewWords(v) : x \in RowWordsOf(s.db, q)
        BY <2>3, <2>6 DEF RowWordsOf, NewWords
      <3>. QED BY <3>1, <3>2
    <2>. QED BY <2>4, <2>5, <2>7, <2>8
  <1>5. S \in SUBSET Books /\ S \subseteq X
    OBVIOUS
  <1>6. \A b \in Books : b \notin S => b \notin X \/ ids[b] = s.db.links[b]
    BY <1>1
  <1>. HIDE DEF S
  <1>7. \A b \in S : ids[b] \in Seq(Items) /\ IsInjective(ids[b])
                     /\ ToSet(ids[b]) \subseteq Rows(s.db)
                     /\ RowWordsOf(s.db, ids[b]) \in A[b]
    BY <1>4, <1>5
  <1>8. /\ ~ Multiple => \A b \in S : Len(ids[b]) <= 1
        /\ Multiple => \A b \in S : {} \in A[b]
    BY <1>4, <1>5
  <1>9. /\ t \in States(A) /\ t.mem = Read(t.db) /\ t.dirtied = s.dirtied \cup S
        /\ \A b \in S : t.db.links[b] = ids[b]
        /\ \A b \in Books \ S : t.db.links[b] = s.db.links[b]
        /\ \A b \in Books : \A i \in ToSet(t.db.links[b]) : t.db.rows[i] = s.db.rows[i]
    <2>1. ItemsStored(A, s, S, ids, t)
      BY <1>2, <1>5, <1>7, <1>8, StoreItemsFacts
    <2>. QED BY <2>1 DEF ItemsStored
  <1>10. ASSUME NEW b \in Books
         PROVE  /\ b \in X => Words(t.db, b) = NewWords(vals[b])
                /\ b \notin X => Words(t.db, b) = Words(s.db, b)
    <2>1. Words(t.db, b) = RowWordsOf(s.db, t.db.links[b])
      BY <1>9 DEF Words, RowWordsOf
    <2>2. CASE b \in X
      BY <1>4, <1>6, <1>9, <2>1, <2>2
    <2>3. CASE b \notin X
      <3>1. t.db.links[b] = s.db.links[b]
        BY <1>5, <1>9, <2>3
      <3>2. RowWordsOf(s.db, s.db.links[b]) = Words(s.db, b)
        BY DEF Words, RowWordsOf
      <3>. QED BY <2>1, <2>3, <3>1, <3>2
    <2>. QED BY <2>2, <2>3
  <1>. QED BY <1>9, <1>10 DEF NamesStored

LEMMA SameNames ==
    ASSUME NEW m, NEW n, NEW b, m.book_col_map[b] = n.book_col_map[b],
           \A i \in ToSet(m.book_col_map[b]) : m.id_map[i] = n.id_map[i]
    PROVE  names(m, b) = names(n, b)
  BY DEF names, ToSet

BooksSet(A, s, X, val_map, t) ==
    /\ t \in States(A) /\ t.mem = Read(t.db) /\ s.dirtied \subseteq t.dirtied
    /\ \A b \in X : Words(t.db, b) = NewWords(val_map[b])
    /\ \A b \in Books \ X : Words(t.db, b) = Words(s.db, b)
    /\ \A b \in Books \ t.dirtied : names(t.mem, b) = names(s.mem, b)

\* set_field(): the books of X get the values asked for, and every book whose
\* values change is marked.
LEMMA SetBooksFacts ==
    ASSUME NEW A, NEW s \in States(A), NEW W, IsFiniteSet(W), s.mem = Read(s.db),
           Max(Rows(s.db) \cup {0}) + Cardinality(W \ RowWords(s.db)) <= MaxItem,
           NEW X \in SUBSET Books, NEW val_map \in [X -> Seq(Names)],
           \A b \in X : NewWords(val_map[b]) \subseteq W /\ NewWords(val_map[b]) \in A[b],
           ~ Multiple => \A b \in X : Len(val_map[b]) <= 1,
           Multiple => \A b \in X : {} \in A[b],
           NEW allow \in BOOLEAN, NEW t, t = set_books(s, val_map, allow)
    PROVE  BooksSet(A, s, X, val_map, t)
  <1>. DEFINE vals == [b \in X |-> uniq(val_map[b], Lowered(val_map[b]))]
              u == AddedNames(AddAllNames(s, vals), allow)
  <1>1. /\ Sound(Multiple, s.db) /\ s.mem.book_col_map = s.db.links
        /\ s.mem.id_map = s.db.rows /\ Known(s.mem) = Rows(s.db)
    BY StateFacts, ReadFacts
  <1>2. Distinct(s.mem)
    BY <1>1 DEF Distinct, Sound
  <1>3. t = StoreNames(u, vals)
    BY <1>2 DEF set_books, SetUnique
  <1>4. \A b \in X : vals[b] = uniq(val_map[b], Lowered(val_map[b]))
    OBVIOUS
  <1>5. DOMAIN vals = X /\ vals = [b \in X |-> vals[b]]
    OBVIOUS
  <1>. HIDE DEF vals
  <1>6. ASSUME NEW b \in X
        PROVE  /\ vals[b] \in Seq(Names) /\ Len(vals[b]) <= Len(val_map[b])
               /\ \A j, k \in DOMAIN vals[b] :
                    icu_lower(vals[b][j]) = icu_lower(vals[b][k]) => j = k
               /\ NewWords(vals[b]) = NewWords(val_map[b])
    BY <1>4, UniqFacts
  <1>7. vals \in [X -> Seq(Names)]
    BY <1>5, <1>6
  <1>8. \A b \in X : NewWords(vals[b]) \subseteq W /\ NewWords(vals[b]) \in A[b]
    BY <1>6
  <1>9. /\ u \in States(A) /\ u.mem = Read(u.db) /\ u.db.links = s.db.links
        /\ s.dirtied \subseteq u.dirtied
        /\ \A i \in Rows(s.db) :
             i \in Rows(u.db) /\ icu_lower(u.db.rows[i]) = icu_lower(s.db.rows[i])
        /\ \A b \in X : NewWords(vals[b]) \subseteq RowWords(u.db)
        /\ \A b \in Books \ u.dirtied : \A i \in ToSet(s.db.links[b]) :
             u.db.rows[i] = s.db.rows[i]
    <2>1. \A b \in X : NewWords(vals[b]) \subseteq W
      BY <1>8
    <2>2. u = AddedNames(AddAllNames(s, vals), allow)
      OBVIOUS
    <2>. HIDE DEF u
    <2>3. NamesAdded(A, s, X, vals, u)
      BY <1>7, <2>1, <2>2, AddedNamesFacts
    <2>. QED BY <2>3 DEF NamesAdded
  <1>. HIDE DEF u
  <1>10. /\ \A b \in X : NewWords(vals[b]) \subseteq RowWords(u.db) /\ NewWords(vals[b]) \in A[b]
         /\ \A b \in X : \A j, k \in DOMAIN vals[b] :
                icu_lower(vals[b][j]) = icu_lower(vals[b][k]) => j = k
         /\ ~ Multiple => \A b \in X : Len(vals[b]) <= 1
    <2>1. ASSUME ~ Multiple, NEW b \in X PROVE Len(vals[b]) <= 1
      <3>1. Len(vals[b]) <= Len(val_map[b]) /\ Len(val_map[b]) <= 1
        BY <1>6, <2>1
      <3>2. Len(vals[b]) \in Nat /\ Len(val_map[b]) \in Nat
        BY <1>7
      <3>. QED BY <3>1, <3>2
    <2>. QED BY <1>6, <1>8, <1>9, <2>1
  <1>11. /\ t \in States(A) /\ t.mem = Read(t.db) /\ u.dirtied \subseteq t.dirtied
         /\ \A b \in X : Words(t.db, b) = NewWords(vals[b])
         /\ \A b \in Books \ X : Words(t.db, b) = Words(u.db, b)
         /\ \A b \in Books \ t.dirtied : t.db.links[b] = u.db.links[b]
         /\ \A b \in Books : \A i \in ToSet(t.db.links[b]) : t.db.rows[i] = u.db.rows[i]
    <2>1. NamesStored(A, u, X, vals, t)
      BY <1>3, <1>7, <1>9, <1>10, StoreNamesFacts
    <2>. QED BY <2>1 DEF NamesStored
  <1>12. \A b \in Books : Words(u.db, b) = Words(s.db, b)
    BY <1>1, <1>9 DEF Words, Sound
  <1>13. ASSUME NEW b \in Books \ t.dirtied PROVE names(t.mem, b) = names(s.mem, b)
    <2>1. Sound(Multiple, t.db)
      BY <1>11, StateFacts
    <2>2. t.mem.book_col_map = t.db.links /\ t.mem.id_map = t.db.rows
      BY <1>11, <2>1, ReadFacts, ZenonT(60)
    <2>3. /\ t.mem.book_col_map[b] = s.mem.book_col_map[b]
          /\ \A i \in ToSet(t.mem.book_col_map[b]) : t.mem.id_map[i] = s.mem.id_map[i]
      BY <1>1, <1>9, <1>11, <2>2
    <2>. QED BY <2>3, SameNames
  <1>. QED BY <1>6, <1>9, <1>11, <1>12, <1>13 DEF BooksSet

-------------------------------------------------------------------------------
(* Renaming an item *)

LEMMA ReplacedFacts ==
    ASSUME NEW q \in Seq(Items), NEW i \in Items, NEW j \in Items, j \notin ToSet(q),
           NEW r, r = Replaced(q, i, j)
    PROVE  /\ r \in Seq(Items) /\ Len(r) = Len(q)
           /\ IsInjective(q) => IsInjective(r)
           /\ i \in ToSet(q) => ToSet(r) = (ToSet(q) \ {i}) \cup {j}
           /\ i \notin ToSet(q) => r = q
  <1>. PICK n : n = Len(q)
    OBVIOUS
  <1>1. n \in Nat /\ DOMAIN q = 1..n /\ \A k \in 1..n : q[k] \in Items
    OBVIOUS
  <1>2. r = [k \in 1..n |-> IF q[k] = i THEN j ELSE q[k]]
    BY <1>1 DEF Replaced
  <1>3. r \in Seq(Items) /\ Len(r) = n /\ DOMAIN r = 1..n
    <2>1. r \in [1..n -> Items]
      BY <1>1, <1>2
    <2>2. \A m \in Nat : \A f \in [1..m -> Items] : f \in Seq(Items) /\ Len(f) = m
      OBVIOUS
    <2>. QED BY <1>1, <1>2, <2>1, <2>2
  <1>4. \A k \in 1..n : r[k] = IF q[k] = i THEN j ELSE q[k]
    BY <1>2
  <1>5. \A k \in 1..n : q[k] # j
    BY <1>1 DEF ToSet
  <1>6. IsInjective(q) => IsInjective(r)
    BY <1>1, <1>3, <1>4, <1>5 DEF IsInjective
  <1>7. ASSUME i \in ToSet(q) PROVE ToSet(r) = (ToSet(q) \ {i}) \cup {j}
    <2>1. PICK l \in 1..n : q[l] = i
      BY <1>1, <1>7 DEF ToSet
    <2>2. \A x \in ToSet(r) : x \in (ToSet(q) \ {i}) \cup {j}
      BY <1>1, <1>3, <1>4 DEF ToSet
    <2>3. j \in ToSet(r)
      BY <1>3, <1>4, <2>1 DEF ToSet
    <2>4. \A x \in ToSet(q) \ {i} : x \in ToSet(r)
      BY <1>1, <1>3, <1>4 DEF ToSet
    <2>. QED BY <2>2, <2>3, <2>4
  <1>8. ASSUME i \notin ToSet(q) PROVE r = q
    <2>1. \A k \in 1..n : r[k] = q[k]
      BY <1>1, <1>4, <1>8 DEF ToSet
    <2>. QED BY <1>1, <1>3, <2>1
  <1>. QED BY <1>3, <1>6, <1>7, <1>8

LEMMA WordsWithout ==
    ASSUME NEW multi, NEW d, Sound(multi, d), NEW b \in Books, NEW S \in SUBSET Items
    PROVE  RowWordsOf(d, Without(d.links[b], S)) = Words(d, b) \ {icu_lower(d.rows[i]) : i \in S \cap ToSet(d.links[b])}
  <1>1. d.links[b] \in Seq(Items) /\ ToSet(d.links[b]) \subseteq Rows(d)
    BY DEF Sound, Database
  <1>2. ToSet(Without(d.links[b], S)) = ToSet(d.links[b]) \ S
    BY <1>1, WithoutFacts
  <1>3. \A i, j \in ToSet(d.links[b]) : icu_lower(d.rows[i]) = icu_lower(d.rows[j]) => i = j
    BY <1>1 DEF Sound
  <1>4. RowWordsOf(d, Without(d.links[b], S)) = {icu_lower(d.rows[i]) : i \in ToSet(d.links[b]) \ S}
    BY <1>2 DEF RowWordsOf
  <1>5. \A x : x \in {icu_lower(d.rows[i]) : i \in ToSet(d.links[b]) \ S}
                <=> x \in Words(d, b) \ {icu_lower(d.rows[i]) : i \in S \cap ToSet(d.links[b])}
    BY <1>3 DEF Words
  <1>. QED BY <1>4, <1>5

\* The words of book b when item i gets the name n.
NewWordsOf(d, b, i, S) == (Words(d, b) \ {icu_lower(d.rows[i])}) \cup S

ItemRenamed(A, s, i, n, t) ==
    /\ t \in States(A) /\ t.mem = Read(t.db) /\ t.dirtied = s.dirtied
    /\ Rows(t.db) \subseteq Rows(s.db)
    /\ RowWords(s.db) \ {icu_lower(s.db.rows[i])} \subseteq RowWords(t.db)
    /\ icu_lower(n) \in RowWords(t.db)
    /\ \A b \in Books : i \in ToSet(s.db.links[b]) =>
            Words(t.db, b) = NewWordsOf(s.db, b, i, {icu_lower(n)})
    /\ \A b \in Books : i \notin ToSet(s.db.links[b]) =>
            /\ Words(t.db, b) = Words(s.db, b) /\ t.db.links[b] = s.db.links[b]
            /\ \A k \in ToSet(t.db.links[b]) : t.db.rows[k] = s.db.rows[k]

LEMMA RenameInPlaceFacts ==
    ASSUME NEW A, NEW s \in States(A), s.mem = Read(s.db), NEW i \in Rows(s.db), NEW n \in Names,
           \A j \in Rows(s.db) : icu_lower(s.db.rows[j]) = icu_lower(n) => j = i,
           \A b \in Books : i \in ToSet(s.db.links[b]) =>
                NewWordsOf(s.db, b, i, {icu_lower(n)}) \in A[b],
           NEW t, t = RenameInPlace(s, i, n)
    PROVE  ItemRenamed(A, s, i, n, t)
  <1>. DEFINE d == s.db
              dd == [d EXCEPT !.rows[i] = n]
              m == [s.mem EXCEPT !.id_map[i] = n]
              u == [s EXCEPT !.mem = m]
  <1>1. /\ Sound(Multiple, d) /\ d \in Database /\ Agrees(s.mem) /\ Known(s.mem) = Rows(d)
        /\ s.mem.id_map = d.rows /\ s.mem.book_col_map = d.links
    BY StateFacts, ReadFacts DEF Sound
  <1>2. i \in Items /\ d.rows[i] # None /\ n # None
    BY LinkTableAssumption DEF Rows
  <1>3. t = Execute(u, dd)
    BY <1>1, <1>2 DEF RenameInPlace, States
  <1>4. /\ dd \in Database /\ dd.links = d.links /\ dd.rows = [d.rows EXCEPT ![i] = n]
        /\ \A j \in Items : dd.rows[j] = IF j = i THEN n ELSE d.rows[j]
    BY <1>1, <1>2 DEF Database
  <1>5. /\ m.id_map = [s.mem.id_map EXCEPT ![i] = n]
        /\ m.book_col_map = s.mem.book_col_map /\ m.col_book_map = s.mem.col_book_map
        /\ m = [id_map |-> m.id_map, book_col_map |-> m.book_col_map,
                col_book_map |-> m.col_book_map]
    <2>1. s.mem \in Memory
      BY <1>1 DEF Agrees
    <2>2. m = [id_map |-> [s.mem.id_map EXCEPT ![i] = n], book_col_map |-> s.mem.book_col_map,
               col_book_map |-> s.mem.col_book_map]
      BY <2>1 DEF Memory
    <2>. HIDE DEF m
    <2>. QED BY <2>2
  <1>. HIDE DEF dd, m
  <1>6. Rows(dd) = Rows(d)
    BY <1>2, <1>4 DEF Rows
  <1>7. m.id_map = dd.rows /\ m.book_col_map = dd.links /\ Agrees(m)
    <2>1. m.id_map = dd.rows /\ m.book_col_map = dd.links
      BY <1>1, <1>4, <1>5
    <2>2. m \in Memory
      BY <1>1, <1>4, <1>5, <2>1 DEF Agrees, Memory, Database
    <2>3. Known(m) = Known(s.mem)
      BY <1>1, <1>6, <2>1 DEF Known, Rows
    <2>. QED BY <1>1, <1>5, <2>1, <2>2, <2>3 DEF Agrees
  <1>8. u \in States(A) /\ u.mem = m /\ u.db = d /\ u.dirtied = s.dirtied
    BY <1>7, MemFacts
  <1>9. Sound(Multiple, dd)
    <2>1. \A j, k \in Rows(dd) : icu_lower(dd.rows[j]) = icu_lower(dd.rows[k]) => j = k
      <3>1. \A j \in Rows(d) : j \in Items
        BY DEF Rows
      <3>. QED BY <1>1, <1>4, <1>6, <3>1 DEF Sound
    <2>. QED BY <1>1, <1>4, <1>6, <2>1 DEF Sound
  <1>10. ASSUME NEW b \in Books, i \in ToSet(d.links[b])
         PROVE  Words(dd, b) = NewWordsOf(d, b, i, {icu_lower(n)})
    <2>1. \A k \in ToSet(d.links[b]) : k \in Items /\ k \in Rows(d)
      BY <1>1 DEF Sound, Rows
    <2>2. \A x \in Words(dd, b) : x \in NewWordsOf(d, b, i, {icu_lower(n)})
      BY <1>1, <1>4, <2>1 DEF Words, NewWordsOf, Sound
    <2>3. icu_lower(n) \in Words(dd, b)
      BY <1>2, <1>4, <1>10 DEF Words
    <2>4. \A x \in Words(d, b) \ {icu_lower(d.rows[i])} : x \in Words(dd, b)
      BY <1>4, <2>1 DEF Words
    <2>. QED BY <2>2, <2>3, <2>4 DEF NewWordsOf
  <1>11. ASSUME NEW b \in Books, i \notin ToSet(d.links[b])
         PROVE  /\ Words(dd, b) = Words(d, b)
                /\ \A k \in ToSet(d.links[b]) : dd.rows[k] = d.rows[k]
    <2>1. \A k \in ToSet(d.links[b]) : k \in Items /\ k # i
      BY <1>1, <1>11 DEF Sound, Rows
    <2>. QED BY <1>4, <2>1 DEF Words
  <1>12. t \in States(A) /\ t.mem = m /\ t.db = dd /\ t.dirtied = s.dirtied
    <2>1. \A b \in Books : Words(dd, b) \in A[b]
      BY <1>10, <1>11, StateFacts
    <2>. HIDE DEF u
    <2>. QED BY <1>3, <1>8, <1>9, <2>1, ExecuteFacts
  <1>13. t.mem = Read(t.db)
    BY <1>4, <1>7, <1>12, ReadIs
  <1>14. /\ RowWords(d) \ {icu_lower(d.rows[i])} \subseteq RowWords(dd)
         /\ icu_lower(n) \in RowWords(dd)
    <2>1. \A j \in Rows(d) : j \in Items
      BY DEF Rows
    <2>. QED BY <1>4, <1>6, <2>1 DEF RowWords
  <1>. QED BY <1>4, <1>6, <1>10, <1>11, <1>12, <1>13, <1>14 DEF ItemRenamed

LEMMA ReplacedNone ==
    ASSUME NEW q \in Seq(Items), NEW i, NEW j, i \notin ToSet(q)
    PROVE  Replaced(q, i, j) = q
  <1>1. \A k \in DOMAIN q : q[k] # i
    BY DEF ToSet
  <1>2. Replaced(q, i, j) = [k \in DOMAIN q |-> q[k]]
    BY <1>1 DEF Replaced
  <1>. QED BY <1>2

\* The links of a book whose item i is merged into item j.
Merged(q, i, j) == IF i \in ToSet(q) THEN Replaced(Without(q, {j}), i, j) ELSE q

IsMerged(d, b, i, j, q, r) ==
    /\ r \in Seq(Items) /\ IsInjective(r) /\ Len(r) <= Len(q)
    /\ i \in ToSet(q) => ToSet(r) = (ToSet(q) \ {i}) \cup {j}
    /\ i \notin ToSet(q) => r = q
    /\ i \in ToSet(q) => RowWordsOf(d, r) = NewWordsOf(d, b, i, {icu_lower(d.rows[j])})

LEMMA MergedFacts ==
    ASSUME NEW multi, NEW d, Sound(multi, d), NEW i \in Rows(d), NEW j \in Rows(d), i # j,
           NEW b \in Books, NEW q, q = d.links[b], NEW r, r = Merged(q, i, j)
    PROVE  IsMerged(d, b, i, j, q, r)
  <1>1. q \in Seq(Items) /\ IsInjective(q) /\ ToSet(q) \subseteq Rows(d) /\ i \in Items /\ j \in Items
    BY DEF Sound, Database, Rows
  <1>2. CASE i \notin ToSet(q)
    <2>1. r = q /\ Len(q) \in Nat
      BY <1>1, <1>2 DEF Merged
    <2>. QED BY <1>1, <1>2, <2>1 DEF IsMerged
  <1>3. CASE i \in ToSet(q)
    <2>. DEFINE w == Without(q, {j})
    <2>1. /\ w \in Seq(Items) /\ Len(w) <= Len(q) /\ ToSet(w) = ToSet(q) \ {j}
          /\ IsInjective(w)
      BY <1>1, WithoutFacts
    <2>2. r = Replaced(w, i, j)
      BY <1>3 DEF Merged
    <2>. HIDE DEF w
    <2>3. /\ r \in Seq(Items) /\ Len(r) = Len(w) /\ IsInjective(r)
          /\ ToSet(r) = (ToSet(w) \ {i}) \cup {j}
      <3>1. j \notin ToSet(w) /\ i \in ToSet(w)
        BY <1>3, <2>1
      <3>. QED BY <1>1, <2>1, <2>2, <3>1, ReplacedFacts
    <2>4. ToSet(r) = (ToSet(q) \ {i}) \cup {j}
      BY <2>1, <2>3
    <2>5. RowWordsOf(d, r) = NewWordsOf(d, b, i, {icu_lower(d.rows[j])})
      <3>1. \A k \in ToSet(q) : icu_lower(d.rows[k]) = icu_lower(d.rows[i]) => k = i
        BY <1>1 DEF Sound
      <3>2. \A x \in RowWordsOf(d, r) : x \in NewWordsOf(d, b, i, {icu_lower(d.rows[j])})
        BY <2>4, <3>1 DEF RowWordsOf, NewWordsOf, Words
      <3>3. \A x \in NewWordsOf(d, b, i, {icu_lower(d.rows[j])}) : x \in RowWordsOf(d, r)
        BY <2>4 DEF RowWordsOf, NewWordsOf, Words
      <3>. QED BY <3>2, <3>3
    <2>6. Len(r) <= Len(q)
      BY <2>1, <2>3
    <2>. QED BY <1>3, <2>3, <2>4, <2>5, <2>6 DEF IsMerged
  <1>. QED BY <1>2, <1>3

MemoryMerged(d, i, j, m) ==
    /\ Agrees(m) /\ m.id_map = Forget(d.rows, {i}, None)
    /\ m.book_col_map = [b \in Books |-> Merged(d.links[b], i, j)]

LEMMA MergeInMemoryFacts ==
    ASSUME NEW multi, NEW d, Sound(multi, d), NEW i \in Rows(d), NEW j \in Rows(d), i # j,
           NEW m, m = MergeInMemory(Read(d), i, j)
    PROVE  MemoryMerged(d, i, j, m)
  <1>. DEFINE o == Read(d)
  <1>1. /\ o \in Memory /\ o.id_map = d.rows /\ o.book_col_map = d.links
        /\ o.col_book_map = [k \in Items |-> {b \in Books : k \in ToSet(d.links[b])}]
        /\ i \in Items /\ j \in Items /\ d \in Database
    BY ReadFacts DEF Agrees, Rows, Sound
  <1>. HIDE DEF o
  <1>2. /\ m.id_map = [o.id_map EXCEPT ![i] = None]
        /\ m.book_col_map = [b \in Books |->
                IF b \in o.col_book_map[i] THEN Replaced(Without(o.book_col_map[b], {j}), i, j)
                ELSE o.book_col_map[b]]
        /\ m.col_book_map = [o.col_book_map EXCEPT ![i] = {}, ![j] = @ \cup o.col_book_map[i]]
        /\ m = [id_map |-> m.id_map, book_col_map |-> m.book_col_map,
                col_book_map |-> m.col_book_map]
    BY DEF MergeInMemory, o
  <1>3. m.id_map = Forget(d.rows, {i}, None)
    BY <1>1, <1>2 DEF Forget, Database
  <1>4. \A b \in Books : m.book_col_map[b] = Merged(d.links[b], i, j)
    BY <1>1, <1>2 DEF Merged
  <1>5. m.book_col_map = [b \in Books |-> Merged(d.links[b], i, j)]
    BY <1>2, <1>4
  <1>6. ASSUME NEW b \in Books
        PROVE  /\ m.book_col_map[b] \in Seq(Items)
               /\ i \in ToSet(d.links[b]) =>
                    ToSet(m.book_col_map[b]) = (ToSet(d.links[b]) \ {i}) \cup {j}
               /\ i \notin ToSet(d.links[b]) => m.book_col_map[b] = d.links[b]
    <2>. DEFINE q == d.links[b]
                r == m.book_col_map[b]
    <2>1. q = d.links[b] /\ r = Merged(q, i, j)
      BY <1>4
    <2>. HIDE DEF q, r
    <2>2. IsMerged(d, b, i, j, q, r)
      BY <2>1, MergedFacts
    <2>3. /\ r \in Seq(Items)
          /\ i \in ToSet(q) => ToSet(r) = (ToSet(q) \ {i}) \cup {j}
          /\ i \notin ToSet(q) => r = q
      BY <2>2 DEF IsMerged
    <2>. QED BY <2>3 DEF q, r
  <1>7. ASSUME NEW k \in Items
        PROVE  m.col_book_map[k] = {b \in Books : k \in ToSet(m.book_col_map[b])}
    <2>1. m.col_book_map[k] = IF k = i THEN {} ELSE IF k = j
                THEN o.col_book_map[j] \cup o.col_book_map[i] ELSE o.col_book_map[k]
      BY <1>1, <1>2
    <2>2. \A e \in Items : o.col_book_map[e] = {b \in Books : e \in ToSet(d.links[b])}
      BY <1>1
    <2>3. \A b \in Books : k \in ToSet(m.book_col_map[b]) <=>
            IF i \in ToSet(d.links[b]) THEN k = j \/ (k \in ToSet(d.links[b]) /\ k # i)
            ELSE k \in ToSet(d.links[b])
      BY <1>6
    <2>4. CASE k = i
      BY <1>1, <2>1, <2>2, <2>3, <2>4
    <2>5. CASE k = j
      BY <1>1, <2>1, <2>2, <2>3, <2>5
    <2>6. CASE k # i /\ k # j
      BY <1>1, <2>1, <2>2, <2>3, <2>6
    <2>. QED BY <2>4, <2>5, <2>6
  <1>8. m \in Memory
    <2>1. m.col_book_map \in [Items -> SUBSET Books]
      BY <1>1, <1>2
    <2>2. m.book_col_map \in [Books -> Seq(Items)]
      BY <1>2, <1>6
    <2>3. m.id_map \in [Items -> Names \cup {None}]
      BY <1>1, <1>2 DEF Memory
    <2>. QED BY <1>2, <2>1, <2>2, <2>3 DEF Memory
  <1>9. \A b \in Books : ToSet(m.book_col_map[b]) \subseteq Known(m)
    <2>1. \A k \in Rows(d) \ {i} : k \in Known(m)
      BY <1>3 DEF Known, Rows, Forget
    <2>2. \A b \in Books : ToSet(d.links[b]) \subseteq Rows(d)
      BY DEF Sound
    <2>. QED BY <1>6, <2>1, <2>2
  <1>. QED BY <1>3, <1>5, <1>7, <1>8, <1>9 DEF Agrees, MemoryMerged

\* A many-many column first unlinks the books that have both items.
LEMMA UnlinkOtherFacts ==
    ASSUME NEW A, NEW s \in States(A), NEW i \in Rows(s.db), NEW j \in Rows(s.db), i # j,
           NEW B, B = {b \in Books : i \in ToSet(s.db.links[b])},
           Multiple => \A b \in B : Words(s.db, b) \ {icu_lower(s.db.rows[j])} \in A[b],
           NEW t, t = IF Multiple THEN DeleteLinks(s, B, {j}) ELSE s
    PROVE  LinksSet(A, s, B, [b \in Books |-> Without(s.db.links[b], {j})], t)
  <1>. DEFINE ids == [b \in Books |-> Without(s.db.links[b], {j})]
  <1>1. Sound(Multiple, s.db) /\ B \in SUBSET Books /\ s.db \in Database /\ j \in Items
    BY StateFacts DEF Sound, Rows
  <1>2. ASSUME NEW b \in Books
        PROVE  /\ ids[b] \in Seq(Items) /\ IsInjective(ids[b])
               /\ ToSet(ids[b]) \subseteq Rows(s.db) /\ ids[b] = Without(s.db.links[b], {j})
    <2>1. s.db.links[b] \in Seq(Items) /\ IsInjective(s.db.links[b])
          /\ ToSet(s.db.links[b]) \subseteq Rows(s.db)
      BY <1>1 DEF Sound, Database
    <2>2. ids[b] = Without(s.db.links[b], {j})
      OBVIOUS
    <2>. HIDE DEF ids
    <2>. QED BY <2>1, <2>2, WithoutFacts
  <1>3. CASE Multiple
    <2>1. ASSUME NEW b \in B PROVE RowWordsOf(s.db, ids[b]) \in A[b]
      <3>1. RowWordsOf(s.db, ids[b]) =
                Words(s.db, b) \ {icu_lower(s.db.rows[k]) : k \in {j} \cap ToSet(s.db.links[b])}
        BY <1>1, WordsWithout, ZenonT(60)
      <3>2. CASE j \in ToSet(s.db.links[b])
        <4>1. {icu_lower(s.db.rows[k]) : k \in {j} \cap ToSet(s.db.links[b])}
                = {icu_lower(s.db.rows[j])}
          BY <3>2
        <4>. QED BY <1>3, <3>1, <4>1
      <3>3. CASE j \notin ToSet(s.db.links[b])
        <4>1. {icu_lower(s.db.rows[k]) : k \in {j} \cap ToSet(s.db.links[b])} = {}
          BY <3>3
        <4>2. Words(s.db, b) \in A[b]
          BY <1>1, StateFacts
        <4>. QED BY <3>1, <4>1, <4>2
      <3>. QED BY <3>2, <3>3
    <2>2. t = Execute(s, SetLinks(s.db, B, ids))
      BY <1>3 DEF DeleteLinks
    <2>. HIDE DEF ids
    <2>3. LinksSet(A, s, B, ids, t)
      BY <1>1, <1>2, <1>3, <2>1, <2>2, SetLinksFacts
    <2>. QED BY <2>3 DEF ids
  <1>4. CASE ~ Multiple
    <2>1. ASSUME NEW b \in B PROVE ids[b] = s.db.links[b]
      <3>. DEFINE q == s.db.links[b]
      <3>1. q \in Seq(Items) /\ Len(q) <= 1 /\ i \in ToSet(q)
        BY <1>1, <1>4 DEF Sound, Database
      <3>2. ids[b] = Without(q, {j})
        BY <1>1
      <3>. HIDE DEF q, ids
      <3>3. ToSet(q) \cap {j} = {}
        <4>1. \A k, l \in DOMAIN q : k = l
          BY <3>1
        <4>. QED BY <3>1, <4>1 DEF ToSet
      <3>4. ids[b] = q
        BY <3>1, <3>2, <3>3, WithoutNone
      <3>. QED BY <3>4 DEF q
    <2>2. t = s
      BY <1>4
    <2>. QED BY <1>1, <2>1, <2>2 DEF LinksSet

  <1>. QED BY <1>3, <1>4

LEMMA MergeItemFacts ==
    ASSUME NEW A, NEW s \in States(A), s.mem = Read(s.db), NEW i \in Rows(s.db),
           NEW j \in Rows(s.db), i # j, NEW n \in Names, icu_lower(s.db.rows[j]) = icu_lower(n),
           \A b \in Books : i \in ToSet(s.db.links[b]) =>
                NewWordsOf(s.db, b, i, {icu_lower(n)}) \in A[b],
           Multiple => \A b \in Books : i \in ToSet(s.db.links[b]) =>
                Words(s.db, b) \ {icu_lower(n)} \in A[b],
           NEW t, t = MergeItem(s, i, j)
    PROVE  ItemRenamed(A, s, i, n, t)
  <1>. DEFINE d == s.db
              B == {b \in Books : i \in ToSet(d.links[b])}
              m == MergeInMemory(Read(d), i, j)
              u == [s EXCEPT !.mem = m]
              v == IF Multiple THEN DeleteLinks(u, B, {j}) ELSE u
              links == [b \in Books |-> Merged(d.links[b], i, j)]
              w == ReplaceLinks(v, i, j)
  <1>1. /\ Sound(Multiple, d) /\ i \in Items /\ j \in Items /\ B \in SUBSET Books
        /\ d \in Database /\ s.mem.col_book_map[i] = B
    <2>1. Sound(Multiple, d) /\ i \in Items
      BY StateFacts DEF Rows
    <2>2. Read(d).col_book_map = [k \in Items |-> {b \in Books : k \in ToSet(d.links[b])}]
      BY <2>1, ReadFacts
    <2>3. s.mem.col_book_map[i] = B
      BY <2>1, <2>2
    <2>. QED BY <2>1, <2>3 DEF Sound, Rows
  <1>2. t = DeleteRows(w, {i})
    BY <1>1 DEF MergeItem, MergeInDb
  <1>3. Agrees(m) /\ m.id_map = Forget(d.rows, {i}, None) /\ m.book_col_map = links
    <2>1. m = MergeInMemory(Read(d), i, j)
      OBVIOUS
    <2>. HIDE DEF m, links
    <2>2. MemoryMerged(d, i, j, m)
      BY <1>1, <2>1, MergeInMemoryFacts
    <2>. QED BY <2>2 DEF links, MemoryMerged
  <1>. HIDE DEF m
  <1>4. u \in States(A) /\ u.mem = m /\ u.db = d /\ u.dirtied = s.dirtied
    BY <1>3, MemFacts
  <1>. HIDE DEF u
  <1>5. LinksSet(A, u, B, [b \in Books |-> Without(d.links[b], {j})], v)
    <2>1. v = IF Multiple THEN DeleteLinks(u, B, {j}) ELSE u
      OBVIOUS
    <2>2. B = {b \in Books : i \in ToSet(u.db.links[b])} /\ i \in Rows(u.db) /\ j \in Rows(u.db)
      BY <1>4
    <2>3. Multiple => \A b \in B : Words(u.db, b) \ {icu_lower(u.db.rows[j])} \in A[b]
      BY <1>4
    <2>. HIDE DEF v, B
    <2>4. LinksSet(A, u, B, [b \in Books |-> Without(u.db.links[b], {j})], v)
      BY <1>4, <2>1, <2>2, <2>3, UnlinkOtherFacts
    <2>. QED BY <1>4, <2>4
  <1>. HIDE DEF v
  <1>6. /\ v \in States(A) /\ v.mem = m /\ v.dirtied = s.dirtied /\ v.db.rows = d.rows
        /\ v.db \in Database
        /\ \A b \in Books : v.db.links[b] = IF b \in B THEN Without(d.links[b], {j}) ELSE d.links[b]
    BY <1>1, <1>4, <1>5 DEF LinksSet
  <1>7. \A b \in Books : Replaced(v.db.links[b], i, j) = links[b]
    <2>. SUFFICES ASSUME NEW b \in Books
                  PROVE  Replaced(v.db.links[b], i, j) = Merged(d.links[b], i, j)
      OBVIOUS
    <2>1. CASE b \in B
      BY <1>6, <2>1 DEF Merged
    <2>2. CASE b \notin B
      <3>1. v.db.links[b] = d.links[b] /\ d.links[b] \in Seq(Items) /\ i \notin ToSet(d.links[b])
        BY <1>1, <1>6, <2>2 DEF Database
      <3>2. Replaced(d.links[b], i, j) = d.links[b]
        BY <3>1, ReplacedNone
      <3>. QED BY <3>1, <3>2 DEF Merged
    <2>. QED BY <2>1, <2>2
  <1>8. w = Execute(v, [v.db EXCEPT !.links = links])
    <2>1. [b \in Books |-> Replaced(v.db.links[b], i, j)] = links
      BY <1>7
    <2>2. w = Execute(v, [v.db EXCEPT !.links = [b \in Books |-> Replaced(v.db.links[b], i, j)]])
      BY <1>6 DEF ReplaceLinks, Database
    <2>. QED BY <2>1, <2>2
  <1>9. ASSUME NEW b \in Books PROVE IsMerged(d, b, i, j, d.links[b], links[b])
    <2>1. links[b] = Merged(d.links[b], i, j)
      OBVIOUS
    <2>. QED BY <1>1, <2>1, MergedFacts
  <1>. HIDE DEF links, w
  <1>10. /\ w \in States(A) /\ w.mem = m /\ w.dirtied = s.dirtied
         /\ w.db.links = links /\ w.db.rows = d.rows /\ w.db \in Database
    <2>1. links \in [Books -> Seq(Items)]
      BY <1>9 DEF links, IsMerged
    <2>2. \A b \in Books : IsInjective(links[b]) /\ ToSet(links[b]) \subseteq Rows(v.db)
      <3>1. Rows(v.db) = Rows(d)
        BY <1>6 DEF Rows
      <3>. QED BY <1>1, <1>9, <3>1, SMTT(20) DEF IsMerged, Sound
    <2>3. ~ Multiple => \A b \in Books : Len(links[b]) <= 1
      <3>. SUFFICES ASSUME ~ Multiple, NEW b \in Books PROVE Len(links[b]) <= 1
        OBVIOUS
      <3>1. Len(links[b]) <= Len(d.links[b]) /\ Len(d.links[b]) <= 1
        BY <1>1, <1>9 DEF IsMerged, Sound
      <3>2. Len(links[b]) \in Nat /\ Len(d.links[b]) \in Nat
        <4>1. links[b] \in Seq(Items) /\ d.links[b] \in Seq(Items)
          BY <1>1, <2>1 DEF Database
        <4>. QED BY <4>1
      <3>. QED BY <3>1, <3>2
    <2>4. ASSUME NEW b \in Books PROVE RowWordsOf(v.db, links[b]) \in A[b]
      <3>1. RowWordsOf(v.db, links[b]) = RowWordsOf(d, links[b])
        BY <1>6 DEF RowWordsOf
      <3>2. CASE i \in ToSet(d.links[b])
        BY <1>9, <3>1, <3>2 DEF IsMerged
      <3>3. CASE i \notin ToSet(d.links[b])
        <4>1. RowWordsOf(d, links[b]) = Words(d, b)
          BY <1>9, <3>3 DEF IsMerged, RowWordsOf, Words
        <4>. QED BY <3>1, <4>1, StateFacts
      <3>. QED BY <3>2, <3>3
    <2>. QED BY <1>6, <1>8, <2>1, <2>2, <2>3, <2>4, NewLinksFacts
  <1>11. /\ t \in States(A) /\ t.mem = m /\ t.dirtied = s.dirtied /\ t.db.links = links
         /\ t.db.rows = Forget(d.rows, {i}, None) /\ t.db \in Database
         /\ \A b \in Books : Words(t.db, b) = Words(w.db, b)
    <2>1. \A b \in Books : ToSet(w.db.links[b]) \cap {i} = {}
      BY <1>9, <1>10 DEF IsMerged
    <2>2. {i} \in SUBSET Items
      BY <1>1
    <2>3. /\ t \in States(A) /\ t.mem = w.mem /\ t.dirtied = w.dirtied
          /\ t.db.links = w.db.links /\ t.db.rows = Forget(w.db.rows, {i}, None)
          /\ t.db \in Database /\ \A b \in Books : Words(t.db, b) = Words(w.db, b)
      BY <1>2, <1>10, <2>1, <2>2, DeleteRowsFacts
    <2>. QED BY <1>10, <2>3
  <1>12. t.mem = Read(t.db)
    BY <1>3, <1>11, ReadIs
  <1>13. \A k \in Items : t.db.rows[k] = IF k = i THEN None ELSE d.rows[k]
    BY <1>11 DEF Forget
  <1>14. /\ Rows(t.db) \subseteq Rows(d) /\ \A k \in Rows(d) : k # i => k \in Rows(t.db)
    BY <1>13 DEF Rows
  <1>15. /\ RowWords(d) \ {icu_lower(d.rows[i])} \subseteq RowWords(t.db)
         /\ icu_lower(n) \in RowWords(t.db)
    <2>1. \A k \in Rows(d) : k \in Items
      BY DEF Rows
    <2>. QED BY <1>13, <1>14, <2>1 DEF RowWords
  <1>16. ASSUME NEW b \in Books, i \in ToSet(d.links[b])
         PROVE  Words(t.db, b) = NewWordsOf(d, b, i, {icu_lower(n)})
    <2>1. Words(t.db, b) = RowWordsOf(d, links[b])
      BY <1>10, <1>11 DEF Words, RowWordsOf
    <2>. QED BY <1>9, <1>16, <2>1 DEF IsMerged
  <1>17. ASSUME NEW b \in Books, i \notin ToSet(d.links[b])
         PROVE  /\ Words(t.db, b) = Words(d, b) /\ t.db.links[b] = d.links[b]
                /\ \A k \in ToSet(t.db.links[b]) : t.db.rows[k] = d.rows[k]
    <2>1. t.db.links[b] = d.links[b]
      BY <1>9, <1>11, <1>17 DEF IsMerged
    <2>2. \A k \in ToSet(d.links[b]) : k \in Items /\ k # i
      BY <1>1, <1>17 DEF Sound, Rows
    <2>. QED BY <1>13, <2>1, <2>2 DEF Words
  <1>. QED BY <1>11, <1>12, <1>14, <1>15, <1>16, <1>17 DEF ItemRenamed

LEMMA RenameItemOnceFacts ==
    ASSUME NEW A, NEW s \in States(A), s.mem = Read(s.db), NEW i \in Rows(s.db), NEW n \in Names,
           \A b \in Books : i \in ToSet(s.db.links[b]) =>
                NewWordsOf(s.db, b, i, {icu_lower(n)}) \in A[b],
           Multiple => \A b \in Books : i \in ToSet(s.db.links[b]) =>
                Words(s.db, b) \ {icu_lower(n)} \in A[b],
           NEW t, t = rename_item(s, i, n)
    PROVE  ItemRenamed(A, s, i, n, t)
  <1>. DEFINE d == s.db
              E == {j \in Known(s.mem) : icu_lower(s.mem.id_map[j]) = icu_lower(n)}
  <1>1. Sound(Multiple, d) /\ Known(s.mem) = Rows(d) /\ s.mem.id_map = d.rows
    BY StateFacts, ReadFacts
  <1>2. t = IF E = {} \/ Max(E) = i THEN RenameInPlace(s, i, n) ELSE MergeItem(s, i, Max(E))
    BY DEF rename_item
  <1>3. \A j \in Rows(d) : icu_lower(d.rows[j]) = icu_lower(n) <=> j \in E
    BY <1>1
  <1>4. E \subseteq Rows(d) /\ \A j, k \in E : j = k
    BY <1>1 DEF Sound
  <1>. HIDE DEF E
  <1>5. CASE E = {}
    BY <1>2, <1>3, <1>5, RenameInPlaceFacts
  <1>6. ASSUME NEW j \in E PROVE Max(E) = j
    <2>1. E = {j}
      BY <1>4
    <2>2. j \in 1..MaxItem /\ MaxItem \in Nat
      BY <1>4, LinkTableAssumption DEF Rows, Items
    <2>3. E \in SUBSET (0..MaxItem) /\ E # {}
      BY <2>1, <2>2
    <2>. QED BY <2>1, <2>2, <2>3, Greatest
  <1>7. CASE E # {}
    <2>1. PICK j \in E : TRUE
      BY <1>7
    <2>2. j \in Rows(d) /\ icu_lower(d.rows[j]) = icu_lower(n) /\ Max(E) = j
      BY <1>3, <1>4, <1>6
    <2>3. CASE j = i
      <3>1. \A k \in Rows(d) : icu_lower(d.rows[k]) = icu_lower(n) => k = i
        BY <1>3, <1>4, <2>3
      <3>2. t = RenameInPlace(s, i, n)
        BY <1>2, <2>2, <2>3
      <3>. QED BY <3>1, <3>2, RenameInPlaceFacts
    <2>4. CASE j # i
      <3>1. t = MergeItem(s, i, j)
        BY <1>2, <1>7, <2>2, <2>4
      <3>. QED BY <2>2, <2>4, <3>1, MergeItemFacts
    <2>. QED BY <2>3, <2>4
  <1>. QED BY <1>5, <1>7

-------------------------------------------------------------------------------
(* Renaming to several names, and in some of the books *)

LEMMA NamesFacts ==
    ASSUME NEW multi, NEW d, Sound(multi, d), NEW b \in Books
    PROVE  /\ names(Read(d), b) \in Seq(Names)
           /\ Len(names(Read(d), b)) = Len(d.links[b])
           /\ NewWords(names(Read(d), b)) = Words(d, b)
           /\ \A k \in DOMAIN names(Read(d), b) : names(Read(d), b)[k] = d.rows[d.links[b][k]]
  <1>. DEFINE q == d.links[b]
              v == names(Read(d), b)
  <1>1. q \in Seq(Items) /\ ToSet(q) \subseteq Rows(d) /\ d \in Database
    BY DEF Sound, Database
  <1>2. v = [k \in DOMAIN q |-> d.rows[q[k]]]
    BY ReadFacts DEF names
  <1>. HIDE DEF q, v
  <1>3. PICK n \in Nat : n = Len(q) /\ DOMAIN q = 1..n
    BY <1>1
  <1>4. \A k \in 1..n : q[k] \in Rows(d)
    BY <1>1, <1>3 DEF ToSet
  <1>5. \A i \in Rows(d) : d.rows[i] \in Names
    BY <1>1 DEF Rows, Database
  <1>6. v \in [1..n -> Names] /\ DOMAIN v = 1..n /\ \A k \in 1..n : v[k] = d.rows[q[k]]
    BY <1>2, <1>3, <1>4, <1>5
  <1>7. v \in Seq(Names) /\ Len(v) = n
    <2>1. \A m \in Nat : \A f \in [1..m -> Names] : f \in Seq(Names) /\ Len(f) = m
      OBVIOUS
    <2>. QED BY <1>6, <2>1
  <1>8. NewWords(v) = Words(d, b)
    <2>1. ToSet(v) = {v[k] : k \in 1..n} /\ ToSet(q) = {q[k] : k \in 1..n}
      BY <1>3, <1>6 DEF ToSet
    <2>2. \A x \in NewWords(v) : x \in Words(d, b)
      BY <1>6, <2>1 DEF NewWords, Words, q
    <2>3. \A x \in Words(d, b) : x \in NewWords(v)
      BY <1>6, <2>1 DEF NewWords, Words, q
    <2>. QED BY <2>2, <2>3
  <1>. QED BY <1>3, <1>6, <1>7, <1>8 DEF v, q

LEMMA ConcatWords ==
    ASSUME NEW q \in Seq(Names), NEW r \in Seq(Names)
    PROVE  q \o r \in Seq(Names) /\ NewWords(q \o r) = NewWords(q) \cup NewWords(r)
  <1>1. q \o r \in Seq(Names) /\ Len(q \o r) = Len(q) + Len(r)
        /\ \A k \in 1..(Len(q) + Len(r)) :
            (q \o r)[k] = IF k <= Len(q) THEN q[k] ELSE r[k - Len(q)]
    OBVIOUS
  <1>2. PICK m \in Nat, n \in Nat : m = Len(q) /\ n = Len(r)
    OBVIOUS
  <1>. DEFINE c == q \o r
  <1>3. DOMAIN c = 1..(m + n) /\ DOMAIN q = 1..m /\ DOMAIN r = 1..n
    BY <1>1, <1>2
  <1>4. \A k \in 1..(m + n) : c[k] = IF k <= m THEN q[k] ELSE r[k - m]
    BY <1>1, <1>2
  <1>. HIDE DEF c
  <1>5. \A x \in ToSet(c) : x \in ToSet(q) \cup ToSet(r)
    <2>. SUFFICES ASSUME NEW k \in 1..(m + n) PROVE c[k] \in ToSet(q) \cup ToSet(r)
      BY <1>3 DEF ToSet
    <2>1. CASE k <= m
      <3>1. k \in 1..m /\ c[k] = q[k]
        BY <1>4, <2>1
      <3>. QED BY <1>3, <3>1 DEF ToSet
    <2>2. CASE ~ k <= m
      <3>1. k - m \in 1..n /\ c[k] = r[k - m]
        BY <1>4, <2>2
      <3>. QED BY <1>3, <3>1 DEF ToSet
    <2>. QED BY <2>1, <2>2
  <1>6. \A x \in ToSet(q) : x \in ToSet(c)
    <2>. SUFFICES ASSUME NEW k \in 1..m PROVE q[k] \in ToSet(c)
      BY <1>3 DEF ToSet
    <2>1. k \in 1..(m + n) /\ c[k] = q[k]
      BY <1>4
    <2>. QED BY <1>3, <2>1 DEF ToSet
  <1>7. \A x \in ToSet(r) : x \in ToSet(c)
    <2>. SUFFICES ASSUME NEW k \in 1..n PROVE r[k] \in ToSet(c)
      BY <1>3 DEF ToSet
    <2>1. k + m \in 1..(m + n) /\ c[k + m] = r[k]
      BY <1>4
    <2>. QED BY <1>3, <2>1 DEF ToSet
  <1>8. ToSet(c) = ToSet(q) \cup ToSet(r)
    BY <1>5, <1>6, <1>7
  <1>. QED BY <1>1, <1>8 DEF NewWords, c

LEMMA TailWords ==
    ASSUME NEW q \in Seq(Names), q # <<>>
    PROVE  /\ q[1] \in Names /\ Tail(q) \in Seq(Names) /\ (Len(q) <= 1 => Len(q) = 1)
           /\ NewWords(q) = {icu_lower(q[1])} \cup NewWords(Tail(q))
           /\ Len(q) = 1 => NewWords(q) = {icu_lower(q[1])}
  <1>1. PICK n \in Nat \ {0} : n = Len(q) /\ DOMAIN q = 1..n
    OBVIOUS
  <1>2. /\ q[1] \in Names /\ Tail(q) \in Seq(Names) /\ DOMAIN Tail(q) = 1..(n - 1)
        /\ \A k \in 1..(n - 1) : Tail(q)[k] = q[k + 1]
    BY <1>1
  <1>3. ToSet(q) = {q[1]} \cup ToSet(Tail(q))
    <2>1. \A k \in 1..n : q[k] \in {q[1]} \cup ToSet(Tail(q))
      <3>. SUFFICES ASSUME NEW k \in 1..n, k # 1 PROVE q[k] \in ToSet(Tail(q))
        OBVIOUS
      <3>1. k - 1 \in 1..(n - 1) /\ Tail(q)[k - 1] = q[k]
        BY <1>2
      <3>. QED BY <1>2, <3>1 DEF ToSet
    <2>2. \A k \in 1..(n - 1) : Tail(q)[k] \in ToSet(q)
      <3>. SUFFICES ASSUME NEW k \in 1..(n - 1) PROVE q[k + 1] \in ToSet(q)
        BY <1>2
      <3>. QED BY <1>1 DEF ToSet
    <2>3. q[1] \in ToSet(q)
      BY <1>1 DEF ToSet
    <2>. QED BY <1>1, <1>2, <2>1, <2>2, <2>3 DEF ToSet
  <1>4. Len(q) = 1 => ToSet(q) = {q[1]}
    BY <1>1 DEF ToSet
  <1>5. Len(q) <= 1 => Len(q) = 1
    BY <1>1
  <1>. QED BY <1>2, <1>3, <1>4, <1>5 DEF NewWords

LEMMA RoomLeft ==
    ASSUME NEW d, NEW e, Rows(e) \subseteq Rows(d), NEW V, IsFiniteSet(V), NEW U \in SUBSET V,
           Max(Rows(d) \cup {0}) + Cardinality(V) <= MaxItem
    PROVE  Max(Rows(e) \cup {0}) + Cardinality(U) <= MaxItem
  <1>. DEFINE x == Max(Rows(d) \cup {0})
              y == Max(Rows(e) \cup {0})
  <1>1. /\ x \in 0..MaxItem /\ y \in 0..MaxItem /\ MaxItem \in Nat
        /\ \A i \in Rows(d) : i <= x
    BY NextId, LinkTableAssumption
  <1>2. y \in Rows(e) \cup {0}
    <2>1. Rows(e) \cup {0} \in SUBSET (0..MaxItem) /\ Rows(e) \cup {0} # {}
      BY <1>1 DEF Rows, Items
    <2>. QED BY <1>1, <2>1, Greatest
  <1>3. Cardinality(V) \in Nat /\ Cardinality(U) \in Nat /\ Cardinality(U) <= Cardinality(V)
    BY FS_Subset, FS_CardinalityType
  <1>4. x + Cardinality(V) <= MaxItem
    OBVIOUS
  <1>. HIDE DEF x, y
  <1>5. y <= x
    BY <1>1, <1>2
  <1>6. y + Cardinality(U) <= MaxItem
    BY <1>1, <1>3, <1>4, <1>5
  <1>. QED BY <1>6 DEF y

LEMMA RowWordsFinite ==
    ASSUME NEW d
    PROVE  IsFiniteSet(RowWords(d))
  <1>1. IsFiniteSet(Items)
    BY Interval, LinkTableAssumption DEF Items
  <1>2. IsFiniteSet(Rows(d))
    BY <1>1, FS_Subset DEF Rows
  <1>. DEFINE f == [i \in Rows(d) |-> icu_lower(d.rows[i])]
  <1>3. f \in Surjection(Rows(d), RowWords(d))
    BY DEF Surjection, RowWords
  <1>. HIDE DEF f
  <1>. QED BY <1>2, <1>3, FS_Surjection

LEMMA NewWordsFinite ==
    ASSUME NEW q \in Seq(Names)
    PROVE  IsFiniteSet(NewWords(q))
  <1>1. PICK n \in Nat : DOMAIN q = 1..n
    OBVIOUS
  <1>2. IsFiniteSet(1..n)
    BY Interval
  <1>3. NewWords(q) = {icu_lower(q[k]) : k \in 1..n}
    BY <1>1 DEF NewWords, ToSet
  <1>. DEFINE f == [k \in 1..n |-> icu_lower(q[k])]
  <1>4. f \in Surjection(1..n, NewWords(q))
    BY <1>3 DEF Surjection
  <1>. HIDE DEF f
  <1>. QED BY <1>2, <1>4, FS_Surjection

\* Item i gets the names ns in the books of S.
Fitting(d, i, ns) ==
    Max(Rows(d) \cup {0}) + Cardinality(NewWords(ns) \ (RowWords(d) \ {icu_lower(d.rows[i])}))
        <= MaxItem

Allowed(A, d, i, ns, S) ==
    \A b \in S : i \in ToSet(d.links[b]) =>
        /\ NewWordsOf(d, b, i, NewWords(ns)) \in A[b]
        /\ Multiple => \A X \in SUBSET (Words(d, b) \cup NewWords(ns)) : X \in A[b]

ItemRenamedTo(A, s, i, ns, S, t) ==
    /\ t \in States(A) /\ t.mem = Read(t.db)
    /\ \A b \in Books : b \in S /\ i \in ToSet(s.db.links[b]) =>
            Words(t.db, b) = NewWordsOf(s.db, b, i, NewWords(ns))
    /\ \A b \in Books : b \notin S \/ i \notin ToSet(s.db.links[b]) =>
            Words(t.db, b) = Words(s.db, b)
    /\ \A b \in Books \ t.dirtied : names(t.mem, b) = names(s.mem, b)

FirstRenamed(A, s, i, n, B, v) ==
    /\ v \in States(A) /\ v.mem = Read(v.db) /\ v.dirtied = s.dirtied \cup B
    /\ Rows(v.db) \subseteq Rows(s.db)
    /\ RowWords(s.db) \ {icu_lower(s.db.rows[i])} \subseteq RowWords(v.db)
    /\ icu_lower(n) \in RowWords(v.db)
    /\ \A b \in B : Words(v.db, b) = NewWordsOf(s.db, b, i, {icu_lower(n)})
    /\ \A b \in Books \ B : Words(v.db, b) = Words(s.db, b)
    /\ \A b \in Books \ v.dirtied : names(v.mem, b) = names(s.mem, b)

\* rename_item() and the marking of the books of the item.
LEMMA RenameFirstFacts ==
    ASSUME NEW A, NEW s \in States(A), s.mem = Read(s.db), NEW i \in Rows(s.db),
           NEW ns \in Seq(Names), ns # <<>>, ~ Multiple => Len(ns) <= 1,
           Allowed(A, s.db, i, ns, Books),
           NEW B \in SUBSET Books, \A b \in Books : b \in B <=> i \in ToSet(s.db.links[b]),
           NEW v, v = Dirty(rename_item(s, i, ns[1]), B)
    PROVE  FirstRenamed(A, s, i, ns[1], B, v)
  <1>. DEFINE u == rename_item(s, i, ns[1])
              d == s.db
  <1>1. Sound(Multiple, d) /\ B \in SUBSET Books /\ i \in Items
    BY StateFacts DEF Rows
  <1>2. /\ ns[1] \in Names /\ icu_lower(ns[1]) \in NewWords(ns)
        /\ Len(ns) = 1 => NewWords(ns) = {icu_lower(ns[1])}
        /\ Len(ns) <= 1 => Len(ns) = 1
    BY TailWords
  <1>3. ASSUME NEW b \in Books, i \in ToSet(d.links[b])
        PROVE  /\ NewWordsOf(d, b, i, {icu_lower(ns[1])}) \in A[b]
               /\ Multiple => Words(d, b) \ {icu_lower(ns[1])} \in A[b]
    <2>1. CASE Multiple
      <3>1. NewWordsOf(d, b, i, {icu_lower(ns[1])}) \in SUBSET (Words(d, b) \cup NewWords(ns))
        BY <1>2 DEF NewWordsOf
      <3>2. Words(d, b) \ {icu_lower(ns[1])} \in SUBSET (Words(d, b) \cup NewWords(ns))
        OBVIOUS
      <3>. QED BY <1>3, <2>1, <3>1, <3>2 DEF Allowed
    <2>2. CASE ~ Multiple
      <3>1. Len(ns) = 1
        BY <1>2, <2>2
      <3>. QED BY <1>2, <1>3, <2>2, <3>1 DEF Allowed
    <2>. QED BY <2>1, <2>2
  <1>4. ItemRenamed(A, s, i, ns[1], u)
    <2>1. u = rename_item(s, i, ns[1])
      OBVIOUS
    <2>. HIDE DEF u
    <2>. QED BY <1>2, <1>3, <2>1, RenameItemOnceFacts
  <1>. HIDE DEF u
  <1>5. v \in States(A) /\ v.mem = u.mem /\ v.db = u.db /\ v.dirtied = u.dirtied \cup B
    <2>1. u \in States(A)
      BY <1>4 DEF ItemRenamed
    <2>2. v = Dirty(u, B)
      BY DEF u
    <2>. QED BY <1>1, <2>1, <2>2, DirtyFacts
  <1>6. /\ u.mem = Read(u.db) /\ u.dirtied = s.dirtied
        /\ Rows(u.db) \subseteq Rows(d)
        /\ RowWords(d) \ {icu_lower(d.rows[i])} \subseteq RowWords(u.db)
        /\ icu_lower(ns[1]) \in RowWords(u.db)
    BY <1>4 DEF ItemRenamed
  <1>7. \A b \in B : Words(u.db, b) = NewWordsOf(d, b, i, {icu_lower(ns[1])})
    BY <1>4 DEF ItemRenamed
  <1>8. \A b \in Books \ B : Words(u.db, b) = Words(d, b)
    BY <1>4 DEF ItemRenamed
  <1>9. ASSUME NEW b \in Books \ v.dirtied PROVE names(v.mem, b) = names(s.mem, b)
    <2>1. i \notin ToSet(d.links[b])
      BY <1>5
    <2>2. v.db.links[b] = d.links[b] /\ \A k \in ToSet(d.links[b]) : v.db.rows[k] = d.rows[k]
      BY <1>4, <1>5, <2>1 DEF ItemRenamed
    <2>3. v.mem = Read(v.db) /\ Sound(Multiple, v.db)
      BY <1>5, <1>6, StateFacts
    <2>4. /\ v.mem.book_col_map = v.db.links /\ v.mem.id_map = v.db.rows
          /\ s.mem.book_col_map = d.links /\ s.mem.id_map = d.rows
      BY <1>1, <2>3, ReadFacts
    <2>. QED BY <2>2, <2>4, SameNames
  <1>. QED BY <1>5, <1>6, <1>7, <1>8, <1>9 DEF FirstRenamed

LEMMA RenameItemFacts ==
    ASSUME NEW A, NEW s \in States(A), s.mem = Read(s.db), NEW i \in Rows(s.db),
           NEW ns \in Seq(Names), ns # <<>>, ~ Multiple => Len(ns) <= 1,
           Fitting(s.db, i, ns), Allowed(A, s.db, i, ns, Books),
           NEW t, t = RenameItem(s, i, ns)
    PROVE  ItemRenamedTo(A, s, i, ns, Books, t)
  <1>. DEFINE d == s.db
              B == {b \in Books : i \in ToSet(d.links[b])}
              v == Dirty(rename_item(s, i, ns[1]), B)
              more == Tail(ns)
  <1>1. /\ Sound(Multiple, d) /\ B \in SUBSET Books /\ i \in Items /\ s.mem.col_book_map[i] = B
        /\ s.mem.book_col_map = d.links
    <2>1. Sound(Multiple, d) /\ i \in Items
      BY StateFacts DEF Rows
    <2>2. /\ Read(d).col_book_map = [k \in Items |-> {b \in Books : k \in ToSet(d.links[b])}]
          /\ Read(d).book_col_map = d.links
      BY <2>1, ReadFacts
    <2>. QED BY <2>1, <2>2
  <1>2. /\ ns[1] \in Names /\ icu_lower(ns[1]) \in NewWords(ns) /\ more \in Seq(Names)
        /\ NewWords(ns) = {icu_lower(ns[1])} \cup NewWords(more)
        /\ Len(ns) = 1 => NewWords(ns) = {icu_lower(ns[1])}
        /\ Len(ns) <= 1 => Len(ns) = 1
    BY TailWords
  <1>3. t = IF Len(ns) = 1 THEN v ELSE AddToBooks(v, B, more)
    BY <1>1 DEF RenameItem
  <1>4. FirstRenamed(A, s, i, ns[1], B, v)
    <2>1. /\ B \in SUBSET Books /\ \A b \in Books : b \in B <=> i \in ToSet(s.db.links[b])
          /\ v = Dirty(rename_item(s, i, ns[1]), B)
      OBVIOUS
    <2>. HIDE DEF B, v
    <2>. QED BY <2>1, RenameFirstFacts
  <1>5. /\ v \in States(A) /\ v.mem = Read(v.db) /\ v.dirtied = s.dirtied \cup B
        /\ Rows(v.db) \subseteq Rows(d)
        /\ RowWords(d) \ {icu_lower(d.rows[i])} \subseteq RowWords(v.db)
        /\ \A b \in B : Words(v.db, b) = NewWordsOf(d, b, i, {icu_lower(ns[1])})
        /\ \A b \in Books \ B : Words(v.db, b) = Words(d, b)
        /\ icu_lower(ns[1]) \in RowWords(v.db)
        /\ \A b \in Books \ v.dirtied : names(v.mem, b) = names(s.mem, b)
    BY <1>4 DEF FirstRenamed
  <1>. HIDE DEF v
  <1>6. CASE Len(ns) = 1
    <2>1. t = v /\ NewWords(ns) = {icu_lower(ns[1])}
      BY <1>2, <1>3, <1>6
    <2>. QED BY <1>4, <1>5, <2>1 DEF ItemRenamedTo
  <1>7. CASE Len(ns) # 1
    <2>. DEFINE val == [b \in B |-> names(v.mem, b) \o more]
                W == NewWords(more) \cup RowWords(v.db)
    <2>1. t = set_books(v, val, TRUE)
      BY <1>3, <1>7 DEF AddToBooks
    <2>2. Multiple
      BY <1>2, <1>7
    <2>3. Sound(Multiple, v.db)
      BY <1>5, StateFacts
    <2>4. ASSUME NEW b \in B
          PROVE  /\ val[b] \in Seq(Names)
                 /\ NewWords(val[b]) = NewWordsOf(d, b, i, NewWords(ns))
                 /\ NewWords(val[b]) \subseteq W
      <3>1. /\ names(v.mem, b) \in Seq(Names) /\ NewWords(names(v.mem, b)) = Words(v.db, b)
        BY <1>1, <1>5, <2>3, NamesFacts
      <3>2. val[b] = names(v.mem, b) \o more
        OBVIOUS
      <3>3. val[b] \in Seq(Names) /\ NewWords(val[b]) = Words(v.db, b) \cup NewWords(more)
        <4>. HIDE DEF val, more
        <4>. QED BY <1>2, <3>1, <3>2, ConcatWords
      <3>4. Words(v.db, b) \subseteq RowWords(v.db)
        BY <1>1, <2>3 DEF Sound, Words, RowWords
      <3>5. NewWords(val[b]) = NewWordsOf(d, b, i, NewWords(ns))
        <4>. HIDE DEF val, more
        <4>. QED BY <1>2, <1>5, <3>3 DEF NewWordsOf
      <3>. QED BY <3>3, <3>4, <3>5
    <2>5. IsFiniteSet(W)
      BY <1>2, NewWordsFinite, RowWordsFinite, FS_Union
    <2>6. Max(Rows(v.db) \cup {0}) + Cardinality(W \ RowWords(v.db)) <= MaxItem
      <3>. DEFINE V == NewWords(ns) \ (RowWords(d) \ {icu_lower(d.rows[i])})
                  U == W \ RowWords(v.db)
      <3>1. U \subseteq V
        BY <1>2, <1>5
      <3>2. IsFiniteSet(V)
        BY NewWordsFinite, FS_Difference
      <3>3. Max(Rows(d) \cup {0}) + Cardinality(V) <= MaxItem
        BY DEF Fitting
      <3>. HIDE DEF U, V
      <3>4. Max(Rows(v.db) \cup {0}) + Cardinality(U) <= MaxItem
        BY <1>5, <3>1, <3>2, <3>3, RoomLeft
      <3>. QED BY <3>4 DEF U
    <2>7. \A b \in B : NewWords(val[b]) \in A[b] /\ {} \in A[b]
      <3>1. \A b \in B : i \in ToSet(d.links[b]) /\ b \in Books
        OBVIOUS
      <3>. HIDE DEF B, val
      <3>. QED BY <2>2, <2>4, <3>1 DEF Allowed
    <2>8. val \in [B -> Seq(Names)]
      <3>1. val = [b \in B |-> val[b]]
        OBVIOUS
      <3>. HIDE DEF val, B
      <3>. QED BY <2>4, <3>1
    <2>. HIDE DEF val, W, B
    <2>9. BooksSet(A, v, B, val, t)
      BY <1>1, <1>5, <2>1, <2>2, <2>4, <2>5, <2>6, <2>7, <2>8, SetBooksFacts
    <2>10. /\ t \in States(A) /\ t.mem = Read(t.db) /\ v.dirtied \subseteq t.dirtied
           /\ \A b \in B : Words(t.db, b) = NewWordsOf(d, b, i, NewWords(ns))
           /\ \A b \in Books \ B : Words(t.db, b) = Words(d, b)
           /\ \A b \in Books \ t.dirtied : names(t.mem, b) = names(s.mem, b)
      BY <1>4, <1>5, <2>4, <2>9 DEF BooksSet
    <2>. QED BY <2>10 DEF ItemRenamedTo, B
  <1>. QED BY <1>6, <1>7

\* rename_items() for the books of a virtual library.
LEMMA RenamedFacts ==
    ASSUME NEW d, Sound(Multiple, d), NEW b \in Books, NEW i \in ToSet(d.links[b]),
           NEW ns \in Seq(Names), ns # <<>>, ~ Multiple => Len(ns) <= 1,
           NEW r, r = Renamed(names(Read(d), b), d.rows[i], ns)
    PROVE  /\ r \in Seq(Names) /\ (~ Multiple => Len(r) <= 1)
           /\ NewWords(r) = NewWordsOf(d, b, i, NewWords(ns))
  <1>. DEFINE v == names(Read(d), b)
              q == d.links[b]
              w == [k \in DOMAIN v |-> IF v[k] = d.rows[i] THEN ns[1] ELSE v[k]]
  <1>1. /\ v \in Seq(Names) /\ Len(v) = Len(q) /\ NewWords(v) = Words(d, b)
        /\ \A k \in DOMAIN v : v[k] = d.rows[q[k]]
    BY NamesFacts
  <1>2. /\ ns[1] \in Names /\ Tail(ns) \in Seq(Names)
        /\ NewWords(ns) = {icu_lower(ns[1])} \cup NewWords(Tail(ns))
        /\ Len(ns) = 1 => NewWords(ns) = {icu_lower(ns[1])}
        /\ Len(ns) <= 1 => Len(ns) = 1
    BY TailWords
  <1>3. /\ q \in Seq(Items) /\ ToSet(q) \subseteq Rows(d) /\ i \in Rows(d)
        /\ \A k, l \in Rows(d) : icu_lower(d.rows[k]) = icu_lower(d.rows[l]) => k = l
        /\ (~ Multiple => Len(q) <= 1)
    BY DEF Sound, Database
  <1>4. r = IF Multiple THEN w \o Tail(ns) ELSE <<ns[1]>>
    BY DEF Renamed
  <1>5. PICK n \in Nat : n = Len(q) /\ DOMAIN q = 1..n
    BY <1>3
  <1>6. DOMAIN v = 1..n
    BY <1>1, <1>5
  <1>. HIDE DEF v, q
  <1>7. ToSet(q) = {q[k] : k \in 1..n}
    BY <1>5 DEF ToSet
  <1>8. PICK l \in 1..n : q[l] = i
    BY <1>7 DEF q
  <1>9. w \in Seq(Names) /\ DOMAIN w = 1..n
    <2>1. w \in [1..n -> Names] /\ DOMAIN w = 1..n
      BY <1>1, <1>2, <1>6
    <2>2. \A m \in Nat : \A f \in [1..m -> Names] : f \in Seq(Names) /\ Len(f) = m
      OBVIOUS
    <2>. QED BY <1>5, <2>1, <2>2
  <1>10. \A k \in 1..n : w[k] = IF q[k] = i THEN ns[1] ELSE d.rows[q[k]]
    <2>. SUFFICES ASSUME NEW k \in 1..n
                  PROVE  w[k] = IF q[k] = i THEN ns[1] ELSE d.rows[q[k]]
      OBVIOUS
    <2>1. q[k] \in Rows(d) /\ v[k] = d.rows[q[k]]
      BY <1>1, <1>3, <1>6, <1>7
    <2>2. v[k] = d.rows[i] <=> q[k] = i
      BY <1>3, <2>1
    <2>. QED BY <1>6, <2>1, <2>2
  <1>. HIDE DEF w
  <1>11. ToSet(w) = {w[k] : k \in 1..n}
    BY <1>9 DEF ToSet
  <1>12. NewWords(w) = NewWordsOf(d, b, i, {icu_lower(ns[1])})
    <2>1. Words(d, b) = {icu_lower(d.rows[q[k]]) : k \in 1..n}
      BY <1>7 DEF Words, q
    <2>2. \A x \in NewWords(w) : x \in NewWordsOf(d, b, i, {icu_lower(ns[1])})
      <3>. SUFFICES ASSUME NEW k \in 1..n
                    PROVE  icu_lower(w[k]) \in NewWordsOf(d, b, i, {icu_lower(ns[1])})
        BY <1>11 DEF NewWords
      <3>1. CASE q[k] = i
        BY <1>10, <3>1 DEF NewWordsOf
      <3>2. CASE q[k] # i
        <4>1. w[k] = d.rows[q[k]] /\ q[k] \in Rows(d)
          BY <1>3, <1>7, <1>10, <3>2
        <4>2. icu_lower(w[k]) # icu_lower(d.rows[i]) /\ icu_lower(w[k]) \in Words(d, b)
          BY <1>3, <2>1, <3>2, <4>1
        <4>. QED BY <4>2 DEF NewWordsOf
      <3>. QED BY <3>1, <3>2
    <2>3. icu_lower(ns[1]) \in NewWords(w)
      BY <1>8, <1>10, <1>11 DEF NewWords
    <2>4. \A x \in Words(d, b) \ {icu_lower(d.rows[i])} : x \in NewWords(w)
      <3>. SUFFICES ASSUME NEW k \in 1..n, icu_lower(d.rows[q[k]]) # icu_lower(d.rows[i])
                    PROVE  icu_lower(d.rows[q[k]]) \in NewWords(w)
        BY <2>1
      <3>1. w[k] = d.rows[q[k]]
        BY <1>10
      <3>. QED BY <1>11, <3>1 DEF NewWords
    <2>. QED BY <2>2, <2>3, <2>4 DEF NewWordsOf
  <1>13. CASE Multiple
    <2>1. r = w \o Tail(ns)
      BY <1>4, <1>13
    <2>2. r \in Seq(Names) /\ NewWords(r) = NewWords(w) \cup NewWords(Tail(ns))
      BY <1>2, <1>9, <2>1, ConcatWords
    <2>. QED BY <1>2, <1>12, <1>13, <2>2 DEF NewWordsOf
  <1>14. CASE ~ Multiple
    <2>1. r = <<ns[1]>>
      BY <1>4, <1>14
    <2>2. r \in Seq(Names) /\ Len(r) = 1 /\ ToSet(r) = {ns[1]}
      BY <1>2, <2>1 DEF ToSet
    <2>3. NewWords(ns) = {icu_lower(ns[1])}
      BY <1>2, <1>14
    <2>4. Words(d, b) = {icu_lower(d.rows[i])}
      <3>1. n = 1 /\ l = 1
        BY <1>3, <1>5, <1>8, <1>14
      <3>2. ToSet(q) = {i}
        BY <1>7, <1>8, <3>1
      <3>. QED BY <3>2 DEF Words, q
    <2>5. NewWords(r) = NewWordsOf(d, b, i, NewWords(ns))
      BY <2>2, <2>3, <2>4 DEF NewWords, NewWordsOf
    <2>. QED BY <2>2, <2>5
  <1>. QED BY <1>13, <1>14

LEMMA RenameInBooksFacts ==
    ASSUME NEW A, NEW s \in States(A), s.mem = Read(s.db), NEW i \in Rows(s.db),
           NEW ns \in Seq(Names), ns # <<>>, ~ Multiple => Len(ns) <= 1,
           NEW S \in SUBSET Books, \A b \in S : i \in ToSet(s.db.links[b]),
           Fitting(s.db, i, ns), Allowed(A, s.db, i, ns, S),
           NEW t, t = RenameInBooks(s, i, ns, S)
    PROVE  ItemRenamedTo(A, s, i, ns, S, t)
  <1>. DEFINE d == s.db
              val == [b \in S |-> Renamed(names(s.mem, b), d.rows[i], ns)]
              W == NewWords(ns) \cup RowWords(d)
  <1>1. Sound(Multiple, d) /\ s.mem.id_map = d.rows /\ s.mem = Read(d)
    BY StateFacts, ReadFacts
  <1>2. t = set_books(s, val, TRUE)
    BY <1>1 DEF RenameInBooks
  <1>3. ASSUME NEW b \in S
        PROVE  /\ val[b] \in Seq(Names) /\ (~ Multiple => Len(val[b]) <= 1)
               /\ NewWords(val[b]) = NewWordsOf(d, b, i, NewWords(ns))
    <2>1. val[b] = Renamed(names(Read(d), b), d.rows[i], ns) /\ i \in ToSet(d.links[b])
      BY <1>1
    <2>. HIDE DEF val
    <2>. QED BY <1>1, <2>1, RenamedFacts
  <1>4. val \in [S -> Seq(Names)]
    <2>1. val = [b \in S |-> val[b]]
      OBVIOUS
    <2>. HIDE DEF val
    <2>. QED BY <1>3, <2>1
  <1>. HIDE DEF val
  <1>5. ASSUME NEW b \in S
        PROVE  /\ NewWords(val[b]) \subseteq W /\ NewWords(val[b]) \in A[b]
               /\ (Multiple => {} \in A[b])
    <2>1. Words(d, b) \subseteq RowWords(d)
      BY <1>1 DEF Sound, Words, RowWords
    <2>2. NewWords(val[b]) \subseteq W
      BY <1>3, <2>1 DEF NewWordsOf
    <2>3. NewWords(val[b]) \in A[b] /\ (Multiple => {} \in A[b])
      BY <1>3 DEF Allowed
    <2>. QED BY <2>2, <2>3
  <1>6. IsFiniteSet(W)
    BY NewWordsFinite, RowWordsFinite, FS_Union
  <1>7. Max(Rows(d) \cup {0}) + Cardinality(W \ RowWords(d)) <= MaxItem
    <2>. DEFINE V == NewWords(ns) \ (RowWords(d) \ {icu_lower(d.rows[i])})
                U == W \ RowWords(d)
    <2>1. U \subseteq V /\ IsFiniteSet(V)
      BY NewWordsFinite, FS_Difference
    <2>2. Max(Rows(d) \cup {0}) + Cardinality(V) <= MaxItem
      BY DEF Fitting
    <2>. HIDE DEF U, V
    <2>3. Max(Rows(d) \cup {0}) + Cardinality(U) <= MaxItem
      BY <2>1, <2>2, RoomLeft
    <2>. QED BY <2>3 DEF U
  <1>8. BooksSet(A, s, S, val, t)
    <2>. HIDE DEF W
    <2>. QED BY <1>1, <1>2, <1>3, <1>4, <1>5, <1>6, <1>7, SetBooksFacts
  <1>. HIDE DEF W
  <1>9. /\ t \in States(A) /\ t.mem = Read(t.db)
        /\ \A b \in S : Words(t.db, b) = NewWordsOf(d, b, i, NewWords(ns))
        /\ \A b \in Books \ S : Words(t.db, b) = Words(d, b)
        /\ \A b \in Books \ t.dirtied : names(t.mem, b) = names(s.mem, b)
    BY <1>3, <1>8 DEF BooksSet
  <1>. QED BY <1>9 DEF ItemRenamedTo

-------------------------------------------------------------------------------
(* rename_items() for one item *)

LEMMA InOrderOne ==
    ASSUME NEW i \in Items
    PROVE  Len(InOrder({i})) = 1 /\ InOrder({i})[1] = i
  <1>. DEFINE p == [k \in 1..1 |-> i]
  <1>1. p \in [1..1 -> {i}] /\ \A j, k \in 1..1 : ~ j < k
    OBVIOUS
  <1>2. \A x \in {i} : \E k \in 1..1 : p[k] = x
    OBVIOUS
  <1>3. {i} \in SUBSET (1..MaxItem) /\ MaxItem \in Nat
    BY LinkTableAssumption DEF Items
  <1>. HIDE DEF p
  <1>4. InOrder({i}) = p /\ Cardinality({i}) = 1
    BY <1>1, <1>2, <1>3, InOrderUnique
  <1>. QED BY <1>4 DEF p

LEMMA InOrderNone ==
    Len(InOrder({})) = 0
  <1>1. Cardinality({}) = 0
    BY FS_EmptySet
  <1>2. InOrder({}) = [k \in 1..0 |-> CHOOSE x \in {} : Cardinality({y \in {} : y < x}) = k - 1]
    BY <1>1 DEF InOrder
  <1>. QED BY <1>2

\* What rename_items() makes of s for one item, with the books B.
IsOneRenamed(s, i, ns, S, B, t) ==
    t = IF B \subseteq S THEN RenameItem(s, i, ns)
        ELSE IF B \cap S = {} THEN s ELSE RenameInBooks(s, i, ns, B \cap S)

LEMMA RenameItemsOne ==
    ASSUME NEW s, NEW i \in Items, NEW f, DOMAIN f = {i}, NEW S, NEW B,
           s.mem.col_book_map[i] = B, NEW t, t = rename_items(s, f, S)
    PROVE  IsOneRenamed(s, i, f[i], S, B, t)
  <1>. SUFFICES t = IF B \subseteq S THEN RenameItem(s, i, f[i])
                    ELSE IF B \cap S = {} THEN s ELSE RenameInBooks(s, i, f[i], B \cap S)
    BY DEF IsOneRenamed
  <1>. DEFINE seq == InOrder(DOMAIN f)
              c == [state |-> s, later |-> {}]
              R(e, x) ==
                IF e.state.mem.col_book_map[x] \subseteq S
                THEN [e EXCEPT !.later = @ \cup {x}]
                ELSE IF e.state.mem.col_book_map[x] \cap S = {} THEN e
                ELSE [e EXCEPT !.state = RenameInBooks(@, x, f[x],
                                            e.state.mem.col_book_map[x] \cap S)]
              r == CHOOSE r : r = [k \in 0..Len(seq) |->
                                        IF k = 0 THEN c ELSE R(r[k - 1], seq[k])]
              e == r[Len(seq)]
              n == Len(InOrder(e.later))
              after == CHOOSE g : g = [k \in 0..n |-> IF k = 0 THEN e.state
                            ELSE RenameItem(g[k - 1], InOrder(e.later)[k],
                                            f[InOrder(e.later)[k]])]
  <1>1. t = after[n]
    <2>1. rename_items(s, f, S) = after[n]
      BY DEF rename_items, Loop
    <2>. QED BY <2>1
  <1>2. e = R(c, i)
    <2>. DEFINE q == [k \in 0..1 |-> IF k = 0 THEN c ELSE R(c, i)]
    <2>. HIDE DEF R, c, e
    <2>1. Len(seq) = 1 /\ seq[1] = i
      BY InOrderOne
    <2>. HIDE DEF seq
    <2>2. q[0] = c /\ q[1] = R(c, i)
      OBVIOUS
    <2>3. q = [k \in 0..Len(seq) |-> IF k = 0 THEN c ELSE R(q[k - 1], seq[k])]
      BY <2>1
    <2>4. r = [k \in 0..Len(seq) |-> IF k = 0 THEN c ELSE R(r[k - 1], seq[k])]
      <3>. HIDE DEF q
      <3>. QED BY <2>3
    <2>. HIDE DEF r, q
    <2>5. r[0] = c /\ r[1] = R(r[0], i)
      <3>1. PICK g : g = [k \in 0..Len(seq) |-> IF k = 0 THEN c ELSE R(r[k - 1], seq[k])]
        OBVIOUS
      <3>2. g[0] = c /\ g[1] = R(r[0], i)
        BY <2>1, <3>1
      <3>3. r = g
        BY <2>4, <3>1, Zenon
      <3>. QED BY <3>2, <3>3
    <2>. QED BY <2>1, <2>5 DEF e
  <1>. HIDE DEF e
  <1>3. CASE B \subseteq S
    <2>. DEFINE q == [k \in 0..1 |-> IF k = 0 THEN s ELSE RenameItem(s, i, f[i])]
    <2>1. e.state = s /\ e.later = {i}
      BY <1>2, <1>3
    <2>2. n = 1 /\ InOrder(e.later)[1] = i
      BY <2>1, InOrderOne
    <2>. DEFINE x == InOrder(e.later)[1]
    <2>3. q[0] = s /\ q[1] = RenameItem(s, i, f[i])
      OBVIOUS
    <2>4. q = [k \in 0..n |-> IF k = 0 THEN e.state
                    ELSE RenameItem(q[k - 1], InOrder(e.later)[k], f[InOrder(e.later)[k]])]
      <3>. HIDE DEF n
      <3>. QED BY <2>1, <2>2
    <2>. HIDE DEF q, n
    <2>5. after = [k \in 0..n |-> IF k = 0 THEN e.state
                    ELSE RenameItem(after[k - 1], InOrder(e.later)[k], f[InOrder(e.later)[k]])]
      BY <2>4
    <2>. HIDE DEF after
    <2>6. after[0] = s /\ after[1] = RenameItem(after[0], i, f[i])
      <3>1. PICK g : g = [k \in 0..n |-> IF k = 0 THEN e.state
                    ELSE RenameItem(after[k - 1], InOrder(e.later)[k], f[InOrder(e.later)[k]])]
        OBVIOUS
      <3>2. g[0] = s /\ g[1] = RenameItem(after[0], i, f[i])
        BY <2>1, <2>2, <3>1
      <3>3. after = g
        BY <2>5, <3>1, Zenon
      <3>. QED BY <3>2, <3>3
    <2>. QED BY <1>1, <1>3, <2>2, <2>6
  <1>4. CASE ~ B \subseteq S
    <2>. DEFINE u == IF B \cap S = {} THEN s ELSE RenameInBooks(s, i, f[i], B \cap S)
                q == [k \in 0..0 |-> u]
    <2>1. e.state = u /\ e.later = {}
      BY <1>2, <1>4
    <2>2. n = 0
      BY <2>1, InOrderNone
    <2>. HIDE DEF u, n
    <2>3. q = [k \in 0..n |-> IF k = 0 THEN e.state
                    ELSE RenameItem(q[k - 1], InOrder(e.later)[k], f[InOrder(e.later)[k]])]
      BY <2>1, <2>2
    <2>. HIDE DEF q
    <2>4. after = [k \in 0..n |-> IF k = 0 THEN e.state
                    ELSE RenameItem(after[k - 1], InOrder(e.later)[k], f[InOrder(e.later)[k]])]
      BY <2>3
    <2>. HIDE DEF after
    <2>5. after[0] = u
      <3>1. PICK g : g = [k \in 0..n |-> IF k = 0 THEN e.state
                    ELSE RenameItem(after[k - 1], InOrder(e.later)[k], f[InOrder(e.later)[k]])]
        OBVIOUS
      <3>2. g[0] = u
        BY <2>1, <2>2, <3>1
      <3>3. after = g
        BY <2>4, <3>1, Zenon
      <3>. QED BY <3>2, <3>3
    <2>. QED BY <1>1, <1>4, <2>2, <2>5 DEF u
  <1>. QED BY <1>3, <1>4

-------------------------------------------------------------------------------
(* Removing items *)

\* The words of the book may go.
Removable(A, d, b) ==
    {} \in A[b] /\ (Multiple => \A X \in SUBSET Words(d, b) : X \in A[b])

PartKept(A, d, b, P, q) ==
    /\ q \in Seq(Items) /\ IsInjective(q) /\ ToSet(q) = ToSet(d.links[b]) \ P
    /\ (~ Multiple => Len(q) <= 1) /\ RowWordsOf(d, q) \in A[b]

LEMMA PartFacts ==
    ASSUME NEW A, NEW d, Sound(Multiple, d), NEW b \in Books, Words(d, b) \in A[b],
           NEW P \in SUBSET Items, ToSet(d.links[b]) \cap P # {} => Removable(A, d, b),
           NEW q, q = Without(d.links[b], P)
    PROVE  PartKept(A, d, b, P, q)
  <1>. DEFINE o == d.links[b]
  <1>1. o \in Seq(Items) /\ IsInjective(o) /\ (~ Multiple => Len(o) <= 1)
    BY DEF Sound, Database
  <1>2. q \in Seq(Items) /\ Len(q) <= Len(o) /\ ToSet(q) = ToSet(o) \ P /\ IsInjective(q)
    <2>1. q = Without(o, P)
      OBVIOUS
    <2>. HIDE DEF o
    <2>. QED BY <1>1, <2>1, WithoutFacts
  <1>3. ~ Multiple => Len(q) <= 1
    <2>. HIDE DEF o
    <2>1. Len(o) \in Nat /\ Len(q) \in Nat
      BY <1>1, <1>2
    <2>. QED BY <1>1, <1>2, <2>1
  <1>4. RowWordsOf(d, q) \in A[b]
    <2>1. RowWordsOf(d, q) = {icu_lower(d.rows[i]) : i \in ToSet(o) \ P}
      BY <1>2 DEF RowWordsOf
    <2>2. CASE ToSet(o) \cap P = {}
      <3>1. ToSet(o) \ P = ToSet(o)
        BY <2>2
      <3>2. RowWordsOf(d, q) = Words(d, b)
        BY <2>1, <3>1 DEF Words
      <3>. QED BY <3>2
    <2>3. CASE ToSet(o) \cap P # {} /\ Multiple
      <3>1. RowWordsOf(d, q) \in SUBSET Words(d, b)
        BY <2>1 DEF Words
      <3>. QED BY <2>3, <3>1 DEF Removable
    <2>4. CASE ToSet(o) \cap P # {} /\ ~ Multiple
      <3>1. \A j, k \in DOMAIN o : j = k
        <4>. HIDE DEF o
        <4>. QED BY <1>1, <2>4
      <3>2. ToSet(o) \ P = {}
        <4>. HIDE DEF o
        <4>. QED BY <2>4, <3>1 DEF ToSet
      <3>3. RowWordsOf(d, q) = {}
        BY <2>1, <3>2
      <3>. QED BY <2>4, <3>3 DEF Removable
    <2>. QED BY <2>2, <2>3, <2>4
  <1>. QED BY <1>2, <1>3, <1>4 DEF PartKept

\* The links of the books when those of S have lost the items P.
Kept(d, S, P) ==
    [b \in Books |-> IF b \in S THEN Without(d.links[b], P) ELSE d.links[b]]

\* What RemoveFromBooks() has made of s for the items P.
Removed(A, s, S, P) ==
    {t \in States(A) :
        /\ t.mem.id_map = s.mem.id_map /\ t.mem.book_col_map = Kept(s.db, S, P)
        /\ t.db.rows = s.db.rows
        /\ t.db.links = IF Multiple THEN s.db.links ELSE Kept(s.db, S, P)
        /\ t.dirtied = s.dirtied \cup {b \in S : ToSet(s.db.links[b]) \cap P # {}}}

KeptIs(d, S, P, K) ==
    /\ K \in [Books -> Seq(Items)]
    /\ \A b \in S : ToSet(K[b]) = ToSet(d.links[b]) \ P
    /\ \A b \in Books \ S : K[b] = d.links[b]

LosesItem(i, S, K, L) ==
    \A b \in Books : L[b] = IF b \in S /\ i \in ToSet(K[b]) THEN Without(K[b], {i}) ELSE K[b]

LEMMA KeptMore ==
    ASSUME NEW d, Sound(Multiple, d), NEW S \in SUBSET Books, NEW P \in SUBSET Items,
           NEW i \in Items, NEW K, K = Kept(d, S, P), NEW L, L = Kept(d, S, P \cup {i})
    PROVE  LosesItem(i, S, K, L)
  <1>. SUFFICES ASSUME NEW b \in Books
                PROVE  L[b] = IF b \in S /\ i \in ToSet(K[b]) THEN Without(K[b], {i}) ELSE K[b]
    BY DEF LosesItem
  <1>. DEFINE o == d.links[b]
  <1>1. o \in Seq(Items)
    BY DEF Sound, Database
  <1>2. /\ K[b] = IF b \in S THEN Without(o, P) ELSE o
        /\ L[b] = IF b \in S THEN Without(o, P \cup {i}) ELSE o
    BY DEF Kept
  <1>. HIDE DEF o
  <1>3. Without(Without(o, P), {i}) = Without(o, P \cup {i})
    BY <1>1, WithoutTwice
  <1>5. ToSet(Without(o, P)) = ToSet(o) \ P
    BY <1>1, WithoutFacts
  <1>4. i \notin ToSet(o) \ P => Without(o, P \cup {i}) = Without(o, P)
    <2>1. i \notin ToSet(o) \ P => \A v \in ToSet(o) : v \in P \cup {i} <=> v \in P
      OBVIOUS
    <2>. QED BY <2>1, WithoutSame
  <1>. QED BY <1>2, <1>3, <1>4, <1>5 DEF o

LEMMA KeptFacts ==
    ASSUME NEW d, Sound(Multiple, d), NEW S \in SUBSET Books, NEW P \in SUBSET Items,
           NEW K, K = Kept(d, S, P)
    PROVE  KeptIs(d, S, P, K)
  <1>1. K = [b \in Books |-> K[b]]
    BY DEF Kept
  <1>2. ASSUME NEW b \in Books
        PROVE  /\ K[b] \in Seq(Items) /\ (b \notin S => K[b] = d.links[b])
               /\ (b \in S => ToSet(K[b]) = ToSet(d.links[b]) \ P)
    <2>. DEFINE o == d.links[b]
    <2>1. o \in Seq(Items)
      BY DEF Sound, Database
    <2>2. K[b] = IF b \in S THEN Without(o, P) ELSE o
      BY DEF Kept
    <2>. HIDE DEF o
    <2>3. Without(o, P) \in Seq(Items) /\ ToSet(Without(o, P)) = ToSet(o) \ P
      BY <2>1, WithoutFacts
    <2>. QED BY <2>1, <2>2, <2>3 DEF o
  <1>. HIDE DEF Kept
  <1>3. K \in [Books -> Seq(Items)]
    BY <1>1, <1>2
  <1>. QED BY <1>2, <1>3 DEF KeptIs

LEMMA RemoveFromMapsFacts ==
    ASSUME NEW m, Agrees(m), NEW i \in Items, NEW S \in SUBSET Books, NEW n,
           n = RemoveFromMaps(m, i, S)
    PROVE  /\ Agrees(n) /\ n.id_map = m.id_map
           /\ LosesItem(i, S, m.book_col_map, n.book_col_map)
  <1>. DEFINE B == m.col_book_map[i] \cap S
              l == [b \in Books |-> IF b \in B THEN Without(m.book_col_map[b], {i})
                                    ELSE m.book_col_map[b]]
              c == [m.col_book_map EXCEPT ![i] = @ \ S]
  <1>1. m \in Memory /\ \A b \in Books : b \in B <=> b \in S /\ i \in ToSet(m.book_col_map[b])
    BY DEF Agrees
  <1>2. n = [id_map |-> m.id_map, book_col_map |-> l, col_book_map |-> c]
    BY <1>1 DEF Memory, RemoveFromMaps
  <1>3. /\ c \in [Items -> SUBSET Books] /\ c[i] = m.col_book_map[i] \ S
        /\ \A k \in Items : k # i => c[k] = m.col_book_map[k]
    BY <1>1 DEF Memory
  <1>4. ASSUME NEW b \in Books
        PROVE  /\ l[b] \in Seq(Items)
               /\ b \in B => l[b] = Without(m.book_col_map[b], {i})
                             /\ ToSet(l[b]) = ToSet(m.book_col_map[b]) \ {i}
               /\ b \notin B => l[b] = m.book_col_map[b]
    <2>. DEFINE q == m.book_col_map[b]
    <2>1. q \in Seq(Items) /\ l[b] = IF b \in B THEN Without(q, {i}) ELSE q
      BY <1>1 DEF Memory
    <2>. HIDE DEF q, l, B
    <2>2. Without(q, {i}) \in Seq(Items) /\ ToSet(Without(q, {i})) = ToSet(q) \ {i}
      BY <2>1, WithoutFacts
    <2>. QED BY <2>1, <2>2 DEF q
  <1>5. l \in [Books -> Seq(Items)]
    <2>1. l = [b \in Books |-> l[b]]
      OBVIOUS
    <2>. HIDE DEF l
    <2>. QED BY <1>4, <2>1
  <1>. HIDE DEF l, c, B
  <1>6. n.id_map = m.id_map /\ n.book_col_map = l /\ n.col_book_map = c /\ n \in Memory
    BY <1>1, <1>2, <1>3, <1>5 DEF Memory
  <1>7. ASSUME NEW k \in Items
        PROVE  n.col_book_map[k] = {b \in Books : k \in ToSet(n.book_col_map[b])}
    <2>1. m.col_book_map[k] = {b \in Books : k \in ToSet(m.book_col_map[b])}
      BY DEF Agrees
    <2>2. \A b \in Books : k \in ToSet(l[b]) <=>
                k \in ToSet(m.book_col_map[b]) /\ (b \in B => k # i)
      BY <1>4
    <2>3. CASE k = i
      <3>1. c[k] = m.col_book_map[k] \ S /\ \A b \in Books : b \in B <=> b \in S /\ b \in m.col_book_map[k]
        BY <1>1, <1>3, <2>1, <2>3
      <3>. QED BY <1>6, <2>1, <2>2, <2>3, <3>1
    <2>4. CASE k # i
      <3>1. c[k] = m.col_book_map[k]
        BY <1>3, <2>4
      <3>. QED BY <1>6, <2>1, <2>2, <2>4, <3>1
    <2>. QED BY <2>3, <2>4
  <1>8. \A b \in Books : ToSet(n.book_col_map[b]) \subseteq Known(n)
    <2>1. Known(n) = Known(m) /\ \A b \in Books : ToSet(m.book_col_map[b]) \subseteq Known(m)
      BY <1>6 DEF Known, Agrees
    <2>. QED BY <1>4, <1>6, <2>1
  <1>9. LosesItem(i, S, m.book_col_map, n.book_col_map)
    BY <1>1, <1>4, <1>6 DEF LosesItem
  <1>. QED BY <1>6, <1>7, <1>8, <1>9 DEF Agrees

LEMMA RemoveFromBooksFacts ==
    ASSUME NEW A, NEW s \in States(A), s.mem = Read(s.db), NEW S \in SUBSET Books,
           NEW P \in SUBSET Items, NEW t \in Removed(A, s, S, P), NEW i \in Items,
           \A b \in S : i \in ToSet(s.db.links[b]) => Removable(A, s.db, b),
           NEW u, u = RemoveFromBooks(t, i, S)
    PROVE  u \in Removed(A, s, S, P \cup {i})
  <1>. DEFINE d == s.db
              B == t.mem.col_book_map[i] \cap S
              K == Kept(d, S, P)
              L == Kept(d, S, P \cup {i})
              m == RemoveFromMaps(t.mem, i, S)
              v == [t EXCEPT !.mem = m]
              w == Dirty(v, B)
  <1>1. /\ Sound(Multiple, d) /\ t \in States(A) /\ Agrees(t.mem)
        /\ t.mem.id_map = s.mem.id_map /\ t.mem.book_col_map = K /\ t.db.rows = d.rows
        /\ t.db.links = IF Multiple THEN d.links ELSE K
        /\ t.dirtied = s.dirtied \cup {b \in S : ToSet(d.links[b]) \cap P # {}}
        /\ Sound(Multiple, t.db) /\ t.db \in Database
    BY StateFacts DEF Removed, Sound
  <1>2. /\ K \in [Books -> Seq(Items)] /\ L \in [Books -> Seq(Items)]
        /\ \A b \in S : ToSet(K[b]) = ToSet(d.links[b]) \ P
        /\ \A b \in S : ToSet(L[b]) = ToSet(d.links[b]) \ (P \cup {i})
        /\ \A b \in Books \ S : K[b] = d.links[b] /\ L[b] = d.links[b]
    <2>1. K = Kept(d, S, P) /\ L = Kept(d, S, P \cup {i}) /\ P \cup {i} \in SUBSET Items
      OBVIOUS
    <2>. HIDE DEF K, L
    <2>2. KeptIs(d, S, P, K)
      BY <1>1, <2>1, KeptFacts
    <2>3. KeptIs(d, S, P \cup {i}, L)
      BY <1>1, <2>1, KeptFacts
    <2>. QED BY <2>2, <2>3 DEF KeptIs
  <1>3. \A b \in Books : b \in B <=> b \in S /\ i \in ToSet(d.links[b]) \ P
    <2>1. t.mem.col_book_map[i] = {b \in Books : i \in ToSet(K[b])}
      BY <1>1 DEF Agrees
    <2>. HIDE DEF K, L
    <2>. QED BY <1>2, <2>1
  <1>4. /\ \A b \in B : L[b] = Without(K[b], {i})
        /\ \A b \in Books \ B : L[b] = K[b]
    <2>1. K = Kept(d, S, P) /\ L = Kept(d, S, P \cup {i}) /\ B \subseteq Books
      OBVIOUS
    <2>. HIDE DEF B, K, L
    <2>2. LosesItem(i, S, K, L)
      BY <1>1, <2>1, KeptMore
    <2>. QED BY <1>2, <1>3, <2>1, <2>2 DEF LosesItem
  <1>5. u = IF Multiple THEN w ELSE DeleteBookLinks(w, B)
    BY DEF RemoveFromBooks
  <1>6. Agrees(m) /\ m.id_map = s.mem.id_map /\ m.book_col_map = L
    <2>1. m = RemoveFromMaps(t.mem, i, S) /\ B = t.mem.col_book_map[i] \cap S
      OBVIOUS
    <2>. HIDE DEF m, K, L, B
    <2>2. Agrees(m) /\ m.id_map = t.mem.id_map /\ LosesItem(i, S, t.mem.book_col_map, m.book_col_map)
      BY <1>1, <2>1, RemoveFromMapsFacts
    <2>4. \A b \in Books : m.book_col_map[b] = L[b]
      <3>1. \A b \in Books : b \in B <=> b \in S /\ i \in ToSet(K[b])
        BY <1>2, <1>3
      <3>. QED BY <1>1, <1>4, <2>2, <3>1 DEF LosesItem
    <2>5. m.book_col_map \in [Books -> Seq(Items)]
      BY <2>2 DEF Agrees, Memory
    <2>. QED BY <1>1, <1>2, <2>2, <2>4, <2>5
  <1>. HIDE DEF m, K, L
  <1>7. v \in States(A) /\ v.mem = m /\ v.db = t.db /\ v.dirtied = t.dirtied
    BY <1>1, <1>6, MemFacts
  <1>8. B \in SUBSET Books /\ B \subseteq S
    OBVIOUS
  <1>. HIDE DEF v, B
  <1>9. w \in States(A) /\ w.mem = m /\ w.db = t.db /\ w.dirtied = t.dirtied \cup B
    <2>1. w = Dirty(v, B)
      OBVIOUS
    <2>. HIDE DEF w
    <2>. QED BY <1>7, <1>8, <2>1, DirtyFacts
  <1>. HIDE DEF w
  <1>10. w.dirtied = s.dirtied \cup {b \in S : ToSet(d.links[b]) \cap (P \cup {i}) # {}}
    <2>1. B = {b \in S : i \in ToSet(d.links[b]) \ P}
      BY <1>3, <1>8
    <2>. QED BY <1>1, <1>9, <2>1
  <1>11. CASE Multiple
    BY <1>1, <1>5, <1>6, <1>9, <1>10, <1>11 DEF Removed, L
  <1>12. CASE ~ Multiple
    <2>1. \A b \in B : {} \in A[b]
      BY <1>3, <1>8 DEF Removable
    <2>2. Unlinks(A, w, B, u)
      BY <1>5, <1>8, <1>9, <1>12, <2>1, UnlinkFacts
    <2>3. ASSUME NEW b \in Books PROVE u.db.links[b] = L[b]
      <3>1. CASE b \in B
        <4>. DEFINE o == d.links[b]
                    q == L[b]
        <4>1. o \in Seq(Items) /\ Len(o) <= 1 /\ i \in ToSet(o) /\ q \in Seq(Items)
              /\ ToSet(q) = ToSet(o) \ (P \cup {i})
          BY <1>1, <1>2, <1>3, <1>8, <1>12, <3>1 DEF Sound, Database
        <4>2. u.db.links[b] = <<>>
          BY <2>2, <3>1 DEF Unlinks
        <4>. HIDE DEF o, q
        <4>3. ToSet(o) = {i}
          <5>1. \A j, k \in DOMAIN o : j = k
            BY <4>1
          <5>. QED BY <4>1, <5>1 DEF ToSet
        <4>4. q = <<>>
          <5>1. ToSet(q) = {}
            BY <4>1, <4>3
          <5>2. DOMAIN q = {}
            BY <5>1 DEF ToSet
          <5>. QED BY <4>1, <5>2
        <4>. QED BY <4>2, <4>4 DEF q
      <3>2. CASE b \notin B
        BY <1>1, <1>4, <1>9, <1>12, <2>2, <3>2 DEF Unlinks
      <3>. QED BY <3>1, <3>2
    <2>4. u.db.links = L
      <3>1. u.db.links \in [Books -> Seq(Items)]
        BY <2>2 DEF Unlinks, Database
      <3>. QED BY <1>2, <2>3, <3>1
    <2>5. u \in States(A) /\ u.mem = m /\ u.dirtied = w.dirtied /\ u.db.rows = d.rows
      BY <1>1, <1>9, <2>2 DEF Unlinks
    <2>. QED BY <1>1, <1>6, <1>10, <1>12, <2>4, <2>5 DEF Removed, L
  <1>. QED BY <1>11, <1>12

LEMMA RemovedNone ==
    ASSUME NEW A, NEW s \in States(A), s.mem = Read(s.db), NEW S \in SUBSET Books
    PROVE  s \in Removed(A, s, S, {})
  <1>. DEFINE d == s.db
              K == Kept(d, S, {})
  <1>1. Sound(Multiple, d) /\ d.links \in [Books -> Seq(Items)]
    BY StateFacts DEF Sound, Database
  <1>2. s.mem.id_map = d.rows /\ s.mem.book_col_map = d.links
    BY <1>1, ReadFacts
  <1>3. K = [b \in Books |-> K[b]] /\ \A b \in Books : K[b] = d.links[b]
    <2>1. \A b \in Books : K[b] = IF b \in S THEN Without(d.links[b], {}) ELSE d.links[b]
      BY DEF Kept
    <2>2. K = [b \in Books |-> K[b]]
      BY DEF Kept
    <2>3. ASSUME NEW b \in Books PROVE Without(d.links[b], {}) = d.links[b]
      <3>1. d.links[b] \in Seq(Items) /\ ToSet(d.links[b]) \cap {} = {}
        BY <1>1
      <3>. QED BY <3>1, WithoutNone
    <2>. HIDE DEF K
    <2>. QED BY <2>1, <2>2, <2>3
  <1>. HIDE DEF K
  <1>4. K = d.links
    BY <1>1, <1>3
  <1>5. s.dirtied = s.dirtied \cup {b \in S : ToSet(d.links[b]) \cap {} # {}}
    OBVIOUS
  <1>. QED BY <1>2, <1>4, <1>5 DEF Removed, K

\* RemoveFromBooks() leads from what F has for some items to what it has for
\* one more, and so does the loop that calls it.
Removes(T, S, special, F) ==
    /\ F \in [SUBSET special -> SUBSET T]
    /\ \A P \in SUBSET special : \A t \in F[P], i \in special :
            RemoveFromBooks(t, i, S) \in F[P \cup {i}]

LEMMA RemoveLoop ==
    ASSUME NEW T, NEW S, NEW special \in SUBSET Items, NEW F, Removes(T, S, special, F),
           NEW s \in F[{}], NEW item_ids
    PROVE  \E u \in F[special] :
                RemoveSpecial(s, special, item_ids, S) =
                    IF Multiple THEN DeleteLinks(u, u.dirtied, item_ids) ELSE u
  <1>. DEFINE seq == InOrder(special)
  <1>0. seq \in Seq(special) /\ ToSet(seq) = special
    <2>. MaxItem \in Nat /\ special \in SUBSET (1..MaxItem)
      BY LinkTableAssumption DEF Items
    <2>. QED BY InOrderSeq
  <1>. HIDE DEF seq
  <1>. PICK n : n = Len(seq)
    OBVIOUS
  <1>n. n \in Nat /\ 0 \in 0..n
    BY <1>0
  <1>. DEFINE U(k) == {seq[j] : j \in 1..k}
              Z == [k \in 0..n |-> F[U(k)]]
              G == [k \in 1..n |-> [t \in T |-> RemoveFromBooks(t, seq[k], S)]]
              r == CHOOSE f : f = [k \in 0..n |-> IF k = 0 THEN s
                                                  ELSE RemoveFromBooks(f[k - 1], seq[k], S)]
  <1>1. \A k \in 1..n : seq[k] \in special /\ seq[k] \in Items
    BY <1>0
  <1>2. U(0) = {} /\ U(n) = special /\ \A k \in 1..n : U(k) = U(k - 1) \cup {seq[k]}
    <2>1. 1..0 = {} /\ \A k \in 1..n : 1..k = 1..(k - 1) \cup {k}
      OBVIOUS
    <2>2. special = {seq[k] : k \in 1..n}
      BY <1>0 DEF ToSet
    <2>. QED BY <2>1, <2>2
  <1>w. \A k \in 0..n : U(k) \in SUBSET special
    BY <1>1
  <1>. HIDE DEF U
  <1>3. \A k \in 0..n : Z[k] = F[U(k)]
    OBVIOUS
  <1>4. Z \in [0..n -> SUBSET T]
    BY <1>w DEF Removes
  <1>5. \A k \in 1..n : k - 1 \in 0..n /\ k \in 0..n
    OBVIOUS
  <1>. HIDE DEF Z
  <1>6. ASSUME NEW k \in 1..n, NEW t \in Z[k - 1]
        PROVE  RemoveFromBooks(t, seq[k], S) \in Z[k]
    <2>1. t \in F[U(k - 1)] /\ Z[k] = F[U(k)] /\ U(k - 1) \in SUBSET special
      BY <1>3, <1>5, <1>w
    <2>2. RemoveFromBooks(t, seq[k], S) \in F[U(k - 1) \cup {seq[k]}]
      BY <1>1, <2>1 DEF Removes
    <2>. QED BY <1>2, <2>1, <2>2
  <1>7. s \in Z[0]
    BY <1>n, <1>2, <1>3
  <1>8. \E f : f = [k \in 0..n |-> IF k = 0 THEN s ELSE RemoveFromBooks(f[k - 1], seq[k], S)]
    <2>1. \A k \in 1..n : \A t \in Z[k - 1] :
             G[k][t] = RemoveFromBooks(t, seq[k], S) /\ G[k][t] \in Z[k]
      BY <1>4, <1>5, <1>6
    <2>. HIDE DEF G, r
    <2>2. PICK f \in [0..n -> T] :
                  /\ f[0] = s
                  /\ \A k \in 1..n : f[k - 1] \in Z[k - 1] /\ f[k] = G[k][f[k - 1]]
      <3>1. \A k \in 1..n : \A t \in Z[k - 1] : G[k][t] \in Z[k]
        BY <2>1
      <3>2. Steps(n, T, Z, s, G)
        BY <1>n, <1>4, <1>7, <3>1 DEF Steps
      <3>3. Runs(n, T, Z, s, G)
        BY <3>2, Recursion
      <3>. QED BY <3>3 DEF Runs
    <2>3. \A k \in 0..n : f[k] = IF k = 0 THEN s ELSE RemoveFromBooks(f[k - 1], seq[k], S)
      BY <2>1, <2>2
    <2>4. f = [k \in 0..n |-> IF k = 0 THEN s ELSE RemoveFromBooks(f[k - 1], seq[k], S)]
      BY <2>2, <2>3
    <2>. QED BY <2>4
  <1>9. RemoveSpecial(s, special, item_ids, S) =
                IF Multiple THEN DeleteLinks(r[n], r[n].dirtied, item_ids) ELSE r[n]
    <2>1. InOrder(special) = seq
      BY DEF seq
    <2>. QED BY <2>1 DEF RemoveSpecial, Loop
  <1>10. r = [k \in 0..n |-> IF k = 0 THEN s ELSE RemoveFromBooks(r[k - 1], seq[k], S)]
    BY <1>8
  <1>. HIDE DEF r
  <1>11. r[0] = s /\ \A k \in 1..n : r[k] = RemoveFromBooks(r[k - 1], seq[k], S)
    <2>1. PICK q : q = [k \in 0..n |-> IF k = 0 THEN s ELSE RemoveFromBooks(r[k - 1], seq[k], S)]
      OBVIOUS
    <2>2. r = q
      BY <1>10, <2>1, Zenon
    <2>3. q[0] = s /\ \A k \in 1..n : q[k] = RemoveFromBooks(r[k - 1], seq[k], S)
      BY <2>1
    <2>. QED BY <2>2, <2>3
  <1>12. r[0] \in Z[0] /\ \A k \in 1..n : r[k - 1] \in Z[k - 1] => r[k] \in Z[k]
    BY <1>6, <1>7, <1>11
  <1>13. \A k \in 0..n : r[k] \in Z[k]
    BY <1>n, <1>12, Rounds
  <1>14. r[n] \in F[special]
    <2>1. n \in 0..n
      BY <1>n
    <2>. QED BY <1>2, <1>3, <1>13, <2>1
  <1>. QED BY <1>9, <1>14

LEMMA RemoveLoopFacts ==
    ASSUME NEW A, NEW s \in States(A), s.mem = Read(s.db), NEW S \in SUBSET Books,
           NEW special \in SUBSET Items, NEW item_ids,
           \A b \in S : ToSet(s.db.links[b]) \cap special # {} => Removable(A, s.db, b)
    PROVE  \E u \in Removed(A, s, S, special) :
                RemoveSpecial(s, special, item_ids, S) =
                    IF Multiple THEN DeleteLinks(u, u.dirtied, item_ids) ELSE u
  <1>. DEFINE T == States(A)
              F == [P \in SUBSET special |-> Removed(A, s, S, P)]
  <1>1. \A P \in SUBSET special : F[P] = Removed(A, s, S, P) /\ Removed(A, s, S, P) \subseteq T
    BY DEF Removed
  <1>2. F \in [SUBSET special -> SUBSET T]
    BY <1>1
  <1>. HIDE DEF F, T
  <1>3. s \in F[{}]
    BY <1>1, RemovedNone
  <1>4. ASSUME NEW P \in SUBSET special, NEW t \in F[P], NEW i \in special
        PROVE  RemoveFromBooks(t, i, S) \in F[P \cup {i}]
    <2>1. t \in Removed(A, s, S, P) /\ P \cup {i} \in SUBSET special /\ P \in SUBSET Items
      BY <1>1
    <2>2. \A b \in S : i \in ToSet(s.db.links[b]) => Removable(A, s.db, b)
      OBVIOUS
    <2>3. RemoveFromBooks(t, i, S) \in Removed(A, s, S, P \cup {i})
      BY <2>1, <2>2, RemoveFromBooksFacts
    <2>. QED BY <1>1, <2>1, <2>3
  <1>5. Removes(T, S, special, F)
    BY <1>2, <1>4 DEF Removes
  <1>6. \E u \in F[special] : RemoveSpecial(s, special, item_ids, S) =
                    IF Multiple THEN DeleteLinks(u, u.dirtied, item_ids) ELSE u
    BY <1>3, <1>5, RemoveLoop
  <1>. QED BY <1>1, <1>6

AllWithout(links, P) == [b \in Books |-> Without(links[b], P)]

\* The memory without the items P.
MemoryWithout(m, P, n) ==
    /\ Agrees(n) /\ n.id_map = Forget(m.id_map, P, None)
    /\ n.book_col_map = AllWithout(m.book_col_map, P)

LEMMA RemoveInMemoryFacts ==
    ASSUME NEW m, Agrees(m), NEW P \in SUBSET Items,
           NEW n, n = RemoveInMemory(m, P \cap Known(m))
    PROVE  MemoryWithout(m, P, n)
  <1>. DEFINE gone == P \cap Known(m)
              l == [b \in Books |-> IF \E i \in gone : b \in m.col_book_map[i]
                                    THEN Without(m.book_col_map[b], gone)
                                    ELSE m.book_col_map[b]]
              c == Forget(m.col_book_map, gone, {})
              r == Forget(m.id_map, gone, None)
  <1>1. /\ m \in Memory
        /\ \A b \in Books : m.book_col_map[b] \in Seq(Items)
        /\ \A b \in Books : ToSet(m.book_col_map[b]) \subseteq Known(m)
        /\ \A b \in Books, i \in Items : b \in m.col_book_map[i] <=> i \in ToSet(m.book_col_map[b])
    BY DEF Agrees, Memory
  <1>2. n = [id_map |-> r, col_book_map |-> c, book_col_map |-> l]
    BY DEF RemoveInMemory
  <1>3. /\ r \in [Items -> Names \cup {None}]
        /\ \A i \in Items : r[i] = IF i \in P THEN None ELSE m.id_map[i]
        /\ r = Forget(m.id_map, P, None)
    BY <1>1 DEF Forget, Known, Memory
  <1>4. /\ c \in [Items -> SUBSET Books]
        /\ \A i \in Items : c[i] = IF i \in gone THEN {} ELSE m.col_book_map[i]
    BY <1>1 DEF Forget, Memory
  <1>5. ASSUME NEW b \in Books
        PROVE  /\ l[b] = Without(m.book_col_map[b], P) /\ l[b] \in Seq(Items)
               /\ ToSet(l[b]) = ToSet(m.book_col_map[b]) \ P
    <2>. DEFINE q == m.book_col_map[b]
    <2>1. q \in Seq(Items) /\ \A v \in ToSet(q) : v \in gone <=> v \in P
      BY <1>1
    <2>2. l[b] = IF ToSet(q) \cap gone # {} THEN Without(q, gone) ELSE q
      <3>1. (\E i \in gone : b \in m.col_book_map[i]) <=> ToSet(q) \cap gone # {}
        BY <1>1
      <3>. QED BY <3>1
    <2>. HIDE DEF q, gone, l
    <2>3. Without(q, gone) = Without(q, P)
      BY <2>1, WithoutSame
    <2>4. ToSet(q) \cap gone = {} => Without(q, gone) = q
      BY <2>1, WithoutNone
    <2>5. Without(q, P) \in Seq(Items) /\ ToSet(Without(q, P)) = ToSet(q) \ P
      BY <2>1, WithoutFacts
    <2>. QED BY <2>2, <2>3, <2>4, <2>5 DEF q
  <1>6. l = AllWithout(m.book_col_map, P) /\ l \in [Books -> Seq(Items)]
    <2>1. l = [b \in Books |-> l[b]]
      OBVIOUS
    <2>. HIDE DEF l
    <2>. QED BY <1>5, <2>1 DEF AllWithout
  <1>g. \A i \in Items : i \in gone <=> i \in P /\ i \in Known(m)
    OBVIOUS
  <1>. HIDE DEF l, c, r, gone
  <1>7. n \in Memory /\ n.id_map = r /\ n.col_book_map = c /\ n.book_col_map = l
    <2>1. n.id_map = r /\ n.col_book_map = c /\ n.book_col_map = l
      BY <1>2
    <2>2. n \in Memory
      BY ONLY <1>2, <1>3, <1>4, <1>6 DEF Memory
    <2>. QED BY <2>1, <2>2
  <1>8. ASSUME NEW i \in Items
        PROVE  n.col_book_map[i] = {b \in Books : i \in ToSet(n.book_col_map[b])}
    <2>1. c[i] \in SUBSET Books /\ m.col_book_map[i] \in SUBSET Books
      BY <1>1, <1>4 DEF Memory
    <2>2. \A b \in Books : b \in c[i] <=> i \in ToSet(l[b])
      BY <1>1, <1>4, <1>5, <1>g
    <2>. QED BY <1>7, <2>1, <2>2
  <1>9. \A b \in Books : ToSet(n.book_col_map[b]) \subseteq Known(n)
    BY <1>1, <1>3, <1>5, <1>7 DEF Known
  <1>. QED BY <1>3, <1>6, <1>7, <1>8, <1>9 DEF MemoryWithout, Agrees

\* What is left of s, in memory and in the database, without the items P.
WithoutItems(A, s, P, t) ==
    /\ t \in States(A)
    /\ t.mem.id_map = Forget(s.mem.id_map, P, None)
    /\ t.mem.book_col_map = AllWithout(s.mem.book_col_map, P)
    /\ t.db.rows = Forget(s.db.rows, P, None)
    /\ t.db.links = AllWithout(s.db.links, P)
    /\ t.dirtied = s.dirtied \cup {b \in Books : ToSet(s.mem.book_col_map[b]) \cap P # {}}

LEMMA DeleteItemLinksFacts ==
    ASSUME NEW A, NEW s \in States(A), NEW P \in SUBSET Items,
           \A b \in Books : ToSet(s.db.links[b]) \cap P # {} => Removable(A, s.db, b),
           NEW t, t = DeleteItemLinks(s, P)
    PROVE  /\ t \in States(A) /\ t.mem = s.mem /\ t.dirtied = s.dirtied
           /\ t.db.links = AllWithout(s.db.links, P) /\ t.db.rows = s.db.rows
           /\ t.db \in Database /\ \A b \in Books : ToSet(t.db.links[b]) \cap P = {}
  <1>. DEFINE d == s.db
              L == AllWithout(d.links, P)
  <1>1. Sound(Multiple, d) /\ d \in Database /\ \A b \in Books : Words(d, b) \in A[b]
    BY StateFacts DEF Sound
  <1>2. t = Execute(s, [s.db EXCEPT !.links = L])
    BY DEF DeleteItemLinks, AllWithout
  <1>3. ASSUME NEW b \in Books PROVE PartKept(A, d, b, P, L[b])
    <2>1. L[b] = Without(d.links[b], P)
      BY DEF AllWithout
    <2>. HIDE DEF L, d
    <2>. QED BY <1>1, <2>1, PartFacts DEF d
  <1>4. L = [b \in Books |-> L[b]]
    BY DEF AllWithout
  <1>. HIDE DEF L
  <1>5. L \in [Books -> Seq(Items)]
    BY <1>3, <1>4 DEF PartKept
  <1>6. /\ \A b \in Books : IsInjective(L[b]) /\ ToSet(L[b]) \subseteq Rows(d)
        /\ ~ Multiple => \A b \in Books : Len(L[b]) <= 1
        /\ \A b \in Books : RowWordsOf(d, L[b]) \in A[b]
        /\ \A b \in Books : ToSet(L[b]) \cap P = {}
    BY <1>1, <1>3 DEF PartKept, Sound
  <1>7. /\ t \in States(A) /\ t.mem = s.mem /\ t.dirtied = s.dirtied
        /\ t.db.links = L /\ t.db.rows = s.db.rows /\ t.db \in Database
    BY <1>2, <1>5, <1>6, NewLinksFacts
  <1>. QED BY <1>6, <1>7 DEF L

LEMMA RemoveItemsFacts ==
    ASSUME NEW A, NEW s \in States(A), NEW P \in SUBSET Items,
           \A b \in Books : ToSet(s.db.links[b]) \cap P # {} => Removable(A, s.db, b),
           NEW t, t = RemoveItems(s, P)
    PROVE  WithoutItems(A, s, P, t)
  <1>. DEFINE m == RemoveInMemory(s.mem, P \cap Known(s.mem))
              B == UNION {s.mem.col_book_map[i] : i \in P \cap Known(s.mem)}
              u == [s EXCEPT !.mem = m]
              v == DeleteItemLinks(u, P)
              w == DeleteRows(v, P)
  <1>1. t = Dirty(w, B)
    BY DEF RemoveItems, DeleteItems
  <1>2. Agrees(s.mem)
    BY StateFacts
  <1>3. MemoryWithout(s.mem, P, m)
    BY <1>2, RemoveInMemoryFacts
  <1>4. B = {b \in Books : ToSet(s.mem.book_col_map[b]) \cap P # {}}
    <2>1. \A i \in Items : s.mem.col_book_map[i] = {b \in Books : i \in ToSet(s.mem.book_col_map[b])}
      BY <1>2 DEF Agrees
    <2>2. \A b \in Books : ToSet(s.mem.book_col_map[b]) \subseteq Known(s.mem)
      BY <1>2 DEF Agrees
    <2>3. B \subseteq Books
      BY <2>1
    <2>4. \A b \in Books : b \in B <=> \E i \in P \cap Known(s.mem) : i \in ToSet(s.mem.book_col_map[b])
      BY <2>1
    <2>5. \A b \in Books : b \in B <=> ToSet(s.mem.book_col_map[b]) \cap P # {}
      <3>. HIDE DEF B
      <3>. QED BY <2>2, <2>4
    <2>. HIDE DEF B
    <2>. QED BY <2>3, <2>5
  <1>. HIDE DEF m, B
  <1>5. u \in States(A) /\ u.mem = m /\ u.db = s.db /\ u.dirtied = s.dirtied
    BY <1>3, MemFacts DEF MemoryWithout
  <1>. HIDE DEF u
  <1>6. /\ v \in States(A) /\ v.mem = m /\ v.dirtied = s.dirtied
        /\ v.db.links = AllWithout(s.db.links, P) /\ v.db.rows = s.db.rows
        /\ \A b \in Books : ToSet(v.db.links[b]) \cap P = {}
    BY <1>5, DeleteItemLinksFacts
  <1>. HIDE DEF v
  <1>7. /\ w \in States(A) /\ w.mem = m /\ w.dirtied = s.dirtied
        /\ w.db.links = AllWithout(s.db.links, P) /\ w.db.rows = Forget(s.db.rows, P, None)
    BY <1>6, DeleteRowsFacts
  <1>. HIDE DEF w
  <1>8. t \in States(A) /\ t.mem = m /\ t.db = w.db /\ t.dirtied = s.dirtied \cup B
    <2>1. B \in SUBSET Books
      BY <1>4
    <2>. QED BY <1>1, <1>7, <2>1, DirtyFacts
  <1>. QED BY <1>3, <1>4, <1>7, <1>8 DEF WithoutItems, MemoryWithout

\* What RemoveSpecial() makes of s.
SpecialGone(A, s, S, special, item_ids, t) ==
    /\ t \in States(A) /\ t.db.rows = s.db.rows
    /\ t.mem.id_map = s.db.rows /\ t.mem.book_col_map = Kept(s.db, S, special)
    /\ t.dirtied = {b \in S : ToSet(s.db.links[b]) \cap special # {}}
    /\ \A b \in Books : t.db.links[b] =
            IF Multiple /\ b \in t.dirtied THEN Without(s.db.links[b], item_ids)
            ELSE Kept(s.db, S, special)[b]

LEMMA RemoveSpecialFacts ==
    ASSUME NEW A, NEW s \in States(A), s.mem = Read(s.db), s.dirtied = {},
           NEW S \in SUBSET Books, NEW item_ids \in SUBSET Items, NEW special \in SUBSET item_ids,
           \A b \in S : ToSet(s.db.links[b]) \cap item_ids # {} => Removable(A, s.db, b),
           NEW t, t = RemoveSpecial(s, special, item_ids, S)
    PROVE  SpecialGone(A, s, S, special, item_ids, t)
  <1>. DEFINE d == s.db
              K == Kept(d, S, special)
              D == {b \in S : ToSet(d.links[b]) \cap special # {}}
  <1>0. /\ Sound(Multiple, d) /\ d \in Database /\ \A b \in Books : Words(d, b) \in A[b]
        /\ special \in SUBSET Items /\ d.links \in [Books -> Seq(Items)]
    BY StateFacts DEF Sound, Database
  <1>1. PICK u \in Removed(A, s, S, special) :
            t = IF Multiple THEN DeleteLinks(u, u.dirtied, item_ids) ELSE u
    <2>1. \A b \in S : ToSet(s.db.links[b]) \cap special # {} => Removable(A, s.db, b)
      OBVIOUS
    <2>. QED BY <1>0, <2>1, RemoveLoopFacts
  <1>2. /\ u \in States(A) /\ u.mem.id_map = s.mem.id_map /\ u.mem.book_col_map = K
        /\ u.db.rows = d.rows /\ u.db.links = IF Multiple THEN d.links ELSE K
        /\ u.dirtied = D
    BY DEF Removed
  <1>3. s.mem.id_map = d.rows
    BY <1>0, ReadFacts
  <1>4. ASSUME NEW b \in Books, b \notin D PROVE K[b] = d.links[b]
    <2>1. K[b] = IF b \in S THEN Without(d.links[b], special) ELSE d.links[b]
      BY DEF Kept
    <2>2. d.links[b] \in Seq(Items) /\ (b \in S => ToSet(d.links[b]) \cap special = {})
      BY <1>0, <1>4
    <2>. QED BY <2>1, <2>2, WithoutNone
  <1>5. CASE ~ Multiple
    <2>1. t = u
      BY <1>1, <1>5
    <2>. HIDE DEF K, D
    <2>. QED BY <1>2, <1>3, <1>5, <2>1 DEF SpecialGone, K, D
  <1>6. CASE Multiple
    <2>. DEFINE ids == [b \in Books |-> Without(u.db.links[b], item_ids)]
    <2>1. t = Execute(u, SetLinks(u.db, D, ids))
      BY <1>1, <1>2, <1>6 DEF DeleteLinks
    <2>2. u.db.links = d.links /\ D \in SUBSET Books
      BY <1>2, <1>6
    <2>3. ASSUME NEW b \in D PROVE PartKept(A, d, b, item_ids, ids[b])
      <3>1. b \in Books /\ ids[b] = Without(d.links[b], item_ids) /\ Removable(A, d, b)
            /\ Words(d, b) \in A[b]
        BY <1>0, <2>2
      <3>. HIDE DEF ids, d, D
      <3>. QED BY <1>0, <3>1, PartFacts
    <2>4. \A b \in D : ids[b] = Without(d.links[b], item_ids)
      BY <2>2
    <2>. HIDE DEF ids, D
    <2>5. \A b \in D : /\ ids[b] \in Seq(Items) /\ IsInjective(ids[b])
                       /\ ToSet(ids[b]) \subseteq Rows(u.db)
                       /\ RowWordsOf(u.db, ids[b]) \in A[b]
      <3>1. Rows(u.db) = Rows(d) /\ \A q : RowWordsOf(u.db, q) = RowWordsOf(d, q)
        BY <1>2 DEF Rows, RowWordsOf
      <3>2. \A b \in Books : ToSet(d.links[b]) \subseteq Rows(d)
        BY <1>0 DEF Sound
      <3>. QED BY <2>2, <2>3, <3>1, <3>2 DEF PartKept
    <2>6. LinksSet(A, u, D, ids, t)
      BY <1>2, <1>6, <2>1, <2>2, <2>5, SetLinksFacts
    <2>. HIDE DEF K
    <2>. QED BY <1>2, <1>3, <1>4, <1>6, <2>2, <2>4, <2>6 DEF SpecialGone, LinksSet, K, D
  <1>. QED BY <1>5, <1>6

\* What remove_items() makes of s.
ItemsGone(A, s, I, S, t) ==
    /\ t \in States(A) /\ t.mem = Read(t.db) /\ t.db.links = Kept(s.db, S, I)
    /\ \A b \in Books : \A i \in ToSet(t.db.links[b]) : t.db.rows[i] = s.db.rows[i]
    /\ {b \in S : ToSet(s.db.links[b]) \cap I # {}} \subseteq t.dirtied

LEMMA RemoveAllSpecial ==
    ASSUME NEW A, NEW s \in States(A), s.mem = Read(s.db), s.dirtied = {},
           NEW S \in SUBSET Books, NEW I \in SUBSET Items,
           \A b \in S : ToSet(s.db.links[b]) \cap I # {} => Removable(A, s.db, b),
           NEW t, t = RemoveSpecial(s, I, I, S)
    PROVE  ItemsGone(A, s, I, S, t)
  <1>1. SpecialGone(A, s, S, I, I, t)
    BY RemoveSpecialFacts
  <1>2. /\ t \in States(A) /\ t.db.rows = s.db.rows
        /\ t.mem.id_map = s.db.rows /\ t.mem.book_col_map = Kept(s.db, S, I)
        /\ t.dirtied = {b \in S : ToSet(s.db.links[b]) \cap I # {}}
    BY <1>1 DEF SpecialGone
  <1>3. \A b \in Books : t.db.links[b] = Kept(s.db, S, I)[b]
    BY <1>1 DEF SpecialGone, Kept
  <1>4. Agrees(t.mem) /\ t.db \in Database /\ t.db.links \in [Books -> Seq(Items)]
    BY <1>2, StateFacts DEF Sound, Database
  <1>5. t.db.links = Kept(s.db, S, I)
    BY <1>3, <1>4 DEF Kept
  <1>6. t.mem = Read(t.db)
    BY <1>2, <1>4, <1>5, ReadIs
  <1>. QED BY <1>2, <1>5, <1>6 DEF ItemsGone

LEMMA RemoveRestFacts ==
    ASSUME NEW A, NEW s \in States(A), s.mem = Read(s.db), s.dirtied = {},
           NEW S \in SUBSET Books, NEW I \in SUBSET Items, NEW special \in SUBSET I,
           \A b \in S : ToSet(s.db.links[b]) \cap I # {} => Removable(A, s.db, b),
           \A b \in Books : ToSet(s.db.links[b]) \cap (I \ special) # {} => b \in S,
           NEW t, t = RemoveItems(RemoveSpecial(s, special, I, S), I \ special)
    PROVE  ItemsGone(A, s, I, S, t)
  <1>. DEFINE d == s.db
              P == I \ special
              u == RemoveSpecial(s, special, I, S)
              K == Kept(d, S, I)
              J == Kept(d, S, special)
  <1>0. /\ Sound(Multiple, d) /\ d \in Database /\ d.links \in [Books -> Seq(Items)]
        /\ P \in SUBSET Items
    BY StateFacts DEF Sound, Database
  <1>1. SpecialGone(A, s, S, special, I, u)
    BY RemoveSpecialFacts
  <1>. HIDE DEF u
  <1>2. /\ u \in States(A) /\ u.db.rows = d.rows /\ u.mem.id_map = d.rows
        /\ u.mem.book_col_map = J
        /\ u.dirtied = {b \in S : ToSet(d.links[b]) \cap special # {}}
    BY <1>1 DEF SpecialGone
  <1>3. ASSUME NEW b \in Books
        PROVE  /\ ToSet(u.db.links[b]) \subseteq ToSet(d.links[b])
               /\ Without(u.db.links[b], P) = K[b] /\ Without(J[b], P) = K[b]
               /\ ToSet(K[b]) \cap P = {} /\ ToSet(K[b]) \subseteq ToSet(d.links[b])
               /\ (b \in S /\ ToSet(d.links[b]) \cap I # {}) =>
                     b \in u.dirtied \/ ToSet(J[b]) \cap P # {}
    <2>. DEFINE o == d.links[b]
    <2>1. /\ o \in Seq(Items) /\ (b \notin S => ToSet(o) \cap P = {})
          /\ K[b] = IF b \in S THEN Without(o, I) ELSE o
          /\ J[b] = IF b \in S THEN Without(o, special) ELSE o
      BY <1>0 DEF Kept
    <2>2. u.db.links[b] = IF Multiple /\ b \in u.dirtied THEN Without(o, I) ELSE J[b]
      BY <1>1 DEF SpecialGone
    <2>3. b \in u.dirtied <=> b \in S /\ ToSet(o) \cap special # {}
      BY <1>2
    <2>4. special \cup P = I /\ I \cup P = I
      OBVIOUS
    <2>. HIDE DEF o, K, J, P
    <2>5. Without(Without(o, special), P) = Without(o, I)
      BY <2>1, <2>4, WithoutTwice
    <2>6. Without(Without(o, I), P) = Without(o, I)
      BY <2>1, <2>4, WithoutTwice
    <2>7. ToSet(o) \cap P = {} => Without(o, P) = o
      BY <2>1, WithoutNone
    <2>8. ToSet(Without(o, I)) = ToSet(o) \ I /\ ToSet(Without(o, special)) = ToSet(o) \ special
      BY <2>1, WithoutFacts
    <2>9. Without(J[b], P) = K[b]
      BY <2>1, <2>5, <2>7
    <2>10. Without(u.db.links[b], P) = K[b]
      BY <2>1, <2>2, <2>3, <2>6, <2>9
    <2>11. ToSet(K[b]) \cap P = {} /\ ToSet(K[b]) \subseteq ToSet(o)
           /\ ToSet(u.db.links[b]) \subseteq ToSet(o)
      BY <2>1, <2>2, <2>4, <2>8
    <2>12. (b \in S /\ ToSet(o) \cap I # {}) => b \in u.dirtied \/ ToSet(J[b]) \cap P # {}
      BY <2>1, <2>3, <2>4, <2>8
    <2>. QED BY <2>9, <2>10, <2>11, <2>12 DEF o
  <1>4. ASSUME NEW b \in Books, ToSet(u.db.links[b]) \cap P # {} PROVE Removable(A, u.db, b)
    <2>1. ToSet(u.db.links[b]) \subseteq ToSet(d.links[b])
      BY <1>3
    <2>2. b \in S /\ ToSet(d.links[b]) \cap I # {}
      BY <1>4, <2>1
    <2>3. Removable(A, d, b)
      BY <2>2
    <2>4. Words(u.db, b) \subseteq Words(d, b)
      BY <1>2, <2>1 DEF Words
    <2>. QED BY <2>3, <2>4 DEF Removable
  <1>5. WithoutItems(A, u, P, t)
    <2>1. t = RemoveItems(u, P)
      BY DEF u
    <2>. HIDE DEF P
    <2>. QED BY <1>0, <1>2, <1>4, <2>1, RemoveItemsFacts
  <1>6. /\ t \in States(A) /\ t.mem.id_map = Forget(d.rows, P, None)
        /\ t.mem.book_col_map = AllWithout(J, P)
        /\ t.db.rows = Forget(d.rows, P, None) /\ t.db.links = AllWithout(u.db.links, P)
        /\ t.dirtied = u.dirtied \cup {b \in Books : ToSet(J[b]) \cap P # {}}
    BY <1>2, <1>5 DEF WithoutItems
  <1>7. K = [b \in Books |-> K[b]]
    BY DEF Kept
  <1>. HIDE DEF K, J, P
  <1>8. AllWithout(J, P) = K /\ AllWithout(u.db.links, P) = K
    BY <1>3, <1>7 DEF AllWithout
  <1>9. t.mem = Read(t.db)
    <2>1. Agrees(t.mem) /\ t.db \in Database
      BY <1>6, StateFacts DEF Sound
    <2>2. t.mem.id_map = t.db.rows /\ t.mem.book_col_map = t.db.links
      BY <1>6, <1>8
    <2>. QED BY <2>1, <2>2, ReadIs
  <1>10. \A b \in Books : \A i \in ToSet(t.db.links[b]) : t.db.rows[i] = d.rows[i]
    <2>1. \A b \in Books : \A i \in ToSet(K[b]) : i \in Items /\ i \notin P
      <3>1. \A b \in Books : ToSet(d.links[b]) \subseteq Rows(d)
        BY <1>0 DEF Sound
      <3>. QED BY <1>3, <3>1 DEF Rows
    <2>2. \A i \in Items : i \notin P => t.db.rows[i] = d.rows[i]
      BY <1>6 DEF Forget
    <2>3. t.db.links = K
      BY <1>6, <1>8
    <2>. QED BY <2>1, <2>2, <2>3
  <1>11. {b \in S : ToSet(d.links[b]) \cap I # {}} \subseteq t.dirtied
    BY <1>3, <1>6
  <1>. QED BY <1>6, <1>8, <1>9, <1>10, <1>11 DEF ItemsGone, K

\* A call that goes from s to t gives the books the words want, in memory and
\* in the database, and marks those whose values it changes; but for those that
\* have none left, if they are excused.
Done(A, s, want, t, excused) ==
    /\ t \in States(A) /\ t.mem = Read(t.db)
    /\ \A b \in Books : Words(t.db, b) = want[b]
    /\ \A b \in Books \ t.dirtied :
          names(t.mem, b) = names(s.mem, b) \/ (excused /\ want[b] = {})

\* The words of the book when those of S lose the items I.
WordsLeft(d, b, I, S) ==
    IF b \in S THEN Words(d, b) \ {icu_lower(d.rows[i]) : i \in I \cap ToSet(d.links[b])}
    ELSE Words(d, b)

LEMMA ItemsGoneWords ==
    ASSUME NEW A, NEW s \in States(A), s.mem = Read(s.db), NEW S \in SUBSET Books,
           NEW I \in SUBSET Items, NEW t, ItemsGone(A, s, I, S, t)
    PROVE  Done(A, s, [b \in Books |-> WordsLeft(s.db, b, I, S)], t, FALSE)
  <1>. DEFINE d == s.db
  <1>1. /\ Sound(Multiple, d) /\ t \in States(A) /\ t.mem = Read(t.db)
        /\ t.db.links = Kept(d, S, I) /\ Sound(Multiple, t.db) /\ d.links \in [Books -> Seq(Items)]
        /\ \A b \in Books : \A i \in ToSet(t.db.links[b]) : t.db.rows[i] = d.rows[i]
        /\ {b \in S : ToSet(d.links[b]) \cap I # {}} \subseteq t.dirtied
    BY StateFacts DEF ItemsGone, Sound, Database
  <1>2. \A b \in Books : t.db.links[b] = IF b \in S THEN Without(d.links[b], I) ELSE d.links[b]
    BY <1>1 DEF Kept
  <1>3. ASSUME NEW b \in Books PROVE Words(t.db, b) = WordsLeft(d, b, I, S)
    <2>1. Words(t.db, b) = RowWordsOf(d, t.db.links[b])
      BY <1>1 DEF Words, RowWordsOf
    <2>2. RowWordsOf(d, d.links[b]) = Words(d, b)
      BY DEF Words, RowWordsOf
    <2>. HIDE DEF d
    <2>3. RowWordsOf(d, Without(d.links[b], I)) =
                Words(d, b) \ {icu_lower(d.rows[i]) : i \in I \cap ToSet(d.links[b])}
      BY <1>1, WordsWithout, SMTT(30)
    <2>. QED BY <1>2, <2>1, <2>2, <2>3 DEF WordsLeft
  <1>4. ASSUME NEW b \in Books \ t.dirtied PROVE names(t.mem, b) = names(s.mem, b)
    <2>1. t.db.links[b] = d.links[b]
      <3>1. d.links[b] \in Seq(Items) /\ (b \in S => ToSet(d.links[b]) \cap I = {})
        BY <1>1
      <3>. QED BY <1>2, <3>1, WithoutNone
    <2>2. t.mem.book_col_map = t.db.links /\ t.mem.id_map = t.db.rows
      BY <1>1 DEF Read
    <2>3. s.mem.book_col_map = d.links /\ s.mem.id_map = d.rows
      BY DEF Read
    <2>4. /\ t.mem.book_col_map[b] = s.mem.book_col_map[b]
          /\ \A i \in ToSet(t.mem.book_col_map[b]) : t.mem.id_map[i] = s.mem.id_map[i]
      BY <1>1, <2>1, <2>2, <2>3
    <2>. QED BY <2>4, SameNames
  <1>. QED BY <1>1, <1>3, <1>4 DEF Done

\* A custom series leaves those unmarked that have no series any more.
LEMMA MarkFacts ==
    ASSUME NEW A, NEW u \in States(A), NEW t, t = MarkAffected(u)
    PROVE  /\ t \in States(A) /\ t.mem = u.mem /\ t.db = u.db
           /\ ~ CustomSeries => t.dirtied = u.dirtied
           /\ \A b \in u.dirtied \ t.dirtied : u.mem.book_col_map[b] = <<>>
  <1>1. CASE ~ CustomSeries
    BY <1>1 DEF MarkAffected
  <1>2. CASE CustomSeries
    <2>. PICK D : D = {b \in u.dirtied : u.mem.book_col_map[b] # <<>>}
      OBVIOUS
    <2>1. t = [u EXCEPT !.dirtied = D]
      BY <1>2 DEF MarkAffected
    <2>2. D \in SUBSET Books
      BY StateFacts
    <2>3. t \in States(A) /\ t.mem = u.mem /\ t.db = u.db /\ t.dirtied = D
      BY <2>1, <2>2 DEF States
    <2>. QED BY <1>2, <2>3
  <1>. QED BY <1>1, <1>2

LEMMA MarkedDone ==
    ASSUME NEW A, NEW s, NEW want, NEW u, Done(A, s, want, u, FALSE),
           NEW t, t = MarkAffected(u)
    PROVE  Done(A, s, want, t, CustomSeries)
  <1>1. /\ u \in States(A) /\ u.mem = Read(u.db) /\ \A b \in Books : Words(u.db, b) = want[b]
        /\ \A b \in Books \ u.dirtied : names(u.mem, b) = names(s.mem, b)
    BY DEF Done
  <1>2. /\ t \in States(A) /\ t.mem = u.mem /\ t.db = u.db
        /\ ~ CustomSeries => t.dirtied = u.dirtied
        /\ \A b \in u.dirtied \ t.dirtied : u.mem.book_col_map[b] = <<>>
    BY <1>1, MarkFacts
  <1>3. ASSUME NEW b \in Books \ t.dirtied, b \in u.dirtied
        PROVE  CustomSeries /\ want[b] = {}
    <2>1. CustomSeries /\ u.db.links[b] = <<>>
      BY <1>1, <1>2, <1>3 DEF Read
    <2>2. ToSet(<<>>) = {}
      BY DEF ToSet
    <2>3. Words(u.db, b) = {}
      BY <2>1, <2>2 DEF Words
    <2>. QED BY <1>1, <2>1, <2>3
  <1>. QED BY <1>1, <1>2, <1>3 DEF Done

LEMMA RemoveItemsDone ==
    ASSUME NEW A, NEW s \in States(A), s.mem = Read(s.db), s.dirtied = {},
           NEW S \in SUBSET Books, NEW I \in SUBSET Items,
           \A b \in S : ToSet(s.db.links[b]) \cap I # {} => Removable(A, s.db, b),
           NEW t, t = remove_items(s, I, S)
    PROVE  Done(A, s, [b \in Books |-> WordsLeft(s.db, b, I, S)], t, CustomSeries)
  <1>. DEFINE special == {i \in I : ~ s.mem.col_book_map[i] \subseteq S}
              u == RemoveTwoParts(s, special, I, S)
              want == [b \in Books |-> WordsLeft(s.db, b, I, S)]
  <1>1. /\ t = MarkAffected(u)
        /\ u = IF special = I THEN RemoveSpecial(s, special, I, S)
               ELSE RemoveItems(RemoveSpecial(s, special, I, S), I \ special)
    BY DEF remove_items, RemoveTwoParts
  <1>2. special \in SUBSET I
    OBVIOUS
  <1>3. \A b \in Books : ToSet(s.db.links[b]) \cap (I \ special) # {} => b \in S
    <2>1. /\ Sound(Multiple, s.db)
          /\ s.mem.col_book_map = [i \in Items |-> {b \in Books : i \in ToSet(s.db.links[b])}]
      BY StateFacts, ReadFacts
    <2>. QED BY <2>1
  <1>. HIDE DEF special, u
  <1>4. ItemsGone(A, s, I, S, u)
    <2>1. CASE special = I
      BY <1>1, <2>1, RemoveAllSpecial
    <2>2. CASE special # I
      BY <1>1, <1>2, <1>3, <2>2, RemoveRestFacts
    <2>. QED BY <2>1, <2>2
  <1>5. Done(A, s, want, u, FALSE)
    BY <1>4, ItemsGoneWords DEF Done
  <1>. HIDE DEF want
  <1>6. Done(A, s, want, t, CustomSeries)
    BY <1>1, <1>5, MarkedDone
  <1>. QED BY <1>6 DEF want

LEMMA RemoveBooksDone ==
    ASSUME NEW A, NEW s \in States(A), s.mem = Read(s.db), NEW S \in SUBSET Books,
           \A b \in S : {} \in A[b], NEW t, t = remove_books(s, S)
    PROVE  Done(A, s, [b \in Books |-> IF b \in S THEN {} ELSE Words(s.db, b)], t, TRUE)
  <1>. DEFINE had == UNION {ToSet(s.mem.book_col_map[b]) : b \in S}
              u0 == DeleteBookLinks(s, S)
              m == Assign(s.mem, Unlinked, S)
              u == [u0 EXCEPT !.mem = m]
              clean == {i \in had : u.mem.col_book_map[i] = {} /\ i \in Known(u.mem)}
              n == [u.mem EXCEPT !.id_map = Forget(@, clean, None)]
              v == [u EXCEPT !.mem = n]
              w == DeleteRows(v, clean)
  <1>1. /\ Sound(Multiple, s.db) /\ Agrees(s.mem) /\ s.mem.id_map = s.db.rows
        /\ s.mem.book_col_map = s.db.links
    BY StateFacts, ReadFacts
  <1>2. Unlinks(A, s, S, u0)
    BY UnlinkFacts
  <1>. HIDE DEF u0
  <1>3. /\ u0 \in States(A) /\ u0.mem = s.mem /\ u0.dirtied = s.dirtied /\ u0.db.rows = s.db.rows
        /\ u0.db \in Database
        /\ \A b \in S : u0.db.links[b] = <<>>
        /\ \A b \in Books \ S : u0.db.links[b] = s.db.links[b]
    BY <1>2 DEF Unlinks
  <1>4. t = w
    <2>1. [u0 EXCEPT !.mem = Assign(@, Unlinked, S)] = u
      BY <1>3
    <2>2. v = [u EXCEPT !.mem.id_map = Forget(@, clean, None)]
      OBVIOUS
    <2>. HIDE DEF u
    <2>. QED BY <2>1, <2>2 DEF remove_books, u0
  <1>5. Agrees(m) /\ m.id_map = s.db.rows /\ m.book_col_map = u0.db.links
    <2>0. m = Assign(s.mem, Unlinked, S)
      OBVIOUS
    <2>. HIDE DEF m
    <2>1. ToSet(<<>>) = {} /\ \A b \in S : Unlinked[b] = <<>>
      BY DEF ToSet, Unlinked
    <2>2. Assigned(s.mem, S, Unlinked, m)
      <3>1. \A b \in S : Unlinked[b] \in Seq(Items) /\ ToSet(Unlinked[b]) \subseteq Known(s.mem)
        <4>1. <<>> \in Seq(Items) /\ {} \subseteq Known(s.mem)
          OBVIOUS
        <4>. HIDE DEF Unlinked
        <4>. QED BY <2>1, <4>1
      <3>. QED BY <1>1, <2>0, <3>1, AssignFacts
    <2>3. m.book_col_map \in [Books -> Seq(Items)] /\ u0.db.links \in [Books -> Seq(Items)]
      BY <1>3, <2>2 DEF Assigned, Agrees, Memory, Database
    <2>4. \A b \in Books : m.book_col_map[b] = u0.db.links[b]
      BY <1>1, <1>3, <2>1, <2>2 DEF Assigned
    <2>. QED BY <1>1, <2>2, <2>3, <2>4 DEF Assigned
  <1>. HIDE DEF m
  <1>6. u \in States(A) /\ u.mem = m /\ u.db = u0.db /\ u.dirtied = s.dirtied
    BY <1>3, <1>5, MemFacts
  <1>. HIDE DEF u
  <1>7. /\ clean \in SUBSET Items
        /\ \A b \in Books : ToSet(u0.db.links[b]) \cap clean = {}
    <2>1. \A i \in clean : i \in Items /\ m.col_book_map[i] = {}
      BY <1>6 DEF Known
    <2>. QED BY <1>5, <2>1 DEF Agrees
  <1>. HIDE DEF clean
  <1>8. /\ Agrees(n) /\ n.book_col_map = u0.db.links
        /\ n.id_map = Forget(s.db.rows, clean, None)
    <2>1. /\ n.book_col_map = m.book_col_map /\ n.col_book_map = m.col_book_map
          /\ n.id_map = Forget(m.id_map, clean, None) /\ n \in Memory
      <3>1. n = [m EXCEPT !.id_map = Forget(@, clean, None)] /\ m \in Memory
        BY <1>5, <1>6 DEF Agrees
      <3>. QED BY <3>1 DEF Memory, Forget
    <2>. HIDE DEF n
    <2>2. \A i \in Items : n.id_map[i] = IF i \in clean THEN None ELSE m.id_map[i]
      BY <2>1 DEF Forget
    <2>3. \A b \in Books : ToSet(n.book_col_map[b]) \subseteq Known(n)
      BY <1>5, <1>7, <2>1, <2>2 DEF Agrees, Known
    <2>. QED BY <1>5, <2>1, <2>3 DEF Agrees
  <1>. HIDE DEF n
  <1>9. v \in States(A) /\ v.mem = n /\ v.db = u0.db /\ v.dirtied = s.dirtied
    BY <1>6, <1>8, MemFacts
  <1>. HIDE DEF v
  <1>10. /\ w \in States(A) /\ w.mem = n /\ w.dirtied = s.dirtied
         /\ w.db.links = u0.db.links /\ w.db.rows = Forget(s.db.rows, clean, None)
         /\ w.db \in Database /\ \A b \in Books : Words(w.db, b) = Words(u0.db, b)
    <2>1. w = DeleteRows(v, clean)
      OBVIOUS
    <2>. HIDE DEF w
    <2>2. /\ w \in States(A) /\ w.mem = v.mem /\ w.dirtied = v.dirtied
          /\ w.db.links = v.db.links /\ w.db.rows = Forget(v.db.rows, clean, None)
          /\ w.db \in Database /\ \A b \in Books : Words(w.db, b) = Words(v.db, b)
      BY <1>7, <1>9, <2>1, DeleteRowsFacts
    <2>. QED BY <1>3, <1>9, <2>2
  <1>. HIDE DEF w
  <1>11. t \in States(A) /\ t.mem = n /\ t.db = w.db
    BY <1>4, <1>10
  <1>12. t.mem = Read(t.db)
    BY <1>8, <1>10, <1>11, ReadIs
  <1>13. ASSUME NEW b \in Books
         PROVE  Words(t.db, b) = IF b \in S THEN {} ELSE Words(s.db, b)
    <2>1. Words(t.db, b) = Words(u0.db, b)
      BY <1>10, <1>11
    <2>2. ToSet(<<>>) = {}
      BY DEF ToSet
    <2>3. u0.db.rows = s.db.rows /\ u0.db.links[b] = IF b \in S THEN <<>> ELSE s.db.links[b]
      BY <1>3
    <2>. QED BY <2>1, <2>2, <2>3 DEF Words
  <1>14. ASSUME NEW b \in Books \ S PROVE names(t.mem, b) = names(s.mem, b)
    <2>1. t.mem.book_col_map[b] = s.mem.book_col_map[b]
      BY <1>1, <1>3, <1>8, <1>11
    <2>2. \A i \in ToSet(s.mem.book_col_map[b]) : i \in Items /\ i \notin clean
      <3>1. \A i \in ToSet(s.mem.book_col_map[b]) : i \notin clean
        BY <1>1, <1>3, <1>7, <1>11
      <3>. QED BY <1>1, <3>1 DEF Agrees, Known
    <2>3. \A i \in ToSet(s.mem.book_col_map[b]) : t.mem.id_map[i] = s.mem.id_map[i]
      BY <1>1, <1>8, <1>11, <2>2 DEF Forget
    <2>. QED BY <2>1, <2>3, SameNames
  <1>. QED BY <1>11, <1>12, <1>13, <1>14 DEF Done

-------------------------------------------------------------------------------
(* Calls *)

\* The words that each book may have while a call gives it those of want.
NamesOf(d) == [b \in Books |-> names(Read(d), b)]

Path(multi, before, want) ==
    [b \in Books |-> IF multi THEN SUBSET (NewWords(before[b]) \cup want[b])
                     ELSE {NewWords(before[b]), want[b]}]

LeadsTo(A, d, want) ==
    \A b \in Books :
        /\ Words(d, b) \in A[b] /\ want[b] \in A[b]
        /\ Multiple => \A X \in SUBSET (Words(d, b) \cup want[b]) : X \in A[b]

LEMMA PathFacts ==
    ASSUME NEW d, Sound(Multiple, d), NEW want
    PROVE  LeadsTo(Path(Multiple, NamesOf(d), want), d, want)
  <1>. SUFFICES ASSUME NEW b \in Books
                PROVE  LET A == Path(Multiple, NamesOf(d), want) IN
                       /\ Words(d, b) \in A[b] /\ want[b] \in A[b]
                       /\ Multiple => \A X \in SUBSET (Words(d, b) \cup want[b]) : X \in A[b]
    BY DEF LeadsTo
  <1>1. NewWords(NamesOf(d)[b]) = Words(d, b)
    BY NamesFacts DEF NamesOf
  <1>. QED BY <1>1 DEF Path

LEMMA ValuesFacts ==
    \A v \in Values : v \in Seq(Names) /\ (~ Multiple => Len(v) <= 1)
  <1>1. Room \in Nat /\ (~ Multiple => Room <= 1)
    BY LinkTableAssumption DEF Room
  <1>2. \A m \in Nat : \A f \in [1..m -> Names] : f \in Seq(Names) /\ Len(f) = m
    OBVIOUS
  <1>3. \A v \in Values : \E m \in 0..Room : v \in [1..m -> Names]
    BY DEF Values, BoundedSeq, SeqOf
  <1>4. \A v \in Values : v \in Seq(Names) /\ Len(v) \in 0..Room
    BY <1>1, <1>2, <1>3
  <1>. QED BY <1>1, <1>4

\* The field of some books is set.
LEMMA SetFieldDone ==
    ASSUME NEW A, Sound(Multiple, db), mem = Read(db), NEW S \in SUBSET Books,
           NEW val_map \in [S -> Values], NEW allow \in BOOLEAN,
           Fits(UNION {ToSet(val_map[b]) : b \in S}, {}),
           NEW want, want = [b \in Books |-> IF b \in S THEN NewWords(val_map[b]) ELSE Words(db, b)],
           LeadsTo(A, db, want), NEW t, t = set_books(Begin(mem, db), val_map, allow)
    PROVE  Done(A, Begin(mem, db), want, t, FALSE)
  <1>. DEFINE s == Begin(mem, db)
              W == UNION {NewWords(val_map[b]) : b \in S}
  <1>1. \A b \in S : val_map[b] \in Seq(Names) /\ (~ Multiple => Len(val_map[b]) <= 1)
    BY ValuesFacts
  <1>2. IsFiniteSet(W)
    <2>. DEFINE C == {NewWords(val_map[b]) : b \in S}
                f == [b \in S |-> NewWords(val_map[b])]
    <2>1. IsFiniteSet(S)
      <3>1. IsFiniteSet(Books)
        BY Interval, LinkTableAssumption DEF Books
      <3>. QED BY <3>1, FS_Subset
    <2>2. f \in Surjection(S, C)
      BY DEF Surjection
    <2>3. \A T \in C : IsFiniteSet(T)
      BY <1>1, NewWordsFinite
    <2>4. W = UNION C
      OBVIOUS
    <2>. HIDE DEF f, C, W
    <2>5. IsFiniteSet(C)
      BY <2>1, <2>2, FS_Surjection
    <2>. QED BY <2>3, <2>4, <2>5, FS_UNION
  <1>3. {icu_lower(n) : n \in UNION {ToSet(val_map[b]) : b \in S}} = W
    BY DEF NewWords
  <1>4. Known(mem) = Rows(db) /\ mem.id_map = db.rows
    BY ReadFacts
  <1>5. {icu_lower(mem.id_map[i]) : i \in Known(mem) \ {}} = RowWords(db)
    BY <1>4 DEF RowWords
  <1>. HIDE DEF W
  <1>6. Max(Rows(db) \cup {0}) + Cardinality(W \ RowWords(db)) <= MaxItem
    BY <1>3, <1>5 DEF Fits
  <1>7. /\ \A b \in Books : Words(db, b) \in A[b] /\ want[b] \in A[b]
        /\ Multiple => \A b \in Books : {} \in A[b]
    BY DEF LeadsTo
  <1>8. s \in States(A) /\ s.mem = mem /\ s.db = db /\ s.dirtied = {}
    BY <1>7, BeginFacts
  <1>9. \A b \in S : NewWords(val_map[b]) \subseteq W /\ NewWords(val_map[b]) \in A[b]
    <2>1. \A b \in S : want[b] = NewWords(val_map[b])
      OBVIOUS
    <2>. QED BY <1>7, <2>1 DEF W
  <1>. HIDE DEF s
  <1>10. val_map \in [S -> Seq(Names)]
    BY <1>1
  <1>11. BooksSet(A, s, S, val_map, t)
    <2>1. t = set_books(s, val_map, allow)
      BY DEF s
    <2>2. ~ Multiple => \A b \in S : Len(val_map[b]) <= 1
      BY <1>1
    <2>3. Multiple => \A b \in S : {} \in A[b]
      BY <1>7
    <2>4. s.mem = Read(s.db)
      BY <1>8
    <2>5. Max(Rows(s.db) \cup {0}) + Cardinality(W \ RowWords(s.db)) <= MaxItem
      BY <1>6, <1>8
    <2>. QED BY <1>2, <1>8, <1>9, <1>10, <2>1, <2>2, <2>3, <2>4, <2>5, SetBooksFacts
  <1>. QED BY <1>8, <1>11 DEF BooksSet, Done, s

\* Some items are removed from some books, or from all.
LEMMA RemoveSomeItemsDone ==
    ASSUME NEW A, Sound(Multiple, db), mem = Read(db), NEW S \in SUBSET Books,
           NEW I \in SUBSET Items, NEW want, want = Wanted([i \in I |-> <<>>], S),
           LeadsTo(A, db, want), NEW t, t = remove_items(Begin(mem, db), I, S)
    PROVE  Done(A, Begin(mem, db), want, t, CustomSeries)
  <1>. DEFINE s == Begin(mem, db)
  <1>1. mem.book_col_map = db.links /\ mem.id_map = db.rows /\ db.links \in [Books -> Seq(Items)]
    BY ReadFacts DEF Sound, Database
  <1>2. want = [b \in Books |-> WordsLeft(db, b, I, S)]
    <2>1. NewWords(<<>>) = {}
      BY DEF NewWords, ToSet
    <2>2. ASSUME NEW b \in Books PROVE want[b] = WordsLeft(db, b, I, S)
      <3>. DEFINE had == {i \in I : b \in S /\ i \in ToSet(mem.book_col_map[b])}
                  none == [i \in I |-> <<>>]
      <3>1. DOMAIN none = I /\ \A i \in I : none[i] = <<>>
        OBVIOUS
      <3>2. want[b] = (Words(db, b) \ {icu_lower(mem.id_map[i]) : i \in had})
                        \cup UNION {NewWords(none[i]) : i \in had}
        BY <3>1 DEF Wanted
      <3>. HIDE DEF none
      <3>3. UNION {NewWords(none[i]) : i \in had} = {}
        BY <2>1, <3>1
      <3>4. b \in S => had = I \cap ToSet(db.links[b])
        BY <1>1
      <3>5. b \notin S => had = {}
        OBVIOUS
      <3>. HIDE DEF had
      <3>6. want[b] = Words(db, b) \ {icu_lower(db.rows[i]) : i \in had}
        BY <1>1, <3>2, <3>3, ZenonT(60)
      <3>. QED BY <3>4, <3>5, <3>6 DEF WordsLeft
    <2>3. want = [b \in Books |-> want[b]]
      BY DEF Wanted
    <2>. QED BY <2>2, <2>3
  <1>3. /\ \A b \in Books : Words(db, b) \in A[b] /\ want[b] \in A[b]
        /\ Multiple => \A b \in Books : \A X \in SUBSET Words(db, b) : X \in A[b]
    BY DEF LeadsTo
  <1>4. ASSUME NEW b \in S, ToSet(db.links[b]) \cap I # {} PROVE Removable(A, db, b)
    <2>1. CASE Multiple
      BY <1>3, <2>1 DEF Removable
    <2>2. CASE ~ Multiple
      <3>. DEFINE o == db.links[b]
      <3>1. o \in Seq(Items) /\ Len(o) <= 1
        BY <1>1, <2>2 DEF Sound
      <3>2. \A j, k \in DOMAIN o : j = k
        <4>. HIDE DEF o
        <4>. QED BY <3>1
      <3>3. I \cap ToSet(o) = ToSet(o)
        BY <1>4, <3>2 DEF ToSet
      <3>4. want[b] = {}
        BY <1>2, <3>3 DEF WordsLeft, Words
      <3>. QED BY <1>3, <2>2, <3>4 DEF Removable
    <2>. QED BY <2>1, <2>2
  <1>5. s \in States(A) /\ s.mem = mem /\ s.db = db /\ s.dirtied = {}
    BY <1>3, BeginFacts
  <1>6. t = remove_items(s, I, S)
    OBVIOUS
  <1>. HIDE DEF s
  <1>7. Done(A, s, [b \in Books |-> WordsLeft(s.db, b, I, S)], t, CustomSeries)
    BY <1>4, <1>5, <1>6, RemoveItemsDone
  <1>. QED BY <1>2, <1>5, <1>7 DEF s

\* Some books are removed.
LEMMA RemoveSomeBooksDone ==
    ASSUME NEW A, Sound(Multiple, db), mem = Read(db), NEW S \in SUBSET Books,
           NEW want, want = [b \in Books |-> IF b \in S THEN {} ELSE Words(db, b)],
           LeadsTo(A, db, want), NEW t, t = remove_books(Begin(mem, db), S)
    PROVE  Done(A, Begin(mem, db), want, t, TRUE)
  <1>. DEFINE s == Begin(mem, db)
  <1>1. \A b \in Books : Words(db, b) \in A[b] /\ want[b] \in A[b]
    BY DEF LeadsTo
  <1>2. \A b \in S : {} \in A[b]
    BY <1>1
  <1>3. s \in States(A) /\ s.mem = mem /\ s.db = db
    BY <1>1, BeginFacts
  <1>4. t = remove_books(s, S)
    OBVIOUS
  <1>. HIDE DEF s
  <1>5. Done(A, s, [b \in Books |-> IF b \in S THEN {} ELSE Words(s.db, b)], t, TRUE)
    BY <1>2, <1>3, <1>4, RemoveBooksDone
  <1>. QED BY <1>3, <1>5 DEF s

LEMMA RenamedDone ==
    ASSUME NEW A, NEW s \in States(A), NEW i, NEW ns, NEW S, NEW want, NEW t,
           ItemRenamedTo(A, s, i, ns, S, t),
           \A b \in Books : want[b] = IF b \in S /\ i \in ToSet(s.db.links[b])
                                      THEN NewWordsOf(s.db, b, i, NewWords(ns))
                                      ELSE Words(s.db, b)
    PROVE  Done(A, s, want, t, FALSE)
  <1>1. ASSUME NEW b \in Books PROVE Words(t.db, b) = want[b]
    BY DEF ItemRenamedTo
  <1>. QED BY <1>1 DEF ItemRenamedTo, Done

\* One item is renamed, to one or several names, in some books or in all.
LEMMA RenameItemsDone ==
    ASSUME NEW A, Sound(Multiple, db), mem = Read(db), NEW S \in SUBSET Books,
           NEW I \in SUBSET Known(mem), I # {}, Cardinality(I) <= 1,
           NEW f \in [I -> Values \ {<<>>}], Fits(UNION {ToSet(f[i]) : i \in I}, I),
           NEW want, want = Wanted(f, S),
           LeadsTo(A, db, want), NEW t, t = rename_items(Begin(mem, db), f, S)
    PROVE  Done(A, Begin(mem, db), want, t, FALSE)
  <1>. DEFINE s == Begin(mem, db)
  <1>1. /\ Known(mem) = Rows(db) /\ mem.id_map = db.rows /\ mem.book_col_map = db.links
        /\ mem.col_book_map = [i \in Items |-> {b \in Books : i \in ToSet(db.links[b])}]
    BY ReadFacts
  <1>2. PICK i : I = {i}
    <2>1. IsFiniteSet(I)
      <3>1. IsFiniteSet(Items) /\ I \in SUBSET Items
        BY Interval, LinkTableAssumption DEF Items, Known
      <3>. QED BY <3>1, FS_Subset
    <2>2. Cardinality(I) \in Nat /\ Cardinality(I) # 0
      BY <2>1, FS_CardinalityType, FS_EmptySet
    <2>3. Cardinality(I) = 1
      BY <2>2
    <2>. QED BY <2>1, <2>3, FS_Singleton
  <1>3. i \in Rows(db) /\ i \in Items
    BY <1>1, <1>2 DEF Rows
  <1>. DEFINE ns == f[i]
  <1>4. ns \in Seq(Names) /\ ns # <<>> /\ (~ Multiple => Len(ns) <= 1) /\ DOMAIN f = {i}
    BY <1>2, ValuesFacts
  <1>5. Fitting(db, i, ns)
    <2>1. {icu_lower(n) : n \in UNION {ToSet(f[k]) : k \in I}} = NewWords(ns)
      BY <1>2 DEF NewWords
    <2>2. {icu_lower(mem.id_map[k]) : k \in Known(mem) \ I} = RowWords(db) \ {icu_lower(db.rows[i])}
      <3>1. \A k \in Rows(db) : k # i => icu_lower(db.rows[k]) # icu_lower(db.rows[i])
        BY <1>3 DEF Sound
      <3>2. Known(mem) \ I = Rows(db) \ {i}
        BY <1>1, <1>2
      <3>3. {icu_lower(mem.id_map[k]) : k \in Known(mem) \ I} = {icu_lower(db.rows[k]) : k \in Rows(db) \ {i}}
        BY <1>1, <3>2
      <3>. QED BY <3>1, <3>3 DEF RowWords
    <2>. QED BY <2>1, <2>2 DEF Fits, Fitting
  <1>6. ASSUME NEW b \in Books
        PROVE  want[b] = IF b \in S /\ i \in ToSet(db.links[b])
                         THEN NewWordsOf(db, b, i, NewWords(ns)) ELSE Words(db, b)
    <2>. DEFINE had == {k \in DOMAIN f : b \in S /\ k \in ToSet(mem.book_col_map[b])}
    <2>1. want[b] = (Words(db, b) \ {icu_lower(mem.id_map[k]) : k \in had})
                        \cup UNION {NewWords(f[k]) : k \in had}
      BY DEF Wanted
    <2>2. CASE b \in S /\ i \in ToSet(db.links[b])
      <3>1. had = {i}
        BY <1>1, <1>4, <2>2
      <3>. HIDE DEF had
      <3>. QED BY <1>1, <2>1, <2>2, <3>1 DEF NewWordsOf
    <2>3. CASE ~ (b \in S /\ i \in ToSet(db.links[b]))
      <3>1. had = {}
        BY <1>1, <1>4, <2>3
      <3>. HIDE DEF had
      <3>. QED BY <2>1, <2>3, <3>1
    <2>. QED BY <2>2, <2>3
  <1>. HIDE DEF ns
  <1>7. /\ \A b \in Books : Words(db, b) \in A[b] /\ want[b] \in A[b]
        /\ Multiple => \A b \in Books : \A X \in SUBSET (Words(db, b) \cup want[b]) : X \in A[b]
    BY DEF LeadsTo
  <1>8. ASSUME NEW Z \in SUBSET Books, \A b \in Z : i \in ToSet(db.links[b]) => b \in S
        PROVE  Allowed(A, db, i, ns, Z)
    <2>. SUFFICES ASSUME NEW b \in Z, i \in ToSet(db.links[b])
                  PROVE  /\ NewWordsOf(db, b, i, NewWords(ns)) \in A[b]
                         /\ Multiple => \A X \in SUBSET (Words(db, b) \cup NewWords(ns)) : X \in A[b]
      BY DEF Allowed
    <2>1. want[b] = NewWordsOf(db, b, i, NewWords(ns))
      BY <1>6, <1>8
    <2>2. Words(db, b) \cup NewWords(ns) \subseteq Words(db, b) \cup want[b]
      BY <2>1 DEF NewWordsOf
    <2>. QED BY <1>7, <2>1, <2>2
  <1>9. s \in States(A) /\ s.mem = mem /\ s.db = db /\ s.dirtied = {} /\ s.mem = Read(s.db)
    BY <1>7, BeginFacts
  <1>10. t = rename_items(s, f, S)
    OBVIOUS
  <1>. HIDE DEF s
  <1>. DEFINE B == {b \in Books : i \in ToSet(db.links[b])}
  <1>11. t = IF B \subseteq S THEN RenameItem(s, i, ns)
             ELSE IF B \cap S = {} THEN s ELSE RenameInBooks(s, i, ns, B \cap S)
    <2>1. s.mem.col_book_map[i] = B
      BY <1>1, <1>3, <1>9
    <2>. HIDE DEF B
    <2>2. DOMAIN f = {i}
      BY <1>2
    <2>3. IsOneRenamed(s, i, f[i], S, B, t)
      BY <1>3, <1>10, <2>1, <2>2, RenameItemsOne
    <2>. QED BY <2>3 DEF ns, IsOneRenamed
  <1>12. \A b \in Books : b \in B <=> i \in ToSet(db.links[b])
    OBVIOUS
  <1>13. B \in SUBSET Books
    OBVIOUS
  <1>. HIDE DEF B
  <1>14. CASE B \subseteq S
    <2>1. t = RenameItem(s, i, ns)
      BY <1>11, <1>14
    <2>2. Allowed(A, db, i, ns, Books)
      BY <1>8, <1>12, <1>14
    <2>3. ItemRenamedTo(A, s, i, ns, Books, t)
      BY <1>3, <1>4, <1>5, <1>9, <2>1, <2>2, RenameItemFacts
    <2>4. \A b \in Books : want[b] = IF b \in Books /\ i \in ToSet(s.db.links[b])
                                     THEN NewWordsOf(s.db, b, i, NewWords(ns))
                                     ELSE Words(s.db, b)
      BY <1>6, <1>9, <1>12, <1>14
    <2>. QED BY <1>9, <2>3, <2>4, RenamedDone DEF s, Done
  <1>15. CASE ~ B \subseteq S /\ B \cap S = {}
    <2>1. t = s
      BY <1>11, <1>15
    <2>2. \A b \in Books : want[b] = Words(s.db, b)
      BY <1>6, <1>9, <1>12, <1>15
    <2>3. Done(A, s, want, t, FALSE)
      BY <1>9, <2>1, <2>2 DEF Done
    <2>. QED BY <2>3 DEF s
  <1>16. CASE ~ B \subseteq S /\ B \cap S # {}
    <2>1. t = RenameInBooks(s, i, ns, B \cap S)
      BY <1>11, <1>16
    <2>2. Allowed(A, db, i, ns, B \cap S)
      BY <1>8, <1>13
    <2>. PICK Z : Z = B \cap S
      OBVIOUS
    <2>3. \A b \in Z : i \in ToSet(s.db.links[b])
      BY <1>9, <1>12, <1>13
    <2>4. ItemRenamedTo(A, s, i, ns, Z, t)
      BY <1>3, <1>4, <1>5, <1>9, <1>13, <2>1, <2>2, <2>3, RenameInBooksFacts
    <2>5. \A b \in Books : want[b] = IF b \in Z /\ i \in ToSet(s.db.links[b])
                                     THEN NewWordsOf(s.db, b, i, NewWords(ns))
                                     ELSE Words(s.db, b)
      BY <1>6, <1>9, <1>12
    <2>. QED BY <1>9, <2>4, <2>5, RenamedDone DEF s, Done
  <1>. QED BY <1>14, <1>15, <1>16

-------------------------------------------------------------------------------
(* What holds even after a statement has failed: memory may be ahead of the *)
(* database then, but it is what reading some database would give, and      *)
(* knows no item that the database does not have.                           *)

Recorded(m) == [rows |-> m.id_map, links |-> m.book_col_map]

MemWords(m) == {icu_lower(m.id_map[i]) : i \in Known(m)}

Usable(d) == d \in Database /\ (~ Multiple => \A b \in Books : Len(d.links[b]) <= 1)

Ahead(m, d) ==
    /\ Agrees(m) /\ Sound(TRUE, Recorded(m))
    /\ Usable(d) /\ Known(m) \subseteq Rows(d)

\* However many of the statements q are executed on d.
AllAhead(d, q) == \A k \in 1..Len(q) : Ahead(q[k].mem, IF k = 1 THEN d ELSE q[k - 1].db)

\* Calls under construction that keep memory and database so.
AheadStates ==
    {s \in [mem : Memory, db : Database, statements : Seq([mem : Memory, db : Database]),
            dirtied : SUBSET Books] :
        Ahead(s.mem, s.db) /\ s.db = LastDb(db, s.statements) /\ AllAhead(db, s.statements)}

LEMMA RecordedFacts ==
    ASSUME NEW m
    PROVE  /\ Recorded(m).rows = m.id_map /\ Recorded(m).links = m.book_col_map
           /\ Rows(Recorded(m)) = Known(m) /\ RowWords(Recorded(m)) = MemWords(m)
           /\ (Agrees(m) /\ Sound(TRUE, Recorded(m)) => m = Read(Recorded(m)) /\ Distinct(m))
  <1>1. /\ Recorded(m).rows = m.id_map /\ Recorded(m).links = m.book_col_map
        /\ Rows(Recorded(m)) = Known(m) /\ RowWords(Recorded(m)) = MemWords(m)
    BY DEF Recorded, Rows, Known, RowWords, MemWords
  <1>2. ASSUME Agrees(m), Sound(TRUE, Recorded(m)) PROVE m = Read(Recorded(m)) /\ Distinct(m)
    <2>1. Recorded(m) \in Database
      BY <1>2 DEF Sound
    <2>2. m = Read(Recorded(m))
      BY <1>1, <1>2, <2>1, ReadIs
    <2>3. Distinct(m)
      BY <1>1, <1>2 DEF Sound, Distinct
    <2>. QED BY <2>2, <2>3
  <1>. QED BY <1>1, <1>2

LEMMA AheadFacts ==
    ASSUME NEW s \in AheadStates
    PROVE  /\ Agrees(s.mem) /\ Sound(TRUE, Recorded(s.mem)) /\ Usable(s.db)
           /\ Known(s.mem) \subseteq Rows(s.db) /\ Ahead(s.mem, s.db)
           /\ s.mem = Read(Recorded(s.mem)) /\ Distinct(s.mem)
           /\ s.db \in Database /\ s.mem \in Memory /\ s.dirtied \in SUBSET Books
           /\ s = [mem |-> s.mem, db |-> s.db, statements |-> s.statements,
                   dirtied |-> s.dirtied]
  <1>1. Ahead(s.mem, s.db) /\ s.dirtied \in SUBSET Books
        /\ s = [mem |-> s.mem, db |-> s.db, statements |-> s.statements,
                dirtied |-> s.dirtied]
    BY DEF AheadStates
  <1>2. /\ Agrees(s.mem) /\ Sound(TRUE, Recorded(s.mem)) /\ Usable(s.db)
        /\ Known(s.mem) \subseteq Rows(s.db) /\ s.db \in Database /\ s.mem \in Memory
    BY <1>1 DEF Ahead, Usable, Agrees
  <1>. QED BY <1>1, <1>2, RecordedFacts

LEMMA AheadStatement ==
    ASSUME NEW s \in AheadStates, NEW m, NEW d, Ahead(m, d),
           NEW u, u = Execute(s, d), NEW t, t = [u EXCEPT !.mem = m]
    PROVE  t \in AheadStates /\ t.mem = m /\ t.db = d
  <1>. DEFINE X == [mem : Memory, db : Database]
              n == Len(s.statements)
  <1>0. m \in Memory /\ d \in Database /\ s.mem \in Memory
    BY AheadFacts DEF Ahead, Agrees, Usable
  <1>1. /\ s \in [mem : Memory, db : Database, statements : Seq(X), dirtied : SUBSET Books]
        /\ Ahead(s.mem, s.db) /\ s.db = LastDb(db, s.statements) /\ AllAhead(db, s.statements)
    BY DEF AheadStates
  <1>2. CASE d = s.db
    <2>1. t = [s EXCEPT !.mem = m]
      BY <1>2 DEF Execute
    <2>2. /\ t \in [mem : Memory, db : Database, statements : Seq(X), dirtied : SUBSET Books]
          /\ t.mem = m /\ t.db = d /\ t.dirtied = s.dirtied /\ t.statements = s.statements
      BY <1>0, <1>1, <1>2, <2>1
    <2>. QED BY <1>1, <1>2, <2>2 DEF AheadStates
  <1>3. CASE d # s.db
    <2>. DEFINE st == [mem |-> s.mem, db |-> d]
                seq == Append(s.statements, st)
    <2>1. seq \in Seq(X) /\ Len(seq) = n + 1 /\ seq[n + 1] = st /\ n \in Nat
          /\ \A k \in 1..n : seq[k] = s.statements[k]
      BY <1>0, <1>1
    <2>2. u = [s EXCEPT !.db = d, !.statements = seq]
      BY <1>3 DEF Execute
    <2>3. st.mem = s.mem /\ st.db = d
      OBVIOUS
    <2>. HIDE DEF st, seq
    <2>4. /\ t \in [mem : Memory, db : Database, statements : Seq(X), dirtied : SUBSET Books]
          /\ t.mem = m /\ t.db = d /\ t.dirtied = s.dirtied /\ t.statements = seq
      BY <1>0, <1>1, <2>1, <2>2
    <2>5. LastDb(db, seq) = d
      <3>1. seq # <<>>
        BY <2>1
      <3>. QED BY <2>1, <2>3, <3>1 DEF LastDb
    <2>6. ASSUME NEW k \in 1..Len(seq)
          PROVE  Ahead(seq[k].mem, IF k = 1 THEN db ELSE seq[k - 1].db)
      <3>1. CASE k \in 1..n
        <4>1. k # 1 => k - 1 \in 1..n
          BY <2>1, <3>1
        <4>2. Ahead(s.statements[k].mem, IF k = 1 THEN db ELSE s.statements[k - 1].db)
          BY <1>1, <3>1 DEF AllAhead
        <4>. QED BY <2>1, <3>1, <4>1, <4>2
      <3>2. CASE k = n + 1
        <4>1. CASE n = 0
          <5>1. s.statements = <<>>
            BY <1>1, <4>1
          <5>. QED BY <1>1, <2>1, <2>3, <3>2, <4>1, <5>1 DEF LastDb
        <4>2. CASE n # 0
          <5>1. s.statements # <<>> /\ k - 1 = n /\ k # 1 /\ n \in 1..n
            BY <1>1, <2>1, <3>2, <4>2
          <5>2. seq[k - 1].db = s.db
            BY <1>1, <2>1, <5>1 DEF LastDb
          <5>. QED BY <1>1, <2>1, <2>3, <3>2, <5>1, <5>2
        <4>. QED BY <4>1, <4>2
      <3>. QED BY <2>1, <3>1, <3>2
    <2>7. AllAhead(db, seq)
      BY <2>6 DEF AllAhead
    <2>. QED BY <2>4, <2>5, <2>7 DEF AheadStates
  <1>. QED BY <1>2, <1>3

LEMMA AheadExecute ==
    ASSUME NEW s \in AheadStates, NEW d, Ahead(s.mem, d), NEW t, t = Execute(s, d)
    PROVE  t \in AheadStates /\ t.mem = s.mem /\ t.db = d
  <1>1. s = [mem |-> s.mem, db |-> s.db, statements |-> s.statements, dirtied |-> s.dirtied]
    BY AheadFacts
  <1>2. CASE d = s.db
    <2>1. t = s /\ t = [s EXCEPT !.mem = s.mem]
      BY <1>1, <1>2 DEF Execute
    <2>. QED BY <1>2, <2>1
  <1>3. CASE d # s.db
    <2>. DEFINE q == Append(s.statements, [mem |-> s.mem, db |-> d])
    <2>1. t = [s EXCEPT !.db = d, !.statements = q]
      BY <1>3 DEF Execute
    <2>. HIDE DEF q
    <2>2. t = [mem |-> s.mem, db |-> d, statements |-> q, dirtied |-> s.dirtied]
      BY <1>1, <2>1
    <2>3. t = [t EXCEPT !.mem = s.mem]
      BY <2>2
    <2>. QED BY <2>3, AheadStatement
  <1>. QED BY <1>2, <1>3

LEMMA AheadMemory ==
    ASSUME NEW s \in AheadStates, NEW m, Ahead(m, s.db), NEW t, t = [s EXCEPT !.mem = m]
    PROVE  t \in AheadStates /\ t.mem = m /\ t.db = s.db
  <1>1. s = Execute(s, s.db)
    BY DEF Execute
  <1>. QED BY <1>1, AheadStatement

LEMMA AheadDirty ==
    ASSUME NEW s \in AheadStates, NEW S \in SUBSET Books, NEW t, t = Dirty(s, S)
    PROVE  t \in AheadStates /\ t.mem = s.mem /\ t.db = s.db
  BY DEF AheadStates, Dirty

LEMMA ItemOfAhead ==
    ASSUME NEW s \in AheadStates, NEW n
    PROVE  /\ HasItem(s.mem, n) <=> icu_lower(n) \in MemWords(s.mem)
           /\ HasItem(s.mem, n) =>
                /\ ItemOf(s.mem, n) \in Known(s.mem)
                /\ icu_lower(s.mem.id_map[ItemOf(s.mem, n)]) = icu_lower(n)
  BY DEF HasItem, ItemOf, MemWords

\* What get_db_id() makes of such states, when the words V of the words W have
\* their items: there is room for the others.
Named(W, V) ==
    {c \in [state : AheadStates, case_changes : [Items -> Names \cup {None}]] :
        /\ Max(Rows(c.state.db) \cup {0}) + Cardinality(W \ MemWords(c.state.mem)) <= MaxItem
        /\ V \subseteq MemWords(c.state.mem)
        /\ \A i \in Items : c.case_changes[i] # None =>
                /\ i \in Known(c.state.mem)
                /\ icu_lower(c.case_changes[i]) = icu_lower(c.state.mem.id_map[i])}

\* get_db_id() inserts an item after the last row, which memory does not know.
LEMMA AheadInsert ==
    ASSUME NEW s \in AheadStates, NEW n \in Names, icu_lower(n) \notin MemWords(s.mem),
           NEW i \in Items, i \notin Rows(s.db), NEW t, t = InsertItem(s, i, n)
    PROVE  /\ t \in AheadStates /\ MemWords(t.mem) = MemWords(s.mem) \cup {icu_lower(n)}
           /\ Rows(t.db) = Rows(s.db) \cup {i}
           /\ \A j \in Known(s.mem) : j \in Known(t.mem) /\ t.mem.id_map[j] = s.mem.id_map[j]
  <1>. DEFINE dd == [s.db EXCEPT !.rows[i] = n]
              u == Execute(s, dd)
              f == s.mem.col_book_map
              m == [s.mem EXCEPT !.id_map[i] = n, !.col_book_map[i] = {}]
  <1>1. /\ s.db \in Database /\ s.mem \in Memory /\ Agrees(s.mem)
        /\ Sound(TRUE, Recorded(s.mem)) /\ Usable(s.db) /\ Known(s.mem) \subseteq Rows(s.db)
    BY AheadFacts
  <1>2. n # None
    BY LinkTableAssumption
  <1>3. dd \in Database /\ dd.links = s.db.links /\ dd.rows = [s.db.rows EXCEPT ![i] = n]
    BY <1>1 DEF Database
  <1>4. Rows(dd) = Rows(s.db) \cup {i}
    <2>1. \A j \in Items : dd.rows[j] = IF j = i THEN n ELSE s.db.rows[j]
      BY <1>1, <1>3 DEF Database
    <2>. HIDE DEF dd
    <2>. QED BY <1>2, <2>1 DEF Rows
  <1>5. Usable(dd)
    BY <1>1, <1>3 DEF Usable
  <1>6. i \notin Known(s.mem) /\ f[i] = {} /\ f \in [Items -> SUBSET Books]
    <2>1. i \notin Known(s.mem)
      BY <1>1
    <2>. QED BY <1>1, <2>1 DEF Agrees, Memory
  <1>7. /\ m \in Memory /\ m.id_map = [s.mem.id_map EXCEPT ![i] = n]
        /\ m.book_col_map = s.mem.book_col_map /\ m.col_book_map = s.mem.col_book_map
    <2>0. m = [s.mem EXCEPT !.id_map[i] = n, !.col_book_map[i] = {}]
      OBVIOUS
    <2>. HIDE DEF m
    <2>1. m = [id_map |-> [s.mem.id_map EXCEPT ![i] = n], book_col_map |-> s.mem.book_col_map,
               col_book_map |-> [f EXCEPT ![i] = {}]]
      BY <1>1, <2>0 DEF Memory
    <2>2. [f EXCEPT ![i] = {}] = f
      <3>. HIDE DEF f
      <3>. QED BY <1>6
    <2>3. /\ [s.mem.id_map EXCEPT ![i] = n] \in [Items -> Names \cup {None}]
          /\ s.mem.book_col_map \in [Books -> Seq(Items)]
      BY <1>1 DEF Memory
    <2>. HIDE DEF f
    <2>. QED BY <1>6, <2>1, <2>2, <2>3 DEF Memory, f
  <1>8. \A j \in Items : m.id_map[j] = IF j = i THEN n ELSE s.mem.id_map[j]
    BY <1>1, <1>7 DEF Memory
  <1>. HIDE DEF m, dd
  <1>9. Known(m) = Known(s.mem) \cup {i}
    BY <1>2, <1>8 DEF Known
  <1>10. \A j \in Known(s.mem) : m.id_map[j] = s.mem.id_map[j]
    BY <1>6, <1>8 DEF Known
  <1>11. MemWords(m) = MemWords(s.mem) \cup {icu_lower(n)}
    BY <1>8, <1>9, <1>10 DEF MemWords
  <1>12. Agrees(m)
    BY <1>1, <1>7, <1>9 DEF Agrees
  <1>13. Sound(TRUE, Recorded(m))
    <2>1. /\ Recorded(m).rows = m.id_map /\ Recorded(m).links = s.mem.book_col_map
          /\ Rows(Recorded(m)) = Known(m)
          /\ Recorded(s.mem).rows = s.mem.id_map /\ Recorded(s.mem).links = s.mem.book_col_map
          /\ Rows(Recorded(s.mem)) = Known(s.mem)
      BY <1>7, RecordedFacts
    <2>2. \A j \in Known(s.mem) : icu_lower(s.mem.id_map[j]) # icu_lower(n)
      BY DEF MemWords
    <2>3. \A j, k \in Known(s.mem) :
            icu_lower(s.mem.id_map[j]) = icu_lower(s.mem.id_map[k]) => j = k
      BY <1>1, <2>1 DEF Sound
    <2>4. \A j, k \in Known(m) : icu_lower(m.id_map[j]) = icu_lower(m.id_map[k]) => j = k
      BY <1>8, <1>9, <1>10, <2>2, <2>3
    <2>5. Recorded(m) \in Database
      BY <1>7 DEF Recorded, Database, Memory
    <2>. QED BY <1>1, <1>9, <2>1, <2>4, <2>5 DEF Sound
  <1>14. Ahead(s.mem, dd) /\ Ahead(m, dd)
    BY <1>1, <1>4, <1>5, <1>9, <1>12, <1>13 DEF Ahead
  <1>15. u \in AheadStates /\ u.mem = s.mem /\ u.db = dd
    BY <1>14, AheadExecute
  <1>16. t = [u EXCEPT !.mem = m]
    <2>1. t = [u EXCEPT !.mem = [u.mem EXCEPT !.id_map[i] = n, !.col_book_map[i] = {}]]
      BY DEF InsertItem, dd
    <2>. HIDE DEF u
    <2>. QED BY <1>15, <2>1 DEF m
  <1>. HIDE DEF u
  <1>17. t \in AheadStates /\ t.mem = m /\ t.db = dd
    BY <1>14, <1>15, <1>16, AheadMemory
  <1>. QED BY <1>4, <1>9, <1>10, <1>11, <1>17

LEMMA AheadGetDbId ==
    ASSUME NEW W, IsFiniteSet(W), NEW V, NEW c \in Named(W, V),
           NEW n \in Names, icu_lower(n) \in W
    PROVE  get_db_id(c, n) \in Named(W, V \cup {icu_lower(n)})
  <1>. DEFINE s == c.state
              w == icu_lower(n)
  <1>1. /\ c \in [state : AheadStates, case_changes : [Items -> Names \cup {None}]]
        /\ s \in AheadStates
        /\ Max(Rows(s.db) \cup {0}) + Cardinality(W \ MemWords(s.mem)) <= MaxItem
        /\ V \subseteq MemWords(s.mem)
        /\ \A i \in Items : c.case_changes[i] # None =>
                /\ i \in Known(s.mem)
                /\ icu_lower(c.case_changes[i]) = icu_lower(s.mem.id_map[i])
    BY DEF Named
  <1>2. CASE HasItem(s.mem, n)
    <2>. DEFINE i == ItemOf(s.mem, n)
    <2>1. i \in Known(s.mem) /\ icu_lower(s.mem.id_map[i]) = w /\ w \in MemWords(s.mem)
          /\ i \in Items
      BY <1>1, <1>2, ItemOfAhead DEF Known
    <2>2. CASE s.mem.id_map[i] = n
      <3>1. get_db_id(c, n) = c
        BY <1>2, <2>2 DEF get_db_id
      <3>. QED BY <1>1, <2>1, <3>1 DEF Named
    <2>3. CASE s.mem.id_map[i] # n
      <3>. DEFINE e == [c EXCEPT !.case_changes[i] = n]
      <3>1. get_db_id(c, n) = e
        BY <1>2, <2>3 DEF get_db_id
      <3>2. e.state = s /\ e.case_changes = [c.case_changes EXCEPT ![i] = n]
            /\ e \in [state : AheadStates, case_changes : [Items -> Names \cup {None}]]
        BY <1>1
      <3>3. \A j \in Items : e.case_changes[j] = IF j = i THEN n ELSE c.case_changes[j]
        BY <1>1, <2>1, <3>2
      <3>. HIDE DEF e, i, w, s
      <3>. QED BY <1>1, <2>1, <3>1, <3>2, <3>3 DEF Named, w
    <2>. QED BY <2>2, <2>3
  <1>3. CASE ~ HasItem(s.mem, n)
    <2>. DEFINE x == Max(Rows(s.db) \cup {0})
                i == x + 1
                t == InsertItem(s, i, n)
                y == Cardinality(W \ (MemWords(s.mem) \cup {w}))
    <2>1. w \notin MemWords(s.mem)
      BY <1>1, <1>3, ItemOfAhead
    <2>2. y \in Nat /\ Cardinality(W \ MemWords(s.mem)) = y + 1
      <3>1. W \ (MemWords(s.mem) \cup {w}) = (W \ MemWords(s.mem)) \ {w}
            /\ w \in W \ MemWords(s.mem)
        BY <2>1
      <3>2. IsFiniteSet(W \ MemWords(s.mem)) /\ IsFiniteSet(W \ (MemWords(s.mem) \cup {w}))
        BY FS_Difference
      <3>3. Cardinality(W \ (MemWords(s.mem) \cup {w})) = Cardinality(W \ MemWords(s.mem)) - 1
        <4>. PICK Z : Z = W \ MemWords(s.mem)
          OBVIOUS
        <4>1. IsFiniteSet(Z) /\ w \in Z
          BY <3>1, <3>2
        <4>2. Cardinality(Z \ {w}) = Cardinality(Z) - 1
          <5>. HIDE DEF w
          <5>. QED BY <4>1, FS_RemoveElement
        <4>. QED BY <3>1, <4>2
      <3>4. Cardinality(W \ MemWords(s.mem)) \in Nat /\ y \in Nat
        BY <3>2, FS_CardinalityType
      <3>. HIDE DEF s, w
      <3>. QED BY <3>3, <3>4
    <2>3. x \in 0..MaxItem /\ MaxItem \in Nat /\ \A j \in Rows(s.db) : j <= x
      BY NextId, LinkTableAssumption
    <2>4. x + (y + 1) <= MaxItem
      <3>. HIDE DEF s, w, y
      <3>. QED BY <1>1, <2>2
    <2>5. i \in Items /\ i \notin Rows(s.db) /\ i \in 0..MaxItem /\ i > x /\ i + y <= MaxItem
      <3>. HIDE DEF s, w, x, y
      <3>1. i \in 1..MaxItem /\ i > x /\ i + y <= MaxItem
        BY <2>2, <2>3, <2>4
      <3>. QED BY <2>3, <3>1 DEF Items
    <2>6. /\ t \in AheadStates /\ MemWords(t.mem) = MemWords(s.mem) \cup {w}
          /\ Rows(t.db) = Rows(s.db) \cup {i}
          /\ \A j \in Known(s.mem) : j \in Known(t.mem) /\ t.mem.id_map[j] = s.mem.id_map[j]
      <3>1. t = InsertItem(s, i, n)
        OBVIOUS
      <3>2. s \in AheadStates /\ i \in Items /\ i \notin Rows(s.db)
            /\ icu_lower(n) \notin MemWords(s.mem)
        BY <1>1, <2>1, <2>5
      <3>. HIDE DEF s, i, t, x, y
      <3>. QED BY <3>1, <3>2, AheadInsert
    <2>7. Max(Rows(t.db) \cup {0}) = i
      <3>. HIDE DEF t, i
      <3>. QED BY <2>5, <2>6, NextId DEF s, x
    <2>. DEFINE e == [c EXCEPT !.state = t]
    <2>8. get_db_id(c, n) = e
      BY <1>3 DEF get_db_id
    <2>. HIDE DEF t
    <2>9. e \in [state : AheadStates, case_changes : [Items -> Names \cup {None}]]
          /\ e.state = t /\ e.case_changes = c.case_changes
      BY <1>1, <2>6
    <2>. HIDE DEF e, i, s, x, w, y
    <2>10. \A j \in Items : e.case_changes[j] # None =>
                /\ j \in Known(t.mem)
                /\ icu_lower(e.case_changes[j]) = icu_lower(t.mem.id_map[j])
      BY <1>1, <2>6, <2>9
    <2>11. Max(Rows(t.db) \cup {0}) + Cardinality(W \ MemWords(t.mem)) <= MaxItem
      BY <2>5, <2>6, <2>7 DEF y
    <2>. QED BY <1>1, <2>6, <2>8, <2>9, <2>10, <2>11 DEF Named, w
  <1>. QED BY <1>2, <1>3

LEMMA AheadNames ==
    ASSUME NEW s \in AheadStates, NEW W, IsFiniteSet(W),
           Max(Rows(s.db) \cup {0}) + Cardinality(W \ MemWords(s.mem)) <= MaxItem,
           NEW X \in SUBSET Books, NEW vals \in [X -> Seq(Names)],
           \A b \in X : NewWords(vals[b]) \subseteq W
    PROVE  AddAllNames(s, vals) \in Named(W, UNION {NewWords(vals[b]) : b \in X})
  <1>. DEFINE T == [state : AheadStates, case_changes : [Items -> Names \cup {None}]]
              F == [V \in SUBSET W |-> Named(W, V)]
              c == [state |-> s, case_changes |-> [i \in Items |-> None]]
              U == UNION {NewWords(vals[b]) : b \in X}
  <1>1. \A V \in SUBSET W : F[V] = Named(W, V) /\ Named(W, V) \subseteq T
    BY DEF Named
  <1>2. F \in [SUBSET W -> SUBSET T]
    BY <1>1
  <1>3. c \in F[{}]
    <2>1. c.state = s /\ c.case_changes = [i \in Items |-> None] /\ c \in T
      OBVIOUS
    <2>2. \A i \in Items : c.case_changes[i] = None
      BY <2>1
    <2>. HIDE DEF c
    <2>3. c \in Named(W, {})
      BY <2>1, <2>2 DEF Named
    <2>. HIDE DEF F
    <2>. QED BY <1>1, <2>3
  <1>. HIDE DEF F, T
  <1>4. ASSUME NEW V \in SUBSET W, NEW e \in F[V], NEW n \in Names, icu_lower(n) \in W
        PROVE  get_db_id(e, n) \in F[V \cup {icu_lower(n)}]
    <2>1. e \in Named(W, V) /\ V \cup {icu_lower(n)} \in SUBSET W
      BY <1>1, <1>4
    <2>2. get_db_id(e, n) \in Named(W, V \cup {icu_lower(n)})
      BY <1>4, <2>1, AheadGetDbId
    <2>. QED BY <1>1, <2>1, <2>2
  <1>5. AddsNames(T, W, F)
    BY <1>2, <1>4 DEF AddsNames
  <1>6. c = [state |-> s, case_changes |-> [i \in Items |-> None]]
        /\ U = UNION {NewWords(vals[b]) : b \in X}
    OBVIOUS
  <1>. HIDE DEF c, U
  <1>7. AddAllNames(s, vals) \in F[U]
    BY <1>3, <1>5, <1>6, AddAllNamesLoop
  <1>. QED BY <1>1, <1>6, <1>7

LEMMA RecordedSound ==
    ASSUME NEW m, Agrees(m)
    PROVE  Sound(TRUE, Recorded(m)) <=>
                Distinct(m) /\ \A b \in Books : IsInjective(m.book_col_map[b])
  <1>1. /\ Recorded(m).rows = m.id_map /\ Recorded(m).links = m.book_col_map
        /\ Rows(Recorded(m)) = Known(m)
    BY RecordedFacts
  <1>2. Recorded(m) \in Database
    BY DEF Agrees, Memory, Recorded, Database
  <1>. QED BY <1>1, <1>2 DEF Sound, Distinct, Agrees

LEMMA AheadDeleteRows ==
    ASSUME NEW s \in AheadStates, NEW S \in SUBSET Items, Known(s.mem) \cap S = {},
           NEW t, t = DeleteRows(s, S)
    PROVE  /\ t \in AheadStates /\ t.mem = s.mem
           /\ Rows(t.db) = Rows(s.db) \ S /\ t.db.links = s.db.links
  <1>. DEFINE d == [s.db EXCEPT !.rows = [i \in Items |-> IF i \in S THEN None ELSE @[i]]]
  <1>1. s.db \in Database /\ Usable(s.db) /\ Ahead(s.mem, s.db)
        /\ Known(s.mem) \subseteq Rows(s.db)
    BY AheadFacts
  <1>2. /\ d \in Database /\ d.links = s.db.links
        /\ \A i \in Items : d.rows[i] = IF i \in S THEN None ELSE s.db.rows[i]
    BY <1>1 DEF Database
  <1>3. t = Execute(s, d)
    BY DEF DeleteRows
  <1>. HIDE DEF d
  <1>4. Rows(d) = Rows(s.db) \ S
    BY <1>2 DEF Rows
  <1>5. Ahead(s.mem, d)
    BY <1>1, <1>2, <1>4 DEF Ahead, Usable
  <1>. QED BY <1>2, <1>3, <1>4, <1>5, AheadExecute

LEMMA AheadLinks ==
    ASSUME NEW s \in AheadStates, NEW links \in [Books -> Seq(Items)],
           ~ Multiple => \A b \in Books : Len(links[b]) <= 1,
           NEW t, t = Execute(s, [s.db EXCEPT !.links = links])
    PROVE  /\ t \in AheadStates /\ t.mem = s.mem
           /\ Rows(t.db) = Rows(s.db) /\ t.db.links = links
  <1>. DEFINE d == [s.db EXCEPT !.links = links]
  <1>1. s.db \in Database /\ Usable(s.db) /\ Ahead(s.mem, s.db)
    BY AheadFacts
  <1>2. d \in Database /\ d.links = links /\ Rows(d) = Rows(s.db)
    BY <1>1 DEF Database, Rows
  <1>3. t = Execute(s, d)
    OBVIOUS
  <1>. HIDE DEF d
  <1>4. Ahead(s.mem, d)
    BY <1>1, <1>2 DEF Ahead, Usable
  <1>. QED BY <1>2, <1>3, <1>4, AheadExecute

\* Links that the books of S may have, and a statement that sets links.
LinksFor(S, ids) ==
    \A b \in Books : b \in S => ids[b] \in Seq(Items) /\ (Multiple \/ Len(ids[b]) <= 1)

Links(s, t) ==
    t \in AheadStates /\ t.mem = s.mem /\ Rows(t.db) = Rows(s.db)

LEMMA AheadSetLinks ==
    ASSUME NEW s \in AheadStates, NEW S, NEW ids, LinksFor(S, ids),
           NEW t, t = Execute(s, SetLinks(s.db, S, ids))
    PROVE  Links(s, t)
  <1>. DEFINE links == [b \in Books |-> IF b \in S THEN ids[b] ELSE s.db.links[b]]
  <1>1. s.db \in Database /\ Usable(s.db)
    BY AheadFacts
  <1>2. links \in [Books -> Seq(Items)]
    BY <1>1 DEF Database, LinksFor
  <1>3. ~ Multiple => \A b \in Books : Len(links[b]) <= 1
    BY <1>1 DEF Usable, LinksFor
  <1>4. t = Execute(s, [s.db EXCEPT !.links = links])
    BY <1>1 DEF SetLinks, Database
  <1>. HIDE DEF links
  <1>. QED BY <1>2, <1>3, <1>4, AheadLinks DEF Links

LEMMA AheadUnlink ==
    ASSUME NEW s \in AheadStates, NEW S, NEW t, t = DeleteBookLinks(s, S)
    PROVE  Links(s, t)
  <1>. PICK ids : ids = Unlinked
    OBVIOUS
  <1>1. LinksFor(S, ids)
    BY DEF Unlinked, LinksFor
  <1>2. t = Execute(s, SetLinks(s.db, S, ids))
    BY DEF DeleteBookLinks
  <1>. QED BY <1>1, <1>2, AheadSetLinks, Zenon

\* The items P are no longer known, and no book has them.
LosesItems(m, P, n) ==
    Agrees(n) /\ Sound(TRUE, Recorded(n)) /\ Known(n) = Known(m) \ P

\* Memory forgets items without books.
LEMMA AheadForget ==
    ASSUME NEW m, Agrees(m), Sound(TRUE, Recorded(m)), NEW S \in SUBSET Items,
           \A b \in Books : ToSet(m.book_col_map[b]) \cap S = {},
           NEW n, n = [m EXCEPT !.id_map = Forget(@, S, None)]
    PROVE  LosesItems(m, S, n)
  <1>1. /\ n \in Memory /\ n.book_col_map = m.book_col_map /\ n.col_book_map = m.col_book_map
        /\ n.id_map = Forget(m.id_map, S, None)
    BY LinkTableAssumption DEF Agrees, Memory, Forget
  <1>2. \A i \in Items : n.id_map[i] = IF i \in S THEN None ELSE m.id_map[i]
    BY <1>1 DEF Forget
  <1>3. Known(n) = Known(m) \ S
    BY <1>2 DEF Known
  <1>4. Agrees(n)
    BY <1>1, <1>3 DEF Agrees
  <1>5. Distinct(m) /\ \A b \in Books : IsInjective(m.book_col_map[b])
    BY RecordedSound
  <1>6. Distinct(n)
    <2>1. \A i \in Known(n) : i \in Known(m) /\ n.id_map[i] = m.id_map[i]
      BY <1>2, <1>3 DEF Known
    <2>. QED BY <1>5, <2>1 DEF Distinct
  <1>. QED BY <1>1, <1>3, <1>4, <1>5, <1>6, RecordedSound DEF LosesItems

LEMMA AheadRemoveUnused ==
    ASSUME NEW s \in AheadStates, NEW t, t = RemoveUnused(s)
    PROVE  t \in AheadStates
  <1>. DEFINE unused == {i \in Known(s.mem) : s.mem.col_book_map[i] = {}}
              d == [s.db EXCEPT !.rows = [i \in Items |-> IF i \in unused THEN None ELSE @[i]]]
              u == Execute(s, d)
              m == [s.mem EXCEPT !.id_map = Forget(@, unused, None)]
  <1>1. /\ Agrees(s.mem) /\ Sound(TRUE, Recorded(s.mem)) /\ Usable(s.db)
        /\ Known(s.mem) \subseteq Rows(s.db) /\ s.db \in Database
    BY AheadFacts
  <1>2. unused \in SUBSET Items
    BY DEF Known
  <1>3. \A b \in Books : ToSet(s.mem.book_col_map[b]) \cap unused = {}
    <2>1. \A i \in Items : s.mem.col_book_map[i] = {b \in Books : i \in ToSet(s.mem.book_col_map[b])}
      BY <1>1 DEF Agrees
    <2>. QED BY <1>2, <2>1
  <1>4. u.mem = s.mem
    BY DEF Execute
  <1>5. t = [u EXCEPT !.mem.id_map = Forget(@, unused, None)]
    BY DEF RemoveUnused, RemoveItemsUnused, DeleteRows
  <1>. HIDE DEF unused
  <1>6. /\ d \in Database /\ d.links = s.db.links
        /\ \A i \in Items : d.rows[i] = IF i \in unused THEN None ELSE s.db.rows[i]
    BY <1>1 DEF Database
  <1>7. t = [u EXCEPT !.mem = m]
    <2>. HIDE DEF u
    <2>. QED BY <1>4, <1>5
  <1>8. u = Execute(s, d)
    OBVIOUS
  <1>. HIDE DEF d, u
  <1>9. Agrees(m) /\ Sound(TRUE, Recorded(m)) /\ Known(m) = Known(s.mem) \ unused
    <2>1. m = [s.mem EXCEPT !.id_map = Forget(@, unused, None)]
      OBVIOUS
    <2>. HIDE DEF m
    <2>2. LosesItems(s.mem, unused, m)
      BY <1>1, <1>2, <1>3, <2>1, AheadForget
    <2>. QED BY <2>2 DEF LosesItems
  <1>. HIDE DEF m
  <1>10. Rows(d) = Rows(s.db) \ unused
    BY <1>6 DEF Rows
  <1>11. Ahead(m, d)
    BY <1>1, <1>6, <1>9, <1>10 DEF Ahead, Usable
  <1>. QED BY <1>7, <1>8, <1>11, AheadStatement

LEMMA AheadChangeCase ==
    ASSUME NEW s \in AheadStates, NEW changes \in [Items -> Names \cup {None}],
           \A i \in Items : changes[i] # None =>
                i \in Known(s.mem) /\ icu_lower(changes[i]) = icu_lower(s.mem.id_map[i]),
           NEW t, t = change_case(s, changes)
    PROVE  t \in AheadStates /\ MemWords(t.mem) = MemWords(s.mem)
  <1>. DEFINE d == [s.db EXCEPT !.rows = Respell(@, changes)]
              u == Execute(s, d)
              m == [s.mem EXCEPT !.id_map = Respell(@, changes)]
              v == [u EXCEPT !.mem = m]
              D == UNION {s.mem.col_book_map[i] : i \in {j \in Items : changes[j] # None}}
  <1>1. /\ Agrees(s.mem) /\ Sound(TRUE, Recorded(s.mem)) /\ Usable(s.db)
        /\ Known(s.mem) \subseteq Rows(s.db) /\ s.db \in Database
    BY AheadFacts
  <1>2. /\ d \in Database /\ d.links = s.db.links
        /\ \A i \in Items : d.rows[i] = IF changes[i] # None THEN changes[i] ELSE s.db.rows[i]
    BY <1>1 DEF Database, Respell
  <1>3. /\ m \in Memory /\ m.book_col_map = s.mem.book_col_map
        /\ m.col_book_map = s.mem.col_book_map
        /\ \A i \in Items : m.id_map[i] = IF changes[i] # None THEN changes[i] ELSE s.mem.id_map[i]
    BY <1>1 DEF Agrees, Memory, Respell
  <1>4. u.mem = s.mem
    BY DEF Execute
  <1>5. t = Dirty(v, D)
    <2>1. t = Dirty([u EXCEPT !.mem.id_map = Respell(@, changes)], D)
      BY DEF change_case, Respelled
    <2>. HIDE DEF u, D
    <2>2. [u EXCEPT !.mem.id_map = Respell(@, changes)] = v
      BY <1>4
    <2>. QED BY <2>1, <2>2
  <1>6. u = Execute(s, d) /\ v = [u EXCEPT !.mem = m]
    OBVIOUS
  <1>0. D \in SUBSET Books
    BY <1>1 DEF Agrees, Memory
  <1>. HIDE DEF d, u, m, v, D
  <1>7. Known(m) = Known(s.mem)
        /\ \A i \in Known(m) : icu_lower(m.id_map[i]) = icu_lower(s.mem.id_map[i])
    BY <1>3 DEF Known
  <1>8. Agrees(m) /\ MemWords(m) = MemWords(s.mem)
    BY <1>1, <1>3, <1>7 DEF Agrees, MemWords
  <1>9. Sound(TRUE, Recorded(m))
    <2>1. Distinct(s.mem) /\ \A b \in Books : IsInjective(s.mem.book_col_map[b])
      BY <1>1, RecordedSound
    <2>2. Distinct(m)
      BY <1>7, <2>1 DEF Distinct
    <2>. QED BY <1>3, <1>8, <2>1, <2>2, RecordedSound
  <1>10. Rows(s.db) \subseteq Rows(d)
    BY <1>2 DEF Rows
  <1>11. Ahead(m, d)
    BY <1>1, <1>2, <1>7, <1>8, <1>9, <1>10 DEF Ahead, Usable
  <1>12. v \in AheadStates /\ v.mem = m
    BY <1>6, <1>11, AheadStatement
  <1>13. t \in AheadStates /\ t.mem = m
    BY <1>0, <1>5, <1>12, AheadDirty
  <1>. QED BY <1>8, <1>13

\* Items that the books of S may get.
ItemsFor(m, S, ids) ==
    \A b \in Books : b \in S =>
        /\ ids[b] \in Seq(Items) /\ (Multiple \/ Len(ids[b]) <= 1)
        /\ IsInjective(ids[b]) /\ ToSet(ids[b]) \subseteq Known(m)

LEMMA AheadAssign ==
    ASSUME NEW m, Agrees(m), Sound(TRUE, Recorded(m)), NEW S \in SUBSET Books, NEW ids,
           ItemsFor(m, S, ids), NEW n, n = Assign(m, ids, S)
    PROVE  LosesItems(m, {}, n)
  <1>1. \A b \in S : ids[b] \in Seq(Items) /\ ToSet(ids[b]) \subseteq Known(m)
    BY DEF ItemsFor
  <1>2. Assigned(m, S, ids, n)
    BY <1>1, AssignFacts
  <1>3. /\ Agrees(n) /\ n.id_map = m.id_map
        /\ \A b \in S : n.book_col_map[b] = ids[b]
        /\ \A b \in Books \ S : n.book_col_map[b] = m.book_col_map[b]
    BY <1>2 DEF Assigned
  <1>4. Distinct(m) /\ \A b \in Books : IsInjective(m.book_col_map[b])
    BY RecordedSound
  <1>5. Known(n) = Known(m) /\ Distinct(n)
    BY <1>3, <1>4 DEF Known, Distinct
  <1>6. \A b \in Books : IsInjective(n.book_col_map[b])
    BY <1>3, <1>4 DEF ItemsFor
  <1>. QED BY <1>3, <1>5, <1>6, RecordedSound DEF LosesItems

LEMMA AheadStoreItems ==
    ASSUME NEW s \in AheadStates, NEW S \in SUBSET Books, NEW ids, ItemsFor(s.mem, S, ids),
           NEW t, t = StoreItems(s, S, ids)
    PROVE  t \in AheadStates
  <1>. DEFINE m == Assign(s.mem, ids, S)
              s1 == [s EXCEPT !.mem = m]
              s2 == Dirty(s1, S)
              D == IF Multiple THEN S ELSE {b \in S : ids[b] = <<>>}
              s3 == DeleteBookLinks(s2, D)
              s4 == Execute(s3, SetLinks(s3.db, S, ids))
  <1>0. m = Assign(s.mem, ids, S) /\ s1 = [s EXCEPT !.mem = m] /\ s2 = Dirty(s1, S)
        /\ s3 = DeleteBookLinks(s2, D) /\ s4 = Execute(s3, SetLinks(s3.db, S, ids))
    OBVIOUS
  <1>1. t = RemoveUnused(s4)
    BY DEF StoreItems, StoreLinks, InsertLinks
  <1>. HIDE DEF m, s1, s2, s3, s4, D
  <1>2. Agrees(s.mem) /\ Sound(TRUE, Recorded(s.mem)) /\ Ahead(s.mem, s.db)
    BY AheadFacts
  <1>3. LosesItems(s.mem, {}, m)
    BY <1>0, <1>2, AheadAssign
  <1>4. Ahead(m, s.db)
    BY <1>2, <1>3 DEF Ahead, LosesItems
  <1>5. s1 \in AheadStates
    BY <1>0, <1>4, AheadMemory
  <1>6. s2 \in AheadStates
    BY <1>0, <1>5, AheadDirty
  <1>7. Links(s2, s3)
    BY <1>0, <1>6, AheadUnlink
  <1>8. LinksFor(S, ids)
    BY DEF LinksFor, ItemsFor
  <1>9. s3 \in AheadStates
    BY <1>7 DEF Links
  <1>10. Links(s3, s4)
    BY <1>0, <1>8, <1>9, AheadSetLinks
  <1>11. s4 \in AheadStates
    BY <1>10 DEF Links
  <1>. QED BY <1>1, <1>11, AheadRemoveUnused

LEMMA ItemsOfNames ==
    ASSUME NEW s \in AheadStates, NEW v \in Seq(Names), NewWords(v) \subseteq MemWords(s.mem),
           \A j, k \in DOMAIN v : icu_lower(v[j]) = icu_lower(v[k]) => j = k,
           NEW q, q = [k \in DOMAIN v |-> ItemOf(s.mem, v[k])]
    PROVE  /\ q \in Seq(Items) /\ Len(q) = Len(v)
           /\ IsInjective(q) /\ ToSet(q) \subseteq Known(s.mem)
  <1>. PICK n \in Nat : n = Len(v)
    OBVIOUS
  <1>1. DOMAIN v = 1..n
    OBVIOUS
  <1>2. q = [k \in 1..n |-> ItemOf(s.mem, v[k])]
    BY <1>1
  <1>3. ASSUME NEW k \in 1..n
        PROVE  /\ q[k] \in Known(s.mem) /\ q[k] \in Items
               /\ icu_lower(s.mem.id_map[q[k]]) = icu_lower(v[k])
    <2>1. v[k] \in ToSet(v)
      BY <1>1 DEF ToSet
    <2>2. HasItem(s.mem, v[k])
      BY <2>1, ItemOfAhead DEF NewWords
    <2>. QED BY <1>2, <2>2, ItemOfAhead DEF Known
  <1>4. q \in Seq(Items) /\ DOMAIN q = 1..n /\ Len(q) = n
    <2>1. q \in [1..n -> Items] /\ DOMAIN q = 1..n
      BY <1>2, <1>3
    <2>2. \A m \in Nat : \A f \in [1..m -> Items] : f \in Seq(Items) /\ Len(f) = m
      OBVIOUS
    <2>. QED BY <2>1, <2>2
  <1>5. IsInjective(q)
    <2>1. ASSUME NEW j \in 1..n, NEW k \in 1..n, q[j] = q[k] PROVE j = k
      <3>1. icu_lower(s.mem.id_map[q[j]]) = icu_lower(v[j])
        BY <1>3
      <3>2. icu_lower(s.mem.id_map[q[k]]) = icu_lower(v[k])
        BY <1>3
      <3>3. icu_lower(v[j]) = icu_lower(v[k])
        BY <2>1, <3>1, <3>2, Zenon
      <3>. QED BY <1>1, <3>3
    <2>. QED BY <1>4, <2>1, ZenonT(60) DEF IsInjective
  <1>6. ToSet(q) \subseteq Known(s.mem)
    <2>1. ToSet(q) = {q[k] : k \in 1..n}
      BY <1>4 DEF ToSet
    <2>2. \A k \in 1..n : q[k] \in Known(s.mem)
      BY <1>3
    <2>. QED BY <2>1, <2>2
  <1>. QED BY <1>4, <1>5, <1>6

\* Names that the books of X may get, when all of them have their items.
NamesFor(m, X, vals) ==
    \A b \in X :
        /\ vals[b] \in Seq(Names) /\ (Multiple \/ Len(vals[b]) <= 1)
        /\ NewWords(vals[b]) \subseteq MemWords(m)
        /\ \A j, k \in DOMAIN vals[b] : icu_lower(vals[b][j]) = icu_lower(vals[b][k]) => j = k

LEMMA AheadStoreNames ==
    ASSUME NEW s \in AheadStates, NEW X \in SUBSET Books, NEW vals, DOMAIN vals = X,
           NamesFor(s.mem, X, vals), NEW t, t = StoreNames(s, vals)
    PROVE  t \in AheadStates
  <1>. DEFINE ids == [b \in X |-> [k \in DOMAIN vals[b] |-> ItemOf(s.mem, vals[b][k])]]
              S == {b \in X : ids[b] # s.mem.book_col_map[b] \/ (Multiple /\ ids[b] = <<>>)}
  <1>1. t = StoreItems(s, S, ids)
    BY DEF StoreNames, StoreChanges, Changed
  <1>2. S \in SUBSET Books /\ S \subseteq X
    OBVIOUS
  <1>3. ASSUME NEW b \in X
        PROVE  /\ ids[b] \in Seq(Items) /\ (Multiple \/ Len(ids[b]) <= 1)
               /\ IsInjective(ids[b]) /\ ToSet(ids[b]) \subseteq Known(s.mem)
    <2>. PICK q : q = ids[b]
      OBVIOUS
    <2>. PICK v : v = vals[b]
      OBVIOUS
    <2>1. /\ v \in Seq(Names) /\ (Multiple \/ Len(v) <= 1) /\ NewWords(v) \subseteq MemWords(s.mem)
          /\ \A j, k \in DOMAIN v : icu_lower(v[j]) = icu_lower(v[k]) => j = k
      BY DEF NamesFor
    <2>2. q = [k \in DOMAIN v |-> ItemOf(s.mem, v[k])]
      OBVIOUS
    <2>. HIDE DEF ids
    <2>3. /\ q \in Seq(Items) /\ Len(q) = Len(v)
          /\ IsInjective(q) /\ ToSet(q) \subseteq Known(s.mem)
      BY <2>1, <2>2, ItemsOfNames
    <2>. QED BY <2>1, <2>3
  <1>. HIDE DEF ids, S
  <1>4. ItemsFor(s.mem, S, ids)
    BY <1>2, <1>3 DEF ItemsFor
  <1>. QED BY <1>1, <1>2, <1>4, AheadStoreItems

\* There is room for the words W.
RoomFor(m, d, W) == Max(Rows(d) \cup {0}) + Cardinality(W \ MemWords(m)) <= MaxItem

ValuesFor(W, X, val_map) ==
    \A b \in X : /\ val_map[b] \in Seq(Names) /\ (Multiple \/ Len(val_map[b]) <= 1)
                 /\ NewWords(val_map[b]) \subseteq W

LEMMA AheadSetBooks ==
    ASSUME NEW s \in AheadStates, NEW W, IsFiniteSet(W), RoomFor(s.mem, s.db, W),
           NEW X \in SUBSET Books, NEW val_map, DOMAIN val_map = X, ValuesFor(W, X, val_map),
           NEW allow \in BOOLEAN, NEW t, t = set_books(s, val_map, allow)
    PROVE  t \in AheadStates
  <1>. DEFINE vals == [b \in X |-> uniq(val_map[b], Lowered(val_map[b]))]
              c == AddAllNames(s, vals)
              U == UNION {NewWords(vals[b]) : b \in X}
              u == AddedNames(c, allow)
  <1>1. Distinct(s.mem)
    BY AheadFacts
  <1>2. t = StoreNames(u, vals)
    BY <1>1 DEF set_books, SetUnique
  <1>3. \A b \in X : vals[b] = uniq(val_map[b], Lowered(val_map[b]))
    OBVIOUS
  <1>4. DOMAIN vals = X /\ vals = [b \in X |-> vals[b]]
    OBVIOUS
  <1>. HIDE DEF vals
  <1>5. ASSUME NEW b \in X
        PROVE  /\ vals[b] \in Seq(Names) /\ (Multiple \/ Len(vals[b]) <= 1)
               /\ \A j, k \in DOMAIN vals[b] :
                    icu_lower(vals[b][j]) = icu_lower(vals[b][k]) => j = k
               /\ NewWords(vals[b]) \subseteq W
    <2>. PICK q : q = val_map[b]
      OBVIOUS
    <2>. PICK v : v = vals[b]
      OBVIOUS
    <2>1. q \in Seq(Names) /\ (Multiple \/ Len(q) <= 1) /\ NewWords(q) \subseteq W
      BY DEF ValuesFor
    <2>2. v = uniq(q, Lowered(q))
      BY <1>3
    <2>3. /\ v \in Seq(Names) /\ Len(v) <= Len(q) /\ NewWords(v) = NewWords(q)
          /\ \A j, k \in DOMAIN v : icu_lower(v[j]) = icu_lower(v[k]) => j = k
      BY <2>1, <2>2, UniqFacts
    <2>4. Len(v) \in Nat /\ Len(q) \in Nat
      BY <2>1, <2>3
    <2>. QED BY <2>1, <2>3, <2>4
  <1>6. vals \in [X -> Seq(Names)]
    BY <1>4, <1>5
  <1>7. c \in Named(W, U)
    BY <1>5, <1>6, AheadNames DEF RoomFor
  <1>8. \A b \in X : NewWords(vals[b]) \subseteq U
    OBVIOUS
  <1>9. u = AddedNames(c, allow)
    OBVIOUS
  <1>. HIDE DEF c, u, U
  <1>10. /\ c.state \in AheadStates /\ c.case_changes \in [Items -> Names \cup {None}]
         /\ U \subseteq MemWords(c.state.mem)
         /\ \A i \in Items : c.case_changes[i] # None =>
                /\ i \in Known(c.state.mem)
                /\ icu_lower(c.case_changes[i]) = icu_lower(c.state.mem.id_map[i])
    BY <1>7 DEF Named
  <1>11. u \in AheadStates /\ U \subseteq MemWords(u.mem)
    <2>1. CASE ~ allow
      BY <1>9, <1>10, <2>1 DEF AddedNames
    <2>2. CASE allow
      <3>1. u = change_case(c.state, c.case_changes)
        BY <1>9, <2>2 DEF AddedNames
      <3>. QED BY <1>10, <3>1, AheadChangeCase
    <2>. QED BY <2>1, <2>2
  <1>12. NamesFor(u.mem, X, vals)
    BY <1>5, <1>8, <1>11 DEF NamesFor
  <1>. QED BY <1>2, <1>4, <1>11, <1>12, AheadStoreNames

\* Item i gets the name n.
RenamedAhead(s, i, n, t) ==
    /\ t \in AheadStates /\ Rows(t.db) \subseteq Rows(s.db)
    /\ MemWords(s.mem) \ {icu_lower(s.mem.id_map[i])} \subseteq MemWords(t.mem)
    /\ icu_lower(n) \in MemWords(t.mem)

LEMMA AheadRenameInPlace ==
    ASSUME NEW s \in AheadStates, NEW i \in Known(s.mem), NEW n \in Names,
           \A j \in Known(s.mem) : icu_lower(s.mem.id_map[j]) = icu_lower(n) => j = i,
           NEW t, t = RenameInPlace(s, i, n)
    PROVE  RenamedAhead(s, i, n, t)
  <1>. DEFINE m == [s.mem EXCEPT !.id_map[i] = n]
              u == [s EXCEPT !.mem = m]
              d == [s.db EXCEPT !.rows[i] = n]
  <1>1. /\ Agrees(s.mem) /\ Sound(TRUE, Recorded(s.mem)) /\ Usable(s.db)
        /\ Known(s.mem) \subseteq Rows(s.db) /\ s.db \in Database /\ s.mem \in Memory
    BY AheadFacts
  <1>2. i \in Items /\ s.db.rows[i] # None /\ n # None
    BY <1>1, LinkTableAssumption DEF Rows, Known
  <1>3. /\ d \in Database /\ d.links = s.db.links
        /\ \A j \in Items : d.rows[j] = IF j = i THEN n ELSE s.db.rows[j]
    BY <1>1, <1>2 DEF Database
  <1>4. /\ m \in Memory /\ m.book_col_map = s.mem.book_col_map
        /\ m.col_book_map = s.mem.col_book_map
        /\ \A j \in Items : m.id_map[j] = IF j = i THEN n ELSE s.mem.id_map[j]
    BY <1>1, <1>2 DEF Memory
  <1>5. u.db = s.db /\ u.mem = m
    BY <1>1 DEF AheadStates
  <1>6. t = Execute(u, d)
    <2>1. t = Execute(u, [u.db EXCEPT !.rows[i] = IF @ = None THEN None ELSE n])
      BY <1>5 DEF RenameInPlace
    <2>. HIDE DEF u
    <2>2. [u.db EXCEPT !.rows[i] = IF @ = None THEN None ELSE n] = d
      BY <1>1, <1>2, <1>5 DEF Database
    <2>. QED BY <2>1, <2>2
  <1>7. u = [s EXCEPT !.mem = m]
    OBVIOUS
  <1>. HIDE DEF m, d, u
  <1>8. Known(m) = Known(s.mem) /\ Rows(d) = Rows(s.db)
    BY <1>2, <1>3, <1>4 DEF Known, Rows
  <1>9. Distinct(m)
    <2>1. Distinct(s.mem)
      BY <1>1, RecordedSound
    <2>2. \A j \in Known(s.mem) : j \in Items
      BY DEF Known
    <2>. QED BY <1>4, <1>8, <2>1, <2>2 DEF Distinct
  <1>10. Agrees(m) /\ Sound(TRUE, Recorded(m))
    <2>1. Agrees(m)
      BY <1>1, <1>4, <1>8 DEF Agrees
    <2>. QED BY <1>1, <1>4, <1>9, <2>1, RecordedSound
  <1>11. Ahead(m, s.db) /\ Ahead(m, d)
    BY <1>1, <1>3, <1>8, <1>10 DEF Ahead, Usable
  <1>12. u \in AheadStates
    BY <1>7, <1>11, AheadMemory
  <1>13. t \in AheadStates /\ t.mem = m /\ t.db = d
    BY <1>5, <1>6, <1>11, <1>12, AheadExecute
  <1>14. MemWords(s.mem) \ {icu_lower(s.mem.id_map[i])} \subseteq MemWords(m)
    BY <1>4, <1>8 DEF MemWords, Known
  <1>15. icu_lower(n) \in MemWords(m)
    BY <1>2, <1>4, <1>8 DEF MemWords
  <1>. QED BY <1>8, <1>13, <1>14, <1>15 DEF RenamedAhead

\* What MergeInMemory() leaves of the memory.
LosesOnly(o, i, m) ==
    /\ Agrees(m) /\ Sound(TRUE, Recorded(m)) /\ Known(m) = Known(o) \ {i}
    /\ \A k \in Known(m) : m.id_map[k] = o.id_map[k]

LEMMA AheadMerged ==
    ASSUME NEW o, Agrees(o), Sound(TRUE, Recorded(o)), NEW i \in Known(o),
           NEW j \in Known(o), i # j, NEW m, m = MergeInMemory(o, i, j)
    PROVE  LosesOnly(o, i, m)
  <1>. PICK d : d = Recorded(o)
    OBVIOUS
  <1>1. /\ d.rows = o.id_map /\ d.links = o.book_col_map /\ Rows(d) = Known(o)
        /\ o = Read(d) /\ Distinct(o) /\ Sound(TRUE, d)
    BY RecordedFacts
  <1>2. MemoryMerged(d, i, j, m)
    BY <1>1, MergeInMemoryFacts
  <1>3. /\ Agrees(m) /\ m.id_map = Forget(o.id_map, {i}, None)
        /\ \A b \in Books : m.book_col_map[b] = Merged(d.links[b], i, j)
    BY <1>1, <1>2 DEF MemoryMerged
  <1>4. \A k \in Items : m.id_map[k] = IF k = i THEN None ELSE o.id_map[k]
    BY <1>3 DEF Forget
  <1>5. Known(m) = Known(o) \ {i} /\ \A k \in Known(m) : m.id_map[k] = o.id_map[k]
    BY <1>4 DEF Known
  <1>6. Distinct(m)
    BY <1>1, <1>5 DEF Distinct
  <1>7. ASSUME NEW b \in Books PROVE IsInjective(m.book_col_map[b])
    <2>1. IsMerged(d, b, i, j, d.links[b], m.book_col_map[b])
      BY <1>1, <1>3, MergedFacts
    <2>. QED BY <2>1 DEF IsMerged
  <1>. QED BY <1>3, <1>5, <1>6, <1>7, RecordedSound DEF LosesOnly

LEMMA ReplacedLength ==
    ASSUME NEW q \in Seq(Items), NEW i, NEW j \in Items
    PROVE  Replaced(q, i, j) \in Seq(Items) /\ Len(Replaced(q, i, j)) = Len(q)
  <1>. PICK n \in Nat : n = Len(q)
    OBVIOUS
  <1>1. DOMAIN q = 1..n /\ \A k \in 1..n : q[k] \in Items
    OBVIOUS
  <1>2. Replaced(q, i, j) \in [1..n -> Items]
    BY <1>1 DEF Replaced
  <1>3. \A m \in Nat : \A f \in [1..m -> Items] : f \in Seq(Items) /\ Len(f) = m
    OBVIOUS
  <1>. QED BY <1>2, <1>3

LEMMA AheadDeleteLinks ==
    ASSUME NEW s \in AheadStates, Multiple, NEW S, NEW P, NEW t, t = DeleteLinks(s, S, P)
    PROVE  Links(s, t)
  <1>. DEFINE ids == [b \in Books |-> Without(s.db.links[b], P)]
  <1>1. ASSUME NEW b \in Books PROVE ids[b] \in Seq(Items)
    <2>. PICK q : q = s.db.links[b]
      OBVIOUS
    <2>1. q \in Seq(Items) /\ ids[b] = Without(q, P)
      BY AheadFacts DEF Database
    <2>. HIDE DEF ids
    <2>. QED BY <2>1, WithoutFacts
  <1>2. t = Execute(s, SetLinks(s.db, S, ids))
    BY DEF DeleteLinks
  <1>. HIDE DEF ids
  <1>3. LinksFor(S, ids)
    BY <1>1 DEF LinksFor
  <1>. QED BY <1>2, <1>3, AheadSetLinks

LEMMA AheadMergeItem ==
    ASSUME NEW s \in AheadStates, NEW i \in Known(s.mem), NEW j \in Known(s.mem), i # j,
           NEW n \in Names, icu_lower(s.mem.id_map[j]) = icu_lower(n),
           NEW t, t = MergeItem(s, i, j)
    PROVE  RenamedAhead(s, i, n, t)
  <1>. DEFINE m == MergeInMemory(s.mem, i, j)
              B == s.mem.col_book_map[i]
              u == [s EXCEPT !.mem = m]
              v == IF Multiple THEN DeleteLinks(u, B, {j}) ELSE u
              links == [b \in Books |-> Replaced(v.db.links[b], i, j)]
              w == ReplaceLinks(v, i, j)
  <1>1. /\ Agrees(s.mem) /\ Sound(TRUE, Recorded(s.mem)) /\ Ahead(s.mem, s.db)
        /\ Known(s.mem) \subseteq Rows(s.db) /\ i \in Items /\ j \in Items
    BY AheadFacts DEF Known
  <1>2. /\ m = MergeInMemory(s.mem, i, j) /\ u = [s EXCEPT !.mem = m]
        /\ v = (IF Multiple THEN DeleteLinks(u, B, {j}) ELSE u) /\ w = ReplaceLinks(v, i, j)
    OBVIOUS
  <1>3. t = DeleteRows(w, {i})
    BY DEF MergeItem, MergeInDb
  <1>4. /\ \A b \in Books : links[b] = Replaced(v.db.links[b], i, j)
        /\ links = [b \in Books |-> links[b]]
    OBVIOUS
  <1>5. w = Execute(v, [v.db EXCEPT !.links = links]) \/ v.db \notin Database
    BY DEF ReplaceLinks, Database
  <1>. HIDE DEF m, u, v, w, B, links
  <1>6. /\ Agrees(m) /\ Sound(TRUE, Recorded(m)) /\ Known(m) = Known(s.mem) \ {i}
        /\ \A k \in Known(m) : m.id_map[k] = s.mem.id_map[k]
    <2>1. LosesOnly(s.mem, i, m)
      BY <1>1, <1>2, AheadMerged
    <2>. QED BY <2>1 DEF LosesOnly
  <1>7. Ahead(m, s.db)
    BY <1>1, <1>6 DEF Ahead
  <1>8. u \in AheadStates /\ u.mem = m /\ u.db = s.db
    BY <1>2, <1>7, AheadMemory
  <1>9. Links(u, v)
    <2>1. CASE Multiple
      BY <1>2, <1>8, <2>1, AheadDeleteLinks
    <2>2. CASE ~ Multiple
      BY <1>2, <1>8, <2>2 DEF Links
    <2>. QED BY <2>1, <2>2
  <1>10. v \in AheadStates /\ v.mem = m /\ Rows(v.db) = Rows(s.db)
         /\ v.db \in Database /\ Usable(v.db)
    BY <1>8, <1>9, AheadFacts DEF Links
  <1>11. ASSUME NEW b \in Books
         PROVE  links[b] \in Seq(Items) /\ Len(links[b]) = Len(v.db.links[b])
    <2>. PICK q : q = v.db.links[b]
      OBVIOUS
    <2>1. q \in Seq(Items)
      BY <1>10 DEF Database
    <2>. QED BY <1>1, <1>4, <2>1, ReplacedLength
  <1>12. /\ links \in [Books -> Seq(Items)]
         /\ ~ Multiple => \A b \in Books : Len(links[b]) <= 1
    BY <1>4, <1>10, <1>11 DEF Usable
  <1>13. w \in AheadStates /\ w.mem = m /\ Rows(w.db) = Rows(s.db)
    BY <1>5, <1>10, <1>12, AheadLinks
  <1>14. t \in AheadStates /\ t.mem = m /\ Rows(t.db) = Rows(s.db) \ {i}
    BY <1>1, <1>3, <1>6, <1>13, AheadDeleteRows, SMTT(30)
  <1>15. MemWords(s.mem) \ {icu_lower(s.mem.id_map[i])} \subseteq MemWords(m)
    BY <1>6 DEF MemWords
  <1>16. icu_lower(n) \in MemWords(m)
    BY <1>6 DEF MemWords
  <1>. QED BY <1>14, <1>15, <1>16 DEF RenamedAhead

LEMMA AheadRenameItemOnce ==
    ASSUME NEW s \in AheadStates, NEW i \in Known(s.mem), NEW n \in Names,
           NEW t, t = rename_item(s, i, n)
    PROVE  RenamedAhead(s, i, n, t)
  <1>. DEFINE E == {j \in Known(s.mem) : icu_lower(s.mem.id_map[j]) = icu_lower(n)}
  <1>1. t = IF E = {} \/ Max(E) = i THEN RenameInPlace(s, i, n) ELSE MergeItem(s, i, Max(E))
    BY DEF rename_item
  <1>2. \A j \in Known(s.mem) : icu_lower(s.mem.id_map[j]) = icu_lower(n) <=> j \in E
    OBVIOUS
  <1>3. E \subseteq Known(s.mem) /\ \A j, k \in E : j = k
    BY AheadFacts DEF Distinct
  <1>. HIDE DEF E
  <1>4. CASE E = {}
    BY <1>1, <1>2, <1>4, AheadRenameInPlace
  <1>5. CASE E # {}
    <2>1. PICK j \in E : TRUE
      BY <1>5
    <2>2. Max(E) = j
      <3>1. E = {j}
        BY <1>3, <2>1
      <3>2. j \in 1..MaxItem /\ MaxItem \in Nat
        BY <1>3, <2>1, LinkTableAssumption DEF Known, Items
      <3>3. E \in SUBSET (0..MaxItem) /\ E # {}
        BY <3>1, <3>2
      <3>. QED BY <3>1, <3>2, <3>3, Greatest
    <2>3. CASE j = i
      BY <1>1, <1>2, <1>3, <2>1, <2>2, <2>3, AheadRenameInPlace
    <2>4. CASE j # i
      <3>1. t = MergeItem(s, i, j)
        BY <1>1, <1>5, <2>2, <2>4
      <3>2. j \in Known(s.mem) /\ icu_lower(s.mem.id_map[j]) = icu_lower(n)
        BY <1>2, <1>3, <2>1
      <3>. QED BY <2>4, <3>1, <3>2, AheadMergeItem
    <2>. QED BY <2>3, <2>4
  <1>. QED BY <1>4, <1>5

LEMMA MemWordsFinite ==
    ASSUME NEW m
    PROVE  IsFiniteSet(MemWords(m))
  BY RecordedFacts, RowWordsFinite

LEMMA AheadNamesOf ==
    ASSUME NEW s \in AheadStates, NEW b \in Books
    PROVE  names(s.mem, b) \in Seq(Names) /\ NewWords(names(s.mem, b)) \subseteq MemWords(s.mem)
  <1>. PICK d : d = Recorded(s.mem)
    OBVIOUS
  <1>1. s.mem = Read(d) /\ Sound(TRUE, d) /\ RowWords(d) = MemWords(s.mem)
    BY AheadFacts, RecordedFacts
  <1>2. names(s.mem, b) \in Seq(Names) /\ NewWords(names(s.mem, b)) = Words(d, b)
    BY <1>1, NamesFacts
  <1>3. Words(d, b) \subseteq RowWords(d)
    BY <1>1 DEF Words, RowWords, Sound
  <1>. QED BY <1>1, <1>2, <1>3

\* There is room for the names ns when item i is renamed.
FittingAhead(s, i, ns) ==
    Max(Rows(s.db) \cup {0})
        + Cardinality(NewWords(ns) \ (MemWords(s.mem) \ {icu_lower(s.mem.id_map[i])})) <= MaxItem

LEMMA AheadRenameItem ==
    ASSUME NEW s \in AheadStates, NEW i \in Known(s.mem), NEW ns \in Seq(Names), ns # <<>>,
           ~ Multiple => Len(ns) <= 1, FittingAhead(s, i, ns),
           NEW t, t = RenameItem(s, i, ns)
    PROVE  t \in AheadStates
  <1>. DEFINE u == rename_item(s, i, ns[1])
              B == s.mem.col_book_map[i]
              v == Dirty(u, B)
              more == Tail(ns)
              w == icu_lower(s.mem.id_map[i])
  <1>1. B \in SUBSET Books
    BY AheadFacts DEF Known, Memory
  <1>2. /\ ns[1] \in Names /\ more \in Seq(Names)
        /\ NewWords(ns) = {icu_lower(ns[1])} \cup NewWords(more)
        /\ Len(ns) <= 1 => Len(ns) = 1
    BY TailWords
  <1>3. t = IF Len(ns) = 1 THEN v ELSE AddToBooks(v, B, more)
    BY DEF RenameItem
  <1>4. RenamedAhead(s, i, ns[1], u)
    <2>1. u = rename_item(s, i, ns[1])
      OBVIOUS
    <2>. HIDE DEF u
    <2>. QED BY <1>2, <2>1, AheadRenameItemOnce
  <1>5. v = Dirty(u, B)
    OBVIOUS
  <1>. HIDE DEF u, v, B
  <1>6. /\ v \in AheadStates /\ Rows(v.db) \subseteq Rows(s.db)
        /\ (MemWords(s.mem) \ {w}) \cup {icu_lower(ns[1])} \subseteq MemWords(v.mem)
    BY <1>1, <1>4, <1>5, AheadDirty DEF RenamedAhead
  <1>7. CASE Len(ns) = 1
    BY <1>3, <1>6, <1>7
  <1>8. CASE Len(ns) # 1
    <2>. DEFINE val == [b \in B |-> names(v.mem, b) \o more]
                W == NewWords(more) \cup MemWords(v.mem)
    <2>1. t = set_books(v, val, TRUE) /\ DOMAIN val = B
      BY <1>3, <1>8 DEF AddToBooks
    <2>2. ValuesFor(W, B, val)
      <3>1. ASSUME NEW b \in B
            PROVE  val[b] \in Seq(Names) /\ NewWords(val[b]) \subseteq W
        <4>. PICK q : q = names(v.mem, b)
          OBVIOUS
        <4>. PICK r : r = more
          OBVIOUS
        <4>1. q \in Seq(Names) /\ r \in Seq(Names) /\ val[b] = q \o r
              /\ NewWords(q) \subseteq MemWords(v.mem) /\ NewWords(r) = NewWords(more)
          BY <1>1, <1>2, <1>6, AheadNamesOf
        <4>2. q \o r \in Seq(Names) /\ NewWords(q \o r) = NewWords(q) \cup NewWords(r)
          BY <4>1, ConcatWords
        <4>. HIDE DEF val, more
        <4>. QED BY <4>1, <4>2
      <3>2. Multiple
        BY <1>2, <1>8
      <3>. HIDE DEF W, val
      <3>. QED BY <3>1, <3>2 DEF ValuesFor
    <2>3. IsFiniteSet(W)
      BY <1>2, NewWordsFinite, MemWordsFinite, FS_Union
    <2>4. RoomFor(v.mem, v.db, W)
      <3>. DEFINE V == NewWords(ns) \ (MemWords(s.mem) \ {w})
                  U == W \ MemWords(v.mem)
      <3>1. U \subseteq V
        BY <1>2, <1>6
      <3>2. IsFiniteSet(V)
        BY NewWordsFinite, FS_Difference
      <3>3. Max(Rows(s.db) \cup {0}) + Cardinality(V) <= MaxItem
        BY DEF FittingAhead
      <3>. HIDE DEF U, V
      <3>4. Max(Rows(v.db) \cup {0}) + Cardinality(U) <= MaxItem
        BY <1>6, <3>1, <3>2, <3>3, RoomLeft
      <3>. QED BY <3>4 DEF U, RoomFor
    <2>. HIDE DEF val, W
    <2>. QED BY <1>1, <1>6, <2>1, <2>2, <2>3, <2>4, AheadSetBooks
  <1>. QED BY <1>7, <1>8

LEMMA AheadRenamed ==
    ASSUME NEW q \in Seq(Names), NEW o, NEW ns \in Seq(Names), ns # <<>>,
           ~ Multiple => Len(ns) <= 1, NEW r, r = Renamed(q, o, ns)
    PROVE  /\ r \in Seq(Names) /\ (Multiple \/ Len(r) <= 1)
           /\ NewWords(r) \subseteq NewWords(q) \cup NewWords(ns)
  <1>1. /\ ns[1] \in Names /\ Tail(ns) \in Seq(Names)
        /\ NewWords(ns) = {icu_lower(ns[1])} \cup NewWords(Tail(ns))
    BY TailWords
  <1>2. CASE Multiple
    <2>. DEFINE v == [k \in DOMAIN q |-> IF q[k] = o THEN ns[1] ELSE q[k]]
    <2>1. r = v \o Tail(ns)
      BY <1>2 DEF Renamed
    <2>. PICK n \in Nat : n = Len(q)
      OBVIOUS
    <2>2. DOMAIN q = 1..n /\ \A k \in 1..n : q[k] \in Names
      OBVIOUS
    <2>3. v \in Seq(Names) /\ DOMAIN v = 1..n
      <3>1. v \in [1..n -> Names] /\ DOMAIN v = 1..n
        BY <1>1, <2>2
      <3>2. \A m \in Nat : \A f \in [1..m -> Names] : f \in Seq(Names) /\ Len(f) = m
        OBVIOUS
      <3>. QED BY <3>1, <3>2
    <2>4. \A k \in 1..n : v[k] = IF q[k] = o THEN ns[1] ELSE q[k]
      BY <2>2
    <2>. HIDE DEF v
    <2>5. NewWords(v) \subseteq NewWords(q) \cup {icu_lower(ns[1])}
      BY <2>2, <2>3, <2>4 DEF NewWords, ToSet
    <2>6. r \in Seq(Names) /\ NewWords(r) = NewWords(v) \cup NewWords(Tail(ns))
      BY <1>1, <2>1, <2>3, ConcatWords
    <2>. QED BY <1>1, <1>2, <2>5, <2>6
  <1>3. CASE ~ Multiple
    <2>1. r = <<ns[1]>>
      BY <1>3 DEF Renamed
    <2>2. r \in Seq(Names) /\ Len(r) = 1 /\ ToSet(r) = {ns[1]}
      BY <1>1, <2>1 DEF ToSet
    <2>3. NewWords(r) = {icu_lower(ns[1])}
      BY <2>2 DEF NewWords
    <2>4. r \in Seq(Names) /\ Len(r) <= 1
      BY <2>2
    <2>. QED BY <1>1, <2>3, <2>4
  <1>. QED BY <1>2, <1>3

LEMMA AheadRenameInBooks ==
    ASSUME NEW s \in AheadStates, NEW i \in Known(s.mem), NEW ns \in Seq(Names), ns # <<>>,
           ~ Multiple => Len(ns) <= 1, FittingAhead(s, i, ns), NEW S \in SUBSET Books,
           NEW t, t = RenameInBooks(s, i, ns, S)
    PROVE  t \in AheadStates
  <1>. DEFINE o == s.mem.id_map[i]
              val == [b \in S |-> Renamed(names(s.mem, b), o, ns)]
              W == NewWords(ns) \cup MemWords(s.mem)
  <1>1. t = set_books(s, val, TRUE) /\ DOMAIN val = S
    BY DEF RenameInBooks
  <1>2. ValuesFor(W, S, val)
    <2>1. ASSUME NEW b \in S
          PROVE  /\ val[b] \in Seq(Names) /\ (Multiple \/ Len(val[b]) <= 1)
                 /\ NewWords(val[b]) \subseteq W
      <3>. PICK q : q = names(s.mem, b)
        OBVIOUS
      <3>. PICK r : r = val[b]
        OBVIOUS
      <3>1. q \in Seq(Names) /\ r = Renamed(q, o, ns) /\ NewWords(q) \subseteq MemWords(s.mem)
        BY AheadNamesOf
      <3>. HIDE DEF val, o
      <3>2. /\ r \in Seq(Names) /\ (Multiple \/ Len(r) <= 1)
            /\ NewWords(r) \subseteq NewWords(q) \cup NewWords(ns)
        BY <3>1, AheadRenamed
      <3>. QED BY <3>1, <3>2
    <2>. HIDE DEF W, val
    <2>. QED BY <2>1 DEF ValuesFor
  <1>3. IsFiniteSet(W)
    BY NewWordsFinite, MemWordsFinite, FS_Union
  <1>4. RoomFor(s.mem, s.db, W)
    <2>. DEFINE V == NewWords(ns) \ (MemWords(s.mem) \ {icu_lower(o)})
                U == W \ MemWords(s.mem)
    <2>1. U \subseteq V /\ IsFiniteSet(V)
      BY NewWordsFinite, FS_Difference
    <2>2. Max(Rows(s.db) \cup {0}) + Cardinality(V) <= MaxItem
      BY DEF FittingAhead
    <2>. HIDE DEF U, V
    <2>3. Max(Rows(s.db) \cup {0}) + Cardinality(U) <= MaxItem
      BY <2>1, <2>2, RoomLeft
    <2>. QED BY <2>3 DEF U, RoomFor
  <1>. HIDE DEF val, W
  <1>. QED BY <1>1, <1>2, <1>3, <1>4, AheadSetBooks

LEMMA AheadRemoveFromMaps ==
    ASSUME NEW m, Agrees(m), Sound(TRUE, Recorded(m)), NEW i \in Items,
           NEW S \in SUBSET Books, NEW n, n = RemoveFromMaps(m, i, S)
    PROVE  LosesItems(m, {}, n)
  <1>1. /\ Agrees(n) /\ n.id_map = m.id_map
        /\ LosesItem(i, S, m.book_col_map, n.book_col_map)
    BY RemoveFromMapsFacts
  <1>2. Distinct(m) /\ \A b \in Books : IsInjective(m.book_col_map[b])
    BY RecordedSound
  <1>3. Known(n) = Known(m) /\ Distinct(n)
    BY <1>1, <1>2 DEF Known, Distinct
  <1>4. ASSUME NEW b \in Books PROVE IsInjective(n.book_col_map[b])
    <2>. PICK q : q = m.book_col_map[b]
      OBVIOUS
    <2>1. q \in Seq(Items) /\ IsInjective(q)
      BY <1>2 DEF Agrees, Memory
    <2>2. n.book_col_map[b] = q \/ n.book_col_map[b] = Without(q, {i})
      BY <1>1 DEF LosesItem
    <2>3. IsInjective(Without(q, {i}))
      BY <2>1, WithoutFacts
    <2>. QED BY <2>1, <2>2, <2>3
  <1>5. Sound(TRUE, Recorded(n))
    BY <1>1, <1>3, <1>4, RecordedSound
  <1>. QED BY <1>1, <1>3, <1>5 DEF LosesItems

LEMMA AheadRemoveFromBooks ==
    ASSUME NEW s \in AheadStates, NEW i \in Items, NEW S \in SUBSET Books,
           NEW t, t = RemoveFromBooks(s, i, S)
    PROVE  t \in AheadStates
  <1>. DEFINE m == RemoveFromMaps(s.mem, i, S)
              B == s.mem.col_book_map[i] \cap S
              u == [s EXCEPT !.mem = m]
              v == Dirty(u, B)
  <1>1. /\ m = RemoveFromMaps(s.mem, i, S) /\ u = [s EXCEPT !.mem = m] /\ v = Dirty(u, B)
        /\ B \in SUBSET Books
    OBVIOUS
  <1>2. t = IF Multiple THEN v ELSE DeleteBookLinks(v, B)
    BY DEF RemoveFromBooks
  <1>. HIDE DEF m, B, u, v
  <1>3. Agrees(s.mem) /\ Sound(TRUE, Recorded(s.mem)) /\ Ahead(s.mem, s.db)
    BY AheadFacts
  <1>4. LosesItems(s.mem, {}, m)
    BY <1>1, <1>3, AheadRemoveFromMaps
  <1>5. Ahead(m, s.db)
    BY <1>3, <1>4 DEF Ahead, LosesItems
  <1>6. u \in AheadStates
    BY <1>1, <1>5, AheadMemory
  <1>7. v \in AheadStates
    BY <1>1, <1>6, AheadDirty
  <1>8. CASE Multiple
    BY <1>2, <1>7, <1>8
  <1>9. CASE ~ Multiple
    <2>1. t = DeleteBookLinks(v, B)
      BY <1>2, <1>9
    <2>2. Links(v, t)
      BY <1>7, <2>1, AheadUnlink
    <2>. QED BY <2>2 DEF Links
  <1>. QED BY <1>8, <1>9

LEMMA AheadRemoveSpecial ==
    ASSUME NEW s \in AheadStates, NEW S \in SUBSET Books, NEW special \in SUBSET Items,
           NEW item_ids, NEW t, t = RemoveSpecial(s, special, item_ids, S)
    PROVE  t \in AheadStates
  <1>. DEFINE F == [P \in SUBSET special |-> AheadStates]
  <1>. PICK T : T = AheadStates
    OBVIOUS
  <1>1. \A P \in SUBSET special : F[P] = T
    OBVIOUS
  <1>2. F \in [SUBSET special -> SUBSET T]
    OBVIOUS
  <1>. HIDE DEF F
  <1>3. ASSUME NEW P \in SUBSET special, NEW u \in F[P], NEW i \in special
        PROVE  RemoveFromBooks(u, i, S) \in F[P \cup {i}]
    <2>1. u \in AheadStates /\ i \in Items /\ P \cup {i} \in SUBSET special
      BY <1>1
    <2>2. RemoveFromBooks(u, i, S) \in AheadStates
      BY <2>1, AheadRemoveFromBooks
    <2>. QED BY <1>1, <2>1, <2>2
  <1>4. Removes(T, S, special, F)
    BY <1>2, <1>3 DEF Removes
  <1>5. s \in F[{}]
    BY <1>1
  <1>6. \E u \in F[special] : t = IF Multiple THEN DeleteLinks(u, u.dirtied, item_ids) ELSE u
    BY <1>4, <1>5, RemoveLoop
  <1>7. PICK u \in AheadStates : t = IF Multiple THEN DeleteLinks(u, u.dirtied, item_ids) ELSE u
    BY <1>1, <1>6
  <1>8. CASE Multiple
    <2>. PICK D : D = u.dirtied
      OBVIOUS
    <2>1. t = DeleteLinks(u, D, item_ids)
      BY <1>7, <1>8
    <2>2. Links(u, t)
      BY <1>8, <2>1, AheadDeleteLinks
    <2>. QED BY <2>2 DEF Links
  <1>. QED BY <1>7, <1>8

LEMMA AheadRemoveInMemory ==
    ASSUME NEW m, Agrees(m), Sound(TRUE, Recorded(m)), NEW P \in SUBSET Items,
           NEW n, n = RemoveInMemory(m, P \cap Known(m))
    PROVE  LosesItems(m, P, n)
  <1>1. MemoryWithout(m, P, n)
    BY RemoveInMemoryFacts
  <1>2. /\ Agrees(n) /\ n.id_map = Forget(m.id_map, P, None)
        /\ \A b \in Books : n.book_col_map[b] = Without(m.book_col_map[b], P)
    BY <1>1 DEF MemoryWithout, AllWithout
  <1>3. \A i \in Items : n.id_map[i] = IF i \in P THEN None ELSE m.id_map[i]
    BY <1>2 DEF Forget
  <1>4. Known(n) = Known(m) \ P
    BY <1>3 DEF Known
  <1>5. Distinct(m) /\ \A b \in Books : IsInjective(m.book_col_map[b])
    BY RecordedSound
  <1>6. Distinct(n)
    <2>1. \A i \in Known(n) : i \in Known(m) /\ n.id_map[i] = m.id_map[i]
      BY <1>3, <1>4 DEF Known
    <2>. QED BY <1>5, <2>1, ZenonT(60) DEF Distinct
  <1>7. ASSUME NEW b \in Books PROVE IsInjective(n.book_col_map[b])
    <2>. PICK q : q = m.book_col_map[b]
      OBVIOUS
    <2>1. q \in Seq(Items) /\ IsInjective(q)
      BY <1>5 DEF Agrees, Memory
    <2>2. n.book_col_map[b] = Without(q, P)
      BY <1>2
    <2>. QED BY <2>1, <2>2, WithoutFacts
  <1>. QED BY <1>2, <1>4, <1>6, <1>7, RecordedSound DEF LosesItems

LEMMA AheadDeleteItemLinks ==
    ASSUME NEW s \in AheadStates, NEW P, NEW t, t = DeleteItemLinks(s, P)
    PROVE  Links(s, t)
  <1>. DEFINE links == [b \in Books |-> Without(s.db.links[b], P)]
  <1>1. Usable(s.db) /\ s.db \in Database
    BY AheadFacts
  <1>2. ASSUME NEW b \in Books
        PROVE  links[b] \in Seq(Items) /\ (~ Multiple => Len(links[b]) <= 1)
    <2>. PICK q : q = s.db.links[b]
      OBVIOUS
    <2>1. q \in Seq(Items) /\ links[b] = Without(q, P) /\ (~ Multiple => Len(q) <= 1)
      BY <1>1 DEF Database, Usable
    <2>. HIDE DEF links
    <2>2. links[b] \in Seq(Items) /\ Len(links[b]) <= Len(q)
      BY <2>1, WithoutFacts
    <2>3. Len(links[b]) \in Nat /\ Len(q) \in Nat
      BY <2>1, <2>2
    <2>. QED BY <2>1, <2>2, <2>3
  <1>3. t = Execute(s, [s.db EXCEPT !.links = links])
    BY <1>1 DEF DeleteItemLinks, Database
  <1>4. links = [b \in Books |-> links[b]]
    OBVIOUS
  <1>. HIDE DEF links
  <1>5. links \in [Books -> Seq(Items)]
    BY <1>2, <1>4
  <1>. QED BY <1>2, <1>3, <1>5, AheadLinks DEF Links

LEMMA AheadRemoveItems ==
    ASSUME NEW s \in AheadStates, NEW P \in SUBSET Items, NEW t, t = RemoveItems(s, P)
    PROVE  t \in AheadStates
  <1>. DEFINE m == RemoveInMemory(s.mem, P \cap Known(s.mem))
              B == UNION {s.mem.col_book_map[i] : i \in P \cap Known(s.mem)}
              u == [s EXCEPT !.mem = m]
              v == DeleteItemLinks(u, P)
              w == DeleteRows(v, P)
  <1>1. t = Dirty(w, B)
    BY DEF RemoveItems, DeleteItems
  <1>2. /\ m = RemoveInMemory(s.mem, P \cap Known(s.mem)) /\ u = [s EXCEPT !.mem = m]
        /\ v = DeleteItemLinks(u, P) /\ w = DeleteRows(v, P)
    OBVIOUS
  <1>3. Agrees(s.mem) /\ Sound(TRUE, Recorded(s.mem)) /\ Ahead(s.mem, s.db)
    BY AheadFacts
  <1>4. B \in SUBSET Books
    BY <1>3 DEF Agrees, Memory
  <1>. HIDE DEF m, B, u, v, w
  <1>5. LosesItems(s.mem, P, m)
    BY <1>2, <1>3, AheadRemoveInMemory
  <1>6. Ahead(m, s.db) /\ Known(m) \cap P = {}
    BY <1>3, <1>5 DEF Ahead, LosesItems
  <1>7. u \in AheadStates /\ u.mem = m
    BY <1>2, <1>6, AheadMemory
  <1>8. v \in AheadStates /\ v.mem = m
    BY <1>2, <1>7, AheadDeleteItemLinks DEF Links
  <1>9. w \in AheadStates
    BY <1>2, <1>6, <1>8, AheadDeleteRows
  <1>. QED BY <1>1, <1>4, <1>9, AheadDirty

LEMMA AheadMarked ==
    ASSUME NEW u \in AheadStates, NEW t, t = MarkAffected(u)
    PROVE  t \in AheadStates
  <1>. PICK D : D = {b \in u.dirtied : u.mem.book_col_map[b] # <<>>}
    OBVIOUS
  <1>1. t = u \/ t = [u EXCEPT !.dirtied = D]
    BY DEF MarkAffected
  <1>2. D \in SUBSET Books
    BY DEF AheadStates
  <1>. QED BY <1>1, <1>2 DEF AheadStates

LEMMA AheadRemoveItemsOf ==
    ASSUME NEW s \in AheadStates, NEW S \in SUBSET Books, NEW I \in SUBSET Items,
           NEW t, t = remove_items(s, I, S)
    PROVE  t \in AheadStates
  <1>. DEFINE special == {i \in I : ~ s.mem.col_book_map[i] \subseteq S}
              u == RemoveSpecial(s, special, I, S)
              v == RemoveTwoParts(s, special, I, S)
  <1>1. t = MarkAffected(v) /\ v = IF special = I THEN u ELSE RemoveItems(u, I \ special)
    BY DEF remove_items, RemoveTwoParts
  <1>2. special \in SUBSET Items /\ u = RemoveSpecial(s, special, I, S)
    OBVIOUS
  <1>. HIDE DEF special, u, v
  <1>3. u \in AheadStates
    BY <1>2, AheadRemoveSpecial
  <1>4. v \in AheadStates
    BY <1>1, <1>3, AheadRemoveItems
  <1>. QED BY <1>1, <1>4, AheadMarked

LEMMA AheadRemoveBooks ==
    ASSUME NEW s \in AheadStates, NEW S \in SUBSET Books, NEW t, t = remove_books(s, S)
    PROVE  t \in AheadStates
  <1>. DEFINE had == UNION {ToSet(s.mem.book_col_map[b]) : b \in S}
              u0 == DeleteBookLinks(s, S)
              m == Assign(s.mem, Unlinked, S)
              u == [u0 EXCEPT !.mem = m]
              clean == {i \in had : u.mem.col_book_map[i] = {} /\ i \in Known(u.mem)}
              n == [m EXCEPT !.id_map = Forget(@, clean, None)]
              v == [u EXCEPT !.mem = n]
              w == DeleteRows(v, clean)
  <1>1. Agrees(s.mem) /\ Sound(TRUE, Recorded(s.mem)) /\ Ahead(s.mem, s.db)
    BY AheadFacts
  <1>2. u0 = DeleteBookLinks(s, S)
    OBVIOUS
  <1>. HIDE DEF u0
  <1>3. u0 \in AheadStates /\ u0.mem = s.mem /\ Rows(u0.db) = Rows(s.db)
    BY <1>2, AheadUnlink DEF Links
  <1>4. m = Assign(s.mem, Unlinked, S) /\ u = [u0 EXCEPT !.mem = m]
    OBVIOUS
  <1>5. [u0 EXCEPT !.mem = Assign(@, Unlinked, S)] = u
    BY <1>3
  <1>. HIDE DEF m, u
  <1>6. Agrees(m) /\ Sound(TRUE, Recorded(m)) /\ Known(m) = Known(s.mem)
    <2>. PICK ids : ids = Unlinked
      OBVIOUS
    <2>1. ItemsFor(s.mem, S, ids)
      <3>1. \A b \in Books : ids[b] = <<>>
        BY DEF Unlinked
      <3>2. <<>> \in Seq(Items) /\ Len(<<>>) <= 1 /\ IsInjective(<<>>) /\ ToSet(<<>>) = {}
        BY DEF IsInjective, ToSet
      <3>. QED BY <3>1, <3>2 DEF ItemsFor
    <2>2. m = Assign(s.mem, ids, S)
      BY <1>4
    <2>3. LosesItems(s.mem, {}, m)
      BY <1>1, <2>1, <2>2, AheadAssign
    <2>. QED BY <2>3 DEF LosesItems
  <1>7. Ahead(m, u0.db)
    <2>1. Ahead(s.mem, u0.db)
      BY <1>3, AheadFacts
    <2>. QED BY <1>6, <2>1 DEF Ahead
  <1>8. u \in AheadStates /\ u.mem = m /\ u.db = u0.db
    BY <1>3, <1>4, <1>7, AheadMemory
  <1>9. /\ clean \in SUBSET Items
        /\ \A b \in Books : ToSet(m.book_col_map[b]) \cap clean = {}
    <2>1. \A i \in clean : i \in Items /\ m.col_book_map[i] = {}
      BY <1>8 DEF Known
    <2>. QED BY <1>6, <2>1 DEF Agrees
  <1>10. t = w /\ n = [m EXCEPT !.id_map = Forget(@, clean, None)]
         /\ v = [u EXCEPT !.mem = n] /\ w = DeleteRows(v, clean)
    <2>1. v = [u EXCEPT !.mem.id_map = Forget(@, clean, None)]
      BY <1>8
    <2>2. t = DeleteRows([u EXCEPT !.mem.id_map = Forget(@, clean, None)], clean)
      BY <1>5 DEF remove_books, u0
    <2>. HIDE DEF v, clean
    <2>. QED BY <2>1, <2>2 DEF v
  <1>. HIDE DEF clean, n, v, w
  <1>11. Agrees(n) /\ Sound(TRUE, Recorded(n)) /\ Known(n) = Known(m) \ clean
    BY <1>6, <1>9, <1>10, AheadForget DEF LosesItems
  <1>12. Ahead(n, u.db) /\ Known(n) \cap clean = {}
    BY <1>7, <1>8, <1>11 DEF Ahead
  <1>13. v \in AheadStates /\ v.mem = n
    BY <1>8, <1>10, <1>12, AheadMemory, SMTT(30)
  <1>14. w \in AheadStates
    BY <1>9, <1>10, <1>12, <1>13, AheadDeleteRows
  <1>. QED BY <1>10, <1>14

-------------------------------------------------------------------------------
(* The inductive invariant *)

\* What is left of the call c leads from the database d to what was asked
\* for, on the path between the old values and the new, through databases
\* without duplicates.
CallOk(multi, custom, d, c) ==
    /\ c \in Calls
    /\ c.statements \in Seq(OnPath(multi, Path(multi, c.before, c.want)))
    /\ \A b \in Books : Words(d, b) \in Path(multi, c.before, c.want)[b]
    /\ c.result = Read(LastDb(d, c.statements))
    /\ \A b \in Books : Words(LastDb(d, c.statements), b) = c.want[b]
    /\ \A b \in Books \ (c.dirtied \cup Unmarked(custom, c)) : names(c.result, b) = c.before[b]

Consistent ==
    /\ Multiple \in Kinds /\ CustomSeries \in BOOLEAN /\ intact \in BOOLEAN
    /\ Sound(Multiple, db) /\ Agrees(mem)
    /\ call = None => mem = Read(db)
    /\ call # None => CallOk(Multiple, CustomSeries, db, call)

LEMMA InitConsistent ==
    ASSUME "duplicates" \notin Faults, Init
    PROVE  Consistent
  <1>1. /\ Multiple \in Kinds /\ CustomSeries \in BOOLEAN /\ db = EmptyDb /\ mem = Read(db)
        /\ call = None /\ intact = TRUE
    BY DEF Init
  <1>2. ToSet(<<>>) = {}
    BY DEF ToSet
  <1>3. /\ EmptyDb \in Database /\ Rows(EmptyDb) = {}
        /\ \A b \in Books : EmptyDb.links[b] = <<>>
    BY DEF EmptyDb, Database, Rows
  <1>4. IsInjective(<<>>) /\ Len(<<>>) <= 1
    BY DEF IsInjective
  <1>5. Sound(Multiple, EmptyDb)
    BY <1>2, <1>3, <1>4 DEF Sound
  <1>6. Agrees(Read(db))
    BY <1>1, <1>5, ReadFacts
  <1>. QED BY <1>1, <1>5, <1>6 DEF Consistent

LEMMA SeqMore ==
    ASSUME NEW X, NEW Y, X \subseteq Y, NEW q \in Seq(X)
    PROVE  q \in Seq(Y)
  <1>1. \A m \in Nat : \A f \in [1..m -> Y] : f \in Seq(Y)
    OBVIOUS
  <1>2. q \in [1..Len(q) -> Y] /\ Len(q) \in Nat
    OBVIOUS
  <1>. QED BY <1>1, <1>2

Excused(operation) ==
    operation = "remove_books" \/ (operation = "remove_items" /\ CustomSeries)

LEMMA StartConsistent ==
    ASSUME Consistent, call = None, NEW want, want = [b \in Books |-> want[b]], NEW t,
           NEW operation \in Operations, NEW excused, excused => Excused(operation),
           Done(Path(Multiple, NamesOf(db), want), Begin(mem, db), want, t, excused),
           Start(operation, t, want)
    PROVE  Consistent'
  <1>. DEFINE before == NamesOf(db)
              A == Path(Multiple, before, want)
              c == [operation |-> operation,
                    statements |-> t.statements, result |-> t.mem, dirtied |-> t.dirtied,
                    before |-> before, want |-> want]
  <1>1. /\ t \in States(A) /\ t.mem = Read(t.db)
        /\ \A b \in Books : Words(t.db, b) = want[b]
        /\ \A b \in Books \ t.dirtied :
              names(t.mem, b) = names(mem, b) \/ (excused /\ want[b] = {})
    BY DEF Done, Begin
  <1>2. /\ call' = c /\ Multiple' = Multiple /\ CustomSeries' = CustomSeries /\ mem' = mem
        /\ db' = db /\ intact' = intact
    BY DEF Start, NamesOf
  <1>3. /\ Sound(Multiple, db) /\ mem = Read(db) /\ Agrees(mem)
        /\ Multiple \in Kinds /\ CustomSeries \in BOOLEAN /\ intact \in BOOLEAN
    BY DEF Consistent
  <1>4. before \in [Books -> Seq(Names)] /\ \A b \in Books : before[b] = names(Read(db), b)
    BY <1>3, NamesFacts DEF NamesOf
  <1>5. want \in [Books -> SUBSET {icu_lower(n) : n \in Names}]
    <2>1. ASSUME NEW b \in Books PROVE want[b] \in SUBSET {icu_lower(n) : n \in Names}
      <3>1. t.db \in Database /\ ToSet(t.db.links[b]) \subseteq Rows(t.db)
        BY <1>1, StateFacts DEF Sound
      <3>2. \A i \in Rows(t.db) : t.db.rows[i] \in Names
        BY <3>1 DEF Rows, Database
      <3>. QED BY <1>1, <3>1, <3>2 DEF Words
    <2>. QED BY <2>1
  <1>. HIDE DEF before
  <1>6. /\ t.statements \in Seq(OnPath(Multiple, A)) /\ t.db = LastDb(db, t.statements)
        /\ t.mem \in Memory /\ t.dirtied \in SUBSET Books
        /\ \A b \in Books : Words(db, b) \in A[b]
    <2>1. LeadsTo(A, db, want)
      BY <1>3, PathFacts DEF before
    <2>2. Agrees(t.mem) /\ t.dirtied \in SUBSET Books
      BY <1>1, StateFacts
    <2>. QED BY <1>1, <2>1, <2>2 DEF States, LeadsTo, Agrees
  <1>7. t.statements \in Seq([mem : Memory, db : Database])
    <2>1. OnPath(Multiple, A) \subseteq [mem : Memory, db : Database]
      BY DEF OnPath
    <2>. HIDE DEF A
    <2>. DEFINE X == OnPath(Multiple, A)
                Y == [mem : Memory, db : Database]
    <2>2. X \subseteq Y /\ t.statements \in Seq(X)
      BY <1>6, <2>1
    <2>. HIDE DEF X, Y
    <2>3. t.statements \in Seq(Y)
      BY <2>2, SeqMore
    <2>. QED BY <2>3 DEF Y
  <1>8. c \in Calls
    BY <1>4, <1>5, <1>6, <1>7 DEF Calls
  <1>9. CallOk(Multiple, CustomSeries, db, c)
    <2>0. excused => Unmarked(CustomSeries, c) = {b \in Books : want[b] = {}}
      BY DEF Unmarked, Excused
    <2>1. \A b \in Books \ (c.dirtied \cup Unmarked(CustomSeries, c)) :
             names(c.result, b) = c.before[b]
      <3>. SUFFICES ASSUME NEW b \in Books, b \notin t.dirtied, b \notin Unmarked(CustomSeries, c)
                    PROVE  names(t.mem, b) = before[b]
        OBVIOUS
      <3>1. names(t.mem, b) = names(mem, b) \/ (excused /\ want[b] = {})
        BY <1>1
      <3>. HIDE DEF c
      <3>2. ~ (excused /\ want[b] = {})
        BY <2>0
      <3>. QED BY <1>3, <1>4, <3>1, <3>2
    <2>. QED BY <1>1, <1>6, <1>8, <2>1 DEF CallOk
  <1>10. c # None
    BY <1>8, NoneIsNoCall
  <1>. HIDE DEF c
  <1>. QED BY <1>2, <1>3, <1>9, <1>10 DEF Consistent

LEMMA LastTail ==
    ASSUME NEW X, NEW q \in Seq(X), q # <<>>, NEW d
    PROVE  LastDb(Head(q).db, Tail(q)) = LastDb(d, q)
  <1>1. Len(q) \in Nat /\ Len(q) >= 1 /\ Head(q) = q[1]
    BY EmptySeq
  <1>. PICK r \in Seq(X) : r = Tail(q)
    BY HeadTailProperties
  <1>2. Len(r) = Len(q) - 1 /\ \A k \in 1..Len(r) : r[k] = q[k + 1]
    BY HeadTailProperties
  <1>3. r = <<>> <=> Len(r) = 0
    BY EmptySeq, Zenon
  <1>4. CASE r = <<>>
    BY <1>1, <1>2, <1>3, <1>4 DEF LastDb
  <1>5. CASE r # <<>>
    <2>1. Len(r) \in 1..Len(r) /\ Len(r) + 1 = Len(q)
      BY <1>1, <1>2, <1>3, <1>5
    <2>2. r[Len(r)] = q[Len(q)]
      BY <1>2, <2>1
    <2>. QED BY <1>5, <2>2 DEF LastDb
  <1>. QED BY <1>4, <1>5

LEMMA StatementConsistent ==
    ASSUME Consistent, Statement
    PROVE  Consistent'
  <1>. DEFINE A == Path(Multiple, call.before, call.want)
              q == call.statements
              h == Head(q)
              c == [call EXCEPT !.statements = Tail(@)]
              e == LastDb(db, q)
  <1>1. /\ call # None /\ q # <<>> /\ db' = h.db /\ mem' = h.mem /\ call' = c
        /\ Multiple' = Multiple /\ CustomSeries' = CustomSeries /\ intact' = intact
    BY DEF Statement
  <1>2. /\ call \in Calls /\ q \in Seq(OnPath(Multiple, A)) /\ call.result = Read(e)
        /\ \A b \in Books : Words(e, b) = call.want[b]
        /\ \A b \in Books \ (call.dirtied \cup Unmarked(CustomSeries, call)) :
              names(call.result, b) = call.before[b]
    BY <1>1 DEF Consistent, CallOk
  <1>3. h \in OnPath(Multiple, A) /\ Tail(q) \in Seq(OnPath(Multiple, A))
    <2>. HIDE DEF A, q
    <2>. QED BY <1>1, <1>2
  <1>4. Agrees(h.mem) /\ Sound(Multiple, h.db) /\ \A b \in Books : Words(h.db, b) \in A[b]
    BY <1>3 DEF OnPath
  <1>5. LastDb(h.db, Tail(q)) = e
    <2>. HIDE DEF A, q
    <2>. QED BY <1>1, <1>2, LastTail
  <1>6. /\ c \in Calls /\ c.statements = Tail(q) /\ c.result = call.result
        /\ c.dirtied = call.dirtied /\ c.before = call.before /\ c.want = call.want
        /\ c.operation = call.operation
    <2>1. q \in Seq([mem : Memory, db : Database])
      BY <1>2 DEF Calls
    <2>2. Tail(q) \in Seq([mem : Memory, db : Database])
      <3>. HIDE DEF q
      <3>. QED BY <1>1, <2>1
    <2>. QED BY <1>2, <2>2 DEF Calls
  <1>. HIDE DEF c, q, h, e
  <1>7. CallOk(Multiple, CustomSeries, h.db, c)
    <2>1. Unmarked(CustomSeries, c) = Unmarked(CustomSeries, call)
      BY <1>6 DEF Unmarked
    <2>. QED BY <1>2, <1>3, <1>4, <1>5, <1>6, <2>1 DEF CallOk
  <1>8. c # None
    BY <1>6, NoneIsNoCall
  <1>9. Multiple \in Kinds /\ CustomSeries \in BOOLEAN /\ intact \in BOOLEAN
    BY DEF Consistent
  <1>. QED BY <1>1, <1>4, <1>7, <1>8, <1>9 DEF Consistent

LEMMA ReturnConsistent ==
    ASSUME Consistent, Return
    PROVE  Consistent'
  <1>1. /\ call # None /\ call.statements = <<>> /\ mem' = call.result /\ call' = None
        /\ Multiple' = Multiple /\ CustomSeries' = CustomSeries /\ db' = db /\ intact' = intact
    BY DEF Return, Finished
  <1>2. /\ Multiple \in Kinds /\ CustomSeries \in BOOLEAN /\ intact \in BOOLEAN
        /\ Sound(Multiple, db)
        /\ call.result = Read(LastDb(db, call.statements))
    BY <1>1 DEF Consistent, CallOk
  <1>3. call.result = Read(db)
    BY <1>1, <1>2 DEF LastDb
  <1>4. Agrees(Read(db))
    BY <1>2, ReadFacts
  <1>. QED BY <1>1, <1>2, <1>3, <1>4 DEF Consistent

LEMMA RestartConsistent ==
    ASSUME Consistent, Restart
    PROVE  Consistent'
  <1>1. /\ mem' = Read(db) /\ call' = None /\ intact' = TRUE
        /\ Multiple' = Multiple /\ CustomSeries' = CustomSeries /\ db' = db
    BY DEF Restart
  <1>2. Multiple \in Kinds /\ CustomSeries \in BOOLEAN /\ Sound(Multiple, db)
    BY DEF Consistent
  <1>3. Agrees(Read(db))
    BY <1>2, ReadFacts
  <1>. QED BY <1>1, <1>2, <1>3 DEF Consistent

\* The libraries and the calls that the theorems are about: no two items whose
\* names differ in case only, and one item at a time in rename_items(); with
\* two, rename_item() may get the id of an item that is gone.
Ordinary == "duplicates" \notin Faults /\ MaxRenames <= 1

LEMMA CallsConsistent ==
    ASSUME Ordinary, Consistent, SetField \/ RenameItems \/ RemoveSomeItems \/ RemoveBooks
    PROVE  Consistent'
  <1>. DEFINE s == Begin(mem, db)
              Calling(operation, want, t, excused) ==
                /\ call = None /\ Start(operation, t, want) /\ want = [b \in Books |-> want[b]]
                /\ Done(Path(Multiple, NamesOf(db), want), s, want, t, excused)
  <1>1. call = None => Sound(Multiple, db) /\ mem = Read(db)
    BY DEF Consistent
  <1>2. ASSUME NEW operation \in Operations, NEW want, NEW t, NEW excused,
               excused => Excused(operation), Calling(operation, want, t, excused)
        PROVE  Consistent'
    BY <1>2, StartConsistent
  <1>3. CASE SetField
    <2>1. PICK S \in (SUBSET Books) \ {{}} : \E val_map \in [S -> Values], allow \in BOOLEAN :
            /\ Fits(UNION {ToSet(val_map[b]) : b \in S}, {})
            /\ Start("set_field", set_books(s, val_map, allow),
                     [b \in Books |-> IF b \in S THEN NewWords(val_map[b]) ELSE Words(db, b)])
      BY <1>3 DEF SetField
    <2>2. PICK val_map \in [S -> Values], allow \in BOOLEAN :
            /\ Fits(UNION {ToSet(val_map[b]) : b \in S}, {})
            /\ Start("set_field", set_books(s, val_map, allow),
                     [b \in Books |-> IF b \in S THEN NewWords(val_map[b]) ELSE Words(db, b)])
      BY <2>1
    <2>. DEFINE want == [b \in Books |-> IF b \in S THEN NewWords(val_map[b]) ELSE Words(db, b)]
                t == set_books(s, val_map, allow)
    <2>3. Start("set_field", t, want)
      BY <2>2
    <2>4. want = [b \in Books |-> want[b]]
      OBVIOUS
    <2>5. call = None
      BY <2>3 DEF Start
    <2>6. LeadsTo(Path(Multiple, NamesOf(db), want), db, want)
      <3>. HIDE DEF want
      <3>. QED BY <1>1, <2>5, PathFacts
    <2>7. Done(Path(Multiple, NamesOf(db), want), s, want, t, FALSE)
      <3>1. want = [b \in Books |-> IF b \in S THEN NewWords(val_map[b]) ELSE Words(db, b)]
            /\ t = set_books(Begin(mem, db), val_map, allow)
        OBVIOUS
      <3>. HIDE DEF want, t
      <3>. QED BY <1>1, <2>2, <2>5, <2>6, <3>1, SetFieldDone
    <2>. HIDE DEF want, t, s
    <2>9. "set_field" \in Operations /\ (FALSE => Excused("set_field"))
      BY DEF Operations, Excused
    <2>. QED BY <1>2, <2>3, <2>4, <2>5, <2>7, <2>9
  <1>4. CASE RenameItems
    <2>1. PICK I \in (SUBSET Known(mem)) \ {{}}, S \in SUBSET Books :
            /\ Cardinality(I) <= MaxRenames
            /\ \E f \in [I -> Values \ {<<>>}] :
                /\ Fits(UNION {ToSet(f[i]) : i \in I}, I)
                /\ Start("rename_items", rename_items(s, f, S), Wanted(f, S))
      BY <1>4 DEF RenameItems
    <2>2. PICK f \in [I -> Values \ {<<>>}] :
                /\ Fits(UNION {ToSet(f[i]) : i \in I}, I)
                /\ Start("rename_items", rename_items(s, f, S), Wanted(f, S))
      BY <2>1
    <2>. DEFINE want == Wanted(f, S)
                t == rename_items(s, f, S)
    <2>3. Start("rename_items", t, want)
      BY <2>2
    <2>4. want = [b \in Books |-> want[b]]
      BY DEF Wanted
    <2>5. call = None
      BY <2>3 DEF Start
    <2>6. LeadsTo(Path(Multiple, NamesOf(db), want), db, want)
      <3>. HIDE DEF want
      <3>. QED BY <1>1, <2>5, PathFacts
    <2>7. Cardinality(I) <= 1
      <3>1. IsFiniteSet(Items) /\ I \in SUBSET Items
        BY Interval, LinkTableAssumption DEF Items, Known
      <3>2. Cardinality(I) \in Nat
        BY <3>1, FS_Subset, FS_CardinalityType
      <3>. QED BY <2>1, <3>2, LinkTableAssumption DEF Ordinary
    <2>8. Done(Path(Multiple, NamesOf(db), want), s, want, t, FALSE)
      <3>1. want = Wanted(f, S) /\ t = rename_items(Begin(mem, db), f, S)
        OBVIOUS
      <3>2. I \in SUBSET Known(mem) /\ I # {}
        BY <2>1
      <3>. HIDE DEF want, t
      <3>. QED BY <1>1, <2>2, <2>5, <2>6, <2>7, <3>1, <3>2, RenameItemsDone
    <2>. HIDE DEF want, t, s
    <2>9. "rename_items" \in Operations /\ (FALSE => Excused("rename_items"))
      BY DEF Operations, Excused
    <2>. QED BY <1>2, <2>3, <2>4, <2>5, <2>8, <2>9
  <1>5. CASE RemoveSomeItems
    <2>1. PICK I \in (SUBSET Items) \ {{}}, S \in SUBSET Books :
            Start("remove_items", remove_items(s, I, S), Wanted([i \in I |-> <<>>], S))
      BY <1>5 DEF RemoveSomeItems
    <2>. DEFINE want == Wanted([i \in I |-> <<>>], S)
                t == remove_items(s, I, S)
    <2>3. Start("remove_items", t, want)
      BY <2>1
    <2>4. want = [b \in Books |-> want[b]]
      BY DEF Wanted
    <2>5. call = None
      BY <2>3 DEF Start
    <2>6. LeadsTo(Path(Multiple, NamesOf(db), want), db, want)
      <3>. HIDE DEF want
      <3>. QED BY <1>1, <2>5, PathFacts
    <2>7. Done(Path(Multiple, NamesOf(db), want), s, want, t, CustomSeries)
      <3>1. want = Wanted([i \in I |-> <<>>], S) /\ t = remove_items(Begin(mem, db), I, S)
        OBVIOUS
      <3>. HIDE DEF want, t
      <3>. QED BY <1>1, <2>5, <2>6, <3>1, RemoveSomeItemsDone
    <2>. HIDE DEF want, t, s
    <2>9. "remove_items" \in Operations /\ (CustomSeries => Excused("remove_items"))
      BY DEF Operations, Excused
    <2>. QED BY <1>2, <2>3, <2>4, <2>5, <2>7, <2>9
  <1>6. CASE RemoveBooks
    <2>1. PICK S \in (SUBSET Books) \ {{}} :
            Start("remove_books", remove_books(s, S),
                  [b \in Books |-> IF b \in S THEN {} ELSE Words(db, b)])
      BY <1>6 DEF RemoveBooks
    <2>. DEFINE want == [b \in Books |-> IF b \in S THEN {} ELSE Words(db, b)]
                t == remove_books(s, S)
    <2>3. Start("remove_books", t, want)
      BY <2>1
    <2>4. want = [b \in Books |-> want[b]]
      OBVIOUS
    <2>5. call = None
      BY <2>3 DEF Start
    <2>6. LeadsTo(Path(Multiple, NamesOf(db), want), db, want)
      <3>. HIDE DEF want
      <3>. QED BY <1>1, <2>5, PathFacts
    <2>7. Done(Path(Multiple, NamesOf(db), want), s, want, t, TRUE)
      <3>1. want = [b \in Books |-> IF b \in S THEN {} ELSE Words(db, b)]
            /\ t = remove_books(Begin(mem, db), S)
        OBVIOUS
      <3>. HIDE DEF want, t
      <3>. QED BY <1>1, <2>5, <2>6, <3>1, RemoveSomeBooksDone
    <2>. HIDE DEF want, t, s
    <2>9. "remove_books" \in Operations /\ (TRUE => Excused("remove_books"))
      BY DEF Operations, Excused
    <2>. QED BY <1>2, <2>3, <2>4, <2>5, <2>7, <2>9
  <1>. QED BY <1>3, <1>4, <1>5, <1>6

\* What a step may do that no statement fails at.
LEMMA StepConsistent ==
    ASSUME Ordinary, Consistent, intact', [Next]_vars
    PROVE  Consistent'
  <1>1. CASE SetField \/ RenameItems \/ RemoveSomeItems \/ RemoveBooks
    BY <1>1, CallsConsistent
  <1>2. CASE Statement
    BY <1>2, StatementConsistent
  <1>3. CASE StatementFails
    BY <1>3 DEF StatementFails
  <1>4. CASE Return
    BY <1>4, ReturnConsistent
  <1>5. CASE Restart
    BY <1>5, RestartConsistent
  <1>6. CASE UNCHANGED vars
    <2>1. /\ Multiple' = Multiple /\ CustomSeries' = CustomSeries /\ mem' = mem /\ db' = db
          /\ call' = call /\ intact' = intact
      BY <1>6 DEF vars
    <2>. QED BY <2>1 DEF Consistent
  <1>. QED BY <1>1, <1>2, <1>3, <1>4, <1>5, <1>6 DEF Next

\* The statements that are left are accepted, so that none fails of itself.
LEMMA HeadAccepted ==
    ASSUME Consistent, call # None, call.statements # <<>>
    PROVE  Accepted(Head(call.statements).db)
  <1>. DEFINE X == OnPath(Multiple, Path(Multiple, call.before, call.want))
              q == call.statements
  <1>1. q \in Seq(X)
    BY DEF Consistent, CallOk
  <1>2. Head(q) \in X
    <2>. HIDE DEF X, q
    <2>. QED BY <1>1, HeadTailProperties DEF q
  <1>3. Sound(Multiple, Head(q).db)
    BY <1>2 DEF OnPath
  <1>. QED BY <1>3, SoundAccepted

LEMMA StepIntact ==
    ASSUME Failing = {}, Consistent, intact, [Next]_vars
    PROVE  intact'
  <1>1. CASE SetField \/ RenameItems \/ RemoveSomeItems \/ RemoveBooks
    BY <1>1 DEF SetField, RenameItems, RemoveSomeItems, RemoveBooks, Start
  <1>2. CASE Statement
    BY <1>2 DEF Statement
  <1>3. CASE StatementFails
    BY <1>3, HeadAccepted DEF StatementFails
  <1>4. CASE Return
    BY <1>4 DEF Return
  <1>5. CASE Restart
    BY <1>5 DEF Restart
  <1>6. CASE UNCHANGED vars
    BY <1>6 DEF vars
  <1>. QED BY <1>1, <1>2, <1>3, <1>4, <1>5, <1>6 DEF Next

LEMMA ConsistentSafe ==
    ASSUME Consistent
    PROVE  /\ MemoryIsDatabase /\ StatementsAccepted /\ MapsAgree
           /\ ValuesAsAsked /\ ChangesMarked /\ AllOrNothing
  <1>. DEFINE A == Path(Multiple, call.before, call.want)
  <1>1. /\ Multiple \in Kinds /\ CustomSeries \in BOOLEAN /\ intact \in BOOLEAN
        /\ Sound(Multiple, db) /\ Agrees(mem)
        /\ call = None => mem = Read(db)
        /\ call # None =>
            /\ call \in Calls
            /\ \A b \in Books : Words(db, b) \in A[b]
            /\ call.result = Read(LastDb(db, call.statements))
            /\ \A b \in Books : Words(LastDb(db, call.statements), b) = call.want[b]
            /\ \A b \in Books \ (call.dirtied \cup Unmarked(CustomSeries, call)) :
                  names(call.result, b) = call.before[b]
    BY DEF Consistent, CallOk
  <1>2. MemoryIsDatabase
    BY <1>1 DEF MemoryIsDatabase
  <1>3. StatementsAccepted
    BY HeadAccepted DEF StatementsAccepted
  <1>4. MapsAgree
    BY <1>1 DEF MapsAgree, TypeOK, Agrees, Sound
  <1>5. Finished => LastDb(db, call.statements) = db
    BY DEF Finished, LastDb
  <1>6. ValuesAsAsked
    BY <1>1, <1>5 DEF ValuesAsAsked, Finished
  <1>7. ChangesMarked
    BY <1>1, <1>5 DEF ChangesMarked, Finished
  <1>8. AllOrNothing
    <2>. SUFFICES ASSUME call # None, NEW b \in Books
                  PROVE  IF Multiple THEN Words(db, b) \subseteq NewWords(call.before[b]) \cup call.want[b]
                         ELSE Words(db, b) \in {NewWords(call.before[b]), call.want[b]}
      BY DEF AllOrNothing, NewWords
    <2>1. Words(db, b) \in A[b]
      BY <1>1
    <2>. QED BY <2>1 DEF Path
  <1>. QED BY <1>2, <1>3, <1>4, <1>6, <1>7, <1>8

-------------------------------------------------------------------------------
(* After a failure *)

\* Whatever failed, in a column whose names SQLite compares as the code does.
Steady ==
    /\ Multiple \in Kinds /\ CustomSeries \in BOOLEAN /\ intact \in BOOLEAN
    /\ Accepted(db) /\ Usable(db) /\ Agrees(mem)
    /\ call = None => Ahead(mem, db)
    /\ call # None =>
        /\ call \in Calls
        /\ AllAhead(db, call.statements)
        /\ Ahead(call.result, LastDb(db, call.statements))

AllWords == {icu_lower(n) : n \in Names}

LEMMA SoundAhead ==
    ASSUME NEW multi, NEW d, Sound(multi, d), Usable(d)
    PROVE  Ahead(Read(d), d)
  <1>. PICK m : m = Read(d)
    OBVIOUS
  <1>1. Agrees(m) /\ Known(m) = Rows(d) /\ m.id_map = d.rows /\ m.book_col_map = d.links
    BY ReadFacts
  <1>2. Recorded(m) = d
    BY <1>1 DEF Recorded, Usable, Database
  <1>3. Sound(TRUE, d)
    BY DEF Sound
  <1>. QED BY <1>1, <1>2, <1>3 DEF Ahead

LEMMA AcceptedSound ==
    ASSUME NEW d, Ascii, Accepted(d), Usable(d)
    PROVE  Sound(Multiple, d)
  BY DEF Accepted, SameToSQLite, Usable, Sound

LEMMA ConsistentSteady ==
    ASSUME Consistent, call = None
    PROVE  Steady
  <1>1. /\ Multiple \in Kinds /\ CustomSeries \in BOOLEAN /\ intact \in BOOLEAN
        /\ Sound(Multiple, db)
        /\ Agrees(mem) /\ mem = Read(db)
    BY DEF Consistent
  <1>2. Usable(db) /\ Accepted(db)
    BY <1>1, SoundAccepted DEF Usable, Sound
  <1>3. Ahead(mem, db)
    BY <1>1, <1>2, SoundAhead
  <1>. QED BY <1>1, <1>2, <1>3 DEF Steady

LEMMA AheadBegin ==
    ASSUME Ahead(mem, db)
    PROVE  /\ Begin(mem, db) \in AheadStates
           /\ Begin(mem, db).mem = mem /\ Begin(mem, db).db = db
  <1>1. mem \in Memory /\ db \in Database
    BY DEF Ahead, Agrees, Usable
  <1>2. AllAhead(db, <<>>) /\ LastDb(db, <<>>) = db
    BY DEF AllAhead, LastDb
  <1>. PICK s : s = Begin(mem, db)
    OBVIOUS
  <1>3. s = [mem |-> mem, db |-> db, statements |-> <<>>, dirtied |-> {}]
    BY DEF Begin
  <1>4. s \in AheadStates
    BY <1>1, <1>2, <1>3 DEF AheadStates
  <1>. QED BY <1>3, <1>4

LEMMA WordsTyped ==
    ASSUME NEW d, Accepted(d), Usable(d), NEW b \in Books
    PROVE  Words(d, b) \subseteq AllWords /\ names(Read(d), b) \in Seq(Names)
  <1>1. d.rows \in [Items -> Names \cup {None}] /\ d.links[b] \in Seq(Items)
        /\ ToSet(d.links[b]) \subseteq Rows(d)
    BY DEF Accepted, Usable, Database
  <1>2. \A i \in Rows(d) : d.rows[i] \in Names
    BY <1>1 DEF Rows
  <1>3. Words(d, b) \subseteq AllWords
    BY <1>1, <1>2 DEF Words, AllWords
  <1>4. \A k \in DOMAIN d.links[b] : d.links[b][k] \in ToSet(d.links[b])
    BY DEF ToSet
  <1>. PICK q : q = d.links[b]
    OBVIOUS
  <1>5. names(Read(d), b) = [k \in DOMAIN q |-> d.rows[q[k]]]
    BY DEF names, Read
  <1>6. \A k \in DOMAIN q : d.rows[q[k]] \in Names
    BY <1>1, <1>2, <1>4
  <1>7. q \in Seq(Items)
    BY <1>1
  <1>8. \A m \in Nat : \A f \in [1..m -> Names] : f \in Seq(Names)
    OBVIOUS
  <1>9. DOMAIN q = 1..Len(q) /\ Len(q) \in Nat
    BY <1>7
  <1>10. [k \in DOMAIN q |-> d.rows[q[k]]] \in [1..Len(q) -> Names]
    BY <1>6, <1>9
  <1>. QED BY <1>3, <1>5, <1>8, <1>9, <1>10

\* The kind of column never changes, on which these definitions depend.
LEMMA AheadNext ==
    ASSUME Multiple' = Multiple
    PROVE  /\ \A d : Usable(d) => Usable(d)'
           /\ \A m, d : Ahead(m, d) => Ahead(m, d)'
           /\ \A d, q : AllAhead(d, q) => AllAhead(d, q)'
  <1>1. ASSUME NEW d PROVE Usable(d) <=> Usable(d)'
    BY DEF Usable
  <1>2. ASSUME NEW m, NEW d PROVE Ahead(m, d) <=> Ahead(m, d)'
    BY <1>1 DEF Ahead
  <1>3. ASSUME NEW d, NEW q, AllAhead(d, q) PROVE AllAhead(d, q)'
    BY <1>2, <1>3 DEF AllAhead
  <1>. QED BY <1>1, <1>2, <1>3

LEMMA StartSteady ==
    ASSUME Steady, call = None, NEW t, t \in AheadStates, NEW want,
           want \in [Books -> SUBSET AllWords], NEW operation \in Operations,
           Start(operation, t, want)
    PROVE  Steady'
  <1>. PICK before : before = [b \in Books |-> names(Read(db), b)]
    OBVIOUS
  <1>. PICK c : c = [operation |-> operation, statements |-> t.statements,
                    result |-> t.mem, dirtied |-> t.dirtied,
                    before |-> before, want |-> want]
    OBVIOUS
  <1>1. /\ call' = c /\ Multiple' = Multiple /\ CustomSeries' = CustomSeries
        /\ mem' = mem /\ db' = db /\ intact' = intact
    BY DEF Start
  <1>2. /\ Multiple \in Kinds /\ CustomSeries \in BOOLEAN /\ intact \in BOOLEAN
        /\ Accepted(db) /\ Usable(db) /\ Agrees(mem)
    BY DEF Steady
  <1>3. before \in [Books -> Seq(Names)]
    BY <1>2, WordsTyped
  <1>4. /\ t.statements \in Seq([mem : Memory, db : Database]) /\ t.mem \in Memory
        /\ t.dirtied \in SUBSET Books /\ Ahead(t.mem, t.db)
        /\ t.db = LastDb(db, t.statements) /\ AllAhead(db, t.statements)
    BY DEF AheadStates
  <1>5. c \in Calls
    BY <1>3, <1>4 DEF Calls, AllWords
  <1>6. c.statements = t.statements /\ c.result = t.mem /\ c # None
    BY <1>5, NoneIsNoCall
  <1>. PICK d : d = db
    OBVIOUS
  <1>7. AllAhead(d, c.statements) /\ Ahead(c.result, LastDb(d, c.statements)) /\ Usable(d)
    BY <1>2, <1>4, <1>6
  <1>. PICK e : e = LastDb(d, c.statements)
    OBVIOUS
  <1>8. AllAhead(d, c.statements)' /\ Ahead(c.result, e)' /\ Usable(d)'
    BY <1>1, <1>7, AheadNext
  <1>. QED BY <1>1, <1>2, <1>5, <1>6, <1>8 DEF Steady

LEMMA StatementSteady ==
    ASSUME Steady, Statement
    PROVE  Steady'
  <1>0. \A n \in Nat : n >= 1 /\ n # 1 => 2 \in 2..n
    OBVIOUS
  <1>. PICK q : q = call.statements
    OBVIOUS
  <1>. PICK c : c = [call EXCEPT !.statements = Tail(q)]
    OBVIOUS
  <1>. PICK d : d = db
    OBVIOUS
  <1>1. /\ call # None /\ q # <<>> /\ Accepted(Head(q).db)
        /\ db' = Head(q).db /\ mem' = Head(q).mem /\ call' = c
        /\ Multiple' = Multiple /\ CustomSeries' = CustomSeries /\ intact' = intact
    BY DEF Statement
  <1>2. /\ Multiple \in Kinds /\ CustomSeries \in BOOLEAN /\ intact \in BOOLEAN /\ call \in Calls
        /\ AllAhead(d, q) /\ Ahead(call.result, LastDb(d, q))
    BY <1>1 DEF Steady
  <1>. DEFINE X == [mem : Memory, db : Database]
  <1>3. q \in Seq(X)
    BY <1>2 DEF Calls
  <1>4. /\ Head(q) = q[1] /\ Len(q) \in Nat /\ Len(q) >= 1 /\ Tail(q) \in Seq(X)
        /\ Len(Tail(q)) = Len(q) - 1 /\ \A k \in 1..Len(Tail(q)) : Tail(q)[k] = q[k + 1]
    <2>. HIDE DEF X
    <2>. QED BY <1>1, <1>3, HeadTailProperties, EmptySeq
  <1>. PICK r : r = Tail(q)
    OBVIOUS
  <1>. PICK h : h = Head(q)
    OBVIOUS
  <1>5. Ahead(h.mem, d)
    BY <1>2, <1>4 DEF AllAhead
  <1>6. \A k \in 2..Len(q) : Ahead(q[k].mem, q[k - 1].db)
    BY <1>2 DEF AllAhead
  <1>7. AllAhead(h.db, r)
    <2>. SUFFICES ASSUME NEW k \in 1..Len(r)
                  PROVE  Ahead(r[k].mem, IF k = 1 THEN h.db ELSE r[k - 1].db)
      BY DEF AllAhead
    <2>1. k + 1 \in 2..Len(q) /\ r[k] = q[k + 1] /\ (k + 1) - 1 = k
      BY <1>4
    <2>2. Ahead(r[k].mem, q[k].db)
      BY <1>6, <2>1
    <2>3. q[k] = IF k = 1 THEN h ELSE r[k - 1]
      <3>1. k # 1 => k - 1 \in 1..Len(r) /\ (k - 1) + 1 = k
        BY <1>4
      <3>. QED BY <1>4, <3>1
    <2>. QED BY <2>2, <2>3
  <1>8. LastDb(h.db, r) = LastDb(d, q)
    <2>. HIDE DEF X
    <2>. QED BY <1>1, <1>3, LastTail
  <1>9. Usable(h.db)
    <2>1. CASE Len(q) = 1
      <3>1. LastDb(d, q) = h.db
        BY <1>1, <1>4, <2>1 DEF LastDb
      <3>. QED BY <1>2, <3>1 DEF Ahead
    <2>2. CASE Len(q) # 1
      <3>1. 2 \in 2..Len(q)
        BY <1>0, <1>4, <2>2
      <3>2. Ahead(q[2].mem, q[2 - 1].db)
        BY <1>6, <3>1
      <3>3. Ahead(q[2].mem, h.db)
        BY <1>4, <3>2
      <3>. QED BY <3>3 DEF Ahead
    <2>. QED BY <2>1, <2>2
  <1>10. c \in Calls /\ c.statements = r /\ c.result = call.result /\ c # None
    <2>1. c \in Calls /\ c.statements = r /\ c.result = call.result
      BY <1>2, <1>4 DEF Calls
    <2>. QED BY <2>1, NoneIsNoCall
  <1>11. /\ Usable(h.db)' /\ AllAhead(h.db, c.statements)'
         /\ Ahead(c.result, LastDb(h.db, c.statements))'
    <2>. PICK e : e = h.db
      OBVIOUS
    <2>. PICK f : f = LastDb(h.db, r)
      OBVIOUS
    <2>1. Ahead(c.result, f) /\ AllAhead(e, r) /\ Usable(e)
      BY <1>2, <1>7, <1>8, <1>9, <1>10
    <2>2. Ahead(c.result, f)' /\ AllAhead(e, r)' /\ Usable(e)'
      BY <1>1, <2>1, AheadNext
    <2>. QED BY <1>10, <2>2
  <1>12. Agrees(h.mem)
    BY <1>5 DEF Ahead
  <1>. QED BY <1>1, <1>2, <1>10, <1>11, <1>12 DEF Steady

LEMMA FailureSteady ==
    ASSUME Steady, StatementFails
    PROVE  Steady'
  <1>. PICK q : q = call.statements
    OBVIOUS
  <1>. PICK d : d = db
    OBVIOUS
  <1>. PICK m : m = Head(q).mem
    OBVIOUS
  <1>1. /\ call # None /\ q # <<>> /\ mem' = m /\ call' = None /\ intact' = FALSE
        /\ Multiple' = Multiple /\ CustomSeries' = CustomSeries /\ db' = d
    BY DEF StatementFails
  <1>2. /\ Multiple \in Kinds /\ CustomSeries \in BOOLEAN /\ Accepted(d) /\ Usable(d)
        /\ AllAhead(d, q) /\ call \in Calls
    BY <1>1 DEF Steady
  <1>3. Head(q) = q[1] /\ 1 \in 1..Len(q)
    <2>. DEFINE X == [mem : Memory, db : Database]
    <2>1. q \in Seq(X)
      BY <1>2 DEF Calls
    <2>. HIDE DEF X
    <2>2. Head(q) = q[1] /\ Len(q) \in Nat /\ Len(q) # 0
      BY <1>1, <2>1, HeadTailProperties, EmptySeq
    <2>. QED BY <2>2
  <1>4. Ahead(m, d)
    BY <1>2, <1>3 DEF AllAhead
  <1>5. Usable(d)' /\ Ahead(m, d)'
    BY <1>1, <1>2, <1>4, AheadNext
  <1>6. Agrees(m)
    BY <1>4 DEF Ahead
  <1>. QED BY <1>1, <1>2, <1>5, <1>6 DEF Steady

LEMMA ReturnSteady ==
    ASSUME Steady, Return
    PROVE  Steady'
  <1>. PICK d : d = db
    OBVIOUS
  <1>. PICK m : m = call.result
    OBVIOUS
  <1>1. /\ call # None /\ call.statements = <<>> /\ mem' = m /\ call' = None
        /\ Multiple' = Multiple /\ CustomSeries' = CustomSeries /\ db' = d /\ intact' = intact
    BY DEF Return, Finished
  <1>2. /\ Multiple \in Kinds /\ CustomSeries \in BOOLEAN /\ intact \in BOOLEAN /\ Accepted(d)
        /\ Usable(d)
        /\ Ahead(m, LastDb(d, call.statements))
    BY <1>1 DEF Steady
  <1>3. Ahead(m, d)
    BY <1>1, <1>2 DEF LastDb
  <1>4. Usable(d)' /\ Ahead(m, d)'
    BY <1>1, <1>2, <1>3, AheadNext
  <1>5. Agrees(m)
    BY <1>3 DEF Ahead
  <1>. QED BY <1>1, <1>2, <1>4, <1>5 DEF Steady

\* A restart mends what failures have done.
LEMMA RestartMends ==
    ASSUME Ascii, Steady, Restart
    PROVE  Consistent'
  <1>1. /\ mem' = Read(db) /\ call' = None /\ intact' = TRUE
        /\ Multiple' = Multiple /\ CustomSeries' = CustomSeries /\ db' = db
    BY DEF Restart
  <1>2. Multiple \in Kinds /\ CustomSeries \in BOOLEAN /\ Sound(Multiple, db)
    BY AcceptedSound DEF Steady
  <1>3. Agrees(Read(db))
    BY <1>2, ReadFacts
  <1>. QED BY <1>1, <1>2, <1>3 DEF Consistent

LEMMA RestartSteady ==
    ASSUME Ascii, Steady, Restart
    PROVE  Steady'
  <1>. PICK d : d = db
    OBVIOUS
  <1>1. /\ mem' = Read(d) /\ call' = None /\ intact' = TRUE
        /\ Multiple' = Multiple /\ CustomSeries' = CustomSeries /\ db' = d
    BY DEF Restart
  <1>2. Multiple \in Kinds /\ CustomSeries \in BOOLEAN /\ Accepted(d) /\ Usable(d)
    BY DEF Steady
  <1>3. Ahead(Read(d), d)
    BY <1>2, AcceptedSound, SoundAhead
  <1>4. Usable(d)' /\ Ahead(Read(d), d)'
    BY <1>1, <1>2, <1>3, AheadNext
  <1>5. Agrees(Read(d))
    BY <1>3 DEF Ahead
  <1>. QED BY <1>1, <1>2, <1>4, <1>5 DEF Steady

\* The names of the field are within the bound: there is room for their words.
LEMMA SetFieldAhead ==
    ASSUME Ahead(mem, db), NEW S \in SUBSET Books, NEW val_map \in [S -> Values],
           NEW allow \in BOOLEAN, Fits(UNION {ToSet(val_map[b]) : b \in S}, {}),
           NEW t, t = set_books(Begin(mem, db), val_map, allow)
    PROVE  t \in AheadStates /\ \A b \in S : NewWords(val_map[b]) \subseteq AllWords
  <1>. DEFINE W == UNION {NewWords(val_map[b]) : b \in S}
  <1>1. \A b \in S : val_map[b] \in Seq(Names) /\ (~ Multiple => Len(val_map[b]) <= 1)
    BY ValuesFacts
  <1>2. IsFiniteSet(W)
    <2>. DEFINE C == {NewWords(val_map[b]) : b \in S}
                f == [b \in S |-> NewWords(val_map[b])]
    <2>1. IsFiniteSet(S)
      <3>1. IsFiniteSet(Books)
        BY Interval, LinkTableAssumption DEF Books
      <3>. QED BY <3>1, FS_Subset
    <2>2. f \in Surjection(S, C)
      BY DEF Surjection
    <2>3. \A T \in C : IsFiniteSet(T)
      BY <1>1, NewWordsFinite
    <2>4. W = UNION C
      OBVIOUS
    <2>. HIDE DEF f, C, W
    <2>5. IsFiniteSet(C)
      BY <2>1, <2>2, FS_Surjection
    <2>. QED BY <2>3, <2>4, <2>5, FS_UNION
  <1>3. {icu_lower(n) : n \in UNION {ToSet(val_map[b]) : b \in S}} = W
    BY DEF NewWords
  <1>4. {icu_lower(mem.id_map[i]) : i \in Known(mem) \ {}} = MemWords(mem)
    BY DEF MemWords
  <1>5. \A b \in S : NewWords(val_map[b]) \subseteq W
    OBVIOUS
  <1>6. \A b \in S : NewWords(val_map[b]) \subseteq AllWords
    BY <1>1 DEF NewWords, ToSet, AllWords
  <1>. HIDE DEF W
  <1>7. RoomFor(mem, db, W)
    BY <1>3, <1>4 DEF Fits, RoomFor
  <1>8. ValuesFor(W, S, val_map)
    BY <1>1, <1>5 DEF ValuesFor
  <1>. PICK s : s = Begin(mem, db)
    OBVIOUS
  <1>9. s \in AheadStates /\ RoomFor(s.mem, s.db, W) /\ t = set_books(s, val_map, allow)
    BY <1>7, AheadBegin
  <1>10. DOMAIN val_map = S
    OBVIOUS
  <1>11. t \in AheadStates
    BY <1>2, <1>8, <1>9, <1>10, AheadSetBooks
  <1>. QED BY <1>6, <1>11

LEMMA WantedTyped ==
    ASSUME Accepted(db), Usable(db), NEW f, NEW S,
           \A i \in DOMAIN f : NewWords(f[i]) \subseteq AllWords
    PROVE  Wanted(f, S) \in [Books -> SUBSET AllWords]
  <1>. SUFFICES ASSUME NEW b \in Books PROVE Wanted(f, S)[b] \subseteq AllWords
    BY DEF Wanted
  <1>. DEFINE had == {i \in DOMAIN f : b \in S /\ i \in ToSet(mem.book_col_map[b])}
  <1>1. Wanted(f, S)[b] = (Words(db, b) \ {icu_lower(mem.id_map[i]) : i \in had})
                                \cup UNION {NewWords(f[i]) : i \in had}
    BY DEF Wanted
  <1>2. had \subseteq DOMAIN f
    OBVIOUS
  <1>. HIDE DEF had
  <1>3. Words(db, b) \subseteq AllWords
    BY WordsTyped
  <1>. QED BY <1>1, <1>2, <1>3

LEMMA RenameItemsAhead ==
    ASSUME Ahead(mem, db), NEW S \in SUBSET Books,
           NEW I \in SUBSET Known(mem), I # {}, Cardinality(I) <= 1,
           NEW f \in [I -> Values \ {<<>>}], Fits(UNION {ToSet(f[i]) : i \in I}, I),
           NEW t, t = rename_items(Begin(mem, db), f, S)
    PROVE  t \in AheadStates /\ \A i \in I : NewWords(f[i]) \subseteq AllWords
  <1>1. PICK i : I = {i}
    <2>1. IsFiniteSet(I)
      <3>1. IsFiniteSet(Items) /\ I \in SUBSET Items
        BY Interval, LinkTableAssumption DEF Items, Known
      <3>. QED BY <3>1, FS_Subset
    <2>2. Cardinality(I) \in Nat /\ Cardinality(I) # 0
      BY <2>1, FS_CardinalityType, FS_EmptySet
    <2>3. Cardinality(I) = 1
      BY <2>2
    <2>. QED BY <2>1, <2>3, FS_Singleton
  <1>2. i \in Known(mem) /\ i \in Items
    BY <1>1 DEF Known
  <1>. PICK ns : ns = f[i]
    OBVIOUS
  <1>3. ns \in Seq(Names) /\ ns # <<>> /\ (~ Multiple => Len(ns) <= 1) /\ DOMAIN f = {i}
    BY <1>1, ValuesFacts
  <1>4. Distinct(mem) /\ Agrees(mem)
    BY RecordedFacts DEF Ahead
  <1>. PICK s : s = Begin(mem, db)
    OBVIOUS
  <1>5. s \in AheadStates /\ s.mem = mem /\ s.db = db
    BY AheadBegin
  <1>6. FittingAhead(s, i, ns)
    <2>1. {icu_lower(n) : n \in UNION {ToSet(f[k]) : k \in I}} = NewWords(ns)
      BY <1>1 DEF NewWords
    <2>2. {icu_lower(mem.id_map[k]) : k \in Known(mem) \ I} = MemWords(mem) \ {icu_lower(mem.id_map[i])}
      BY <1>1, <1>2, <1>4 DEF Distinct, MemWords
    <2>. QED BY <1>5, <2>1, <2>2 DEF Fits, FittingAhead
  <1>. PICK B : B = s.mem.col_book_map[i]
    OBVIOUS
  <1>7. B \in SUBSET Books
    BY <1>2, <1>4, <1>5 DEF Agrees, Memory
  <1>8. IsOneRenamed(s, i, ns, S, B, t)
    <2>1. t = rename_items(s, f, S)
      OBVIOUS
    <2>2. IsOneRenamed(s, i, f[i], S, B, t)
      BY <1>2, <1>3, <2>1, RenameItemsOne
    <2>. QED BY <2>2
  <1>9. i \in Known(s.mem) /\ B \cap S \in SUBSET Books
    BY <1>2, <1>5, <1>7
  <1>10. t \in AheadStates
    <2>1. CASE B \subseteq S
      <3>1. t = RenameItem(s, i, ns)
        BY <1>8, <2>1 DEF IsOneRenamed
      <3>. QED BY <1>3, <1>5, <1>6, <1>9, <3>1, AheadRenameItem
    <2>2. CASE ~ B \subseteq S /\ B \cap S = {}
      BY <1>5, <1>8, <2>2 DEF IsOneRenamed
    <2>3. CASE ~ B \subseteq S /\ B \cap S # {}
      <3>1. t = RenameInBooks(s, i, ns, B \cap S)
        BY <1>8, <2>3 DEF IsOneRenamed
      <3>. PICK Z \in SUBSET Books : Z = B \cap S
        BY <1>9
      <3>2. t = RenameInBooks(s, i, ns, Z)
        BY <3>1
      <3>. QED BY <1>3, <1>5, <1>6, <1>9, <3>2, AheadRenameInBooks
    <2>. QED BY <2>1, <2>2, <2>3
  <1>11. NewWords(ns) \subseteq AllWords
    BY <1>3 DEF NewWords, ToSet, AllWords
  <1>. QED BY <1>1, <1>10, <1>11

LEMMA CallsSteady ==
    ASSUME Ordinary, Steady, SetField \/ RenameItems \/ RemoveSomeItems \/ RemoveBooks
    PROVE  Steady'
  <1>. DEFINE s == Begin(mem, db)
  <1>1. Accepted(db) /\ Usable(db) /\ (call = None => Ahead(mem, db))
    BY DEF Steady
  <1>2. \A b \in Books : Words(db, b) \subseteq AllWords
    BY <1>1, WordsTyped
  <1>3. CASE SetField
    <2>1. PICK S \in SUBSET Books : \E val_map \in [S -> Values], allow \in BOOLEAN :
            /\ Fits(UNION {ToSet(val_map[b]) : b \in S}, {})
            /\ Start("set_field", set_books(s, val_map, allow),
                     [b \in Books |-> IF b \in S THEN NewWords(val_map[b]) ELSE Words(db, b)])
      BY <1>3 DEF SetField
    <2>2. PICK val_map \in [S -> Values], allow \in BOOLEAN :
            /\ Fits(UNION {ToSet(val_map[b]) : b \in S}, {})
            /\ Start("set_field", set_books(s, val_map, allow),
                     [b \in Books |-> IF b \in S THEN NewWords(val_map[b]) ELSE Words(db, b)])
      BY <2>1
    <2>. PICK want :
            want = [b \in Books |-> IF b \in S THEN NewWords(val_map[b]) ELSE Words(db, b)]
      OBVIOUS
    <2>. PICK t : t = set_books(Begin(mem, db), val_map, allow)
      OBVIOUS
    <2>3. Start("set_field", t, want) /\ call = None
      BY <2>2 DEF Start
    <2>4. t \in AheadStates /\ \A b \in S : NewWords(val_map[b]) \subseteq AllWords
      BY <1>1, <2>2, <2>3, SetFieldAhead
    <2>5. want \in [Books -> SUBSET AllWords]
      BY <1>2, <2>4
    <2>9. "set_field" \in Operations
      BY DEF Operations
    <2>. QED BY <2>3, <2>4, <2>5, <2>9, StartSteady
  <1>4. CASE RenameItems
    <2>1. PICK I \in SUBSET Known(mem), S \in SUBSET Books :
            /\ I # {} /\ Cardinality(I) <= MaxRenames
            /\ \E f \in [I -> Values \ {<<>>}] :
                /\ Fits(UNION {ToSet(f[i]) : i \in I}, I)
                /\ Start("rename_items", rename_items(s, f, S), Wanted(f, S))
      BY <1>4 DEF RenameItems
    <2>2. PICK f \in [I -> Values \ {<<>>}] :
                /\ Fits(UNION {ToSet(f[i]) : i \in I}, I)
                /\ Start("rename_items", rename_items(s, f, S), Wanted(f, S))
      BY <2>1
    <2>. PICK want : want = Wanted(f, S)
      OBVIOUS
    <2>. PICK t : t = rename_items(Begin(mem, db), f, S)
      OBVIOUS
    <2>3. Start("rename_items", t, want) /\ call = None
      BY <2>2 DEF Start
    <2>4. Cardinality(I) <= 1
      <3>1. IsFiniteSet(Items) /\ I \in SUBSET Items
        BY Interval, LinkTableAssumption DEF Items, Known
      <3>2. Cardinality(I) \in Nat
        BY <3>1, FS_Subset, FS_CardinalityType
      <3>. QED BY <2>1, <3>2, LinkTableAssumption DEF Ordinary
    <2>5. t \in AheadStates /\ \A i \in I : NewWords(f[i]) \subseteq AllWords
      BY <1>1, <2>1, <2>2, <2>3, <2>4, RenameItemsAhead
    <2>6. want \in [Books -> SUBSET AllWords]
      BY <1>1, <2>5, WantedTyped
    <2>9. "rename_items" \in Operations
      BY DEF Operations
    <2>. QED BY <2>3, <2>5, <2>6, <2>9, StartSteady
  <1>5. CASE RemoveSomeItems
    <2>1. PICK I \in SUBSET Items, S \in SUBSET Books :
            Start("remove_items", remove_items(s, I, S), Wanted([i \in I |-> <<>>], S))
      BY <1>5 DEF RemoveSomeItems
    <2>. PICK f : f = [i \in I |-> <<>>]
      OBVIOUS
    <2>. PICK want : want = Wanted(f, S)
      OBVIOUS
    <2>. PICK t : t = remove_items(Begin(mem, db), I, S)
      OBVIOUS
    <2>2. Start("remove_items", t, want) /\ call = None
      BY <2>1 DEF Start
    <2>3. t \in AheadStates
      <3>. PICK u : u = Begin(mem, db)
        OBVIOUS
      <3>1. u \in AheadStates /\ t = remove_items(u, I, S)
        BY <1>1, <2>2, AheadBegin
      <3>. QED BY <3>1, AheadRemoveItemsOf
    <2>4. \A i \in DOMAIN f : NewWords(f[i]) \subseteq AllWords
      BY DEF NewWords, ToSet
    <2>5. want \in [Books -> SUBSET AllWords]
      BY <1>1, <2>4, WantedTyped
    <2>9. "remove_items" \in Operations
      BY DEF Operations
    <2>. QED BY <2>2, <2>3, <2>5, <2>9, StartSteady
  <1>6. CASE RemoveBooks
    <2>1. PICK S \in SUBSET Books :
            Start("remove_books", remove_books(s, S),
                  [b \in Books |-> IF b \in S THEN {} ELSE Words(db, b)])
      BY <1>6 DEF RemoveBooks
    <2>. PICK want : want = [b \in Books |-> IF b \in S THEN {} ELSE Words(db, b)]
      OBVIOUS
    <2>. PICK t : t = remove_books(Begin(mem, db), S)
      OBVIOUS
    <2>2. Start("remove_books", t, want) /\ call = None
      BY <2>1 DEF Start
    <2>3. t \in AheadStates
      <3>. PICK u : u = Begin(mem, db)
        OBVIOUS
      <3>1. u \in AheadStates /\ t = remove_books(u, S)
        BY <1>1, <2>2, AheadBegin
      <3>. QED BY <3>1, AheadRemoveBooks
    <2>4. want \in [Books -> SUBSET AllWords]
      BY <1>2
    <2>9. "remove_books" \in Operations
      BY DEF Operations
    <2>. QED BY <2>2, <2>3, <2>4, <2>9, StartSteady
  <1>. QED BY <1>3, <1>4, <1>5, <1>6

LEMMA StepSteady ==
    ASSUME Ordinary, Ascii, Steady, [Next]_vars
    PROVE  Steady'
  <1>1. CASE SetField \/ RenameItems \/ RemoveSomeItems \/ RemoveBooks
    BY <1>1, CallsSteady
  <1>2. CASE Statement
    BY <1>2, StatementSteady
  <1>3. CASE StatementFails
    BY <1>3, FailureSteady
  <1>4. CASE Return
    BY <1>4, ReturnSteady
  <1>5. CASE Restart
    BY <1>5, RestartSteady
  <1>6. CASE UNCHANGED vars
    <2>. PICK d : d = db
      OBVIOUS
    <2>. PICK m : m = mem
      OBVIOUS
    <2>. PICK c : c = call
      OBVIOUS
    <2>. PICK e : e = LastDb(d, c.statements)
      OBVIOUS
    <2>1. /\ Multiple' = Multiple /\ CustomSeries' = CustomSeries /\ mem' = m /\ db' = d
          /\ call' = c /\ intact' = intact
      BY <1>6 DEF vars
    <2>2. /\ Multiple \in Kinds /\ CustomSeries \in BOOLEAN /\ intact \in BOOLEAN
          /\ Accepted(d) /\ Usable(d) /\ Agrees(m)
          /\ c = None => Ahead(m, d)
          /\ c # None =>
                c \in Calls /\ AllAhead(d, c.statements) /\ Ahead(c.result, e)
      BY DEF Steady
    <2>3. /\ Usable(d)' /\ (c = None => Ahead(m, d)')
          /\ c # None => AllAhead(d, c.statements)' /\ Ahead(c.result, e)'
      BY <2>1, <2>2, AheadNext
    <2>. QED BY <2>1, <2>2, <2>3 DEF Steady
  <1>. QED BY <1>1, <1>2, <1>3, <1>4, <1>5, <1>6 DEF Next

\* All is consistent until a statement fails, and again after a restart.
Recovers ==
    /\ intact => Consistent
    /\ Ascii => Steady
    /\ Failing = {} => intact

LEMMA StepRecovers ==
    ASSUME Ordinary, Ascii \/ Failing = {}, Recovers, [Next]_vars
    PROVE  Recovers'
  <1>1. /\ intact => Consistent
        /\ Ascii => Steady
        /\ Failing = {} => intact
    BY DEF Recovers
  <1>2. Ascii => Steady'
    BY <1>1, StepSteady
  <1>3. Failing = {} => intact'
    BY <1>1, StepIntact
  <1>4. CASE intact
    <2>1. intact' => Consistent'
      BY <1>1, <1>4, StepConsistent
    <2>. QED BY <1>2, <1>3, <2>1 DEF Recovers
  <1>5. CASE ~ intact
    <2>1. Ascii /\ Steady
      BY <1>1, <1>5
    <2>2. CASE Restart
      <3>1. Consistent'
        BY <2>1, <2>2, RestartMends
      <3>. QED BY <1>2, <1>3, <3>1 DEF Recovers
    <2>3. CASE ~ Restart
      <3>1. ~ intact'
        BY <1>5, <2>3 DEF Next, vars, SetField, RenameItems, RemoveSomeItems, RemoveBooks,
                          Start, Statement, StatementFails, Return
      <3>. QED BY <1>2, <1>3, <3>1 DEF Recovers
    <2>. QED BY <2>2, <2>3
  <1>. QED BY <1>4, <1>5

LEMMA AlwaysRecovers ==
    ASSUME Ordinary, Ascii \/ Failing = {}
    PROVE  Spec => []Recovers
  <1>1. Init => Recovers
    <2>1. Init => Consistent /\ call = None /\ intact
      BY InitConsistent DEF Init, Ordinary
    <2>. QED BY <2>1, ConsistentSteady DEF Recovers
  <1>2. Recovers /\ [Next]_vars => Recovers'
    BY StepRecovers
  <1>. QED BY <1>1, <1>2, PTL DEF Spec

LEMMA RecoversSafe ==
    ASSUME Ascii \/ Failing = {}, Recovers
    PROVE  /\ MemoryIsDatabase /\ StatementsAccepted /\ MapsAgree
           /\ ValuesAsAsked /\ ChangesMarked /\ AllOrNothing
  <1>1. CASE intact
    BY <1>1, ConsistentSafe DEF Recovers
  <1>2. CASE ~ intact
    <2>1. Steady
      BY <1>2 DEF Recovers
    <2>2. MapsAgree
      BY <2>1 DEF Steady, MapsAgree, TypeOK, Usable, Agrees
    <2>. QED BY <1>2, <2>2 DEF MemoryIsDatabase, StatementsAccepted, ValuesAsAsked,
                               ChangesMarked, AllOrNothing
  <1>. QED BY <1>1, <1>2

-------------------------------------------------------------------------------
(* The theorems *)

\* The theorems speak of any statements failing, for a full disk say, at any
\* moment, if SQLite knows the case of all names: then the next start of the
\* program finds no two items of one name, whatever the failure left.

\* The statements of every call are accepted by the constraints of the tables,
\* in the order in which write.py and tables.py execute them: no item is
\* inserted or renamed to a name that there is, no link is inserted twice or
\* to a missing item, and no row goes before its links.
THEOREM NoStatementRefused ==
    ASSUME Ordinary, Ascii \/ Failing = {}
    PROVE  Spec => []StatementsAccepted
  <1>1. Recovers => StatementsAccepted
    BY RecoversSafe
  <1>. QED BY <1>1, AlwaysRecovers, PTL

\* No call ends with an exception unless a statement fails for a reason of its
\* own: the constraints of the tables never stop one half way.
THEOREM NoCallFails ==
    ASSUME Ordinary, Failing = {}
    PROVE  Spec => []intact
  <1>1. Recovers => intact
    BY DEF Recovers
  <1>. QED BY <1>1, AlwaysRecovers, PTL

\* Between calls the three maps of ManyToOneTable and ManyToManyTable are
\* those that reading the two tables anew gives, whatever calls came before,
\* wherever an earlier process ended and whichever of its statements failed.
THEOREM MemoryFollowsDatabase ==
    ASSUME Ordinary, Ascii \/ Failing = {}
    PROVE  Spec => []MemoryIsDatabase
  <1>1. Recovers => MemoryIsDatabase
    BY RecoversSafe
  <1>. QED BY <1>1, AlwaysRecovers, PTL

\* At every statement of a call, and when one has failed, book_col_map and
\* col_book_map are each other's inverse, and id_map has the items they name.
THEOREM MapsAlwaysAgree ==
    ASSUME Ordinary, Ascii \/ Failing = {}
    PROVE  Spec => []MapsAgree
  <1>1. Recovers => MapsAgree
    BY RecoversSafe
  <1>. QED BY <1>1, AlwaysRecovers, PTL

\* When set_field(), rename_items(), remove_items() or remove_books() returns,
\* each book it was called for has the values asked for, and no other book
\* has lost or got one.
THEOREM CallsDoAsAsked ==
    ASSUME Ordinary, Ascii \/ Failing = {}
    PROVE  Spec => []ValuesAsAsked
  <1>1. Recovers => ValuesAsAsked
    BY RecoversSafe
  <1>. QED BY <1>1, AlwaysRecovers, PTL

\* Every book whose values a call changes, in their case only or because it
\* shares an item with a book of the call, is marked dirty, so that its
\* metadata is written to its folder again; but for the books that are removed,
\* and those that lose a custom series to remove_items().
THEOREM ChangedBooksMarked ==
    ASSUME Ordinary, Ascii \/ Failing = {}
    PROVE  Spec => []ChangesMarked
  <1>1. Recovers => ChangesMarked
    BY RecoversSafe
  <1>. QED BY <1>1, AlwaysRecovers, PTL

\* Between any two statements, where the process may end, a book of a many-one
\* column has its old value or its new one, and one of a many-many column no
\* value that is neither old nor new.
THEOREM NoOtherValues ==
    ASSUME Ordinary, Ascii \/ Failing = {}
    PROVE  Spec => []AllOrNothing
  <1>1. Recovers => AllOrNothing
    BY RecoversSafe
  <1>. QED BY <1>1, AlwaysRecovers, PTL

\* Whatever the alphabet of the names, all this holds until a statement fails.
THEOREM SafeUntilAFailure ==
    ASSUME Ordinary
    PROVE  Spec /\ []intact =>
                [](/\ MemoryIsDatabase /\ StatementsAccepted /\ MapsAgree
                   /\ ValuesAsAsked /\ ChangesMarked /\ AllOrNothing)
  <1>1. Init => Consistent
    BY InitConsistent DEF Ordinary
  <1>2. Consistent /\ intact' /\ [Next]_vars => Consistent'
    BY StepConsistent
  <1>3. Consistent => /\ MemoryIsDatabase /\ StatementsAccepted /\ MapsAgree
                      /\ ValuesAsAsked /\ ChangesMarked /\ AllOrNothing
    BY ConsistentSafe
  <1>. QED BY <1>1, <1>2, <1>3, PTL DEF Spec
===============================================================================
