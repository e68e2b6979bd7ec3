-------------------------- MODULE BookEngineProofs --------------------------
(***************************************************************************)
(* The book engine, for any configuration files, snapshots and exchanges:  *)
(* what main dispatches, and what onSnapshot makes of the books.           *)
(***************************************************************************)
EXTENDS BookEngine, FiniteSetTheorems, SequenceTheorems, WellFoundedInduction, TLAPS

-----------------------------------------------------------------------------
(* Loops.  A loop is a recursive function of the number of its rounds, and  *)
(* an invariant is a family W of sets with the value after n rounds in W[n]. *)

\* A set of naturals that is not empty has a least element.
LEMMA LeastNatural ==
  ASSUME NEW T, T \subseteq Nat, T # {}
  PROVE  \E x \in T : \A y \in T : x <= y
<1> DEFINE R == OpToRel(<, Nat)
<1>1. IsWellFoundedOn(R, Nat)
  BY NatLessThanWellFounded
<1>2. \A x, y \in Nat : y < x => <<y, x>> \in R
  BY DEF OpToRel
<1> HIDE DEF R
<1>3. PICK x \in T : \A y \in T : ~(<<y, x>> \in R)
  BY <1>1, WFMin, Zenon
<1>4. \A y \in T : ~(y < x)
  BY <1>2, <1>3
<1> QED BY <1>4

\* A set with 0, and with n + 1 when n is in it, has all numbers to the bound.
LEMMA Induction ==
  ASSUME NEW P, NEW m \in Nat, 0 \in P, \A n \in 0..m-1 : n \in P => n + 1 \in P
  PROVE  \A n \in 0..m : n \in P
<1> SUFFICES ASSUME NEW k \in 0..m, k \notin P PROVE FALSE
  OBVIOUS
<1> DEFINE T == {n \in 0..m : n \notin P}
<1>1. T \subseteq Nat /\ k \in T
  OBVIOUS
<1> HIDE DEF T
<1>2. PICK x \in T : \A y \in T : x <= y
  BY <1>1, LeastNatural
<1>3. x \in 0..m /\ x \notin P /\ x # 0
  BY <1>2 DEF T
<1>4. x - 1 \in 0..m-1 /\ x - 1 \in 0..m /\ ~(x <= x - 1)
  BY <1>3
<1>5. x - 1 \in P
  BY <1>2, <1>4 DEF T
<1>6. (x - 1) + 1 \in P
  BY <1>4, <1>5
<1> QED BY <1>3, <1>6

\* h begins with base, and G[n] takes the value after n rounds from the one before.
Recurses(h, base, G, k) == h[0] = base /\ \A n \in 1..k : h[n] = G[n][h[n-1]]

\* A loop that keeps its invariant has a value after each round.
LEMMA Recursion ==
  ASSUME NEW m \in Nat, NEW W, NEW base \in W[0], NEW G,
         \A n \in 1..m : \A v \in W[n-1] : G[n][v] \in W[n]
  PROVE  \E h : /\ h = [n \in 0..m |-> h[n]]
                /\ Recurses(h, base, G, m)
                /\ \A n \in 0..m : h[n] \in W[n]
<1> DEFINE Good(h, k) == /\ Recurses(h, base, G, k)
                         /\ \A n \in 0..k : h[n] \in W[n]
           P == {k \in 0..m : \E h : Good(h, k)}
<1> USE DEF Recurses
<1>1. 0 \in P
  <2> DEFINE h0 == [n \in 0..m |-> base]
  <2>1. h0[0] = base
    OBVIOUS
  <2> HIDE DEF h0
  <2>2. Good(h0, 0)
    BY <2>1
  <2> QED BY <2>2
<1>2. ASSUME NEW k \in 0..m-1, k \in P PROVE k + 1 \in P
  <2>1. PICK h : Good(h, k)
    BY <1>2
  <2> DEFINE g == [n \in 0..m |-> IF n = k + 1 THEN G[k+1][h[k]] ELSE h[n]]
  <2>2. k \in 0..m /\ k + 1 \in 1..m /\ k + 1 \in 0..m /\ (k + 1) - 1 = k
    OBVIOUS
  <2>3. h[k] \in W[k] /\ G[k+1][h[k]] \in W[k+1]
    BY <2>1, <2>2
  <2>4. \A n \in 0..m : g[n] = IF n = k + 1 THEN G[k+1][h[k]] ELSE h[n]
    OBVIOUS
  <2> HIDE DEF g
  <2>5. g[0] = base
    BY <2>1, <2>2, <2>4
  <2>6. ASSUME NEW n \in 1..k+1 PROVE g[n] = G[n][g[n-1]]
    <3>1. n \in 0..m /\ n - 1 \in 0..m /\ n - 1 # k + 1
      BY <2>2, <2>6
    <3>2. g[n-1] = h[n-1]
      BY <2>4, <3>1
    <3>3. CASE n = k + 1
      BY <2>2, <2>4, <3>2, <3>3
    <3>4. CASE n # k + 1
      <4>1. n \in 1..k
        BY <2>2, <2>6, <3>4
      <4> QED BY <2>1, <2>4, <3>1, <3>2, <3>4, <4>1
    <3> QED BY <3>3, <3>4
  <2>7. ASSUME NEW n \in 0..k+1 PROVE g[n] \in W[n]
    <3>1. n \in 0..m /\ (n # k + 1 => n \in 0..k)
      BY <2>2, <2>7
    <3> QED BY <2>1, <2>3, <2>4, <3>1
  <2>8. Good(g, k + 1)
    BY <2>5, <2>6, <2>7
  <2> QED BY <2>2, <2>8
<1>3. m \in P
  <2>1. \A n \in 0..m : n \in P
    <3> HIDE DEF P
    <3> QED BY <1>1, <1>2, Induction
  <2>2. m \in 0..m
    OBVIOUS
  <2> HIDE DEF P
  <2> QED BY <2>1, <2>2
<1>4. PICK h : Good(h, m)
  BY <1>3
<1> DEFINE g == [n \in 0..m |-> h[n]]
<1>5. \A n \in 0..m : g[n] = h[n]
  OBVIOUS
<1>6. g = [n \in 0..m |-> g[n]]
  OBVIOUS
<1> HIDE DEF g
<1>7. Recurses(g, base, G, m) /\ \A n \in 0..m : g[n] \in W[n]
  <2>1. \A n \in 1..m : n \in 0..m /\ n - 1 \in 0..m
    OBVIOUS
  <2>2. 0 \in 0..m
    OBVIOUS
  <2> QED BY <1>4, <1>5, <2>1, <2>2
<1> QED BY <1>6, <1>7, Zenon

\* A and B begin with the same value and have the same rounds.
SameRounds(A, B, m) == A[0] = B[0] /\ \A k \in 1..m : A[k-1] = B[k-1] => A[k] = B[k]

\* Two loops with the same rounds have the same values.
LEMMA SameLoop ==
  ASSUME NEW m \in Nat, NEW A, NEW B, SameRounds(A, B, m)
  PROVE  \A k \in 0..m : A[k] = B[k]
<1> DEFINE P == {k \in 0..m : A[k] = B[k]}
<1>1. 0 \in P
  BY DEF SameRounds
<1>2. ASSUME NEW n \in 0..m-1, n \in P PROVE n + 1 \in P
  <2>1. n + 1 \in 1..m /\ n + 1 \in 0..m /\ (n + 1) - 1 = n /\ A[n] = B[n]
    BY <1>2
  <2> QED BY <2>1 DEF SameRounds
<1>3. \A k \in 0..m : k \in P
  <2> HIDE DEF P
  <2> QED BY <1>1, <1>2, Induction
<1> QED BY <1>3

-----------------------------------------------------------------------------
(* Sums. *)

\* The loop of SumTo, and its value.
SumLoop(f, n) == CHOOSE h : h = [k \in 0..n |-> IF k = 0 THEN 0 ELSE h[k - 1] + f[k]]

\* The loop adds one term a round.
LEMMA SumLoopFacts ==
  ASSUME NEW n \in Nat, NEW f, \A k \in 1..n : f[k] \in Int
  PROVE  /\ SumTo(f, n) = SumLoop(f, n)[n]
         /\ SumLoop(f, n)[0] = 0
         /\ \A k \in 1..n : SumLoop(f, n)[k] = SumLoop(f, n)[k-1] + f[k]
         /\ \A k \in 0..n : SumLoop(f, n)[k] \in Int
<1> DEFINE Body(h) == [k \in 0..n |-> IF k = 0 THEN 0 ELSE h[k - 1] + f[k]]
           W == [k \in 0..n |-> Int]
           G == [k \in 1..n |-> [v \in Int |-> v + f[k]]]
           A == SumLoop(f, n)
<1>1. A = CHOOSE h : h = Body(h)
  BY Zenon DEF SumLoop
<1>2. \A k \in 1..n : k - 1 \in 0..n /\ k \in 0..n
  OBVIOUS
<1>3. PICK h : /\ h = [k \in 0..n |-> h[k]] /\ Recurses(h, 0, G, n)
               /\ \A k \in 0..n : h[k] \in W[k]
  <2>1. \A k \in 1..n : \A v \in W[k-1] : G[k][v] \in W[k]
    BY <1>2
  <2>2. 0 \in W[0]
    OBVIOUS
  <2> HIDE DEF W, G
  <2> QED BY <2>1, <2>2, Recursion
<1>4. \A k \in 0..n : h[k] = IF k = 0 THEN 0 ELSE h[k-1] + f[k]
  <2>1. h[0] = 0 /\ \A k \in 1..n : h[k] = G[k][h[k-1]]
    BY <1>3, Zenon DEF Recurses
  <2>2. \A k \in 0..n : h[k] \in Int
    BY <1>3
  <2>3. ASSUME NEW k \in 1..n PROVE h[k] = h[k-1] + f[k]
    BY <1>2, <2>1, <2>2
  <2> QED BY <2>1, <2>3
<1>5. h = Body(h)
  BY <1>3, <1>4
<1>6. A = Body(A)
  <2> HIDE DEF A, Body
  <2> QED BY <1>1, <1>5, Zenon
<1> HIDE DEF A
<1>7. A[0] = 0 /\ \A k \in 1..n : A[k] = A[k-1] + f[k]
  BY <1>2, <1>6
<1>8. \A k \in 0..n : A[k] = h[k]
  <2>1. A[0] = h[0] /\ \A k \in 1..n : A[k-1] = h[k-1] => A[k] = h[k]
    BY <1>2, <1>4, <1>7
  <2>2. SameRounds(A, h, n)
    BY <2>1 DEF SameRounds
  <2> QED BY <2>2, SameLoop
<1>9. \A k \in 0..n : A[k] \in Int
  BY <1>3, <1>8
<1>10. SumTo(f, n) = SumLoop(f, n)[n]
  BY Zenon DEF SumTo, SumLoop
<1> QED BY <1>7, <1>9, <1>10 DEF A

\* A sum is a number; the empty one is 0.
LEMMA SumType ==
  ASSUME NEW n \in Nat, NEW f, \A k \in 1..n : f[k] \in Int
  PROVE  SumTo(f, n) \in Int /\ SumTo(f, 0) = 0
<1>1. SumTo(f, n) \in Int
  BY SumLoopFacts
<1>2. \A k \in 1..0 : f[k] \in Int
  OBVIOUS
<1>3. SumTo(f, 0) = SumLoop(f, 0)[0] /\ SumLoop(f, 0)[0] = 0
  BY <1>2, SumLoopFacts
<1> QED BY <1>1, <1>3

\* One more term.
LEMMA SumStep ==
  ASSUME NEW n \in Nat, NEW f, \A k \in 1..n+1 : f[k] \in Int
  PROVE  SumTo(f, n + 1) = SumTo(f, n) + f[n + 1]
<1> DEFINE A == SumLoop(f, n)
           B == SumLoop(f, n + 1)
<1>1. \A k \in 1..n : f[k] \in Int /\ k \in 1..n+1
  OBVIOUS
<1>2. /\ SumTo(f, n) = A[n] /\ A[0] = 0
      /\ \A k \in 1..n : A[k] = A[k-1] + f[k]
  BY <1>1, SumLoopFacts
<1>3. /\ SumTo(f, n + 1) = B[n + 1] /\ B[0] = 0
      /\ \A k \in 1..n+1 : B[k] = B[k-1] + f[k]
  BY SumLoopFacts
<1> HIDE DEF A, B
<1>4. \A k \in 0..n : A[k] = B[k]
  <2>1. A[0] = B[0] /\ \A k \in 1..n : A[k-1] = B[k-1] => A[k] = B[k]
    BY <1>1, <1>2, <1>3
  <2>2. SameRounds(A, B, n)
    BY <2>1 DEF SameRounds
  <2> QED BY <2>2, SameLoop
<1>5. n + 1 \in 1..n+1 /\ (n + 1) - 1 = n /\ n \in 0..n
  OBVIOUS
<1>6. B[n+1] = B[n] + f[n+1]
  BY <1>3, <1>5
<1> QED BY <1>2, <1>3, <1>4, <1>5, <1>6

\* g is f with one term raised.
RaisedAt(g, f, j, d, n) ==
  \A k \in 1..n : f[k] \in Int /\ (k # j => g[k] = f[k]) /\ (k = j => g[k] = f[k] + d)

\* Raising one term raises the sum as much.
LEMMA SumRaised ==
  ASSUME NEW n \in Nat, NEW f, NEW g, NEW j \in Nat, NEW d \in Int, RaisedAt(g, f, j, d, n)
  PROVE  /\ j \in 1..n => SumTo(g, n) = SumTo(f, n) + d
         /\ j \notin 1..n => SumTo(g, n) = SumTo(f, n)
<1> DEFINE P == {m \in 0..n : SumTo(g, m) = SumTo(f, m) + (IF j \in 1..m THEN d ELSE 0)}
<1>0. \A k \in 1..n : f[k] \in Int /\ g[k] \in Int
  BY DEF RaisedAt
<1>1. 0 \in P
  <2>1. SumTo(f, 0) = 0 /\ SumTo(g, 0) = 0
    BY <1>0, SumType
  <2> QED BY <2>1
<1>2. ASSUME NEW m \in 0..n-1, m \in P PROVE m + 1 \in P
  <2>1. m \in Nat /\ m + 1 \in 0..n /\ m + 1 \in 1..n /\ \A k \in 1..m+1 : k \in 1..n
    BY <1>2
  <2>2. SumTo(f, m + 1) = SumTo(f, m) + f[m + 1] /\ SumTo(g, m + 1) = SumTo(g, m) + g[m + 1]
    BY <1>0, <2>1, SumStep
  <2>3. SumTo(f, m) \in Int /\ f[m+1] \in Int
    <3>1. \A k \in 1..m : f[k] \in Int
      BY <1>0, <2>1
    <3> QED BY <1>0, <2>1, <3>1, SumType
  <2>4. SumTo(g, m) = SumTo(f, m) + (IF j \in 1..m THEN d ELSE 0)
    BY <1>2
  <2>5. g[m+1] = f[m+1] + (IF m + 1 = j THEN d ELSE 0)
    BY <2>1, <2>3 DEF RaisedAt
  <2>6. SumTo(g, m + 1) = SumTo(f, m + 1) + (IF j \in 1..m+1 THEN d ELSE 0)
    BY <2>1, <2>2, <2>3, <2>4, <2>5
  <2> QED BY <2>1, <2>6
<1>3. \A m \in 0..n : m \in P
  <2> HIDE DEF P
  <2> QED BY <1>1, <1>2, Induction
<1>4. n \in 0..n /\ SumTo(f, n) \in Int
  BY <1>0, SumType
<1> QED BY <1>3, <1>4

\* A bound on the terms bounds the sum.
LEMMA SumBound ==
  ASSUME NEW n \in Nat, NEW f, NEW g, NEW p \in Int, NEW q \in Int,
         \A k \in 1..n : f[k] \in Int /\ g[k] \in Int /\ p * f[k] <= q * g[k]
  PROVE  p * SumTo(f, n) <= q * SumTo(g, n)
<1> DEFINE P == {m \in 0..n : p * SumTo(f, m) <= q * SumTo(g, m)}
<1>1. 0 \in P
  <2>1. SumTo(f, 0) = 0 /\ SumTo(g, 0) = 0
    BY SumType
  <2> QED BY <2>1
<1>2. ASSUME NEW m \in 0..n-1, m \in P PROVE m + 1 \in P
  <2>1. m \in Nat /\ m + 1 \in 0..n /\ m + 1 \in 1..n /\ \A k \in 1..m+1 : k \in 1..n
    BY <1>2
  <2>2. SumTo(f, m + 1) = SumTo(f, m) + f[m + 1] /\ SumTo(g, m + 1) = SumTo(g, m) + g[m + 1]
    BY <2>1, SumStep
  <2>3. SumTo(f, m) \in Int /\ SumTo(g, m) \in Int
    <3>1. \A k \in 1..m : f[k] \in Int /\ g[k] \in Int
      BY <2>1
    <3> QED BY <2>1, <3>1, SumType
  <2>4. ASSUME NEW a \in Int, NEW b \in Int PROVE p * (a + b) = p * a + p * b /\ q * (a + b) = q * a + q * b
    OBVIOUS
  <2>5. f[m+1] \in Int /\ g[m+1] \in Int /\ p * f[m+1] <= q * g[m+1]
    BY <2>1
  <2>6. p * SumTo(f, m) <= q * SumTo(g, m)
    BY <1>2
  <2>7. /\ p * SumTo(f, m + 1) = p * SumTo(f, m) + p * f[m+1]
        /\ q * SumTo(g, m + 1) = q * SumTo(g, m) + q * g[m+1]
    BY <2>2, <2>3, <2>4, <2>5
  <2>8. /\ p * SumTo(f, m) \in Int /\ p * f[m+1] \in Int
        /\ q * SumTo(g, m) \in Int /\ q * g[m+1] \in Int
    BY <2>3, <2>5
  <2>9. p * SumTo(f, m + 1) <= q * SumTo(g, m + 1)
    BY <2>5, <2>6, <2>7, <2>8
  <2> QED BY <2>1, <2>9
<1>3. \A m \in 0..n : m \in P
  <2> HIDE DEF P
  <2> QED BY <1>1, <1>2, Induction
<1>4. n \in 0..n
  OBVIOUS
<1> QED BY <1>3, <1>4

\* Sums over the exchanges.
LEMMA TotalFacts ==
  ASSUME NEW f, NEW g, \A ex \in EXCHANGE : f[ex] \in Int /\ g[ex] \in Int
  PROVE  /\ Total(f) \in Int
         /\ (\A ex \in EXCHANGE : f[ex] >= 0) => Total(f) >= 0
         /\ \A e \in EXCHANGE, d \in Int :
              (\A ex \in EXCHANGE : g[ex] = f[ex] + (IF ex = e THEN d ELSE 0))
                => Total(g) = Total(f) + d
         /\ \A p, q \in Int :
              (\A ex \in EXCHANGE : p * f[ex] <= q * g[ex]) => p * Total(f) <= q * Total(g)
<1> DEFINE N == NumExchanges
<1>1. N \in Nat /\ 0 \in EXCHANGE /\ \A k \in 1..N : k \in EXCHANGE /\ k # 0
  BY ExchangesAssumption DEF EXCHANGE, null
<1>2. \A k \in 1..N : f[k] \in Int /\ g[k] \in Int
  BY <1>1
<1>3. SumTo(f, N) \in Int /\ SumTo(g, N) \in Int
  BY <1>1, <1>2, SumType
<1>4. Total(f) = f[0] + SumTo(f, N) /\ Total(g) = g[0] + SumTo(g, N)
  BY DEF Total, null
<1>5. f[0] \in Int /\ g[0] \in Int
  BY <1>1
<1>6. ASSUME \A ex \in EXCHANGE : f[ex] >= 0 PROVE Total(f) >= 0
  <2>1. \A k \in 1..N : f[k] \in Int /\ f[k] \in Int /\ 0 * f[k] <= 1 * f[k]
    BY <1>1, <1>2, <1>6
  <2>2. 0 * SumTo(f, N) <= 1 * SumTo(f, N)
    BY <1>1, <2>1, SumBound
  <2>3. f[0] >= 0
    BY <1>1, <1>6
  <2> QED BY <1>3, <1>4, <1>5, <2>2, <2>3
<1>7. ASSUME NEW e \in EXCHANGE, NEW d \in Int,
             \A ex \in EXCHANGE : g[ex] = f[ex] + (IF ex = e THEN d ELSE 0)
      PROVE  Total(g) = Total(f) + d
  <2>1. RaisedAt(g, f, e, d, N)
    BY <1>1, <1>2, <1>7 DEF RaisedAt
  <2>2. e \in Nat /\ (e = 0 \/ e \in 1..N)
    BY <1>1 DEF EXCHANGE, null
  <2>3. /\ e \in 1..N => SumTo(g, N) = SumTo(f, N) + d
        /\ e \notin 1..N => SumTo(g, N) = SumTo(f, N)
    <3>1. N \in Nat /\ e \in Nat
      BY <1>1, <2>2
    <3> HIDE DEF N
    <3> QED BY <2>1, <3>1, SumRaised
  <2>4. g[0] = f[0] + (IF 0 = e THEN d ELSE 0)
    BY <1>1, <1>7
  <2> QED BY <1>1, <1>3, <1>4, <1>5, <2>2, <2>3, <2>4
<1>8. ASSUME NEW p \in Int, NEW q \in Int, \A ex \in EXCHANGE : p * f[ex] <= q * g[ex]
      PROVE  p * Total(f) <= q * Total(g)
  <2>1. \A k \in 1..N : f[k] \in Int /\ g[k] \in Int /\ p * f[k] <= q * g[k]
    BY <1>1, <1>2, <1>8
  <2>2. p * SumTo(f, N) <= q * SumTo(g, N)
    BY <1>1, <2>1, SumBound
  <2>3. p * f[0] <= q * g[0]
    BY <1>1, <1>8
  <2>4. ASSUME NEW a \in Int, NEW b \in Int PROVE p * (a + b) = p * a + p * b /\ q * (a + b) = q * a + q * b
    OBVIOUS
  <2>5. p * Total(f) = p * f[0] + p * SumTo(f, N) /\ q * Total(g) = q * g[0] + q * SumTo(g, N)
    BY <1>3, <1>4, <1>5, <2>4
  <2>6. /\ p * SumTo(f, N) \in Int /\ q * SumTo(g, N) \in Int
        /\ p * f[0] \in Int /\ q * g[0] \in Int
    BY <1>3, <1>5
  <2> QED BY <2>2, <2>3, <2>5, <2>6
<1>9. Total(f) \in Int
  BY <1>3, <1>4, <1>5
<1> QED BY <1>6, <1>7, <1>8, <1>9, Zenon

-----------------------------------------------------------------------------
(* Sequences: how often an element is in one. *)

\* The places of an element are finitely many.
LEMMA CountType ==
  ASSUME NEW S, NEW s \in Seq(S), NEW x
  PROVE  /\ IsFiniteSet({i \in DOMAIN s : s[i] = x})
         /\ Count(s, x) \in Nat
         /\ Count(s, x) > 0 <=> \E i \in 1..Len(s) : s[i] = x
<1> DEFINE C == {i \in DOMAIN s : s[i] = x}
<1>1. DOMAIN s = 1..Len(s) /\ Len(s) \in Nat
  BY LenProperties
<1>2. IsFiniteSet(1..Len(s))
  BY <1>1, FS_Interval
<1>3. C \in SUBSET (1..Len(s))
  BY <1>1
<1> HIDE DEF C
<1>4. IsFiniteSet(C)
  BY <1>2, <1>3, FS_Subset
<1>5. Cardinality(C) \in Nat /\ (Cardinality(C) = 0 <=> C = {})
  BY <1>4, FS_CardinalityType, FS_EmptySet
<1>6. Count(s, x) = Cardinality(C)
  BY DEF Count, C
<1>7. C # {} <=> \E i \in 1..Len(s) : s[i] = x
  BY <1>1 DEF C
<1> QED BY <1>4, <1>5, <1>6, <1>7 DEF C

\* The empty sequence, and sequences of one element.
LEMMA CountSmall ==
  ASSUME NEW x, NEW e
  PROVE  /\ Count(<<>>, x) = 0
         /\ Count(<<e>>, x) = IF e = x THEN 1 ELSE 0
<1>1. {i \in DOMAIN <<>> : <<>>[i] = x} = {}
  OBVIOUS
<1>2. {i \in DOMAIN <<e>> : <<e>>[i] = x} = IF e = x THEN {1} ELSE {}
  OBVIOUS
<1>3. Cardinality({}) = 0 /\ Cardinality({1}) = 1
  BY FS_EmptySet, FS_Singleton
<1>4. Count(<<>>, x) = 0
  BY <1>1, <1>3 DEF Count
<1>5. CASE e = x
  BY <1>2, <1>3, <1>4, <1>5 DEF Count
<1>6. CASE e # x
  BY <1>2, <1>3, <1>4, <1>6 DEF Count
<1> QED BY <1>5, <1>6

\* Counts add up.
LEMMA CountConcat ==
  ASSUME NEW S, NEW a \in Seq(S), NEW b \in Seq(S), NEW x
  PROVE  Count(a \o b, x) = Count(a, x) + Count(b, x)
<1> DEFINE A == {i \in DOMAIN a : a[i] = x}
           B == {i \in DOMAIN b : b[i] = x}
           C == {i \in DOMAIN (a \o b) : (a \o b)[i] = x}
           D == {Len(a) + i : i \in B}
           f == [i \in B |-> Len(a) + i]
<1>1. /\ DOMAIN a = 1..Len(a) /\ Len(a) \in Nat /\ DOMAIN b = 1..Len(b) /\ Len(b) \in Nat
      /\ a \o b \in Seq(S) /\ Len(a \o b) = Len(a) + Len(b)
      /\ \A i \in 1..Len(a) + Len(b) : (a \o b)[i] = IF i <= Len(a) THEN a[i] ELSE b[i - Len(a)]
  BY LenProperties, ConcatProperties
<1>2. DOMAIN (a \o b) = 1..Len(a) + Len(b)
  BY <1>1, LenProperties
<1>3. C = A \cup D
  <2>1. ASSUME NEW i \in C PROVE i \in A \cup D
    <3>1. i \in 1..Len(a) + Len(b) /\ (a \o b)[i] = x
      BY <1>2
    <3>2. CASE i <= Len(a)
      BY <1>1, <3>1, <3>2
    <3>3. CASE i > Len(a)
      <4>1. i - Len(a) \in 1..Len(b) /\ b[i - Len(a)] = x /\ i = Len(a) + (i - Len(a))
        BY <1>1, <3>1, <3>3
      <4>2. i - Len(a) \in B
        BY <1>1, <4>1
      <4> QED BY <4>1, <4>2
    <3> QED BY <1>1, <3>1, <3>2, <3>3
  <2>2. A \subseteq C
    BY <1>1, <1>2
  <2>3. ASSUME NEW i \in B PROVE Len(a) + i \in C
    <3>1. i \in 1..Len(b) /\ b[i] = x
      BY <1>1
    <3>2. Len(a) + i \in 1..Len(a) + Len(b) /\ ~(Len(a) + i <= Len(a)) /\ (Len(a) + i) - Len(a) = i
      BY <1>1, <3>1
    <3> QED BY <1>1, <1>2, <3>1, <3>2
  <2> HIDE DEF A, B, C
  <2> QED BY <2>1, <2>2, <2>3
<1>4. A \cap D = {}
  BY <1>1
<1>5. IsFiniteSet(A) /\ IsFiniteSet(B)
  BY CountType
<1>6. f \in Bijection(B, D)
  <2>1. B \subseteq Nat /\ Len(a) \in Nat
    BY <1>1
  <2>2. f \in [B -> D] /\ (\A i, j \in B : f[i] = f[j] => i = j) /\ \A d \in D : \E i \in B : f[i] = d
    <3> HIDE DEF B
    <3>1. f \in [B -> D]
      OBVIOUS
    <3>2. \A i \in B : f[i] = Len(a) + i /\ i \in Nat
      BY <2>1
    <3>3. \A d \in D : \E i \in B : d = Len(a) + i
      OBVIOUS
    <3> HIDE DEF f, D
    <3> QED BY <2>1, <3>1, <3>2, <3>3
  <2> HIDE DEF B, D, f
  <2>3. DOMAIN f = B
    BY <2>2
  <2> QED BY <2>2, <2>3 DEF Bijection, Injection, Surjection, IsInjective
<1> HIDE DEF A, B, C, D, f
<1>7. IsFiniteSet(D) /\ Cardinality(D) = Cardinality(B)
  BY <1>5, <1>6, FS_Bijection DEF ExistsBijection
<1>8. Cardinality(A \cup D) = Cardinality(A) + Cardinality(D) - Cardinality(A \cap D)
  BY <1>5, <1>7, FS_Union
<1>9. Cardinality(A \cap D) = 0 /\ Cardinality(A) \in Nat /\ Cardinality(D) \in Nat
  BY <1>4, <1>5, <1>7, FS_EmptySet, FS_CardinalityType
<1>10. Cardinality(C) = Cardinality(A) + Cardinality(B)
  BY <1>3, <1>7, <1>8, <1>9
<1> QED BY <1>10 DEF Count, A, B, C

\* One more element at the end.
LEMMA CountAppend ==
  ASSUME NEW S, NEW s \in Seq(S), NEW e \in S, NEW x
  PROVE  Count(Append(s, e), x) = Count(s, x) + (IF e = x THEN 1 ELSE 0)
<1>1. Append(s, e) = s \o <<e>> /\ <<e>> \in Seq(S)
  OBVIOUS
<1>2. Count(s \o <<e>>, x) = Count(s, x) + Count(<<e>>, x)
  BY <1>1, CountConcat
<1>3. Count(<<e>>, x) = IF e = x THEN 1 ELSE 0
  BY CountSmall
<1> QED BY <1>1, <1>2, <1>3

\* The largest of some places of a sequence, or 0.
LEMMA MaxFacts ==
  ASSUME NEW n \in Nat, NEW T, T \subseteq 1..n
  PROVE  /\ Max({0} \cup T) \in {0} \cup T
         /\ \A t \in T : t <= Max({0} \cup T)
<1> DEFINE M == {0} \cup T
           U == {n - t : t \in M}
<1>1. U \subseteq Nat /\ U # {}
  OBVIOUS
<1>2. PICK u \in U : \A y \in U : u <= y
  <2> HIDE DEF U
  <2> QED BY <1>1, LeastNatural
<1>3. PICK m \in M : u = n - m
  OBVIOUS
<1>4. M \subseteq Int
  OBVIOUS
<1>5. ASSUME NEW y \in M PROVE m >= y
  <2>1. n - y \in U
    OBVIOUS
  <2>2. n - m <= n - y
    BY <1>2, <1>3, <2>1
  <2> QED BY <1>4, <2>2
<1> HIDE DEF M
<1>6. Max(M) \in M /\ \A y \in M : Max(M) >= y
  BY <1>3, <1>5, Zenon DEF Max
<1>7. \A y \in M : Max(M) \in Int /\ y \in Int
  BY <1>4, <1>6
<1> QED BY <1>6, <1>7 DEF M

\* The place of a key in the sorted part.
Place(s, behind) == 1 + Max({0} \cup (DOMAIN s \ behind))

\* All behind it moved one place; the one before it, if any, belongs before it.
IsInsert(r, p, s, key, behind) ==
  /\ Len(r) = Len(s) + 1
  /\ p \in 1..Len(s) + 1
  /\ \A i \in 1..Len(r) : r[i] = IF i < p THEN s[i] ELSE IF i = p THEN key ELSE s[i-1]
  /\ \A i \in 1..Len(s) : i >= p => i \in behind
  /\ p > 1 => p - 1 \in 1..Len(s) /\ p - 1 \notin behind

\* InsertKey inserts, and keeps the other elements.
LEMMA InsertFacts ==
  ASSUME NEW S, NEW s \in Seq(S), NEW key \in S, NEW behind
  PROVE  /\ InsertKey(s, key, behind) \in Seq(S)
         /\ IsInsert(InsertKey(s, key, behind), Place(s, behind), s, key, behind)
         /\ \A x : Count(InsertKey(s, key, behind), x) = Count(s, x) + (IF key = x THEN 1 ELSE 0)
<1> DEFINE r == InsertKey(s, key, behind)
           p == Place(s, behind)
           T == DOMAIN s \ behind
           a == SubSeq(s, 1, p - 1)
           b == SubSeq(s, p, Len(s))
           ak == a \o <<key>>
<1>1. DOMAIN s = 1..Len(s) /\ Len(s) \in Nat /\ \A i \in 1..Len(s) : s[i] \in S
  BY LenProperties, ElementOfSeq
<1>2. T \subseteq 1..Len(s) /\ \A i \in 1..Len(s) : i \in T <=> i \notin behind
  BY <1>1
<1>3. p = 1 + Max({0} \cup T)
  BY DEF Place
<1>4. r = ak \o b
  BY DEF InsertKey, InsertAt, Place
<1> HIDE DEF r, p, T, a, b
<1>5. Max({0} \cup T) \in {0} \cup T /\ \A t \in T : t <= Max({0} \cup T)
  BY <1>1, <1>2, MaxFacts
<1>6. /\ p \in 1..Len(s) + 1
      /\ \A i \in 1..Len(s) : i >= p => i \in behind
      /\ p > 1 => p - 1 \in 1..Len(s) /\ p - 1 \notin behind
  <2> DEFINE q == Max({0} \cup T)
  <2>1. p = 1 + q /\ (q = 0 \/ q \in T) /\ \A t \in T : t <= q
    BY <1>3, <1>5
  <2> HIDE DEF q
  <2>2. q \in 0..Len(s) /\ p \in 1..Len(s) + 1 /\ p - 1 = q
    <3>1. Len(s) \in Nat /\ T \subseteq 1..Len(s)
      BY <1>1, <1>2
    <3>2. q \in 0..Len(s)
      <4>1. CASE q = 0
        BY <3>1, <4>1
      <4>2. CASE q \in T
        <5>1. q \in 1..Len(s)
          BY <3>1, <4>2
        <5> QED BY <3>1, <5>1
      <4> QED BY <2>1, <4>1, <4>2
    <3> QED BY <2>1, <3>1, <3>2
  <2>3. ASSUME NEW i \in 1..Len(s), i >= p PROVE i \in behind
    BY <1>1, <1>2, <2>1, <2>2, <2>3
  <2>4. ASSUME p > 1 PROVE p - 1 \in 1..Len(s) /\ p - 1 \notin behind
    <3>1. q \in T
      BY <2>1, <2>2, <2>4
    <3> QED BY <1>2, <2>2, <3>1
  <2> QED BY <2>2, <2>3, <2>4
<1>7. /\ a \in Seq(S) /\ Len(a) = p - 1 /\ \A i \in 1..p-1 : a[i] = s[i]
      /\ b \in Seq(S) /\ Len(b) = Len(s) - p + 1 /\ \A i \in 1..Len(s)-p+1 : b[i] = s[p+i-1]
  <2>1. \A i \in 1..p-1 : s[i] \in S
    BY <1>1, <1>6
  <2>2. \A i \in p..Len(s) : s[i] \in S
    BY <1>1, <1>6
  <2>3. /\ a \in Seq(S) /\ Len(a) = IF 1 <= p - 1 THEN (p - 1) - 1 + 1 ELSE 0
        /\ \A i \in 1..(p-1)-1+1 : a[i] = s[1+i-1]
    BY <1>6, <2>1, SubSeqProperties DEF a
  <2>4. /\ b \in Seq(S) /\ Len(b) = IF p <= Len(s) THEN Len(s) - p + 1 ELSE 0
        /\ \A i \in 1..Len(s)-p+1 : b[i] = s[p+i-1]
    BY <1>1, <1>6, <2>2, SubSeqProperties DEF b
  <2> QED BY <1>1, <1>6, <2>3, <2>4
<1>8. /\ ak \in Seq(S) /\ Len(ak) = p
      /\ \A i \in 1..p : ak[i] = IF i < p THEN s[i] ELSE key
  BY <1>1, <1>6, <1>7
<1>9. /\ r \in Seq(S) /\ Len(r) = Len(s) + 1
      /\ \A i \in 1..Len(s)+1 : r[i] = IF i <= p THEN ak[i] ELSE b[i - p]
  <2> HIDE DEF ak
  <2>1. /\ r \in Seq(S) /\ Len(r) = Len(ak) + Len(b)
        /\ \A i \in 1..Len(ak) + Len(b) : r[i] = IF i <= Len(ak) THEN ak[i] ELSE b[i - Len(ak)]
    BY <1>4, <1>7, <1>8, ConcatProperties
  <2>2. Len(ak) = p /\ Len(ak) + Len(b) = Len(s) + 1
    BY <1>1, <1>6, <1>7, <1>8
  <2> QED BY <2>1, <2>2
<1>10. ASSUME NEW i \in 1..Len(r)
       PROVE  r[i] = IF i < p THEN s[i] ELSE IF i = p THEN key ELSE s[i-1]
  <2>1. i \in 1..Len(s)+1 /\ p \in Int /\ i \in Int /\ Len(s) \in Nat
    BY <1>1, <1>6, <1>9
  <2>2. CASE i <= p
    BY <1>6, <1>8, <1>9, <2>1, <2>2
  <2>3. CASE i > p
    <3>1. i - p \in 1..Len(s)-p+1 /\ p + (i - p) - 1 = i - 1
      BY <2>1, <2>3
    <3>2. r[i] = b[i - p] /\ b[i - p] = s[i - 1]
      BY <1>7, <1>9, <2>1, <2>3, <3>1
    <3> QED BY <2>1, <2>3, <3>2
  <2> QED BY <2>1, <2>2, <2>3
<1>11. ASSUME NEW x PROVE Count(r, x) = Count(s, x) + (IF key = x THEN 1 ELSE 0)
  <2>1. s = a \o b
    <3>1. 1 \in 1..Len(s)+1 /\ p - 1 \in 1-1..Len(s) /\ Len(s) \in p-1..Len(s) /\ (p - 1) + 1 = p
      BY <1>1, <1>6
    <3>2. SubSeq(s, 1, p-1) \o SubSeq(s, (p-1)+1, Len(s)) = SubSeq(s, 1, Len(s))
      BY <3>1, ConcatAdjacentSubSeq
    <3> QED BY <3>1, <3>2, SubSeqFull DEF a, b
  <2>2. Count(s, x) = Count(a, x) + Count(b, x)
    BY <1>7, <2>1, CountConcat
  <2>3. <<key>> \in Seq(S)
    OBVIOUS
  <2>4. Count(r, x) = Count(ak, x) + Count(b, x)
    <3> HIDE DEF ak
    <3> QED BY <1>4, <1>7, <1>8, CountConcat
  <2>5. Count(ak, x) = Count(a, x) + Count(<<key>>, x)
    <3> DEFINE one == <<key>>
    <3>1. a \in Seq(S) /\ one \in Seq(S) /\ ak = a \o one
      BY <1>7, <2>3 DEF ak
    <3> HIDE DEF one, a, ak
    <3>2. Count(a \o one, x) = Count(a, x) + Count(one, x)
      BY <3>1, CountConcat
    <3> QED BY <3>1, <3>2 DEF one
  <2>6. Count(<<key>>, x) = IF key = x THEN 1 ELSE 0
    BY CountSmall
  <2>7. Count(a, x) \in Nat /\ Count(b, x) \in Nat
    BY <1>7, CountType
  <2> QED BY <2>2, <2>4, <2>5, <2>6, <2>7
<1>12. IsInsert(r, p, s, key, behind)
  BY <1>6, <1>9, <1>10 DEF IsInsert
<1> QED BY <1>9, <1>11, <1>12 DEF r, p

-----------------------------------------------------------------------------
(* Sorting.  Whatever belongs behind a key, an insertion sort keeps its      *)
(* elements; the order needs the test of each sort.                          *)

\* The levels of the books, and of the sweepable books.
LevelSet == [ex : EXCHANGE, size : Nat, price : 0..MaxPrice]
SweepSet == [ex : EXCHANGE, size : Nat \ {0}, price : 0..MaxPrice]

\* The loop of levelVec inserts one element a round.
LevelLoop(arr, n) ==
  CHOOSE h : h = [k \in 0..n |-> IF k = 0 THEN <<>> ELSE InsertLevel(h[k - 1], arr[k])]

\* It does so from <<>> on.
LEMMA LevelRounds ==
  ASSUME NEW n \in Nat, NEW arr, \A k \in 1..n : arr[k] \in Nat
  PROVE  LET A == LevelLoop(arr, n)
         IN  /\ A[0] = <<>>
             /\ \A k \in 1..n : A[k] = InsertLevel(A[k-1], arr[k])
             /\ \A k \in 0..n : A[k] \in Seq(Nat)
<1> DEFINE Body(h) == [k \in 0..n |-> IF k = 0 THEN <<>> ELSE InsertLevel(h[k - 1], arr[k])]
           W == [k \in 0..n |-> Seq(Nat)]
           G == [k \in 1..n |-> [v \in Seq(Nat) |-> InsertLevel(v, arr[k])]]
           A == LevelLoop(arr, n)
<1>1. A = CHOOSE h : h = Body(h)
  BY Zenon DEF LevelLoop
<1>2. \A k \in 1..n : k - 1 \in 0..n /\ k \in 0..n
  OBVIOUS
<1>3. ASSUME NEW v \in Seq(Nat), NEW e \in Nat PROVE InsertLevel(v, e) \in Seq(Nat)
  BY InsertFacts DEF InsertLevel
<1>4. PICK h : /\ h = [k \in 0..n |-> h[k]] /\ Recurses(h, <<>>, G, n)
               /\ \A k \in 0..n : h[k] \in W[k]
  <2>1. \A k \in 1..n : \A v \in W[k-1] : G[k][v] \in W[k]
    BY <1>2, <1>3
  <2>2. <<>> \in W[0]
    OBVIOUS
  <2> HIDE DEF W, G
  <2> QED BY <2>1, <2>2, Recursion
<1>5. \A k \in 0..n : h[k] = IF k = 0 THEN <<>> ELSE InsertLevel(h[k-1], arr[k])
  <2>1. h[0] = <<>> /\ \A k \in 1..n : h[k] = G[k][h[k-1]]
    BY <1>4, Zenon DEF Recurses
  <2>2. \A k \in 0..n : h[k] \in Seq(Nat)
    BY <1>4
  <2>3. ASSUME NEW k \in 1..n PROVE h[k] = InsertLevel(h[k-1], arr[k])
    BY <1>2, <2>1, <2>2
  <2> QED BY <2>1, <2>3
<1>6. h = Body(h)
  BY <1>4, <1>5
<1>7. A = Body(A)
  <2> HIDE DEF A, Body
  <2> QED BY <1>1, <1>6, Zenon
<1> HIDE DEF A
<1>8. A[0] = <<>> /\ \A k \in 1..n : A[k] = InsertLevel(A[k-1], arr[k])
  BY <1>2, <1>7
<1>9. \A k \in 0..n : A[k] = h[k]
  <2>1. A[0] = h[0] /\ \A k \in 1..n : A[k-1] = h[k-1] => A[k] = h[k]
    BY <1>2, <1>5, <1>8
  <2>2. SameRounds(A, h, n)
    BY <2>1 DEF SameRounds
  <2> QED BY <2>2, SameLoop
<1>10. \A k \in 0..n : A[k] \in Seq(Nat)
  BY <1>4, <1>9
<1> QED BY <1>8, <1>10 DEF A

\* The loop of insertion_sort inserts one element a round.
PriceLoop(arr, n) ==
  CHOOSE h : h = [k \in 0..n |-> IF k = 0 THEN <<>> ELSE InsertByPrice(h[k - 1], arr[k])]

\* It does so from <<>> on.
LEMMA PriceRounds ==
  ASSUME NEW n \in Nat, NEW arr, \A k \in 1..n : arr[k] \in LevelSet
  PROVE  LET A == PriceLoop(arr, n)
         IN  /\ A[0] = <<>>
             /\ \A k \in 1..n : A[k] = InsertByPrice(A[k-1], arr[k])
             /\ \A k \in 0..n : A[k] \in Seq(LevelSet)
<1> DEFINE Body(h) == [k \in 0..n |-> IF k = 0 THEN <<>> ELSE InsertByPrice(h[k - 1], arr[k])]
           W == [k \in 0..n |-> Seq(LevelSet)]
           G == [k \in 1..n |-> [v \in Seq(LevelSet) |-> InsertByPrice(v, arr[k])]]
           A == PriceLoop(arr, n)
<1>1. A = CHOOSE h : h = Body(h)
  BY Zenon DEF PriceLoop
<1>2. \A k \in 1..n : k - 1 \in 0..n /\ k \in 0..n
  OBVIOUS
<1>3. ASSUME NEW v \in Seq(LevelSet), NEW e \in LevelSet PROVE InsertByPrice(v, e) \in Seq(LevelSet)
  BY InsertFacts DEF InsertByPrice
<1>4. PICK h : /\ h = [k \in 0..n |-> h[k]] /\ Recurses(h, <<>>, G, n)
               /\ \A k \in 0..n : h[k] \in W[k]
  <2>1. \A k \in 1..n : \A v \in W[k-1] : G[k][v] \in W[k]
    BY <1>2, <1>3
  <2>2. <<>> \in W[0]
    OBVIOUS
  <2> HIDE DEF W, G
  <2> QED BY <2>1, <2>2, Recursion
<1>5. \A k \in 0..n : h[k] = IF k = 0 THEN <<>> ELSE InsertByPrice(h[k-1], arr[k])
  <2>1. h[0] = <<>> /\ \A k \in 1..n : h[k] = G[k][h[k-1]]
    BY <1>4, Zenon DEF Recurses
  <2>2. \A k \in 0..n : h[k] \in Seq(LevelSet)
    BY <1>4
  <2>3. ASSUME NEW k \in 1..n PROVE h[k] = InsertByPrice(h[k-1], arr[k])
    BY <1>2, <2>1, <2>2
  <2> QED BY <2>1, <2>3
<1>6. h = Body(h)
  BY <1>4, <1>5
<1>7. A = Body(A)
  <2> HIDE DEF A, Body
  <2> QED BY <1>1, <1>6, Zenon
<1> HIDE DEF A
<1>8. A[0] = <<>> /\ \A k \in 1..n : A[k] = InsertByPrice(A[k-1], arr[k])
  BY <1>2, <1>7
<1>9. \A k \in 0..n : A[k] = h[k]
  <2>1. A[0] = h[0] /\ \A k \in 1..n : A[k-1] = h[k-1] => A[k] = h[k]
    BY <1>2, <1>5, <1>8
  <2>2. SameRounds(A, h, n)
    BY <2>1 DEF SameRounds
  <2> QED BY <2>2, SameLoop
<1>10. \A k \in 0..n : A[k] \in Seq(LevelSet)
  BY <1>4, <1>9
<1> QED BY <1>8, <1>10 DEF A

\* The loop of SortBids inserts one element a round.
BidLoop(arr, n) ==
  CHOOSE h : h = [k \in 0..n |-> IF k = 0 THEN <<>> ELSE InsertBid(h[k - 1], arr[k])]

\* It does so from <<>> on.
LEMMA BidRounds ==
  ASSUME NEW n \in Nat, NEW arr, \A k \in 1..n : arr[k] \in SweepSet
  PROVE  LET A == BidLoop(arr, n)
         IN  /\ A[0] = <<>>
             /\ \A k \in 1..n : A[k] = InsertBid(A[k-1], arr[k])
             /\ \A k \in 0..n : A[k] \in Seq(SweepSet)
<1> DEFINE Body(h) == [k \in 0..n |-> IF k = 0 THEN <<>> ELSE InsertBid(h[k - 1], arr[k])]
           W == [k \in 0..n |-> Seq(SweepSet)]
           G == [k \in 1..n |-> [v \in Seq(SweepSet) |-> InsertBid(v, arr[k])]]
           A == BidLoop(arr, n)
<1>1. A = CHOOSE h : h = Body(h)
  BY Zenon DEF BidLoop
<1>2. \A k \in 1..n : k - 1 \in 0..n /\ k \in 0..n
  OBVIOUS
<1>3. ASSUME NEW v \in Seq(SweepSet), NEW e \in SweepSet PROVE InsertBid(v, e) \in Seq(SweepSet)
  BY InsertFacts DEF InsertBid
<1>4. PICK h : /\ h = [k \in 0..n |-> h[k]] /\ Recurses(h, <<>>, G, n)
               /\ \A k \in 0..n : h[k] \in W[k]
  <2>1. \A k \in 1..n : \A v \in W[k-1] : G[k][v] \in W[k]
    BY <1>2, <1>3
  <2>2. <<>> \in W[0]
    OBVIOUS
  <2> HIDE DEF W, G
  <2> QED BY <2>1, <2>2, Recursion
<1>5. \A k \in 0..n : h[k] = IF k = 0 THEN <<>> ELSE InsertBid(h[k-1], arr[k])
  <2>1. h[0] = <<>> /\ \A k \in 1..n : h[k] = G[k][h[k-1]]
    BY <1>4, Zenon DEF Recurses
  <2>2. \A k \in 0..n : h[k] \in Seq(SweepSet)
    BY <1>4
  <2>3. ASSUME NEW k \in 1..n PROVE h[k] = InsertBid(h[k-1], arr[k])
    BY <1>2, <2>1, <2>2
  <2> QED BY <2>1, <2>3
<1>6. h = Body(h)
  BY <1>4, <1>5
<1>7. A = Body(A)
  <2> HIDE DEF A, Body
  <2> QED BY <1>1, <1>6, Zenon
<1> HIDE DEF A
<1>8. A[0] = <<>> /\ \A k \in 1..n : A[k] = InsertBid(A[k-1], arr[k])
  BY <1>2, <1>7
<1>9. \A k \in 0..n : A[k] = h[k]
  <2>1. A[0] = h[0] /\ \A k \in 1..n : A[k-1] = h[k-1] => A[k] = h[k]
    BY <1>2, <1>5, <1>8
  <2>2. SameRounds(A, h, n)
    BY <2>1 DEF SameRounds
  <2> QED BY <2>2, SameLoop
<1>10. \A k \in 0..n : A[k] \in Seq(SweepSet)
  BY <1>4, <1>9
<1> QED BY <1>8, <1>10 DEF A

\* The loop of SortAsks inserts one element a round.
AskLoop(arr, n) ==
  CHOOSE h : h = [k \in 0..n |-> IF k = 0 THEN <<>> ELSE InsertAsk(h[k - 1], arr[k])]

\* It does so from <<>> on.
LEMMA AskRounds ==
  ASSUME NEW n \in Nat, NEW arr, \A k \in 1..n : arr[k] \in SweepSet
  PROVE  LET A == AskLoop(arr, n)
         IN  /\ A[0] = <<>>
             /\ \A k \in 1..n : A[k] = InsertAsk(A[k-1], arr[k])
             /\ \A k \in 0..n : A[k] \in Seq(SweepSet)
<1> DEFINE Body(h) == [k \in 0..n |-> IF k = 0 THEN <<>> ELSE InsertAsk(h[k - 1], arr[k])]
           W == [k \in 0..n |-> Seq(SweepSet)]
           G == [k \in 1..n |-> [v \in Seq(SweepSet) |-> InsertAsk(v, arr[k])]]
           A == AskLoop(arr, n)
<1>1. A = CHOOSE h : h = Body(h)
  BY Zenon DEF AskLoop
<1>2. \A k \in 1..n : k - 1 \in 0..n /\ k \in 0..n
  OBVIOUS
<1>3. ASSUME NEW v \in Seq(SweepSet), NEW e \in SweepSet PROVE InsertAsk(v, e) \in Seq(SweepSet)
  BY InsertFacts DEF InsertAsk
<1>4. PICK h : /\ h = [k \in 0..n |-> h[k]] /\ Recurses(h, <<>>, G, n)
               /\ \A k \in 0..n : h[k] \in W[k]
  <2>1. \A k \in 1..n : \A v \in W[k-1] : G[k][v] \in W[k]
    BY <1>2, <1>3
  <2>2. <<>> \in W[0]
    OBVIOUS
  <2> HIDE DEF W, G
  <2> QED BY <2>1, <2>2, Recursion
<1>5. \A k \in 0..n : h[k] = IF k = 0 THEN <<>> ELSE InsertAsk(h[k-1], arr[k])
  <2>1. h[0] = <<>> /\ \A k \in 1..n : h[k] = G[k][h[k-1]]
    BY <1>4, Zenon DEF Recurses
  <2>2. \A k \in 0..n : h[k] \in Seq(SweepSet)
    BY <1>4
  <2>3. ASSUME NEW k \in 1..n PROVE h[k] = InsertAsk(h[k-1], arr[k])
    BY <1>2, <2>1, <2>2
  <2> QED BY <2>1, <2>3
<1>6. h = Body(h)
  BY <1>4, <1>5
<1>7. A = Body(A)
  <2> HIDE DEF A, Body
  <2> QED BY <1>1, <1>6, Zenon
<1> HIDE DEF A
<1>8. A[0] = <<>> /\ \A k \in 1..n : A[k] = InsertAsk(A[k-1], arr[k])
  BY <1>2, <1>7
<1>9. \A k \in 0..n : A[k] = h[k]
  <2>1. A[0] = h[0] /\ \A k \in 1..n : A[k-1] = h[k-1] => A[k] = h[k]
    BY <1>2, <1>5, <1>8
  <2>2. SameRounds(A, h, n)
    BY <2>1 DEF SameRounds
  <2> QED BY <2>2, SameLoop
<1>10. \A k \in 0..n : A[k] \in Seq(SweepSet)
  BY <1>4, <1>9
<1> QED BY <1>8, <1>10 DEF A

\* The numbers of a vector are in ascending order.
Sorted(v) == \A i, j \in 1..Len(v) : i <= j => v[i] <= v[j]

\* Insertion keeps the order.
LEMMA InsertLevelSorted ==
  ASSUME NEW v \in Seq(Nat), NEW l \in Nat, Sorted(v)
  PROVE  InsertLevel(v, l) \in Seq(Nat) /\ Sorted(InsertLevel(v, l))
<1> DEFINE behind == {j \in DOMAIN v : v[j] > l}
           r == InsertKey(v, l, behind)
           p == Place(v, behind)
<1>1. /\ r \in Seq(Nat) /\ Len(r) = Len(v) + 1
      /\ p \in 1..Len(v) + 1
      /\ \A i \in 1..Len(r) : r[i] = IF i < p THEN v[i] ELSE IF i = p THEN l ELSE v[i-1]
      /\ \A i \in 1..Len(v) : i >= p => i \in behind
      /\ p > 1 => p - 1 \in 1..Len(v) /\ p - 1 \notin behind
  <2>1. IsInsert(r, p, v, l, behind) /\ r \in Seq(Nat)
    <3> HIDE DEF behind
    <3> QED BY InsertFacts
  <2> HIDE DEF r, p, behind
  <2> QED BY <2>1 DEF IsInsert
<1>2. DOMAIN v = 1..Len(v) /\ Len(v) \in Nat /\ \A i \in 1..Len(v) : v[i] \in Nat
  OBVIOUS
<1>3. \A i \in 1..Len(v) : i >= p => v[i] > l
  BY <1>1
<1>4. \A i \in 1..Len(v) : i < p => v[i] <= l
  <2> SUFFICES ASSUME NEW i \in 1..Len(v), i < p PROVE v[i] <= l
    OBVIOUS
  <2>1. p > 1 /\ p - 1 \in 1..Len(v) /\ p - 1 \notin behind
    BY <1>1, <1>2
  <2>2. v[p-1] <= l
    BY <1>2, <2>1
  <2>3. v[i] <= v[p-1]
    <3>1. i <= p - 1
      BY <1>1, <1>2
    <3> QED BY <2>1, <3>1 DEF Sorted
  <2> QED BY <1>2, <2>1, <2>2, <2>3
<1>5. InsertLevel(v, l) = r
  BY DEF InsertLevel
<1> HIDE DEF r, p, behind
<1>6. ASSUME NEW i \in 1..Len(r), NEW j \in 1..Len(r), i <= j PROVE r[i] <= r[j]
  <2>1. /\ r[i] = IF i < p THEN v[i] ELSE IF i = p THEN l ELSE v[i-1]
        /\ r[j] = IF j < p THEN v[j] ELSE IF j = p THEN l ELSE v[j-1]
    BY <1>1
  <2>2. p \in Nat /\ Len(v) \in Nat /\ i \in 1..Len(v)+1 /\ j \in 1..Len(v)+1
    BY <1>1, <1>2
  <2>3. i < p => i \in 1..Len(v)
    BY <1>1, <2>2
  <2>4. j < p => j \in 1..Len(v)
    BY <1>1, <2>2
  <2>5. i > p => i - 1 \in 1..Len(v) /\ i - 1 >= p
    BY <1>1, <2>2
  <2>6. j > p => j - 1 \in 1..Len(v) /\ j - 1 >= p
    BY <1>1, <2>2
  <2>7. CASE j < p
    BY <1>6, <2>1, <2>2, <2>3, <2>4, <2>7 DEF Sorted
  <2>8. CASE j = p
    BY <1>2, <1>4, <1>6, <2>1, <2>2, <2>3, <2>8
  <2>9. CASE j > p
    <3>1. r[j] = v[j-1] /\ v[j-1] > l /\ v[j-1] \in Nat
      BY <1>2, <1>3, <2>1, <2>2, <2>6, <2>9
    <3>2. CASE i < p
      BY <1>2, <1>4, <2>1, <2>2, <2>3, <3>1, <3>2
    <3>3. CASE i = p
      BY <2>1, <2>2, <3>1, <3>3
    <3>4. CASE i > p
      <4>1. i - 1 <= j - 1
        BY <1>6, <2>2
      <4>2. v[i-1] <= v[j-1]
        BY <2>5, <2>6, <2>9, <3>4, <4>1 DEF Sorted
      <4> QED BY <2>1, <2>2, <3>1, <3>4, <4>2
    <3> QED BY <2>2, <3>2, <3>3, <3>4
  <2> QED BY <2>2, <2>7, <2>8, <2>9
<1> QED BY <1>1, <1>5, <1>6 DEF Sorted

\* The tiers of a configuration are sorted.
LEMMA LevelVecSorted ==
  ASSUME NEW levels \in Seq(Nat)
  PROVE  levelVec(levels) \in Seq(Nat) /\ Sorted(levelVec(levels))
<1> DEFINE n == Len(levels)
           A == LevelLoop(levels, n)
           P == {k \in 0..n : A[k] \in Seq(Nat) /\ Sorted(A[k])}
<1>1. n \in Nat /\ \A k \in 1..n : levels[k] \in Nat
  OBVIOUS
<1>2. A[0] = <<>> /\ \A k \in 1..n : A[k] = InsertLevel(A[k-1], levels[k])
  BY <1>1, LevelRounds
<1>3. levelVec(levels) = A[n]
  BY Zenon DEF levelVec, LevelLoop
<1> HIDE DEF A, n
<1>4. 0 \in P
  <2>1. <<>> \in Seq(Nat) /\ Sorted(<<>>)
    BY DEF Sorted
  <2>2. A[0] \in Seq(Nat) /\ Sorted(A[0])
    BY <1>2, <2>1, Zenon
  <2> QED BY <1>1, <2>2
<1>5. ASSUME NEW k \in 0..n-1, k \in P PROVE k + 1 \in P
  <2>1. k + 1 \in 1..n /\ k + 1 \in 0..n /\ (k + 1) - 1 = k
    BY <1>1
  <2>2. A[k+1] = InsertLevel(A[k], levels[k+1]) /\ levels[k+1] \in Nat
    BY <1>1, <1>2, <2>1
  <2>3. A[k] \in Seq(Nat) /\ Sorted(A[k])
    BY <1>5
  <2> QED BY <2>1, <2>2, <2>3, InsertLevelSorted
<1>6. \A k \in 0..n : k \in P
  <2> HIDE DEF P
  <2> QED BY <1>1, <1>4, <1>5, Induction
<1>7. n \in 0..n
  BY <1>1
<1> QED BY <1>3, <1>6, <1>7

\* Insertion keeps the order of the prices.
LEMMA InsertByPriceAscends ==
  ASSUME NEW v \in Seq(LevelSet), NEW l \in LevelSet, Ascends(v)
  PROVE  /\ InsertByPrice(v, l) \in Seq(LevelSet)
         /\ Len(InsertByPrice(v, l)) = Len(v) + 1
         /\ Ascends(InsertByPrice(v, l))
         /\ \A x : Count(InsertByPrice(v, l), x) = Count(v, x) + (IF l = x THEN 1 ELSE 0)
<1> DEFINE behind == {j \in DOMAIN v : v[j].price > l.price}
           r == InsertKey(v, l, behind)
           p == Place(v, behind)
<1>1. IsInsert(r, p, v, l, behind) /\ r \in Seq(LevelSet)
  <2> HIDE DEF behind
  <2> QED BY InsertFacts
<1>2. \A x : Count(r, x) = Count(v, x) + (IF l = x THEN 1 ELSE 0)
  <2> HIDE DEF behind
  <2> QED BY InsertFacts
<1>3. InsertByPrice(v, l) = r
  BY DEF InsertByPrice
<1>4. DOMAIN v = 1..Len(v) /\ Len(v) \in Nat /\ \A i \in 1..Len(v) : v[i] \in LevelSet
  OBVIOUS
<1>5. \A i \in 1..Len(v) : i \in behind <=> v[i].price > l.price
  BY <1>4
<1>6. l.price \in Nat /\ \A i \in 1..Len(v) : v[i].price \in Nat
  BY <1>4, BookAssumption DEF LevelSet
<1> HIDE DEF r, p, behind
<1>7. /\ Len(r) = Len(v) + 1 /\ p \in 1..Len(v) + 1
      /\ \A i \in 1..Len(r) : r[i] = IF i < p THEN v[i] ELSE IF i = p THEN l ELSE v[i-1]
      /\ \A i \in 1..Len(v) : i >= p => v[i].price > l.price
      /\ p > 1 => p - 1 \in 1..Len(v) /\ ~(v[p-1].price > l.price)
  BY <1>1, <1>5 DEF IsInsert
<1>8. ASSUME NEW i \in 1..Len(r)-1 PROVE r[i].price <= r[i+1].price
  <2>1. /\ i \in 1..Len(r) /\ i + 1 \in 1..Len(r) /\ p \in Nat /\ i \in 1..Len(v)
    BY <1>4, <1>7
  <2>2. CASE i + 1 < p
    <3>1. r[i] = v[i] /\ r[i+1] = v[i+1] /\ i \in 1..Len(v)-1
      BY <1>4, <1>7, <2>1, <2>2
    <3> QED BY <3>1 DEF Ascends
  <2>3. CASE i + 1 = p
    <3>1. r[i] = v[i] /\ r[i+1] = l /\ p > 1 /\ i = p - 1
      BY <1>4, <1>7, <2>1, <2>3
    <3> QED BY <1>6, <1>7, <2>1, <3>1
  <2>4. CASE i = p
    <3>1. r[i] = l /\ r[i+1] = v[i] /\ v[i].price > l.price
      BY <1>4, <1>7, <2>1, <2>4
    <3> QED BY <1>6, <2>1, <3>1
  <2>5. CASE i > p
    <3>1. r[i] = v[i-1] /\ r[i+1] = v[i] /\ i - 1 \in 1..Len(v)-1 /\ (i - 1) + 1 = i
      BY <1>4, <1>7, <2>1, <2>5
    <3> QED BY <3>1 DEF Ascends
  <2> QED BY <2>1, <2>2, <2>3, <2>4, <2>5
<1>9. Ascends(r)
  BY <1>8 DEF Ascends
<1> QED BY <1>1, <1>2, <1>3, <1>7, <1>9

\* The first k elements and one more.
LEMMA PrefixStep ==
  ASSUME NEW S, NEW s \in Seq(S), NEW k \in 0..Len(s)-1
  PROVE  /\ SubSeq(s, 1, k) \in Seq(S) /\ Len(SubSeq(s, 1, k)) = k
         /\ \A i \in 1..k : SubSeq(s, 1, k)[i] = s[i]
         /\ SubSeq(s, 1, k + 1) = SubSeq(s, 1, k) \o <<s[k+1]>>
         /\ \A x : Count(SubSeq(s, 1, k + 1), x)
                     = Count(SubSeq(s, 1, k), x) + (IF s[k+1] = x THEN 1 ELSE 0)
<1>1. Len(s) \in Nat /\ k \in Int /\ k + 1 \in 1..Len(s) /\ \A i \in 1..k : s[i] \in S
  OBVIOUS
<1>2. /\ SubSeq(s, 1, k) \in Seq(S)
      /\ Len(SubSeq(s, 1, k)) = IF 1 <= k THEN k - 1 + 1 ELSE 0
      /\ \A i \in 1..k-1+1 : SubSeq(s, 1, k)[i] = s[1+i-1]
  BY <1>1, SubSeqProperties
<1>3. SubSeq(s, 1, k + 1) = SubSeq(s, 1, k) \o <<s[k+1]>>
  <2>1. 1 \in 1..Len(s) /\ k + 1 \in 1..Len(s) /\ (k + 1) - 1 = k
    BY <1>1
  <2> QED BY <2>1, SubSeqRecursiveSecond
<1>4. s[k+1] \in S /\ <<s[k+1]>> \in Seq(S)
  BY <1>1
<1>5. ASSUME NEW x
      PROVE  Count(SubSeq(s, 1, k + 1), x)
               = Count(SubSeq(s, 1, k), x) + (IF s[k+1] = x THEN 1 ELSE 0)
  <2>1. Count(SubSeq(s, 1, k) \o <<s[k+1]>>, x) = Count(SubSeq(s, 1, k), x) + Count(<<s[k+1]>>, x)
    BY <1>2, <1>4, CountConcat
  <2>2. Count(<<s[k+1]>>, x) = IF s[k+1] = x THEN 1 ELSE 0
    BY CountSmall
  <2> QED BY <1>3, <2>1, <2>2
<1>6. Len(SubSeq(s, 1, k)) = k /\ \A i \in 1..k : SubSeq(s, 1, k)[i] = s[i]
  BY <1>1, <1>2
<1> QED BY <1>2, <1>3, <1>5, <1>6

\* insertion_sort puts the first levels in order, keeps them, and leaves the rest.
LEMMA InsertionSortFacts ==
  ASSUME NEW arr \in Seq(LevelSet), NEW len \in 0..Len(arr)
  PROVE  LET r == insertion_sort(arr, len)
         IN  /\ r \in Seq(LevelSet) /\ Len(r) = Len(arr)
             /\ Ascends(SubSeq(r, 1, len))
             /\ \A x : Count(SubSeq(r, 1, len), x) = Count(SubSeq(arr, 1, len), x)
<1> DEFINE A == PriceLoop(arr, len)
           rest == SubSeq(arr, len + 1, Len(arr))
           r == insertion_sort(arr, len)
           P == {k \in 0..len : /\ A[k] \in Seq(LevelSet) /\ Len(A[k]) = k /\ Ascends(A[k])
                                /\ \A x : Count(A[k], x) = Count(SubSeq(arr, 1, k), x)}
<1>1. len \in Nat /\ Len(arr) \in Nat /\ len <= Len(arr) /\ \A k \in 1..Len(arr) : arr[k] \in LevelSet
  OBVIOUS
<1>2. A[0] = <<>> /\ \A k \in 1..len : A[k] = InsertByPrice(A[k-1], arr[k])
  <2>1. \A k \in 1..len : arr[k] \in LevelSet
    BY <1>1
  <2>2. len \in Nat
    BY <1>1
  <2> QED BY <2>1, <2>2, PriceRounds
<1>3. r = A[len] \o rest
  BY Zenon DEF insertion_sort, PriceLoop
<1> HIDE DEF A, r
<1>4. 0 \in P
  <2>1. <<>> \in Seq(LevelSet) /\ Len(<<>>) = 0 /\ Ascends(<<>>)
    BY DEF Ascends
  <2>2. SubSeq(arr, 1, 0) = <<>>
    BY <1>1, SubSeqEmpty
  <2>3. /\ A[0] \in Seq(LevelSet) /\ Len(A[0]) = 0 /\ Ascends(A[0])
        /\ \A x : Count(A[0], x) = Count(SubSeq(arr, 1, 0), x)
    BY <1>2, <2>1, <2>2, Zenon
  <2> QED BY <1>1, <2>3
<1>5. ASSUME NEW k \in 0..len-1, k \in P PROVE k + 1 \in P
  <2>1. k + 1 \in 1..len /\ k + 1 \in 0..len /\ (k + 1) - 1 = k /\ k \in 0..Len(arr)-1
    BY <1>1
  <2>2. A[k+1] = InsertByPrice(A[k], arr[k+1]) /\ arr[k+1] \in LevelSet
    BY <1>1, <1>2, <2>1
  <2>3. /\ A[k] \in Seq(LevelSet) /\ Len(A[k]) = k /\ Ascends(A[k])
        /\ \A x : Count(A[k], x) = Count(SubSeq(arr, 1, k), x)
    BY <1>5
  <2>4. /\ A[k+1] \in Seq(LevelSet) /\ Len(A[k+1]) = k + 1 /\ Ascends(A[k+1])
        /\ \A x : Count(A[k+1], x) = Count(A[k], x) + (IF arr[k+1] = x THEN 1 ELSE 0)
    <3> DEFINE v == A[k]
               l == arr[k+1]
    <3> HIDE DEF v, l
    <3>1. v \in Seq(LevelSet) /\ l \in LevelSet /\ Ascends(v) /\ Len(v) = k
      BY <2>2, <2>3 DEF v, l
    <3>2. /\ InsertByPrice(v, l) \in Seq(LevelSet) /\ Len(InsertByPrice(v, l)) = Len(v) + 1
          /\ Ascends(InsertByPrice(v, l))
          /\ \A x : Count(InsertByPrice(v, l), x) = Count(v, x) + (IF l = x THEN 1 ELSE 0)
      BY <3>1, InsertByPriceAscends
    <3> QED BY <2>2, <3>1, <3>2 DEF v, l
  <2>5. \A x : Count(SubSeq(arr, 1, k + 1), x)
                 = Count(SubSeq(arr, 1, k), x) + (IF arr[k+1] = x THEN 1 ELSE 0)
    BY <2>1, PrefixStep
  <2>6. \A x : Count(A[k+1], x) = Count(SubSeq(arr, 1, k + 1), x)
    BY <2>3, <2>4, <2>5
  <2> QED BY <2>1, <2>4, <2>6
<1>6. len \in P
  <2>1. \A k \in 0..len : k \in P
    <3> HIDE DEF P
    <3> QED BY <1>1, <1>4, <1>5, Induction
  <2> HIDE DEF P
  <2> QED BY <1>1, <2>1
<1>7. /\ A[len] \in Seq(LevelSet) /\ Len(A[len]) = len /\ Ascends(A[len])
      /\ \A x : Count(A[len], x) = Count(SubSeq(arr, 1, len), x)
  BY <1>6
<1>8. rest \in Seq(LevelSet) /\ Len(rest) = Len(arr) - len
  <2>1. \A i \in len+1..Len(arr) : arr[i] \in LevelSet
    BY <1>1
  <2>2. /\ rest \in Seq(LevelSet)
        /\ Len(rest) = IF len + 1 <= Len(arr) THEN Len(arr) - (len + 1) + 1 ELSE 0
    BY <1>1, <2>1, SubSeqProperties
  <2> QED BY <1>1, <2>2
<1> HIDE DEF rest
<1>9. /\ r \in Seq(LevelSet) /\ Len(r) = Len(arr)
      /\ \A i \in 1..len : r[i] = A[len][i]
  <2>1. /\ r \in Seq(LevelSet) /\ Len(r) = Len(A[len]) + Len(rest)
        /\ \A i \in 1..Len(A[len]) + Len(rest) :
             r[i] = IF i <= Len(A[len]) THEN A[len][i] ELSE rest[i - Len(A[len])]
    BY <1>3, <1>7, <1>8, ConcatProperties
  <2> QED BY <1>1, <1>7, <1>8, <2>1
<1>10. SubSeq(r, 1, len) = A[len]
  <2>1. \A i \in 1..len : r[i] \in LevelSet
    BY <1>1, <1>9
  <2>2. /\ SubSeq(r, 1, len) \in Seq(LevelSet)
        /\ Len(SubSeq(r, 1, len)) = IF 1 <= len THEN len - 1 + 1 ELSE 0
        /\ \A i \in 1..len-1+1 : SubSeq(r, 1, len)[i] = r[1+i-1]
    BY <1>1, <2>1, SubSeqProperties
  <2>3. Len(SubSeq(r, 1, len)) = Len(A[len]) /\ \A i \in 1..len : SubSeq(r, 1, len)[i] = A[len][i]
    BY <1>1, <1>7, <1>9, <2>2
  <2> QED BY <1>7, <2>2, <2>3, SeqEqual
<1> QED BY <1>7, <1>9, <1>10 DEF r

-----------------------------------------------------------------------------
(* Sequences laid end to end. *)

\* The values on the way to FlattenSeq(q).
Flattens(h, q, S) ==
  /\ h[0] = <<>>
  /\ \A i \in 1..Len(q) : h[i] = h[i-1] \o q[i]
  /\ \A i \in 0..Len(q) : h[i] \in Seq(S)
  /\ FlattenSeq(q) = h[Len(q)]

\* FlattenSeq is a loop that adds one sequence a round.
LEMMA FlattenFacts ==
  ASSUME NEW S, NEW q \in Seq(Seq(S))
  PROVE  \E h : Flattens(h, q, S)
<1> DEFINE n == Len(q)
           W == [k \in 0..n |-> Seq(S)]
           G == [k \in 1..n |-> [v \in Seq(S) |-> v \o q[k]]]
           Body(g) == [i \in 1..n |-> IF i = 1 THEN q[i] ELSE g[i-1] \o q[i]]
           A == CHOOSE g : g = Body(g)
<1>1. n \in Nat /\ \A k \in 1..n : q[k] \in Seq(S)
  OBVIOUS
<1>2. \A k \in 1..n : k - 1 \in 0..n /\ k \in 0..n
  BY <1>1
<1>3. FlattenSeq(q) = IF n = 0 THEN q ELSE A[n]
  BY Zenon DEF FlattenSeq
<1> HIDE DEF n
<1>4. PICK h : /\ h = [k \in 0..n |-> h[k]] /\ Recurses(h, <<>>, G, n)
               /\ \A k \in 0..n : h[k] \in W[k]
  <2>1. \A k \in 1..n : \A v \in W[k-1] : G[k][v] \in W[k]
    <3> SUFFICES ASSUME NEW k \in 1..n, NEW v \in Seq(S) PROVE v \o q[k] \in Seq(S)
      BY <1>2
    <3>1. q[k] \in Seq(S)
      BY <1>1
    <3> QED BY <3>1, ConcatProperties
  <2>2. <<>> \in W[0]
    BY <1>1
  <2> HIDE DEF W, G
  <2> QED BY <1>1, <2>1, <2>2, Recursion
<1>5. h[0] = <<>> /\ \A k \in 1..n : h[k] = h[k-1] \o q[k]
  <2>1. h[0] = <<>> /\ \A k \in 1..n : h[k] = G[k][h[k-1]]
    BY <1>4, Zenon DEF Recurses
  <2>2. \A k \in 0..n : h[k] \in Seq(S)
    BY <1>4
  <2>3. ASSUME NEW k \in 1..n PROVE h[k] = h[k-1] \o q[k]
    BY <1>2, <2>1, <2>2
  <2> QED BY <2>1, <2>3
<1>6. \A k \in 0..n : h[k] \in Seq(S)
  BY <1>4
<1>7. FlattenSeq(q) = h[n]
  <2>1. CASE n = 0
    <3>1. q = <<>>
      BY <2>1 DEF n
    <3> QED BY <1>3, <1>5, <2>1, <3>1
  <2>2. CASE n # 0
    <3>1. 1 \in 1..n /\ 1 \in 0..n
      BY <1>1, <2>2
    <3>2. h[1] = q[1]
      <4>1. h[1] = <<>> \o q[1]
        <5>1. \A k \in 1..n : k = 1 => k - 1 = 0
          OBVIOUS
        <5>2. \A k \in 1..n : k = 1 => h[k] = h[0] \o q[k]
          BY <1>5, <5>1
        <5> QED BY <1>5, <3>1, <5>2
      <4>2. q[1] \in Seq(S)
        BY <1>1, <3>1
      <4> QED BY <4>1, <4>2, ConcatEmptySeq
    <3> DEFINE f == [i \in 1..n |-> h[i]]
    <3>3. f = Body(f)
      <4>1. ASSUME NEW i \in 1..n PROVE f[i] = IF i = 1 THEN q[i] ELSE f[i-1] \o q[i]
        <5>1. i # 1 => i - 1 \in 1..n
          BY <1>1
        <5> QED BY <1>5, <3>2, <5>1
      <4> QED BY <4>1
    <3>4. A = Body(A)
      <4> HIDE DEF Body, f
      <4> QED BY <3>3, Zenon
    <3> HIDE DEF A
    <3> DEFINE B == [i \in 0..n |-> IF i = 0 THEN <<>> ELSE A[i]]
    <3>5. A[1] = q[1] /\ \A i \in 1..n : i # 1 => A[i] = A[i-1] \o q[i]
      BY <3>1, <3>4
    <3>6. \A i \in 0..n : B[i] = IF i = 0 THEN <<>> ELSE A[i]
      OBVIOUS
    <3> HIDE DEF B
    <3>7. ASSUME NEW k \in 1..n, B[k-1] = h[k-1] PROVE B[k] = h[k]
      <4>1. CASE k = 1
        BY <1>2, <3>2, <3>5, <3>6, <4>1
      <4>2. CASE k # 1
        <5>1. k - 1 \in 0..n /\ k - 1 # 0 /\ k \in 0..n /\ k # 0
          BY <1>1, <4>2
        <5> QED BY <1>5, <3>5, <3>6, <3>7, <4>2, <5>1
      <4> QED BY <4>1, <4>2
    <3>8. B[0] = h[0]
      BY <1>1, <1>5, <3>6
    <3>9. \A k \in 0..n : B[k] = h[k]
      <4>1. SameRounds(B, h, n)
        BY <3>7, <3>8 DEF SameRounds
      <4> QED BY <1>1, <4>1, SameLoop
    <3>10. n \in 0..n
      BY <1>1
    <3> QED BY <1>3, <2>2, <3>6, <3>9, <3>10
  <2> QED BY <2>1, <2>2
<1> QED BY <1>5, <1>6, <1>7 DEF Flattens, n

\* The levels of a map of snapshots are levels.
LEMMA LevelsFacts ==
  ASSUME NEW S, NEW l2 \in [EXCHANGE -> [bid : Seq(S), ask : Seq(S)]],
         NEW side \in {"bid", "ask"}
  PROVE  Levels(l2, side) \in Seq(S)
<1> DEFINE q == [i \in 1..NumExchanges + 1 |-> l2[i - 1][side]]
<1>1. NumExchanges \in Nat /\ \A i \in 1..NumExchanges + 1 : i - 1 \in EXCHANGE
  BY ExchangesAssumption DEF EXCHANGE, null
<1>2. \A ex \in EXCHANGE : l2[ex][side] \in Seq(S)
  OBVIOUS
<1>3. q \in Seq(Seq(S)) /\ Len(q) = NumExchanges + 1
  BY <1>1, <1>2
<1>4. \A i \in 1..NumExchanges + 1 : q[i] = l2[i-1][side]
  OBVIOUS
<1>5. Levels(l2, side) = FlattenSeq(q)
  BY DEF Levels
<1> HIDE DEF q
<1>6. PICK h : Flattens(h, q, S)
  BY <1>3, FlattenFacts
<1>7. /\ h[0] = <<>>
      /\ \A i \in 1..NumExchanges + 1 : h[i] = h[i-1] \o q[i]
      /\ \A i \in 0..NumExchanges + 1 : h[i] \in Seq(S)
      /\ Levels(l2, side) = h[NumExchanges + 1]
  BY <1>3, <1>5, <1>6 DEF Flattens
<1>8. NumExchanges + 1 \in 0..NumExchanges + 1 /\ NumExchanges + 1 \in Nat
  BY <1>1
<1> QED BY <1>7, <1>8

-----------------------------------------------------------------------------
(* The units of a side. *)

\* t[i] units are in the first i levels, each at the price of its level.
UnitsAt(t, side, units) ==
  /\ t \in [0..Len(side) -> Nat] /\ t[0] = 0 /\ Len(units) = t[Len(side)]
  /\ \A i \in 1..Len(side) :
       /\ t[i] = t[i-1] + side[i].size /\ t[i] <= Len(units)
       /\ \A j \in t[i-1]+1..t[i] : units[j] = side[i].price

\* Units lays the units of the levels end to end.
LEMMA UnitsFacts ==
  ASSUME NEW side \in Seq(LevelSet)
  PROVE  /\ Units(side) \in Seq(0..MaxPrice)
         /\ \E t : UnitsAt(t, side, Units(side))
<1> DEFINE n == Len(side)
           S == 0..MaxPrice
           q == [i \in DOMAIN side |-> [u \in 1..side[i].size |-> side[i].price]]
           U == Units(side)
<1>1. n \in Nat /\ DOMAIN side = 1..n /\ \A i \in 1..n : side[i] \in LevelSet
  OBVIOUS
<1>2. \A i \in 1..n : side[i].size \in Nat /\ side[i].price \in S
  BY <1>1 DEF LevelSet
<1>3. q \in Seq(Seq(S)) /\ Len(q) = n
  <2> HIDE DEF n, S
  <2>1. \A i \in 1..n : [u \in 1..side[i].size |-> side[i].price] \in Seq(S)
    BY <1>2
  <2> QED BY <1>1, <2>1
<1>4. \A i \in 1..n : /\ q[i] \in Seq(S) /\ Len(q[i]) = side[i].size
                      /\ \A u \in 1..side[i].size : q[i][u] = side[i].price
  <2> HIDE DEF n, S
  <2> QED BY <1>1, <1>2
<1>5. U = FlattenSeq(q)
  BY DEF Units
<1> HIDE DEF q, U, n, S
<1>6. PICK h : Flattens(h, q, S)
  BY <1>3, FlattenFacts
<1>7. /\ h[0] = <<>> /\ U = h[n]
      /\ \A i \in 1..n : h[i] = h[i-1] \o q[i]
      /\ \A i \in 0..n : h[i] \in Seq(S)
  BY <1>3, <1>5, <1>6 DEF Flattens
<1> DEFINE t == [i \in 0..n |-> Len(h[i])]
<1>8. t \in [0..n -> Nat] /\ \A i \in 0..n : t[i] = Len(h[i]) /\ t[i] \in Nat
  BY <1>7
<1> HIDE DEF t
<1>9. \A i \in 1..n : i - 1 \in 0..n /\ i \in 0..n
  BY <1>1
<1>10. ASSUME NEW i \in 1..n
       PROVE  /\ t[i] = t[i-1] + side[i].size
              /\ \A j \in 1..t[i] : h[i][j] = IF j <= t[i-1] THEN h[i-1][j] ELSE side[i].price
  <2>1. h[i] = h[i-1] \o q[i] /\ h[i-1] \in Seq(S) /\ q[i] \in Seq(S)
    BY <1>4, <1>7, <1>9
  <2>2. /\ Len(h[i]) = Len(h[i-1]) + Len(q[i])
        /\ \A j \in 1..Len(h[i-1]) + Len(q[i]) :
             h[i][j] = IF j <= Len(h[i-1]) THEN h[i-1][j] ELSE q[i][j - Len(h[i-1])]
    <3> DEFINE x == h[i-1]
               y == q[i]
    <3> HIDE DEF x, y
    <3>1. x \in Seq(S) /\ y \in Seq(S) /\ h[i] = x \o y
      BY <2>1 DEF x, y
    <3>2. /\ Len(x \o y) = Len(x) + Len(y)
          /\ \A j \in 1..Len(x) + Len(y) : (x \o y)[j] = IF j <= Len(x) THEN x[j] ELSE y[j - Len(x)]
      BY <3>1, ConcatProperties
    <3> QED BY <3>1, <3>2 DEF x, y
  <2>3. t[i] = Len(h[i]) /\ t[i-1] = Len(h[i-1]) /\ Len(q[i]) = side[i].size /\ t[i-1] \in Nat
    BY <1>4, <1>8, <1>9
  <2>4. t[i] = t[i-1] + side[i].size /\ side[i].size \in Nat
    BY <1>2, <2>2, <2>3
  <2>5. ASSUME NEW j \in 1..t[i] PROVE h[i][j] = IF j <= t[i-1] THEN h[i-1][j] ELSE side[i].price
    <3>1. h[i][j] = IF j <= t[i-1] THEN h[i-1][j] ELSE q[i][j - t[i-1]]
      BY <2>2, <2>3, <2>4
    <3>2. ~(j <= t[i-1]) => j - t[i-1] \in 1..side[i].size
      BY <2>3, <2>4
    <3> QED BY <1>4, <3>1, <3>2
  <2> QED BY <2>4, <2>5
\* What the first i levels have is what all have, from the last level backwards.
<1> DEFINE P == {d \in 0..n : t[n-d] <= t[n] /\ \A j \in 1..t[n-d] : U[j] = h[n-d][j]}
<1>11. \A d \in 0..n : d \in P
  <2>1. 0 \in P
    <3>1. n - 0 = n /\ n \in 0..n /\ 0 \in 0..n
      BY <1>1
    <3> QED BY <1>7, <1>8, <3>1
  <2>2. ASSUME NEW d \in 0..n-1, d \in P PROVE d + 1 \in P
    <3> DEFINE i == n - d
    <3>1. i \in 1..n /\ n - (d + 1) = i - 1 /\ d + 1 \in 0..n /\ d \in 0..n
      BY <1>1
    <3>2. t[i] <= t[n] /\ \A j \in 1..t[i] : U[j] = h[i][j]
      BY <2>2
    <3> HIDE DEF i
    <3>3. i \in 0..n /\ i - 1 \in 0..n /\ n \in 0..n
      BY <1>1, <3>1
    <3>4. t[i] \in Nat /\ t[i-1] \in Nat /\ t[n] \in Nat /\ side[i].size \in Nat
      BY <1>2, <1>8, <3>1, <3>3
    <3>5. t[i] = t[i-1] + side[i].size
      BY <1>10, <3>1
    <3>6. t[i-1] <= t[n]
      BY <3>2, <3>4, <3>5
    <3>7. ASSUME NEW j \in 1..t[i-1] PROVE U[j] = h[i-1][j]
      <4>1. j \in 1..t[i] /\ j <= t[i-1]
        BY <3>4, <3>5
      <4> QED BY <1>10, <3>1, <3>2, <4>1
    <3>8. t[n-(d+1)] <= t[n] /\ \A j \in 1..t[n-(d+1)] : U[j] = h[n-(d+1)][j]
      BY <3>1, <3>6, <3>7
    <3> QED BY <3>1, <3>8
  <2> HIDE DEF P
  <2> QED BY <1>1, <2>1, <2>2, Induction
<1>12. ASSUME NEW i \in 0..n PROVE t[i] <= t[n] /\ \A j \in 1..t[i] : U[j] = h[i][j]
  <2>1. n - i \in 0..n /\ n - (n - i) = i
    BY <1>1
  <2>2. n - i \in P
    BY <1>11, <2>1
  <2>3. t[n-(n-i)] <= t[n] /\ \A j \in 1..t[n-(n-i)] : U[j] = h[n-(n-i)][j]
    BY <2>2
  <2> QED BY <2>1, <2>3
<1>13. U \in Seq(S) /\ Len(U) = t[n] /\ t[0] = 0
  <2>1. n \in 0..n /\ 0 \in 0..n
    BY <1>1
  <2>2. Len(<<>>) = 0
    OBVIOUS
  <2>3. t[0] = Len(<<>>)
    BY <1>7, <1>8, <2>1
  <2> QED BY <1>7, <1>8, <2>1, <2>2, <2>3
<1>14. ASSUME NEW i \in 1..n
       PROVE  /\ t[i] = t[i-1] + side[i].size /\ t[i] <= Len(U)
              /\ \A j \in t[i-1]+1..t[i] : U[j] = side[i].price
  <2>1. i \in 0..n /\ t[i-1] \in Nat /\ t[i] \in Nat
    BY <1>8, <1>9
  <2>2. ASSUME NEW j \in t[i-1]+1..t[i] PROVE U[j] = side[i].price
    <3>1. j \in 1..t[i] /\ ~(j <= t[i-1])
      BY <2>1
    <3> QED BY <1>10, <1>12, <2>1, <3>1
  <2> QED BY <1>10, <1>12, <1>13, <2>1, <2>2
<1>15. UnitsAt(t, side, U)
  BY <1>8, <1>13, <1>14 DEF UnitsAt, n
<1> QED BY <1>13, <1>15 DEF S, U

\* The sum of units that end within a level.
LEMMA SumOfUnits ==
  ASSUME NEW side \in Seq(LevelSet), NEW t, NEW units \in Seq(0..MaxPrice),
         UnitsAt(t, side, units),
         NEW i \in 1..Len(side), NEW w \in t[i-1]..t[i]
  PROVE  SumTo(units, w) = SumTo(units, t[i-1]) + side[i].price * (w - t[i-1])
<1> DEFINE a == t[i-1]
           d == side[i].size
           c == side[i].price
           P == {u \in 0..d : SumTo(units, a + u) = SumTo(units, a) + c * u}
<1>1. Len(side) \in Nat /\ i - 1 \in 0..Len(side) /\ side[i] \in LevelSet
  OBVIOUS
<1>2. a \in Nat /\ d \in Nat /\ c \in Nat
  <2>1. t \in [0..Len(side) -> Nat]
    BY DEF UnitsAt
  <2>2. a \in Nat
    BY <1>1, <2>1
  <2>3. \A l \in LevelSet : l.size \in Nat /\ l.price \in Nat
    BY BookAssumption DEF LevelSet
  <2> HIDE DEF LevelSet
  <2> QED BY <1>1, <2>2, <2>3
<1>3. t[i] = a + d /\ a + d <= Len(units) /\ \A j \in a+1..a+d : units[j] = c
  BY DEF UnitsAt
<1>4. w \in a..a+d
  BY <1>3
<1> HIDE DEF a, d, c
<1>5. Len(units) \in Nat /\ \A j \in 1..Len(units) : units[j] \in Int
  BY BookAssumption
<1>6. ASSUME NEW m \in 0..Len(units) PROVE m \in Nat /\ SumTo(units, m) \in Int
  <2>1. m \in Nat /\ \A j \in 1..m : units[j] \in Int
    BY <1>5
  <2> QED BY <2>1, SumType
<1>7. 0 \in P
  <2>1. a \in 0..Len(units) /\ a + 0 = a /\ c * 0 = 0
    BY <1>2, <1>3, <1>5
  <2>2. SumTo(units, a) \in Int
    BY <1>6, <2>1
  <2> QED BY <1>2, <2>1, <2>2
<1>8. ASSUME NEW u \in 0..d-1, u \in P PROVE u + 1 \in P
  <2>1. /\ u + 1 \in 0..d /\ a + u \in 0..Len(units) /\ a + (u + 1) = (a + u) + 1
        /\ (a + u) + 1 \in a+1..a+d /\ a \in 0..Len(units)
        /\ \A j \in 1..(a + u) + 1 : j \in 1..Len(units)
    BY <1>2, <1>3, <1>5
  <2>2. SumTo(units, (a + u) + 1) = SumTo(units, a + u) + units[(a + u) + 1]
    <3>1. \A j \in 1..(a + u) + 1 : units[j] \in Int
      BY <1>5, <2>1
    <3>2. a + u \in Nat
      BY <1>6, <2>1
    <3> QED BY <3>1, <3>2, SumStep
  <2>3. units[(a + u) + 1] = c
    BY <1>3, <2>1
  <2>4. SumTo(units, a + u) = SumTo(units, a) + c * u
    BY <1>8
  <2>5. SumTo(units, a) \in Int /\ c * u \in Int /\ c * (u + 1) = c * u + c
    BY <1>2, <1>6, <2>1
  <2>6. SumTo(units, a + (u + 1)) = SumTo(units, a) + c * (u + 1)
    BY <1>2, <2>1, <2>2, <2>3, <2>4, <2>5
  <2> QED BY <2>1, <2>6
<1>9. \A u \in 0..d : u \in P
  <2> HIDE DEF P
  <2> QED BY <1>2, <1>7, <1>8, Induction
<1>10. w - a \in 0..d /\ a + (w - a) = w
  BY <1>2, <1>4
<1>11. SumTo(units, a + (w - a)) = SumTo(units, a) + c * (w - a)
  BY <1>9, <1>10
<1> QED BY <1>10, <1>11 DEF a, c

-----------------------------------------------------------------------------
(* verticalIntergrationLevel, the bids. *)

TierSet == [size : Nat, cost : Int]
TierAcc(n) == [size : Int, cost : Int, lcount : 0..n,
               tiers : [1..BookDepth -> TierSet]]

\* The value of the loop after i levels: the tiers that these are enough for, and
\* the book has a level for, have their averages, and size and cost are those of
\* the levels while a tier is left.
Filled(acc, i, t, units, lv, tiers) ==
  /\ acc \in TierAcc(Len(lv))
  /\ \A k \in 1..Len(lv) :
       /\ k <= acc.lcount /\ k \in 1..BookDepth =>
            acc.tiers[k] = [size |-> lv[k], cost |-> SumTo(units, lv[k])]
       /\ k > acc.lcount => /\ k \in 1..BookDepth => acc.tiers[k] = tiers[k]
                            /\ i > 0 => lv[k] > t[i]
  /\ acc.lcount < Len(lv) => acc.size = t[i] /\ acc.cost = SumTo(units, t[i])

\* The tiers are sorted: the ones reached are the next.
LEMMA ReachedNext ==
  ASSUME NEW lv \in Seq(Nat), Sorted(lv), NEW c \in 0..Len(lv), NEW x \in Nat
  PROVE  \E m \in c..Len(lv) :
           /\ {k \in c+1..Len(lv) : lv[k] <= x} = c+1..m
           /\ Cardinality(c+1..m) = m - c
           /\ \A k \in 1..Len(lv) : k > m => lv[k] > x
<1> DEFINE n == Len(lv)
           T == {k \in c..n : \A j \in 1..n : j > k => lv[j] > x}
<1>1. n \in Nat /\ c \in Nat /\ c <= n /\ \A k \in 1..n : lv[k] \in Nat
  OBVIOUS
<1>2. n \in T /\ T \subseteq Nat
  BY <1>1
<1>3. PICK m \in T : \A y \in T : m <= y
  <2> HIDE DEF T
  <2> QED BY <1>2, LeastNatural
<1>4. m \in c..n /\ \A j \in 1..n : j > m => lv[j] > x
  BY <1>3
<1>5. ASSUME NEW j \in c+1..m PROVE lv[j] <= x
  <2> SUFFICES ASSUME lv[j] > x PROVE FALSE
    <3>1. j \in 1..n
      BY <1>1, <1>4
    <3> QED BY <1>1, <3>1
  <2>1. j \in 1..n /\ j - 1 \in c..n /\ j - 1 < m /\ m \in Int
    BY <1>1, <1>4
  <2>2. ASSUME NEW i \in 1..n, i > j - 1 PROVE lv[i] > x
    <3>1. j <= i
      BY <2>1, <2>2
    <3>2. lv[j] <= lv[i]
      BY <2>1, <3>1 DEF Sorted
    <3> QED BY <1>1, <2>1, <3>2
  <2>3. j - 1 \in T
    BY <2>1, <2>2
  <2>4. m <= j - 1
    <3> HIDE DEF T
    <3> QED BY <1>3, <2>3
  <2> QED BY <2>1, <2>4
<1>6. {k \in c+1..n : lv[k] <= x} = c+1..m
  <2>1. ASSUME NEW k \in c+1..n, lv[k] <= x PROVE k \in c+1..m
    <3>1. k \in 1..n /\ ~(lv[k] > x)
      BY <1>1, <2>1
    <3>2. ~(k > m)
      BY <1>4, <3>1
    <3> QED BY <1>1, <1>4, <3>2
  <2>2. \A k \in c+1..m : k \in c+1..n
    BY <1>1, <1>4
  <2> QED BY <1>5, <2>1, <2>2
<1>7. Cardinality(c+1..m) = m - c
  <2>1. c + 1 \in Int /\ m \in Int /\ m >= c /\ c \in Int
    BY <1>1, <1>4
  <2>2. Cardinality(c+1..m) = IF c + 1 > m THEN 0 ELSE m - (c + 1) + 1
    BY <2>1, FS_Interval
  <2> QED BY <2>1, <2>2
<1> QED BY <1>4, <1>6, <1>7

\* One level more.
LEMMA FillStep ==
  ASSUME NEW side \in Seq(LevelSet), NEW units \in Seq(0..MaxPrice), NEW t,
         UnitsAt(t, side, units),
         NEW lv \in Seq(Nat), Sorted(lv), NEW tiers, NEW i \in 1..Len(side),
         NEW acc, Filled(acc, i - 1, t, units, lv, tiers)
  PROVE  Filled(FillTiers(acc, side[i], lv, acc.size), i, t, units, lv, tiers)
<1> DEFINE n == Len(lv)
           l == side[i]
           new == FillTiers(acc, l, lv, acc.size)
           reached == {k \in acc.lcount + 1..n : lv[k] <= acc.size + l.size}
<1>1. /\ n \in Nat /\ \A k \in 1..n : lv[k] \in Nat
      /\ Len(side) \in Nat /\ i - 1 \in 0..Len(side) /\ i \in 0..Len(side)
  OBVIOUS
<1>2. side[i] \in LevelSet
  OBVIOUS
<1>3. l.size \in Nat /\ l.price \in Nat
  BY <1>2, BookAssumption DEF LevelSet
<1>4. /\ t[i-1] \in Nat /\ t[i] \in Nat /\ t[i] = t[i-1] + l.size
  BY <1>1, <1>3 DEF UnitsAt
<1>5. acc \in TierAcc(n) /\ acc.size \in Int /\ acc.cost \in Int /\ acc.lcount \in 0..n
      /\ acc.tiers \in [1..BookDepth -> TierSet]
  BY DEF Filled, TierAcc
<1>6. CASE acc.lcount >= n
  <2>1. new = acc
    BY <1>6 DEF FillTiers
  <2>2. \A k \in 1..n : ~(k > acc.lcount)
    BY <1>1, <1>5, <1>6
  <2>3. ~(acc.lcount < n)
    BY <1>1, <1>5, <1>6
  <2>4. \A k \in 1..n : k \in 1..BookDepth =>
          acc.tiers[k] = [size |-> lv[k], cost |-> SumTo(units, lv[k])]
    <3>1. \A k \in 1..n : k <= acc.lcount
      BY <1>1, <1>5, <2>2
    <3> QED BY <3>1 DEF Filled
  <2>5. Filled(acc, i, t, units, lv, tiers)
    BY <1>5, <2>2, <2>3, <2>4 DEF Filled
  <2> QED BY <2>1, <2>5
<1>7. CASE ~(acc.lcount >= n)
  <2>1. acc.lcount < n
    BY <1>1, <1>5, <1>7
  <2>2. acc.size = t[i-1] /\ acc.cost = SumTo(units, t[i-1]) /\ acc.size + l.size = t[i]
    BY <1>4, <2>1 DEF Filled
  <2>3. PICK m \in acc.lcount..n :
          /\ reached = acc.lcount+1..m
          /\ Cardinality(acc.lcount+1..m) = m - acc.lcount
          /\ \A k \in 1..n : k > m => lv[k] > t[i]
    <3> DEFINE c == acc.lcount
               x == t[i]
    <3>1. c \in 0..Len(lv) /\ x \in Nat /\ reached = {k \in c+1..Len(lv) : lv[k] <= x}
      BY <1>4, <1>5, <2>2
    <3> HIDE DEF c, x, reached
    <3>2. \E m \in c..Len(lv) :
           /\ {k \in c+1..Len(lv) : lv[k] <= x} = c+1..m
           /\ Cardinality(c+1..m) = m - c
           /\ \A k \in 1..Len(lv) : k > m => lv[k] > x
      BY <3>1, ReachedNext
    <3> QED BY <3>1, <3>2 DEF c, x
  <2>4. acc.lcount \in Int /\ m \in Int /\ acc.lcount <= m /\ m <= n
    BY <1>1, <1>5, <2>3
  <2> DEFINE filled == [k \in DOMAIN acc.tiers |->
                          IF k \in reached
                          THEN [size |-> lv[k], cost |-> l.price * (lv[k] - acc.size) + acc.cost]
                          ELSE acc.tiers[k]]
  <2>5. new = [size |-> acc.size + l.size, cost |-> acc.cost + l.price * l.size,
               lcount |-> acc.lcount + Cardinality(reached), tiers |-> filled]
    BY <1>7 DEF FillTiers
  <2>6. acc.lcount + Cardinality(reached) = m
    <3> HIDE DEF reached
    <3> QED BY <2>3, <2>4
  <2>7. ASSUME NEW k \in reached
        PROVE  /\ k \in 1..n /\ lv[k] \in Nat /\ k \in acc.lcount+1..m
               /\ l.price * (lv[k] - acc.size) \in Int
               /\ SumTo(units, lv[k]) = l.price * (lv[k] - acc.size) + acc.cost
    <3>1. k \in acc.lcount+1..m
      BY <2>3
    <3>2. k \in acc.lcount + 1..n /\ lv[k] <= t[i]
      BY <2>2
    <3>3. k \in 1..n /\ k > acc.lcount
      <4> DEFINE c == acc.lcount
      <4>1. c \in 0..n /\ n \in Nat /\ k \in c + 1..n
        BY <1>5, <3>2
      <4> HIDE DEF c, n
      <4>2. k \in 1..n /\ k > c
        BY <4>1
      <4> QED BY <4>2 DEF c
    <3>4. lv[k] \in Nat
      BY <1>1, <3>3
    <3>5. lv[k] >= t[i-1]
      <4>1. CASE i - 1 > 0
        <5>1. lv[k] > t[i-1]
          BY <3>3, <4>1 DEF Filled
        <5> QED BY <1>4, <3>4, <5>1
      <4>2. CASE ~(i - 1 > 0)
        <5>1. i - 1 = 0 /\ t[0] = 0
          BY <1>1, <4>2 DEF UnitsAt
        <5> QED BY <3>4, <5>1
      <4> QED BY <4>1, <4>2
    <3>6. lv[k] \in t[i-1]..t[i]
      BY <1>4, <3>2, <3>4, <3>5
    <3>7. SumTo(units, lv[k]) = SumTo(units, t[i-1]) + side[i].price * (lv[k] - t[i-1])
      <4> DEFINE w == lv[k]
      <4> HIDE DEF w
      <4>1. w \in t[i-1]..t[i]
        BY <3>6 DEF w
      <4>2. SumTo(units, w) = SumTo(units, t[i-1]) + side[i].price * (w - t[i-1])
        BY <4>1, SumOfUnits
      <4> QED BY <4>2 DEF w
    <3> DEFINE y == l.price * (lv[k] - acc.size)
    <3>8. y \in Int
      <4> DEFINE a == l.price
                 b == lv[k]
                 c == acc.size
      <4>1. a \in Int
        BY <1>3
      <4>2. b \in Int
        BY <3>4
      <4>3. c \in Int
        BY <1>5
      <4> HIDE DEF a, b, c
      <4>4. a * (b - c) \in Int
        BY <4>1, <4>2, <4>3
      <4> QED BY <4>4 DEF a, b, c
    <3>9. SumTo(units, lv[k]) = acc.cost + y
      BY <2>2, <3>7
    <3> HIDE DEF y
    <3>10. SumTo(units, lv[k]) = y + acc.cost
      BY <1>5, <3>8, <3>9
    <3> QED BY <3>1, <3>3, <3>4, <3>8, <3>10 DEF y
  <2>8. SumTo(units, t[i]) = acc.cost + l.price * l.size
    <3> DEFINE w == t[i]
    <3>1. w \in t[i-1]..t[i]
      BY <1>3, <1>4
    <3>2. w - t[i-1] = l.size
      BY <1>3, <1>4
    <3>3. SumTo(units, w) = SumTo(units, t[i-1]) + side[i].price * (w - t[i-1])
      <4> HIDE DEF w
      <4> QED BY <3>1, SumOfUnits
    <3> HIDE DEF w
    <3>4. SumTo(units, w) = acc.cost + l.price * l.size
      BY <2>2, <3>2, <3>3
    <3> QED BY <3>4 DEF w
  <2>9. DOMAIN acc.tiers = 1..BookDepth /\ \A k \in 1..BookDepth : acc.tiers[k] \in TierSet
    BY <1>5
  <2>10. ASSUME NEW k \in 1..BookDepth
         PROVE  /\ filled[k] \in TierSet
                /\ k \in 1..n /\ k <= m =>
                     filled[k] = [size |-> lv[k], cost |-> SumTo(units, lv[k])]
                /\ k \in 1..n /\ k > m => filled[k] = tiers[k]
    <3>1. CASE k \in reached
      <4>1. filled[k] = [size |-> lv[k], cost |-> SumTo(units, lv[k])]
        BY <2>7, <2>9, <3>1
      <4>2. SumTo(units, lv[k]) \in Int /\ lv[k] \in Nat
        <5> DEFINE y == l.price * (lv[k] - acc.size)
        <5>1. y \in Int /\ SumTo(units, lv[k]) = y + acc.cost /\ lv[k] \in Nat
          BY <2>7, <3>1
        <5> HIDE DEF y
        <5> QED BY <1>5, <5>1
      <4>3. ~(k > m)
        BY <2>4, <2>7, <3>1
      <4> QED BY <4>1, <4>2, <4>3 DEF TierSet
    <3>2. CASE k \notin reached
      <4>1. filled[k] = acc.tiers[k]
        BY <2>9, <3>2
      <4>2. k <= m => k <= acc.lcount
        <5>1. k \notin acc.lcount+1..m /\ k \in Int
          BY <2>3, <3>2
        <5> QED BY <2>4, <5>1
      <4>3. k > m => k > acc.lcount
        BY <2>4
      <4> QED BY <2>9, <4>1, <4>2, <4>3 DEF Filled
    <3> QED BY <3>1, <3>2
  <2>11. filled \in [1..BookDepth -> TierSet]
    BY <2>9, <2>10
  <2> HIDE DEF filled
  <2>12. new = [size |-> t[i], cost |-> SumTo(units, t[i]), lcount |-> m, tiers |-> filled]
    BY <2>2, <2>5, <2>6, <2>8
  <2>13. SumTo(units, t[i]) \in Int
    BY <1>3, <1>5, <2>8
  <2>14. m \in 0..n
    BY <1>5, <2>4
  <2>15. new \in TierAcc(n)
    BY <1>4, <2>11, <2>12, <2>13, <2>14 DEF TierAcc
  <2>16. new.lcount = m /\ new.size = t[i] /\ new.cost = SumTo(units, t[i]) /\ new.tiers = filled
    BY <2>12
  <2> HIDE DEF new
  <2>17. \A k \in 1..n :
           /\ k <= new.lcount /\ k \in 1..BookDepth =>
                new.tiers[k] = [size |-> lv[k], cost |-> SumTo(units, lv[k])]
           /\ k > new.lcount => /\ k \in 1..BookDepth => new.tiers[k] = tiers[k]
                                /\ i > 0 => lv[k] > t[i]
    BY <2>3, <2>10, <2>16
  <2>18. Filled(new, i, t, units, lv, tiers)
    BY <2>15, <2>16, <2>17 DEF Filled
  <2> QED BY <2>18 DEF new
<1> QED BY <1>6, <1>7

\* The loop of BidTiers.
TierLoop(tiers, side, lv) ==
  CHOOSE h : h = [i \in 0..Len(side) |->
    IF i = 0 THEN [size |-> 0, cost |-> 0, lcount |-> 0, tiers |-> tiers]
    ELSE FillTiers(h[i - 1], side[i], lv, h[i - 1].size)]

\* It fills the tiers level by level.
LEMMA BidTiersFilled ==
  ASSUME NEW side \in Seq(LevelSet), NEW units \in Seq(0..MaxPrice), NEW t,
         UnitsAt(t, side, units),
         NEW lv \in Seq(Nat), Sorted(lv), NEW tiers \in [1..BookDepth -> TierSet]
  PROVE  Filled(BidTiers(tiers, side, lv), Len(side), t, units, lv, tiers)
<1> DEFINE n == Len(side)
           base == [size |-> 0, cost |-> 0, lcount |-> 0, tiers |-> tiers]
           T == TierAcc(Len(lv))
           Body(h) == [i \in 0..n |-> IF i = 0 THEN base
                                      ELSE FillTiers(h[i - 1], side[i], lv, h[i - 1].size)]
           W == [i \in 0..n |-> {acc \in T : Filled(acc, i, t, units, lv, tiers)}]
           G == [i \in 1..n |-> [acc \in T |-> FillTiers(acc, side[i], lv, acc.size)]]
           A == TierLoop(tiers, side, lv)
<1>1. A = CHOOSE h : h = Body(h)
  BY Zenon DEF TierLoop
<1>2. n \in Nat /\ \A i \in 1..n : i - 1 \in 0..n /\ i \in 0..n
  OBVIOUS
<1>3. base \in T /\ Filled(base, 0, t, units, lv, tiers)
  <2>1. Len(lv) \in Nat /\ t[0] = 0 /\ SumTo(units, 0) = 0
    <3>1. 0 \in Nat /\ \A k \in 1..0 : units[k] \in Int
      OBVIOUS
    <3>2. SumTo(units, 0) = 0
      BY <3>1, SumType
    <3>3. t[0] = 0
      BY DEF UnitsAt
    <3> QED BY <3>2, <3>3
  <2>2. base \in T
    BY <2>1 DEF TierAcc
  <2>3. \A k \in 1..Len(lv) : ~(k <= 0) /\ ~(0 > 0)
    OBVIOUS
  <2>4. base.lcount = 0 /\ base.size = 0 /\ base.cost = 0 /\ base.tiers = tiers
    OBVIOUS
  <2> HIDE DEF base, T
  <2> QED BY <2>1, <2>2, <2>3, <2>4 DEF Filled, T
<1> HIDE DEF base
<1>4. ASSUME NEW i \in 1..n, NEW acc \in T, Filled(acc, i - 1, t, units, lv, tiers)
      PROVE  /\ FillTiers(acc, side[i], lv, acc.size) \in T
             /\ Filled(FillTiers(acc, side[i], lv, acc.size), i, t, units, lv, tiers)
  <2>1. Filled(FillTiers(acc, side[i], lv, acc.size), i, t, units, lv, tiers)
    BY <1>4, FillStep
  <2> DEFINE new == FillTiers(acc, side[i], lv, acc.size)
  <2> HIDE DEF new
  <2>2. Filled(new, i, t, units, lv, tiers)
    BY <2>1 DEF new
  <2>3. new \in T
    BY <2>2 DEF Filled
  <2> QED BY <2>1, <2>3 DEF new
<1> HIDE DEF T
<1>5. PICK h : /\ h = [i \in 0..n |-> h[i]] /\ Recurses(h, base, G, n)
               /\ \A i \in 0..n : h[i] \in W[i]
  <2>1. \A i \in 1..n : \A v \in W[i-1] : G[i][v] \in W[i]
    BY <1>2, <1>4
  <2>2. base \in W[0]
    BY <1>2, <1>3
  <2> HIDE DEF W, G, n
  <2> QED BY <1>2, <2>1, <2>2, Recursion
<1>6. \A i \in 0..n : h[i] \in T /\ Filled(h[i], i, t, units, lv, tiers)
  BY <1>5
<1>7. \A i \in 0..n : h[i] = IF i = 0 THEN base ELSE FillTiers(h[i-1], side[i], lv, h[i-1].size)
  <2>1. h[0] = base /\ \A i \in 1..n : h[i] = G[i][h[i-1]]
    BY <1>5, Zenon DEF Recurses
  <2>2. ASSUME NEW i \in 1..n PROVE h[i] = FillTiers(h[i-1], side[i], lv, h[i-1].size)
    BY <1>2, <1>6, <2>1
  <2> QED BY <2>1, <2>2
<1>8. h = Body(h)
  BY <1>5, <1>7
<1>9. A = Body(A)
  <2> HIDE DEF A, Body
  <2> QED BY <1>1, <1>8, Zenon
<1> HIDE DEF A
<1>10. A[0] = base /\ \A i \in 1..n : A[i] = FillTiers(A[i-1], side[i], lv, A[i-1].size)
  <2> HIDE DEF n
  <2>1. \A i \in 0..n : A[i] = IF i = 0 THEN base ELSE FillTiers(A[i-1], side[i], lv, A[i-1].size)
    BY <1>9
  <2>2. 0 \in 0..n /\ \A i \in 1..n : i \in 0..n /\ i # 0
    BY <1>2
  <2> QED BY <2>1, <2>2
<1>11. \A i \in 0..n : A[i] = h[i]
  <2> HIDE DEF n
  <2>1. A[0] = h[0]
    BY <1>2, <1>7, <1>10
  <2>2. ASSUME NEW i \in 1..n, A[i-1] = h[i-1] PROVE A[i] = h[i]
    <3>1. i \in 0..n /\ i # 0
      BY <1>2
    <3>2. h[i] = FillTiers(h[i-1], side[i], lv, h[i-1].size)
      BY <1>7, <3>1
    <3>3. A[i] = FillTiers(A[i-1], side[i], lv, A[i-1].size)
      BY <1>10
    <3> QED BY <2>2, <3>2, <3>3
  <2> HIDE DEF A, W, G, Body, base
  <2>3. n \in Nat
    BY <1>2
  <2>4. SameRounds(A, h, n)
    BY <2>1, <2>2 DEF SameRounds
  <2> QED BY <2>3, <2>4, SameLoop
<1>12. BidTiers(tiers, side, lv) = A[n]
  BY Zenon DEF BidTiers, TierLoop, A
<1>13. n \in 0..n
  BY <1>2
<1> QED BY <1>6, <1>11, <1>12, <1>13

\* Every tier the bids are enough for has the average of its first units, if
\* the tiers that need none had it before.
LEMMA BidTiersFacts ==
  ASSUME NEW side \in Seq(LevelSet), NEW lv \in Seq(Nat), Sorted(lv),
         NEW tiers \in [1..BookDepth -> TierSet],
         side = <<>> => \A k \in 1..Len(lv) \cap 1..BookDepth : lv[k] = 0 => tiers[k] = NoPrice
  PROVE  /\ BidTiers(tiers, side, lv).tiers \in [1..BookDepth -> TierSet]
         /\ \A k \in 1..Len(lv) \cap 1..BookDepth : lv[k] <= Len(Units(side)) =>
              BidTiers(tiers, side, lv).tiers[k]
                = [size |-> lv[k], cost |-> SumTo(Units(side), lv[k])]
<1> DEFINE U == Units(side)
           r == BidTiers(tiers, side, lv)
<1>1. U \in Seq(0..MaxPrice)
  BY UnitsFacts
<1>2. PICK t : UnitsAt(t, side, U)
  BY UnitsFacts
<1>3. Filled(r, Len(side), t, U, lv, tiers)
  <2> HIDE DEF U, r
  <2> QED BY <1>1, <1>2, BidTiersFilled DEF r
<1>4. Len(lv) \in Nat /\ Len(side) \in Nat /\ \A k \in 1..Len(lv) : lv[k] \in Nat
  OBVIOUS
<1> HIDE DEF U, r
<1>5. r.tiers \in [1..BookDepth -> TierSet] /\ r.lcount \in Int
  BY <1>3, <1>4 DEF Filled, TierAcc
<1>6. Len(U) = t[Len(side)] /\ Len(U) \in Nat
  BY <1>1, <1>2 DEF UnitsAt
<1>7. ASSUME NEW k \in 1..Len(lv) \cap 1..BookDepth, lv[k] <= Len(U)
      PROVE  r.tiers[k] = [size |-> lv[k], cost |-> SumTo(U, lv[k])]
  <2>1. CASE k <= r.lcount
    BY <1>3, <2>1 DEF Filled
  <2>2. CASE ~(k <= r.lcount)
    <3>1. k > r.lcount
      BY <1>5, <2>2
    <3>2. r.tiers[k] = tiers[k] /\ (Len(side) > 0 => lv[k] > t[Len(side)])
      BY <1>3, <3>1 DEF Filled
    <3>3. Len(side) = 0
      BY <1>4, <1>6, <1>7, <3>2
    <3>4. side = <<>> /\ t[0] = 0
      BY <1>2, <3>3 DEF UnitsAt
    <3>5. lv[k] = 0
      BY <1>4, <1>6, <1>7, <3>3, <3>4
    <3>6. tiers[k] = [size |-> 0, cost |-> 0]
      BY <3>4, <3>5 DEF NoPrice
    <3>7. SumTo(U, 0) = 0
      <4>1. 0 \in Nat /\ \A j \in 1..0 : U[j] \in Int
        OBVIOUS
      <4> QED BY <4>1, SumType
    <3> QED BY <3>2, <3>5, <3>6, <3>7
  <2> QED BY <2>1, <2>2
<1> QED BY <1>5, <1>7 DEF U, r

-----------------------------------------------------------------------------
(* The sweepable books. *)

ResSet == {<<>>} \cup UNION {[D -> SweepSet] : D \in SUBSET EXCHANGE}
SweepAcc == [vec : Seq(SweepSet), res : ResSet, cum : Int]

\* What a sweep keeps of the book it started with: the number of its levels and
\* their prices.  What it takes has one of these prices.
Swept(acc, vec) ==
  /\ acc \in SweepAcc
  /\ Len(acc.vec) = Len(vec)
  /\ \A j \in 1..Len(vec) : acc.vec[j].price = vec[j].price
  /\ \A ex \in DOMAIN acc.res : \E j \in 1..Len(vec) : acc.res[ex].price = vec[j].price

\* The map of what is taken has exchanges as its keys.
LEMMA ResFacts ==
  ASSUME NEW res
  PROVE  /\ res \in ResSet => DOMAIN res \subseteq EXCHANGE /\ \A ex \in DOMAIN res : res[ex] \in SweepSet
         /\ \A D \in SUBSET EXCHANGE : res \in [D -> SweepSet] => res \in ResSet
<1>1. DOMAIN <<>> = {}
  OBVIOUS
<1>2. ASSUME res \in ResSet
      PROVE  DOMAIN res \subseteq EXCHANGE /\ \A ex \in DOMAIN res : res[ex] \in SweepSet
  <2>1. CASE res = <<>>
    BY <1>1, <2>1
  <2>2. CASE \E D \in SUBSET EXCHANGE : res \in [D -> SweepSet]
    BY <2>2
  <2> QED BY <1>2, <2>1, <2>2 DEF ResSet
<1>3. ASSUME NEW D \in SUBSET EXCHANGE, res \in [D -> SweepSet] PROVE res \in ResSet
  BY <1>3 DEF ResSet
<1> QED BY <1>2, <1>3

\* One level more.
LEMMA SweepStep ==
  ASSUME NEW vec \in Seq(SweepSet), NEW acc, Swept(acc, vec),
         NEW i \in 1..Len(vec), NEW lit \in Int
  PROVE  Swept(SweepLevel(acc, i, lit), vec)
<1> DEFINE l == acc.vec[i]
           res == acc.res
           cum == acc.cum
           new == SweepLevel(acc, i, lit)
<1>1. /\ acc \in SweepAcc /\ acc.vec \in Seq(SweepSet) /\ res \in ResSet /\ cum \in Int
      /\ Len(acc.vec) = Len(vec)
      /\ \A j \in 1..Len(vec) : acc.vec[j].price = vec[j].price
      /\ \A ex \in DOMAIN res : \E j \in 1..Len(vec) : res[ex].price = vec[j].price
  BY DEF Swept, SweepAcc
<1>2. /\ acc.vec[i] \in SweepSet /\ \A j \in 1..Len(vec) : acc.vec[j] \in SweepSet
      /\ l.price = vec[i].price /\ Len(vec) \in Nat
  BY <1>1
<1>3. /\ l.ex \in EXCHANGE /\ l.size \in Nat \ {0} /\ l.price \in 0..MaxPrice
      /\ l = [ex |-> l.ex, size |-> l.size, price |-> l.price]
  BY <1>2 DEF SweepSet
<1>4. DOMAIN res \subseteq EXCHANGE /\ \A ex \in DOMAIN res : res[ex] \in SweepSet
  BY <1>1, ResFacts
<1>5. ASSUME l.ex \notin DOMAIN res
      PROVE  /\ MapInsert(res, l.ex, l) \in ResSet
             /\ \A ex \in DOMAIN (MapInsert(res, l.ex, l)) :
                  \E j \in 1..Len(vec) : (MapInsert(res, l.ex, l))[ex].price = vec[j].price
  <2> DEFINE r == MapInsert(res, l.ex, l)
             D == DOMAIN res \cup {l.ex}
  <2>1. r = [x \in D |-> IF x \in DOMAIN res THEN res[x] ELSE l]
    BY DEF MapInsert
  <2> HIDE DEF r, D, l
  <2>2. D \in SUBSET EXCHANGE
    BY <1>3, <1>4 DEF D
  <2>3. l \in SweepSet
    BY <1>2 DEF l
  <2>4. r \in [D -> SweepSet] /\ DOMAIN r = D
    BY <1>4, <2>1, <2>3 DEF D
  <2>5. r \in ResSet
    BY <2>2, <2>4, ResFacts
  <2>6. ASSUME NEW ex \in D PROVE \E j \in 1..Len(vec) : r[ex].price = vec[j].price
    <3>1. CASE ex \in DOMAIN res
      BY <1>1, <2>1, <3>1 DEF D
    <3>2. CASE ex \notin DOMAIN res
      BY <1>2, <2>1, <3>2 DEF D
    <3> QED BY <3>1, <3>2
  <2> QED BY <2>4, <2>5, <2>6 DEF r
<1> USE DEF Swept, SweepAcc
<1>6. CASE cum >= lit
  <2>0. ~(cum < lit)
    BY <1>1, <1>6
  <2>1. new = acc
    BY <1>6, <2>0 DEF SweepLevel
  <2> QED BY <2>1
<1>7. CASE cum < lit /\ l.ex \notin DOMAIN res /\ cum + l.size <= lit
  <2>0. ~(cum >= lit) /\ ~(cum + l.size > lit)
    BY <1>1, <1>3, <1>7
  <2>1. new = [acc EXCEPT !.res = MapInsert(@, l.ex, l), !.cum = @ + l.size]
    BY <1>7, <2>0 DEF SweepLevel
  <2> DEFINE r == MapInsert(res, l.ex, l)
  <2>2. new.vec = acc.vec /\ new.res = r /\ new.cum = cum + l.size /\ cum + l.size \in Int
    BY <1>1, <1>3, <2>1
  <2>3. new = [vec |-> acc.vec, res |-> r, cum |-> cum + l.size]
    BY <1>1, <2>1
  <2> HIDE DEF r, new
  <2> QED BY <1>1, <1>5, <1>7, <2>2, <2>3 DEF r, new
<1>8. CASE cum < lit /\ l.ex \notin DOMAIN res /\ ~(cum + l.size <= lit)
  <2>1. cum + l.size > lit
    BY <1>1, <1>3, <1>8
  <2>2. new = [acc EXCEPT !.res = MapInsert(@, l.ex, l), !.vec[i].size = Missing(lit, cum)]
    BY <1>1, <1>8, <2>1 DEF SweepLevel
  <2> DEFINE r == MapInsert(res, l.ex, l)
             v == [acc.vec EXCEPT ![i].size = lit - cum]
  <2>3. new = [vec |-> v, res |-> r, cum |-> cum]
    BY <1>1, <2>2 DEF Missing
  <2>4. lit - cum \in Nat \ {0}
    BY <1>1, <1>8
  <2>5. /\ v \in Seq(SweepSet) /\ Len(v) = Len(vec)
        /\ \A j \in 1..Len(vec) : v[j].price = vec[j].price
    <3>1. DOMAIN acc.vec = 1..Len(vec)
      BY <1>1
    <3>2. \A j \in 1..Len(vec) : v[j] = IF j = i THEN [acc.vec[i] EXCEPT !.size = lit - cum] ELSE acc.vec[j]
      BY <3>1
    <3>3. [acc.vec[i] EXCEPT !.size = lit - cum] = [ex |-> l.ex, size |-> lit - cum, price |-> l.price]
      <4> DEFINE y == lit - cum
      <4> HIDE DEF l, y
      <4>1. l \in [ex : EXCHANGE, size : Nat \ {0}, price : 0..MaxPrice]
        BY <1>2 DEF SweepSet, l
      <4>2. [l EXCEPT !.size = y] = [ex |-> l.ex, size |-> y, price |-> l.price]
        BY <4>1
      <4> QED BY <4>2 DEF l, y
    <3>4. [acc.vec[i] EXCEPT !.size = lit - cum] \in SweepSet
      BY <1>3, <2>4, <3>3 DEF SweepSet
    <3>5. \A j \in 1..Len(vec) : v[j] \in SweepSet /\ v[j].price = vec[j].price
      BY <1>1, <1>2, <3>2, <3>3, <3>4
    <3>6. DOMAIN v = 1..Len(vec) /\ v = [j \in 1..Len(vec) |-> v[j]]
      BY <3>1
    <3> HIDE DEF v
    <3>7. v \in Seq(SweepSet)
      BY <1>2, <3>5, <3>6
    <3> QED BY <1>2, <3>5, <3>6, <3>7
  <2> HIDE DEF r, new, v
  <2>6. r \in ResSet /\ \A ex \in DOMAIN r : \E j \in 1..Len(vec) : r[ex].price = vec[j].price
    BY <1>5, <1>8 DEF r
  <2>7. new.vec = v /\ new.res = r /\ new.cum = cum
    BY <2>3
  <2>8. new \in SweepAcc
    BY <1>1, <2>3, <2>5, <2>6
  <2>9. Swept(new, vec)
    BY <2>5, <2>6, <2>7, <2>8
  <2> QED BY <2>9 DEF new
<1> DEFINE more == l.size - res[l.ex].size
<1>9. CASE cum < lit /\ l.ex \in DOMAIN res /\ more <= 0
  <2>0. res[l.ex] \in SweepSet
    BY <1>4, <1>9
  <2>1. res[l.ex].size \in Nat
    BY <2>0 DEF SweepSet
  <2>2. ~(cum >= lit) /\ ~(more > 0)
    BY <1>1, <1>3, <1>9, <2>1
  <2>3. new = acc
    BY <1>9, <2>2 DEF SweepLevel
  <2> QED BY <2>3
<1>10. CASE cum < lit /\ l.ex \in DOMAIN res /\ ~(more <= 0)
  <2>1. res[l.ex] \in SweepSet
    BY <1>4, <1>10
  <2>2. res[l.ex].size \in Nat
    BY <2>1 DEF SweepSet
  <2>3. more \in Int /\ more > 0
    BY <1>3, <1>10, <2>2
  <2> DEFINE s == IF cum + more <= lit THEN l.size ELSE cum + more - lit
             r == [res EXCEPT ![l.ex].price = l.price, ![l.ex].size = s]
  <2>4. new = [acc EXCEPT !.res[l.ex].price = l.price, !.res[l.ex].size = s]
    BY <1>1, <1>10, <2>3 DEF SweepLevel
  <2>5. new = [vec |-> acc.vec, res |-> r, cum |-> cum]
    BY <1>1, <2>4
  <2>6. s \in Nat \ {0}
    <3> HIDE DEF more, l
    <3> QED BY <1>1, <1>3, <2>3
  <2> HIDE DEF s
  <2>7. /\ DOMAIN r = DOMAIN res /\ r = [x \in DOMAIN res |-> r[x]]
        /\ r[l.ex] = [ex |-> res[l.ex].ex, size |-> s, price |-> l.price]
        /\ \A x \in DOMAIN res : x # l.ex => r[x] = res[x]
    BY <1>10, <2>1 DEF SweepSet
  <2> HIDE DEF r, new
  <2>8. r[l.ex] \in SweepSet /\ r[l.ex].price = vec[i].price
    <3>1. r[l.ex].price = l.price
      BY <2>7
    <3>2. res[l.ex].ex \in EXCHANGE
      BY <2>1 DEF SweepSet
    <3>3. [ex |-> res[l.ex].ex, size |-> s, price |-> l.price] \in SweepSet
      <4> HIDE DEF l
      <4> QED BY <1>3, <2>6, <3>2 DEF SweepSet
    <3> QED BY <1>2, <2>7, <3>1, <3>3
  <2>9. r \in [DOMAIN res -> SweepSet]
    BY <1>4, <2>7, <2>8
  <2>10. r \in ResSet
    BY <1>4, <2>9, ResFacts
  <2>11. \A ex \in DOMAIN r : \E j \in 1..Len(vec) : r[ex].price = vec[j].price
    BY <1>1, <2>7, <2>8
  <2>12. new.vec = acc.vec /\ new.res = r /\ new.cum = cum
    BY <2>5
  <2>13. new \in SweepAcc
    BY <1>1, <2>5, <2>10
  <2>14. Swept(new, vec)
    BY <1>1, <2>10, <2>11, <2>12, <2>13
  <2> QED BY <2>14 DEF new
<1>11. cum >= lit \/ cum < lit
  BY <1>1
<1> QED BY <1>6, <1>7, <1>8, <1>9, <1>10, <1>11

\* The loop of Sweep.
SweepLoop(vec, lit) ==
  CHOOSE h : h = [i \in 0..Len(vec) |->
    IF i = 0 THEN [vec |-> vec, res |-> <<>>, cum |-> 0] ELSE SweepLevel(h[i - 1], i, lit)]

\* A sweep keeps what its steps keep.
LEMMA SweepFacts ==
  ASSUME NEW vec \in Seq(SweepSet), NEW lit \in Int
  PROVE  Swept(Sweep(vec, lit), vec)
<1> DEFINE n == Len(vec)
           base == [vec |-> vec, res |-> <<>>, cum |-> 0]
           Body(h) == [i \in 0..n |-> IF i = 0 THEN base ELSE SweepLevel(h[i - 1], i, lit)]
           V == {acc \in SweepAcc : Swept(acc, vec)}
           W == [i \in 0..n |-> V]
           G == [i \in 1..n |-> [acc \in V |-> SweepLevel(acc, i, lit)]]
           A == SweepLoop(vec, lit)
<1>1. A = CHOOSE h : h = Body(h)
  BY Zenon DEF SweepLoop
<1>2. n \in Nat /\ \A i \in 1..n : i - 1 \in 0..n /\ i \in 0..n
  OBVIOUS
<1>3. base \in V
  <2>1. <<>> \in ResSet /\ DOMAIN <<>> = {}
    BY DEF ResSet
  <2>2. base.vec = vec /\ base.res = <<>> /\ base.cum = 0
    OBVIOUS
  <2>3. base \in SweepAcc
    BY <2>1 DEF SweepAcc
  <2>4. DOMAIN base.res = {}
    BY <2>1, <2>2, Zenon
  <2> HIDE DEF base
  <2> QED BY <2>2, <2>3, <2>4 DEF Swept
<1> HIDE DEF base
<1>4. ASSUME NEW i \in 1..n, NEW acc \in V PROVE SweepLevel(acc, i, lit) \in V
  <2>1. Swept(acc, vec)
    OBVIOUS
  <2>2. Swept(SweepLevel(acc, i, lit), vec)
    BY <2>1, SweepStep
  <2> DEFINE new == SweepLevel(acc, i, lit)
  <2> HIDE DEF new
  <2>3. Swept(new, vec)
    BY <2>2 DEF new
  <2>4. new \in SweepAcc
    BY <2>3 DEF Swept
  <2> QED BY <2>3, <2>4 DEF new
<1> HIDE DEF V
<1>5. PICK h : /\ h = [i \in 0..n |-> h[i]] /\ Recurses(h, base, G, n)
               /\ \A i \in 0..n : h[i] \in W[i]
  <2>1. \A i \in 1..n : \A v \in W[i-1] : G[i][v] \in W[i]
    BY <1>2, <1>4
  <2>2. base \in W[0]
    BY <1>2, <1>3
  <2> HIDE DEF W, G, n
  <2> QED BY <1>2, <2>1, <2>2, Recursion
<1>6. \A i \in 0..n : h[i] \in V
  BY <1>5
<1>7. h[0] = base /\ \A i \in 1..n : h[i] = SweepLevel(h[i-1], i, lit)
  <2>1. h[0] = base /\ \A i \in 1..n : h[i] = G[i][h[i-1]]
    BY <1>5, Zenon DEF Recurses
  <2>2. ASSUME NEW i \in 1..n PROVE h[i] = SweepLevel(h[i-1], i, lit)
    BY <1>2, <1>6, <2>1
  <2> QED BY <2>1, <2>2
<1>8. h = Body(h)
  <2>1. \A i \in 0..n : h[i] = IF i = 0 THEN base ELSE SweepLevel(h[i-1], i, lit)
    BY <1>7
  <2> QED BY <1>5, <2>1
<1>9. A = Body(A)
  <2> HIDE DEF A, Body
  <2> QED BY <1>1, <1>8, Zenon
<1> HIDE DEF A
<1>10. A[0] = base /\ \A i \in 1..n : A[i] = SweepLevel(A[i-1], i, lit)
  BY <1>2, <1>9
<1>11. \A i \in 0..n : A[i] = h[i]
  <2> HIDE DEF n, W, G, Body
  <2>1. A[0] = h[0]
    BY <1>7, <1>10
  <2>2. ASSUME NEW i \in 1..n, A[i-1] = h[i-1] PROVE A[i] = h[i]
    <3>1. h[i] = SweepLevel(h[i-1], i, lit) /\ A[i] = SweepLevel(A[i-1], i, lit)
      BY <1>7, <1>10
    <3> QED BY <2>2, <3>1
  <2>3. n \in Nat
    BY <1>2
  <2>4. SameRounds(A, h, n)
    BY <2>1, <2>2 DEF SameRounds
  <2> QED BY <2>3, <2>4, SameLoop
<1>12. Sweep(vec, lit) = A[n]
  BY Zenon DEF Sweep, SweepLoop, A
<1>13. n \in 0..n
  BY <1>2
<1>14. A[n] \in V
  BY <1>6, <1>11, <1>13
<1> QED BY <1>12, <1>14 DEF V

\* A price cost / size lies between two prices of the book.
Inside(x, vec) ==
  /\ \E j \in 1..Len(vec) : vec[j].price * x.size <= x.cost
  /\ \E j \in 1..Len(vec) : vec[j].price * x.size >= x.cost

\* Products are monotone.
LEMMA Monotone ==
  ASSUME NEW a \in Int, NEW b \in Int, NEW c \in Nat, a <= b
  PROVE  a * c <= b * c /\ c * a <= c * b /\ a * c \in Int /\ b * c \in Int
<1>1. (b - a) * c >= 0
  <2> DEFINE d == b - a
  <2>1. d \in Nat
    OBVIOUS
  <2> HIDE DEF d
  <2>2. d * c \in Nat
    BY <2>1
  <2> QED BY <2>2 DEF d
<1>2. (b - a) * c = b * c - a * c /\ a * c \in Int /\ b * c \in Int /\ c * a = a * c /\ c * b = b * c
  OBVIOUS
<1> DEFINE x == a * c
           y == b * c
           z == (b - a) * c
<1>3. z >= 0 /\ z = y - x /\ x \in Int /\ y \in Int /\ c * a = x /\ c * b = y
  BY <1>1, <1>2
<1> HIDE DEF x, y, z
<1>4. x <= y
  BY <1>3
<1> QED BY <1>3, <1>4 DEF x, y

\* The average of what a sweep takes lies inside the book.
LEMMA AverageInside ==
  ASSUME NEW vec \in Seq(SweepSet), NEW acc, Swept(acc, vec), NEW lit
  PROVE  LET b == Average(acc.res, lit)
         IN  b \in TierSet /\ (b.size > 0 => Inside(b, vec))
<1> DEFINE res == acc.res
           f == [ex \in EXCHANGE |-> IF ex \in DOMAIN res THEN res[ex].size ELSE 0]
           g == [ex \in EXCHANGE |-> IF ex \in DOMAIN res THEN res[ex].size * res[ex].price ELSE 0]
           Prices == {vec[j].price : j \in 1..Len(vec)}
<1>1. res \in ResSet /\ \A ex \in DOMAIN res : res[ex].price \in Prices
  BY DEF Swept, SweepAcc
<1>2. \A j \in 1..Len(vec) : vec[j] \in SweepSet
  OBVIOUS
<1>3. Prices \subseteq Nat /\ \A p \in Prices : p <= MaxPrice
  <2>1. \A l \in SweepSet : l.price \in Nat /\ l.price <= MaxPrice
    BY BookAssumption DEF SweepSet
  <2> HIDE DEF SweepSet
  <2>2. \A j \in 1..Len(vec) : vec[j].price \in Nat /\ vec[j].price <= MaxPrice
    BY <1>2, <2>1
  <2> QED BY <2>2
<1>4. \A ex \in DOMAIN res : res[ex] \in SweepSet
  BY <1>1, ResFacts
<1>5. \A ex \in DOMAIN res : res[ex].size \in Nat /\ res[ex].price \in Nat
  BY <1>4, BookAssumption DEF SweepSet
<1>6. Average(res, lit) = [size |-> Total(f), cost |-> Total(g)]
  BY DEF Average, SizeOf, CostOf
<1> HIDE DEF res
<1>7. \A ex \in EXCHANGE : f[ex] = (IF ex \in DOMAIN res THEN res[ex].size ELSE 0) /\ f[ex] \in Nat
  BY <1>5
<1>8. ASSUME NEW ex \in EXCHANGE
      PROVE  g[ex] = (IF ex \in DOMAIN res THEN res[ex].size * res[ex].price ELSE 0) /\ g[ex] \in Int
  <2>1. CASE ex \in DOMAIN res
    <3> DEFINE a == res[ex].size
               b == res[ex].price
    <3>1. a \in Nat /\ b \in Nat
      BY <1>5, <2>1
    <3> HIDE DEF a, b
    <3>2. a * b \in Int
      BY <3>1
    <3>3. g[ex] = a * b
      BY <2>1 DEF a, b
    <3> QED BY <2>1, <3>2, <3>3 DEF a, b
  <2>2. CASE ex \notin DOMAIN res
    BY <2>2
  <2> QED BY <2>1, <2>2
<1> HIDE DEF f, g, Prices
<1>9. Total(f) \in Nat /\ Total(g) \in Int
  <2>1. \A ex \in EXCHANGE : f[ex] \in Int /\ g[ex] \in Int
    BY <1>7, <1>8
  <2>2. \A ex \in EXCHANGE : g[ex] \in Int /\ f[ex] \in Int
    BY <2>1
  <2>3. \A ex \in EXCHANGE : f[ex] >= 0
    BY <1>7
  <2>4. Total(f) \in Int /\ Total(f) >= 0
    BY <2>1, <2>3, TotalFacts, Zenon
  <2>5. Total(g) \in Int
    BY <2>2, TotalFacts, Zenon
  <2> QED BY <2>4, <2>5
<1>10. ASSUME NEW p \in Nat, \A q \in Prices : p <= q PROVE p * Total(f) <= Total(g)
  <2>1. ASSUME NEW ex \in EXCHANGE PROVE p * f[ex] <= 1 * g[ex]
    <3>1. CASE ex \in DOMAIN res
      <4> DEFINE a == res[ex].size
                 b == res[ex].price
      <4>1. a \in Nat /\ b \in Nat /\ p <= b
        BY <1>1, <1>5, <1>10, <3>1
      <4>2. f[ex] = a /\ g[ex] = a * b
        BY <1>7, <1>8, <3>1
      <4> HIDE DEF a, b
      <4>3. p * a <= b * a /\ b * a = a * b /\ a * b \in Int
        BY <4>1, Monotone
      <4>4. 1 * (a * b) = a * b
        BY <4>3
      <4> QED BY <4>2, <4>3, <4>4
    <3>2. CASE ex \notin DOMAIN res
      BY <1>7, <1>8, <3>2
    <3> QED BY <3>1, <3>2
  <2>2. \A ex \in EXCHANGE : f[ex] \in Int /\ g[ex] \in Int
    BY <1>7, <1>8
  <2>3. p \in Int /\ 1 \in Int
    OBVIOUS
  <2>4. p * Total(f) <= 1 * Total(g)
    BY <2>1, <2>2, <2>3, TotalFacts, Zenon
  <2> QED BY <1>9, <2>4
<1>11. ASSUME NEW p \in Nat, \A q \in Prices : q <= p PROVE Total(g) <= p * Total(f)
  <2>1. ASSUME NEW ex \in EXCHANGE PROVE 1 * g[ex] <= p * f[ex]
    <3>1. CASE ex \in DOMAIN res
      <4> DEFINE a == res[ex].size
                 b == res[ex].price
      <4>1. a \in Nat /\ b \in Nat /\ b <= p
        BY <1>1, <1>5, <1>11, <3>1
      <4>2. f[ex] = a /\ g[ex] = a * b
        BY <1>7, <1>8, <3>1
      <4> HIDE DEF a, b
      <4>3. b * a <= p * a /\ b * a = a * b /\ a * b \in Int
        BY <4>1, Monotone
      <4>4. 1 * (a * b) = a * b
        BY <4>3
      <4> QED BY <4>2, <4>3, <4>4
    <3>2. CASE ex \notin DOMAIN res
      BY <1>7, <1>8, <3>2
    <3> QED BY <3>1, <3>2
  <2>2. \A ex \in EXCHANGE : g[ex] \in Int /\ f[ex] \in Int
    BY <1>7, <1>8
  <2>3. p \in Int /\ 1 \in Int
    OBVIOUS
  <2>4. 1 * Total(g) <= p * Total(f)
    BY <2>1, <2>2, <2>3, TotalFacts, Zenon
  <2> QED BY <1>9, <2>4
<1>12. Total(f) > 0 => Prices # {}
  <2> SUFFICES ASSUME Total(f) > 0, Prices = {} PROVE FALSE
    OBVIOUS
  <2>1. \A ex \in EXCHANGE : 1 * f[ex] <= 0 * g[ex]
    <3>1. \A ex \in EXCHANGE : ex \notin DOMAIN res
      BY <1>1
    <3>2. \A ex \in EXCHANGE : f[ex] = 0 /\ g[ex] = 0
      BY <1>7, <1>8, <3>1
    <3> QED BY <3>2
  <2>2. \A ex \in EXCHANGE : f[ex] \in Int /\ g[ex] \in Int
    BY <1>7, <1>8
  <2>3. 0 \in Int /\ 1 \in Int
    OBVIOUS
  <2>4. 1 * Total(f) <= 0 * Total(g)
    BY <2>1, <2>2, <2>3, TotalFacts, Zenon
  <2> QED BY <1>9, <2>4
<1> DEFINE b == Average(res, lit)
<1>13. b.size = Total(f) /\ b.cost = Total(g)
  BY <1>6
<1>14. b \in TierSet
  BY <1>6, <1>9 DEF TierSet
<1> HIDE DEF b
<1>15. ASSUME b.size > 0 PROVE Inside(b, vec)
  <2>1. Prices # {}
    BY <1>12, <1>13, <1>15
  <2>2. PICK p \in Prices : \A q \in Prices : p <= q
    BY <1>3, <2>1, LeastNatural
  <2>3. p * b.size <= b.cost
    BY <1>3, <1>10, <1>13, <2>2
  <2> DEFINE T == {MaxPrice - q : q \in Prices}
  <2>4. T \subseteq Nat /\ T # {}
    <3>1. \A q \in Prices : MaxPrice - q \in Nat
      BY <1>3, BookAssumption
    <3>2. PICK q \in Prices : TRUE
      BY <2>1
    <3>3. MaxPrice - q \in T
      OBVIOUS
    <3> QED BY <3>1, <3>3
  <2>5. PICK u \in T : \A y \in T : u <= y
    <3> HIDE DEF T
    <3> QED BY <2>4, LeastNatural
  <2>6. PICK r \in Prices : u = MaxPrice - r
    OBVIOUS
  <2>7. ASSUME NEW q \in Prices PROVE q <= r
    <3>1. MaxPrice - q \in T
      OBVIOUS
    <3>2. MaxPrice - r <= MaxPrice - q
      BY <2>5, <2>6, <3>1
    <3> QED BY <1>3, <3>2, BookAssumption
  <2>8. b.cost <= r * b.size
    BY <1>3, <1>11, <1>13, <2>7
  <2>9. r * b.size \in Int /\ b.cost \in Int
    <3> DEFINE s == b.size
    <3>1. s \in Nat /\ r \in Nat /\ b.cost \in Int
      BY <1>3, <1>9, <1>13
    <3> HIDE DEF s
    <3>2. r * s \in Int
      BY <3>1
    <3> QED BY <3>1, <3>2 DEF s
  <2>10. r * b.size >= b.cost
    BY <2>8, <2>9
  <2>11. \A q \in Prices : \E j \in 1..Len(vec) : q = vec[j].price
    BY DEF Prices
  <2> QED BY <2>3, <2>10, <2>11 DEF Inside
<1> QED BY <1>14, <1>15 DEF b, res

BookAcc(n) == [final : [bid : [1..n -> TierSet], ask : [1..n -> TierSet]],
               sweep_bid : Seq(SweepSet), sweep_ask : Seq(SweepSet),
               go : BOOLEAN, overrun : BOOLEAN]

\* What step 3 keeps: a price of the final bids lies inside the sweepable bids.
SweptBooks(acc, n) ==
  /\ acc \in BookAcc(n)
  /\ \A k \in 1..n : acc.final.bid[k].size > 0 => Inside(acc.final.bid[k], acc.sweep_bid)

\* Inside is about the prices alone.
LEMMA InsideSamePrices ==
  ASSUME NEW x, NEW v, NEW w, Inside(x, v), Len(w) = Len(v),
         \A j \in 1..Len(v) : w[j].price = v[j].price
  PROVE  Inside(x, w)
BY DEF Inside

\* One tier more.
LEMMA TierStep ==
  ASSUME NEW acc, SweptBooks(acc, BookDepth), NEW k \in Nat \ {0}, NEW lit \in Int
  PROVE  SweptBooks(Tier(acc, k, lit), BookDepth)
<1> DEFINE n == BookDepth
           bid == Sweep(acc.sweep_bid, lit)
           ask == Sweep(acc.sweep_ask, lit)
           b == Average(bid.res, lit)
           a == Average(ask.res, lit)
           new == Tier(acc, k, lit)
<1>1. /\ acc \in BookAcc(n) /\ acc.sweep_bid \in Seq(SweepSet) /\ acc.sweep_ask \in Seq(SweepSet)
      /\ acc.final.bid \in [1..n -> TierSet] /\ acc.final.ask \in [1..n -> TierSet]
      /\ acc.go \in BOOLEAN /\ acc.overrun \in BOOLEAN /\ n \in Nat
  BY BookAssumption DEF SweptBooks, BookAcc
<1>2. Swept(bid, acc.sweep_bid) /\ Swept(ask, acc.sweep_ask)
  <2> DEFINE v == acc.sweep_bid
             w == acc.sweep_ask
  <2>1. v \in Seq(SweepSet) /\ w \in Seq(SweepSet)
    BY <1>1
  <2> HIDE DEF v, w
  <2>2. Swept(Sweep(v, lit), v) /\ Swept(Sweep(w, lit), w)
    BY <2>1, SweepFacts
  <2> QED BY <2>2 DEF v, w
<1>3. /\ bid.vec \in Seq(SweepSet) /\ Len(bid.vec) = Len(acc.sweep_bid)
      /\ \A j \in 1..Len(acc.sweep_bid) : bid.vec[j].price = acc.sweep_bid[j].price
      /\ bid.cum \in Int
  <2> HIDE DEF bid
  <2> QED BY <1>2 DEF Swept, SweepAcc
<1>4. ask.vec \in Seq(SweepSet) /\ ask.cum \in Int
  <2> HIDE DEF ask
  <2> QED BY <1>2 DEF Swept, SweepAcc
<1>5. b \in TierSet /\ (b.size > 0 => Inside(b, acc.sweep_bid)) /\ a \in TierSet
  <2> HIDE DEF bid, ask
  <2> DEFINE v == acc.sweep_bid
             w == acc.sweep_ask
  <2>1. v \in Seq(SweepSet) /\ w \in Seq(SweepSet)
    BY <1>1
  <2>2. Swept(bid, v) /\ Swept(ask, w)
    BY <1>2
  <2> HIDE DEF v, w
  <2>3. b \in TierSet /\ (b.size > 0 => Inside(b, v))
    BY <2>1, <2>2, AverageInside
  <2>4. a \in TierSet
    BY <2>1, <2>2, AverageInside
  <2> HIDE DEF a, b
  <2> QED BY <2>3, <2>4 DEF v
<1>6. ASSUME NEW x, Inside(x, acc.sweep_bid) PROVE Inside(x, bid.vec)
  <2> HIDE DEF bid
  <2> QED BY <1>3, <1>6, InsideSamePrices
<1> HIDE DEF a, b
<1>7. CASE ~acc.go
  <2>1. new = acc
    BY <1>7 DEF Tier
  <2> QED BY <2>1
<1>8. CASE acc.go /\ bid.cum < lit
  <2>1. new = [acc EXCEPT !.sweep_bid = bid.vec, !.go = FALSE]
    <3>1. ~(bid.cum >= lit)
      BY <1>3, <1>8
    <3> QED BY <1>8, <3>1 DEF Tier
  <2> HIDE DEF bid, ask, new
  <2>2. new = [final |-> acc.final, sweep_bid |-> bid.vec, sweep_ask |-> acc.sweep_ask,
               go |-> FALSE, overrun |-> acc.overrun]
    BY <1>1, <2>1 DEF BookAcc
  <2>3. new.final = acc.final /\ new.sweep_bid = bid.vec
    BY <2>2
  <2>4. acc.final \in [bid : [1..n -> TierSet], ask : [1..n -> TierSet]]
    BY <1>1 DEF BookAcc
  <2>5. new \in BookAcc(n)
    BY <1>1, <1>3, <2>2, <2>4 DEF BookAcc
  <2>6. \A i \in 1..n : acc.final.bid[i].size > 0 => Inside(acc.final.bid[i], acc.sweep_bid)
    BY DEF SweptBooks
  <2>7. \A i \in 1..n : new.final.bid[i].size > 0 => Inside(new.final.bid[i], new.sweep_bid)
    BY <1>6, <2>3, <2>6
  <2>8. SweptBooks(new, n)
    BY <2>5, <2>7 DEF SweptBooks
  <2> QED BY <2>8 DEF new
<1>9. CASE acc.go /\ bid.cum >= lit /\ k <= BookDepth
  <2>0. k \in 1..n
    BY <1>1, <1>9
  <2> DEFINE fb == [acc.final.bid EXCEPT ![k] = IF BidReplaced(@, b) THEN b ELSE @]
             fa == [acc.final.ask EXCEPT
                      ![k] = IF ask.cum >= lit /\ AskReplaced(@, a) THEN a ELSE @]
  <2>1. new = [acc EXCEPT
                !.sweep_bid = bid.vec, !.sweep_ask = ask.vec,
                !.final.bid[k] = IF BidReplaced(@, b) THEN b ELSE @,
                !.final.ask[k] = IF ask.cum >= lit /\ AskReplaced(@, a) THEN a ELSE @,
                !.go = ask.cum >= lit]
    <3>1. ~(bid.cum < lit) /\ ~(k > BookDepth)
      BY <1>1, <1>3, <1>9
    <3> QED BY <1>9, <3>1 DEF Tier, a, b
  <2> HIDE DEF bid, ask, new
  <2>2. new = [final |-> [bid |-> fb, ask |-> fa],
               sweep_bid |-> bid.vec, sweep_ask |-> ask.vec,
               go |-> ask.cum >= lit, overrun |-> acc.overrun]
    BY <1>1, <2>1 DEF BookAcc
  <2>3. /\ fb \in [1..n -> TierSet]
        /\ fb[k] = b \/ fb[k] = acc.final.bid[k]
        /\ \A i \in 1..n : i # k => fb[i] = acc.final.bid[i]
    BY <1>1, <1>5, <2>0
  <2>4. fa \in [1..n -> TierSet]
    BY <1>1, <1>5
  <2> HIDE DEF fa, fb
  <2>5. new.final.bid = fb /\ new.sweep_bid = bid.vec
    BY <2>2
  <2>6. new \in BookAcc(n)
    BY <1>1, <1>3, <1>4, <2>2, <2>3, <2>4 DEF BookAcc
  <2>7. ASSUME NEW i \in 1..n, fb[i].size > 0 PROVE Inside(fb[i], bid.vec)
    <3>1. CASE i = k /\ fb[k] = b
      BY <1>5, <1>6, <2>7, <3>1
    <3>2. CASE fb[i] = acc.final.bid[i]
      <4>1. Inside(fb[i], acc.sweep_bid)
        BY <2>7, <3>2 DEF SweptBooks
      <4> QED BY <1>6, <4>1
    <3> QED BY <2>3, <3>1, <3>2
  <2>8. SweptBooks(new, n)
    BY <2>5, <2>6, <2>7 DEF SweptBooks
  <2> QED BY <2>8 DEF new
<1>10. CASE acc.go /\ bid.cum >= lit /\ k > BookDepth
  <2>1. new = [acc EXCEPT !.overrun = TRUE, !.go = FALSE]
    <3>1. ~(bid.cum < lit) /\ ~(k <= BookDepth)
      BY <1>1, <1>3, <1>10
    <3> QED BY <1>10, <3>1 DEF Tier
  <2> HIDE DEF bid, ask, new
  <2>2. new = [final |-> acc.final, sweep_bid |-> acc.sweep_bid, sweep_ask |-> acc.sweep_ask,
               go |-> FALSE, overrun |-> TRUE]
    BY <1>1, <2>1 DEF BookAcc
  <2>3. new \in BookAcc(n)
    BY <1>1, <2>2 DEF BookAcc
  <2>4. new.final = acc.final /\ new.sweep_bid = acc.sweep_bid
    BY <2>2
  <2>5. SweptBooks(new, n)
    BY <2>3, <2>4 DEF SweptBooks
  <2> QED BY <2>5 DEF new
<1>11. /\ bid.cum >= lit \/ bid.cum < lit
       /\ k > BookDepth \/ k <= BookDepth
  BY <1>1, <1>3
<1> QED BY <1>1, <1>7, <1>8, <1>9, <1>10, <1>11

\* The snapshots of the exchanges.
L2Set == [EXCHANGE -> [bid : Seq(SweepSet), ask : Seq(SweepSet)]]

\* Sorting keeps the levels of a sweepable book levels.
LEMMA SortTypes ==
  ASSUME NEW vec \in Seq(SweepSet)
  PROVE  SortBids(vec) \in Seq(SweepSet) /\ SortAsks(vec) \in Seq(SweepSet)
<1> DEFINE n == Len(vec)
           A == BidLoop(vec, n)
           B == AskLoop(vec, n)
<1>1. n \in Nat /\ (\A k \in 1..n : vec[k] \in SweepSet) /\ n \in 0..n
  OBVIOUS
<1>2. SortBids(vec) = A[n] /\ SortAsks(vec) = B[n]
  BY Zenon DEF SortBids, SortAsks, BidLoop, AskLoop
<1> HIDE DEF n
<1>3. \A k \in 0..n : A[k] \in Seq(SweepSet)
  BY <1>1, BidRounds
<1>4. \A k \in 0..n : B[k] \in Seq(SweepSet)
  BY <1>1, AskRounds
<1> QED BY <1>1, <1>2, <1>3, <1>4

\* The loop of SweepBooks.
BooksLoop(base, lv) ==
  CHOOSE h : h = [k \in 0..Len(lv) |-> IF k = 0 THEN base ELSE Tier(h[k - 1], k, lv[k])]

\* It keeps the prices of the final bids inside the sweepable bids.
LEMMA SweepBooksFacts ==
  ASSUME NEW st, st.cfg.level_vec \in Seq(Nat), st.l2sweepable \in L2Set,
         st.sweep_bid \in Seq(SweepSet), st.sweep_ask \in Seq(SweepSet)
  PROVE  SweptBooks(SweepBooks(st), BookDepth)
<1> DEFINE lv == st.cfg.level_vec
           n == Len(lv)
           vb == st.sweep_bid \o Levels(st.l2sweepable, "bid")
           va == st.sweep_ask \o Levels(st.l2sweepable, "ask")
           base == [final |-> ClearBook(BookDepth), sweep_bid |-> SortBids(vb),
                    sweep_ask |-> SortAsks(va), go |-> TRUE, overrun |-> FALSE]
           Body(h) == [k \in 0..n |-> IF k = 0 THEN base ELSE Tier(h[k - 1], k, lv[k])]
           V == {acc \in BookAcc(BookDepth) : SweptBooks(acc, BookDepth)}
           W == [k \in 0..n |-> V]
           G == [k \in 1..n |-> [acc \in V |-> Tier(acc, k, lv[k])]]
           A == BooksLoop(base, lv)
<1>1. A = CHOOSE h : h = Body(h)
  BY Zenon DEF BooksLoop
<1>2. /\ n \in Nat /\ n \in 0..n /\ 0 \in 0..n
      /\ \A k \in 1..n : k - 1 \in 0..n /\ k \in 0..n /\ k \in Nat \ {0} /\ lv[k] \in Int
  OBVIOUS
<1>3. vb \in Seq(SweepSet) /\ va \in Seq(SweepSet)
  <2> DEFINE x == st.l2sweepable
             xb == Levels(x, "bid")
             xa == Levels(x, "ask")
             sb == st.sweep_bid
             sa == st.sweep_ask
  <2>1. x \in [EXCHANGE -> [bid : Seq(SweepSet), ask : Seq(SweepSet)]]
    BY DEF L2Set
  <2>2. xb \in Seq(SweepSet) /\ xa \in Seq(SweepSet)
    <3> HIDE DEF x
    <3> QED BY <2>1, LevelsFacts
  <2>3. sb \in Seq(SweepSet) /\ sa \in Seq(SweepSet)
    OBVIOUS
  <2> HIDE DEF xb, xa, sb, sa
  <2>4. sb \o xb \in Seq(SweepSet) /\ sa \o xa \in Seq(SweepSet)
    BY <2>2, <2>3, ConcatProperties
  <2> QED BY <2>4 DEF xb, xa, sb, sa
<1>4. SweepBooks(st) = A[n]
  BY Zenon DEF SweepBooks, BooksLoop
<1> HIDE DEF lv, vb, va
<1>5. base \in V
  <2> HIDE DEF n
  <2> DEFINE sb == SortBids(vb)
             sa == SortAsks(va)
             e == [k \in 1..BookDepth |-> NoPrice]
  <2>1. sb \in Seq(SweepSet) /\ sa \in Seq(SweepSet)
    BY <1>3, SortTypes
  <2>2. NoPrice \in TierSet /\ NoPrice.size = 0
    BY DEF NoPrice, TierSet
  <2>3. e \in [1..BookDepth -> TierSet] /\ \A k \in 1..BookDepth : e[k].size = 0
    BY <2>2
  <2>4. base = [final |-> [bid |-> e, ask |-> e], sweep_bid |-> sb, sweep_ask |-> sa,
                go |-> TRUE, overrun |-> FALSE]
    BY DEF ClearBook
  <2> HIDE DEF sb, sa, e, base
  <2>5. base \in BookAcc(BookDepth)
    BY <2>1, <2>3, <2>4 DEF BookAcc
  <2>6. base.final.bid = e
    BY <2>4
  <2>7. \A k \in 1..BookDepth : ~(base.final.bid[k].size > 0)
    BY <2>3, <2>6
  <2>8. SweptBooks(base, BookDepth)
    BY <2>5, <2>7 DEF SweptBooks
  <2> QED BY <2>5, <2>8
<1> HIDE DEF base, n
<1>6. ASSUME NEW k \in 1..n, NEW acc \in V PROVE Tier(acc, k, lv[k]) \in V
  <2>1. SweptBooks(acc, BookDepth)
    OBVIOUS
  <2> DEFINE lit == lv[k]
             new == Tier(acc, k, lit)
  <2>2. lit \in Int
    BY <1>2
  <2> HIDE DEF lit
  <2>3. SweptBooks(new, BookDepth)
    BY <1>2, <2>1, <2>2, TierStep
  <2> HIDE DEF new
  <2>4. new \in BookAcc(BookDepth)
    BY <2>3 DEF SweptBooks
  <2>5. new \in V
    BY <2>3, <2>4
  <2> QED BY <2>5 DEF new, lit
<1>7. \A acc \in V : SweptBooks(acc, BookDepth)
  OBVIOUS
<1> HIDE DEF V
<1>8. PICK h : /\ h = [k \in 0..n |-> h[k]] /\ Recurses(h, base, G, n)
               /\ \A k \in 0..n : h[k] \in W[k]
  <2>1. \A k \in 1..n : \A v \in W[k-1] : G[k][v] \in W[k]
    BY <1>2, <1>6
  <2>2. base \in W[0]
    BY <1>2, <1>5
  <2> HIDE DEF W, G
  <2> QED BY <1>2, <2>1, <2>2, Recursion
<1>9. \A k \in 0..n : h[k] \in V
  BY <1>8
<1>10. h[0] = base /\ \A k \in 1..n : h[k] = Tier(h[k-1], k, lv[k])
  <2>1. h[0] = base /\ \A k \in 1..n : h[k] = G[k][h[k-1]]
    BY <1>8, Zenon DEF Recurses
  <2>2. ASSUME NEW k \in 1..n PROVE h[k] = Tier(h[k-1], k, lv[k])
    BY <1>2, <1>9, <2>1
  <2> QED BY <2>1, <2>2
<1>11. h = Body(h)
  <2>1. \A k \in 0..n : h[k] = IF k = 0 THEN base ELSE Tier(h[k-1], k, lv[k])
    BY <1>2, <1>10
  <2> QED BY <1>8, <2>1
<1>12. A = Body(A)
  <2> HIDE DEF A, Body
  <2> QED BY <1>1, <1>11, Zenon
<1> HIDE DEF A
<1>13. A[0] = base /\ \A k \in 1..n : A[k] = Tier(A[k-1], k, lv[k])
  BY <1>2, <1>12
<1>14. \A k \in 0..n : A[k] = h[k]
  <2> HIDE DEF W, G, Body
  <2>1. A[0] = h[0]
    BY <1>10, <1>13
  <2>2. ASSUME NEW k \in 1..n, A[k-1] = h[k-1] PROVE A[k] = h[k]
    <3>1. h[k] = Tier(h[k-1], k, lv[k]) /\ A[k] = Tier(A[k-1], k, lv[k])
      BY <1>10, <1>13
    <3> QED BY <2>2, <3>1
  <2>3. n \in Nat
    BY <1>2
  <2>4. SameRounds(A, h, n)
    BY <2>1, <2>2 DEF SameRounds
  <2> QED BY <2>3, <2>4, SameLoop
<1>15. A[n] \in V
  BY <1>2, <1>9, <1>14
<1>16. SweptBooks(A[n], BookDepth)
  BY <1>7, <1>15
<1> QED BY <1>4, <1>16 DEF n, lv

-----------------------------------------------------------------------------
(* onSnapshot. *)

\* The new levels, then what the array held behind them, the first nb in order:
\* they hold every new level.
LEMMA MergeSide ==
  ASSUME NEW new \in Seq(LevelSet), NEW old \in Seq(LevelSet), Len(old) = Depth,
         NEW nb \in Len(new)..Depth
  PROVE  LET r == insertion_sort(new \o SubSeq(old, Len(new) + 1, Depth), nb)
         IN  /\ r \in Seq(LevelSet) /\ Len(r) = Depth
             /\ Ascends(SubSeq(r, 1, nb)) /\ Holds(SubSeq(r, 1, nb), new)
<1> DEFINE rest == SubSeq(old, Len(new) + 1, Depth)
           arr == new \o rest
           r == insertion_sort(arr, nb)
           one == SubSeq(arr, 1, Len(new))
           two == SubSeq(arr, Len(new) + 1, nb)
<1>1. Len(new) \in Nat /\ nb \in Nat /\ Depth \in Nat /\ Len(new) <= nb /\ nb <= Depth
  BY BookAssumption
<1>2. rest \in Seq(LevelSet) /\ Len(rest) = Depth - Len(new)
  <2>1. \A i \in Len(new)+1..Depth : old[i] \in LevelSet
    BY <1>1
  <2>2. /\ rest \in Seq(LevelSet)
        /\ Len(rest) = IF Len(new) + 1 <= Depth THEN Depth - (Len(new) + 1) + 1 ELSE 0
    BY <1>1, <2>1, SubSeqProperties
  <2> QED BY <1>1, <2>2
<1> HIDE DEF rest
<1>3. /\ arr \in Seq(LevelSet) /\ Len(arr) = Depth
      /\ \A i \in 1..Len(new) : arr[i] = new[i]
  <2>1. /\ arr \in Seq(LevelSet) /\ Len(arr) = Len(new) + Len(rest)
        /\ \A i \in 1..Len(new) + Len(rest) :
             arr[i] = IF i <= Len(new) THEN new[i] ELSE rest[i - Len(new)]
    BY <1>2, ConcatProperties
  <2> QED BY <1>1, <1>2, <2>1
<1> HIDE DEF arr
<1>4. /\ r \in Seq(LevelSet) /\ Len(r) = Len(arr) /\ Ascends(SubSeq(r, 1, nb))
      /\ \A x : Count(SubSeq(r, 1, nb), x) = Count(SubSeq(arr, 1, nb), x)
  <2>1. nb \in 0..Len(arr)
    BY <1>1, <1>3
  <2> QED BY <1>3, <2>1, InsertionSortFacts
<1>5. \A i \in 1..Depth : arr[i] \in LevelSet
  BY <1>3
<1>6. one \in Seq(LevelSet) /\ one = new
  <2>1. \A i \in 1..Len(new) : arr[i] \in LevelSet
    BY <1>1, <1>5
  <2>2. /\ one \in Seq(LevelSet) /\ Len(one) = IF 1 <= Len(new) THEN Len(new) - 1 + 1 ELSE 0
        /\ \A i \in 1..Len(new)-1+1 : one[i] = arr[1+i-1]
    BY <1>1, <2>1, SubSeqProperties
  <2> HIDE DEF one
  <2>3. Len(one) = Len(new) /\ \A i \in 1..Len(new) : one[i] = new[i]
    BY <1>1, <1>3, <2>2
  <2> QED BY <2>2, <2>3, SeqEqual
<1>7. two \in Seq(LevelSet)
  <2>1. \A i \in Len(new)+1..nb : arr[i] \in LevelSet
    BY <1>1, <1>5
  <2> QED BY <1>1, <2>1, SubSeqProperties
<1>8. SubSeq(arr, 1, nb) = one \o two
  <2>1. 1 \in 1..Len(arr)+1 /\ Len(new) \in 1-1..Len(arr) /\ nb \in Len(new)..Len(arr)
    BY <1>1, <1>3
  <2> QED BY <1>3, <2>1, ConcatAdjacentSubSeq
<1> HIDE DEF one, two
<1>9. ASSUME NEW x PROVE Count(SubSeq(r, 1, nb), x) >= Count(new, x)
  <2>1. Count(one \o two, x) = Count(one, x) + Count(two, x)
    BY <1>6, <1>7, CountConcat
  <2>2. Count(one, x) \in Nat /\ Count(two, x) \in Nat
    BY <1>6, <1>7, CountType
  <2>3. Count(SubSeq(r, 1, nb), x) = Count(new, x) + Count(two, x)
    BY <1>4, <1>6, <1>8, <2>1
  <2>4. Count(new, x) \in Nat
    BY <1>6, <2>2
  <2> QED BY <2>2, <2>3, <2>4
<1>10. Holds(SubSeq(r, 1, nb), new)
  BY <1>9 DEF Holds
<1> QED BY <1>3, <1>4, <1>10 DEF r, arr, rest

Fields == {"cfg", "l2order", "l2fullamount", "l2sweepable", "bid", "bid_count", "ask",
           "ask_count", "price_book", "order_book", "fullamount", "final",
           "sweep_bid", "sweep_ask"}

\* What onSnapshot leaves alone, and what it makes of the rest.
LEMMA SnapshotFields ==
  ASSUME NEW st, DOMAIN st = Fields
  PROVE  LET r == onSnapshot(st)
             bids == Levels(st.l2order, "bid")
             asks == Levels(st.l2order, "ask")
         IN  /\ DOMAIN r = Fields /\ r.cfg = st.cfg /\ r.l2order = st.l2order
             /\ r.l2fullamount = st.l2fullamount /\ r.l2sweepable = st.l2sweepable
             /\ r.bid_count = st.bid_count + Len(bids)
             /\ r.ask_count = st.ask_count + Len(asks)
             /\ r.bid = insertion_sort(bids \o SubSeq(st.bid, Len(bids) + 1, Depth), r.bid_count)
             /\ r.ask = insertion_sort(asks \o SubSeq(st.ask, Len(asks) + 1, Depth), r.ask_count)
             /\ r.order_book.bid = BidTiers(st.order_book.bid, SubSeq(r.bid, 1, r.bid_count),
                                            st.cfg.level_vec).tiers
             /\ \E m : /\ m.cfg = st.cfg /\ m.l2sweepable = st.l2sweepable
                       /\ m.sweep_bid = st.sweep_bid /\ m.sweep_ask = st.sweep_ask
                       /\ r.final = SweepBooks(m).final
                       /\ r.sweep_bid = SweepBooks(m).sweep_bid
                       /\ r.sweep_ask = SweepBooks(m).sweep_ask
<1> DEFINE bids == Levels(st.l2order, "bid")
           asks == Levels(st.l2order, "ask")
           nb == st.bid_count + Len(bids)
           na == st.ask_count + Len(asks)
           sb == insertion_sort(bids \o SubSeq(st.bid, Len(bids) + 1, Depth), nb)
           sa == insertion_sort(asks \o SubSeq(st.ask, Len(asks) + 1, Depth), na)
           one == [st EXCEPT !.bid = sb, !.ask = sa, !.bid_count = nb, !.ask_count = na]
           two == verticalIntergrationLevel(one)
           m == verticalIntergrationPrice(two)
           r == onSnapshot(st)
           fa == [bid |-> FullAmount(st.l2fullamount, "bid", st.cfg.level_vec),
                  ask |-> FullAmount(st.l2fullamount, "ask", st.cfg.level_vec)]
           w == SweepBooks(m)
<1>1. mergeOrderBook(st) = m
  BY DEF mergeOrderBook
<1>2. r = [m EXCEPT !.fullamount = fa, !.final = w.final,
                    !.sweep_bid = w.sweep_bid, !.sweep_ask = w.sweep_ask]
  <2> HIDE DEF m
  <2> QED BY <1>1 DEF onSnapshot
<1> HIDE DEF sb, sa, nb, na
<1>3. /\ DOMAIN one = Fields
      /\ one.bid = sb /\ one.ask = sa /\ one.bid_count = nb /\ one.ask_count = na
      /\ one.cfg = st.cfg /\ one.l2order = st.l2order /\ one.l2fullamount = st.l2fullamount
      /\ one.l2sweepable = st.l2sweepable /\ one.order_book = st.order_book
      /\ one.sweep_bid = st.sweep_bid /\ one.sweep_ask = st.sweep_ask
  BY DEF Fields
<1> DEFINE tb == BidTiers(one.order_book.bid, SubSeq(one.bid, 1, one.bid_count), one.cfg.level_vec)
           ta == AskTiers(one.order_book.ask, SubSeq(one.ask, 1, one.ask_count),
                          one.cfg.level_vec, tb.size)
<1>4. two = [one EXCEPT !.order_book = [bid |-> tb.tiers, ask |-> ta.tiers]]
  <2> HIDE DEF one
  <2> QED BY DEF verticalIntergrationLevel, IntegrateBids, IntegrateAsks
<1> HIDE DEF one, two, ta, tb
<1>5. /\ DOMAIN two = Fields
      /\ two.bid = sb /\ two.ask = sa /\ two.bid_count = nb /\ two.ask_count = na
      /\ two.cfg = st.cfg /\ two.l2order = st.l2order /\ two.l2fullamount = st.l2fullamount
      /\ two.l2sweepable = st.l2sweepable /\ two.order_book.bid = tb.tiers
      /\ two.sweep_bid = st.sweep_bid /\ two.sweep_ask = st.sweep_ask
  BY <1>3, <1>4 DEF Fields
<1> DEFINE pb == IntegratePrice(two.price_book.bid, SubSeq(two.bid, 1, two.bid_count))
           pa == IntegratePrice(two.price_book.ask, SubSeq(two.ask, 1, two.ask_count))
<1>6. m = [two EXCEPT !.price_book.bid = pb, !.price_book.ask = pa]
  BY DEF verticalIntergrationPrice
<1> HIDE DEF m, pb, pa
<1>7. /\ DOMAIN m = Fields
      /\ m.bid = sb /\ m.ask = sa /\ m.bid_count = nb /\ m.ask_count = na
      /\ m.cfg = st.cfg /\ m.l2order = st.l2order /\ m.l2fullamount = st.l2fullamount
      /\ m.l2sweepable = st.l2sweepable /\ m.order_book.bid = tb.tiers
      /\ m.sweep_bid = st.sweep_bid /\ m.sweep_ask = st.sweep_ask
  BY <1>5, <1>6 DEF Fields
<1> HIDE DEF r, fa, w
<1>8. /\ DOMAIN r = Fields
      /\ r.bid = sb /\ r.ask = sa /\ r.bid_count = nb /\ r.ask_count = na
      /\ r.cfg = st.cfg /\ r.l2order = st.l2order /\ r.l2fullamount = st.l2fullamount
      /\ r.l2sweepable = st.l2sweepable /\ r.order_book.bid = tb.tiers
      /\ r.final = w.final /\ r.sweep_bid = w.sweep_bid /\ r.sweep_ask = w.sweep_ask
  BY <1>2, <1>7 DEF Fields
<1>9. tb = BidTiers(st.order_book.bid, SubSeq(sb, 1, nb), st.cfg.level_vec)
  BY <1>3 DEF tb
<1>10. r.order_book.bid = BidTiers(st.order_book.bid, SubSeq(r.bid, 1, r.bid_count),
                                   st.cfg.level_vec).tiers
  BY <1>8, <1>9
<1>11. \E x : /\ x.cfg = st.cfg /\ x.l2sweepable = st.l2sweepable
              /\ x.sweep_bid = st.sweep_bid /\ x.sweep_ask = st.sweep_ask
              /\ r.final = SweepBooks(x).final
              /\ r.sweep_bid = SweepBooks(x).sweep_bid
              /\ r.sweep_ask = SweepBooks(x).sweep_ask
  <2>1. /\ m.cfg = st.cfg /\ m.l2sweepable = st.l2sweepable
        /\ m.sweep_bid = st.sweep_bid /\ m.sweep_ask = st.sweep_ask
        /\ r.final = SweepBooks(m).final
        /\ r.sweep_bid = SweepBooks(m).sweep_bid
        /\ r.sweep_ask = SweepBooks(m).sweep_ask
    BY <1>7, <1>8 DEF w
  <2> QED BY <2>1
<1> QED BY <1>8, <1>10, <1>11 DEF r, sb, sa, nb, na

-----------------------------------------------------------------------------
(* What a stream always is. *)

\* A tier the composite bids are enough for has the average of its units.
TiersAreVwap(st) ==
  \A k \in 1..Len(st.cfg.level_vec) \cap 1..BookDepth :
    st.cfg.level_vec[k] <= Len(Units(SubSeq(st.bid, 1, st.bid_count))) =>
      st.order_book.bid[k] =
        [size |-> st.cfg.level_vec[k],
         cost |-> SumTo(Units(SubSeq(st.bid, 1, st.bid_count)), st.cfg.level_vec[k])]

\* The composite book within its counts after a merge.
Merged(st) ==
  /\ Ascends(SubSeq(st.bid, 1, st.bid_count))
  /\ Holds(SubSeq(st.bid, 1, st.bid_count), Levels(st.l2order, "bid"))
  /\ Ascends(SubSeq(st.ask, 1, st.ask_count))
  /\ Holds(SubSeq(st.ask, 1, st.ask_count), Levels(st.l2order, "ask"))

\* A stream of configuration c.
StreamOK(st, c) ==
  /\ DOMAIN st = Fields /\ st.cfg = c
  /\ st.l2order \in L2Set /\ st.l2fullamount \in L2Set /\ st.l2sweepable \in L2Set
  /\ st.bid \in Seq(LevelSet) /\ Len(st.bid) = Depth
  /\ st.ask \in Seq(LevelSet) /\ Len(st.ask) = Depth
  /\ st.bid_count \in 0..Depth /\ st.ask_count \in 0..Depth
  /\ st.order_book.bid \in [1..BookDepth -> TierSet]
  /\ TiersAreVwap(st)
  /\ st.sweep_bid \in Seq(SweepSet) /\ st.sweep_ask \in Seq(SweepSet)
  /\ st.final.bid \in [1..BookDepth -> TierSet]
  /\ \A k \in 1..BookDepth :
       st.final.bid[k].size > 0 => Inside(st.final.bid[k], st.sweep_bid)

\* A call of onSnapshot that leaves no array keeps all of it, and merges.
LEMMA SnapshotKeeps ==
  ASSUME NEW c, c.level_vec \in Seq(Nat), Sorted(c.level_vec),
         NEW st, StreamOK(st, c), ~Overruns(st)
  PROVE  StreamOK(onSnapshot(st), c) /\ Merged(onSnapshot(st))
<1> DEFINE r == onSnapshot(st)
           bids == Levels(st.l2order, "bid")
           asks == Levels(st.l2order, "ask")
           lv == c.level_vec
           n == Len(lv)
           N == 1..n \cap 1..BookDepth
<1>1. /\ DOMAIN r = Fields /\ r.cfg = st.cfg /\ r.l2order = st.l2order
      /\ r.l2fullamount = st.l2fullamount /\ r.l2sweepable = st.l2sweepable
      /\ r.bid_count = st.bid_count + Len(bids)
      /\ r.ask_count = st.ask_count + Len(asks)
      /\ r.bid = insertion_sort(bids \o SubSeq(st.bid, Len(bids) + 1, Depth), r.bid_count)
      /\ r.ask = insertion_sort(asks \o SubSeq(st.ask, Len(asks) + 1, Depth), r.ask_count)
      /\ r.order_book.bid = BidTiers(st.order_book.bid, SubSeq(r.bid, 1, r.bid_count),
                                     st.cfg.level_vec).tiers
  BY SnapshotFields DEF StreamOK
<1>2. PICK m : /\ m.cfg = st.cfg /\ m.l2sweepable = st.l2sweepable
               /\ m.sweep_bid = st.sweep_bid /\ m.sweep_ask = st.sweep_ask
               /\ r.final = SweepBooks(m).final
               /\ r.sweep_bid = SweepBooks(m).sweep_bid
               /\ r.sweep_ask = SweepBooks(m).sweep_ask
  BY SnapshotFields DEF StreamOK
<1>3. /\ st.cfg = c /\ st.l2order \in L2Set /\ st.l2fullamount \in L2Set
      /\ st.l2sweepable \in L2Set
      /\ st.bid \in Seq(LevelSet) /\ Len(st.bid) = Depth
      /\ st.ask \in Seq(LevelSet) /\ Len(st.ask) = Depth
      /\ st.bid_count \in 0..Depth /\ st.ask_count \in 0..Depth
      /\ st.order_book.bid \in [1..BookDepth -> TierSet] /\ TiersAreVwap(st)
      /\ st.sweep_bid \in Seq(SweepSet) /\ st.sweep_ask \in Seq(SweepSet)
  BY DEF StreamOK
<1>4. /\ bids \in Seq(LevelSet) /\ asks \in Seq(LevelSet)
      /\ Len(bids) \in Nat /\ Len(asks) \in Nat
  <2> DEFINE l2 == st.l2order
  <2>1. l2 \in [EXCHANGE -> [bid : Seq(SweepSet), ask : Seq(SweepSet)]]
    BY <1>3 DEF L2Set
  <2> HIDE DEF l2
  <2>2. Levels(l2, "bid") \in Seq(SweepSet) /\ Levels(l2, "ask") \in Seq(SweepSet)
    BY <2>1, LevelsFacts
  <2>3. SweepSet \subseteq LevelSet
    BY DEF SweepSet, LevelSet
  <2>4. \A s \in Seq(SweepSet) : s \in Seq(LevelSet) /\ Len(s) \in Nat
    BY <2>3
  <2> QED BY <2>2, <2>4 DEF l2
<1> HIDE DEF r
<1>5. r.bid_count \in Len(bids)..Depth /\ r.ask_count \in Len(asks)..Depth
  <2>1. ~(st.bid_count + Len(bids) > Depth) /\ ~(st.ask_count + Len(asks) > Depth)
    BY DEF Overruns
  <2> DEFINE i == Len(bids)
             j == Len(asks)
             nb == r.bid_count
             na == r.ask_count
             ob == st.bid_count
             oa == st.ask_count
  <2>2. /\ i \in Nat /\ j \in Nat /\ ob \in 0..Depth /\ oa \in 0..Depth /\ Depth \in Nat
        /\ nb = ob + i /\ na = oa + j /\ ~(ob + i > Depth) /\ ~(oa + j > Depth)
    BY <1>1, <1>3, <1>4, <2>1, BookAssumption
  <2> HIDE DEF i, j, nb, na, ob, oa
  <2>3. nb \in i..Depth /\ na \in j..Depth
    BY <2>2
  <2> QED BY <2>3 DEF i, j, nb, na
<1> HIDE DEF bids, asks
<1>6. /\ r.bid \in Seq(LevelSet) /\ Len(r.bid) = Depth
      /\ Ascends(SubSeq(r.bid, 1, r.bid_count)) /\ Holds(SubSeq(r.bid, 1, r.bid_count), bids)
  <2> DEFINE nb == r.bid_count
             old == st.bid
             new == insertion_sort(bids \o SubSeq(old, Len(bids) + 1, Depth), nb)
  <2>1. old \in Seq(LevelSet) /\ Len(old) = Depth /\ nb \in Len(bids)..Depth /\ r.bid = new
    BY <1>1, <1>3, <1>5
  <2> HIDE DEF nb, old
  <2>2. /\ new \in Seq(LevelSet) /\ Len(new) = Depth
        /\ Ascends(SubSeq(new, 1, nb)) /\ Holds(SubSeq(new, 1, nb), bids)
    BY <1>4, <2>1, MergeSide
  <2> HIDE DEF new
  <2> QED BY <2>1, <2>2 DEF nb
<1>7. /\ r.ask \in Seq(LevelSet) /\ Len(r.ask) = Depth
      /\ Ascends(SubSeq(r.ask, 1, r.ask_count)) /\ Holds(SubSeq(r.ask, 1, r.ask_count), asks)
  <2> DEFINE na == r.ask_count
             old == st.ask
             new == insertion_sort(asks \o SubSeq(old, Len(asks) + 1, Depth), na)
  <2>1. old \in Seq(LevelSet) /\ Len(old) = Depth /\ na \in Len(asks)..Depth /\ r.ask = new
    BY <1>1, <1>3, <1>5
  <2> HIDE DEF na, old
  <2>2. /\ new \in Seq(LevelSet) /\ Len(new) = Depth
        /\ Ascends(SubSeq(new, 1, na)) /\ Holds(SubSeq(new, 1, na), asks)
    BY <1>4, <2>1, MergeSide
  <2> HIDE DEF new
  <2> QED BY <2>1, <2>2 DEF na
<1>8. Merged(r)
  BY <1>1, <1>6, <1>7 DEF Merged, bids, asks
<1> DEFINE side == SubSeq(r.bid, 1, r.bid_count)
<1>9. side \in Seq(LevelSet) /\ (side = <<>> => r.bid_count = 0)
  <2> DEFINE b == r.bid
             nb == r.bid_count
  <2>1. b \in Seq(LevelSet) /\ nb \in Nat /\ nb <= Len(b) /\ Len(b) \in Nat
    BY <1>4, <1>5, <1>6, BookAssumption
  <2> HIDE DEF b, nb
  <2>2. \A i \in 1..nb : b[i] \in LevelSet
    BY <2>1
  <2>3. SubSeq(b, 1, nb) \in Seq(LevelSet) /\ Len(SubSeq(b, 1, nb)) = IF 1 <= nb THEN nb - 1 + 1 ELSE 0
    BY <2>1, <2>2, SubSeqProperties
  <2>4. Len(<<>>) = 0
    OBVIOUS
  <2>5. SubSeq(b, 1, nb) = <<>> => nb = 0
    BY <2>1, <2>3, <2>4
  <2> QED BY <2>3, <2>5 DEF b, nb
<1>10. ASSUME side = <<>>, NEW k \in N, lv[k] = 0 PROVE st.order_book.bid[k] = NoPrice
  <2>1. st.bid_count = 0
    BY <1>1, <1>3, <1>4, <1>5, <1>9, <1>10
  <2> DEFINE old == SubSeq(st.bid, 1, st.bid_count)
             U == Units(old)
  <2>2. old \in Seq(LevelSet)
    <3>1. SubSeq(st.bid, 1, 0) = <<>>
      BY <1>3, SubSeqEmpty
    <3>2. <<>> \in Seq(LevelSet)
      OBVIOUS
    <3> QED BY <2>1, <3>1, <3>2
  <2> HIDE DEF old
  <2>3. U \in Seq(0..MaxPrice)
    BY <2>2, UnitsFacts
  <2> HIDE DEF U
  <2>4. lv[k] <= Len(U)
    BY <1>10, <2>3
  <2>5. st.order_book.bid[k] = [size |-> lv[k], cost |-> SumTo(U, lv[k])]
    BY <1>3, <2>4 DEF TiersAreVwap, U, old
  <2>6. SumTo(U, 0) = 0
    <3>1. 0 \in Nat /\ \A j \in 1..0 : U[j] \in Int
      OBVIOUS
    <3> QED BY <3>1, SumType
  <2> QED BY <1>10, <2>5, <2>6 DEF NoPrice
<1>11. /\ r.order_book.bid \in [1..BookDepth -> TierSet]
       /\ \A k \in N : lv[k] <= Len(Units(side)) =>
            r.order_book.bid[k] = [size |-> lv[k], cost |-> SumTo(Units(side), lv[k])]
  <2> DEFINE tiers == st.order_book.bid
             new == BidTiers(tiers, side, lv).tiers
  <2>1. r.order_book.bid = new
    BY <1>1, <1>3
  <2>2. /\ tiers \in [1..BookDepth -> TierSet] /\ lv \in Seq(Nat) /\ Sorted(lv)
        /\ side = <<>> => \A k \in 1..Len(lv) \cap 1..BookDepth : lv[k] = 0 => tiers[k] = NoPrice
    BY <1>3, <1>10
  <2> HIDE DEF tiers, side, lv
  <2>3. /\ new \in [1..BookDepth -> TierSet]
        /\ \A k \in 1..Len(lv) \cap 1..BookDepth : lv[k] <= Len(Units(side)) =>
            new[k] = [size |-> lv[k], cost |-> SumTo(Units(side), lv[k])]
    BY <1>9, <2>2, BidTiersFacts
  <2> HIDE DEF new
  <2> QED BY <2>1, <2>3
<1>12. TiersAreVwap(r)
  BY <1>1, <1>3, <1>11 DEF TiersAreVwap
<1>13. SweptBooks(SweepBooks(m), BookDepth)
  <2>1. /\ m.cfg.level_vec \in Seq(Nat) /\ m.l2sweepable \in L2Set
        /\ m.sweep_bid \in Seq(SweepSet) /\ m.sweep_ask \in Seq(SweepSet)
    BY <1>2, <1>3
  <2>2. SweptBooks(SweepBooks(m), BookDepth)
    BY <2>1, SweepBooksFacts
  <2> QED BY <1>2, <1>3, <2>2
<1>14. /\ r.sweep_bid \in Seq(SweepSet) /\ r.sweep_ask \in Seq(SweepSet)
       /\ r.final.bid \in [1..BookDepth -> TierSet]
       /\ \A k \in 1..BookDepth : r.final.bid[k].size > 0 => Inside(r.final.bid[k], r.sweep_bid)
  <2> DEFINE w == SweepBooks(m)
  <2>1. SweptBooks(w, BookDepth) /\ r.final = w.final /\ r.sweep_bid = w.sweep_bid /\ r.sweep_ask = w.sweep_ask
    BY <1>2, <1>13
  <2> HIDE DEF w
  <2>2. /\ w.sweep_bid \in Seq(SweepSet) /\ w.sweep_ask \in Seq(SweepSet)
        /\ w.final.bid \in [1..BookDepth -> TierSet]
    BY <2>1 DEF SweptBooks, BookAcc
  <2> QED BY <2>1, <2>2 DEF SweptBooks
<1> HIDE DEF side
<1>15. StreamOK(r, c)
  <2>1. r.bid_count \in 0..Depth /\ r.ask_count \in 0..Depth
    BY <1>4, <1>5, BookAssumption
  <2> QED BY <1>1, <1>3, <2>1, <1>6, <1>7, <1>11, <1>12, <1>14 DEF StreamOK
<1> QED BY <1>8, <1>15 DEF r

\* A new stream has had no snapshot.
LEMMA NewStreamOK ==
  ASSUME NEW c, c.level_vec \in Seq(Nat)
  PROVE  StreamOK(NewStream(c), c)
<1> DEFINE st == NewStream(c)
           lv == c.level_vec
           n == Len(lv)
           clear == [i \in 1..Depth |-> ClearLevel]
           e == [k \in 1..BookDepth |-> NoPrice]
<1>1. /\ DOMAIN st = Fields /\ st.cfg = c
      /\ st.l2order = NoSnapshots /\ st.l2fullamount = NoSnapshots /\ st.l2sweepable = NoSnapshots
      /\ st.bid = clear /\ st.bid_count = 0 /\ st.ask = clear /\ st.ask_count = 0
      /\ st.order_book = ClearBook(BookDepth) /\ st.final = ClearBook(BookDepth)
      /\ st.sweep_bid = <<>> /\ st.sweep_ask = <<>>
  BY DEF NewStream, Fields
<1>2. n \in Nat /\ \A k \in 1..n : lv[k] \in Nat
  OBVIOUS
<1> HIDE DEF st, n
<1>3. st.order_book.bid = e /\ st.final.bid = e
  BY <1>1 DEF ClearBook
<1>4. Depth \in Nat /\ MaxPrice \in Nat /\ NumExchanges \in Nat
  BY BookAssumption, ExchangesAssumption
<1>5. <<>> \in Seq(SweepSet) /\ Len(<<>>) = 0
  OBVIOUS
<1>6. NoSnapshots \in L2Set
  <2>1. NoSnapshot = [bid |-> <<>>, ask |-> <<>>] /\ NoSnapshot.bid = <<>> /\ NoSnapshot.ask = <<>>
    BY DEF NoSnapshot
  <2>2. NoSnapshot \in [bid : Seq(SweepSet), ask : Seq(SweepSet)]
    BY <1>5, <2>1
  <2> QED BY <2>2 DEF NoSnapshots, L2Set
<1>7. clear \in Seq(LevelSet) /\ Len(clear) = Depth
  <2>1. ClearLevel \in LevelSet
    BY <1>4 DEF ClearLevel, LevelSet, EXCHANGE, null
  <2> QED BY <1>4, <2>1
<1>8. e \in [1..BookDepth -> TierSet] /\ \A k \in 1..BookDepth : e[k] = NoPrice /\ e[k].size = 0
  <2>1. NoPrice \in TierSet /\ NoPrice.size = 0
    BY DEF NoPrice, TierSet
  <2> QED BY <2>1
<1> HIDE DEF clear, e
<1>9. TiersAreVwap(st)
  <2> DEFINE side == SubSeq(st.bid, 1, st.bid_count)
             U == Units(side)
  <2>1. side = <<>> /\ side \in Seq(LevelSet)
    <3>1. SubSeq(clear, 1, 0) = <<>>
      BY <1>7, SubSeqEmpty
    <3>2. <<>> \in Seq(LevelSet)
      OBVIOUS
    <3> QED BY <1>1, <3>1, <3>2
  <2> HIDE DEF side
  <2>2. U \in Seq(0..MaxPrice)
    BY <2>1, UnitsFacts
  <2>3. PICK t : UnitsAt(t, side, U)
    BY <2>1, UnitsFacts
  <2> HIDE DEF U
  <2>4. Len(U) = 0
    <3>1. Len(side) = 0
      BY <1>5, <2>1, Zenon
    <3> QED BY <2>3, <3>1 DEF UnitsAt
  <2>5. SumTo(U, 0) = 0
    <3>1. 0 \in Nat /\ \A j \in 1..0 : U[j] \in Int
      OBVIOUS
    <3> QED BY <3>1, SumType
  <2>6. ASSUME NEW k \in 1..n \cap 1..BookDepth, lv[k] <= Len(U)
        PROVE  st.order_book.bid[k] = [size |-> lv[k], cost |-> SumTo(U, lv[k])]
    <3>1. lv[k] = 0
      BY <1>2, <2>4, <2>6
    <3> QED BY <1>3, <1>8, <2>5, <3>1 DEF NoPrice
  <2> QED BY <1>1, <2>6 DEF TiersAreVwap, U, side, n
<1>10. 0 \in 0..Depth
  BY <1>4
<1>12. \A k \in 1..BookDepth : ~(st.final.bid[k].size > 0)
  BY <1>3, <1>8
<1>13. StreamOK(st, c)
  BY <1>1, <1>3, <1>5, <1>6, <1>7, <1>8, <1>9, <1>10, <1>12 DEF StreamOK
<1> QED BY <1>13 DEF st

\* A snapshot of an exchange in one of the maps.
LEMMA StoreKeeps ==
  ASSUME NEW st, NEW c, StreamOK(st, c),
         NEW role \in Roles, NEW ex \in EXCHANGE \ {null},
         NEW b \in Seq(SweepSet), NEW k \in Seq(SweepSet)
  PROVE  StreamOK([st EXCEPT ![role][ex] = [bid |-> b, ask |-> k]], c)
<1> DEFINE snap == [bid |-> b, ask |-> k]
           r == [st EXCEPT ![role][ex] = snap]
           old == st[role]
           new == [old EXCEPT ![ex] = snap]
<1>1. role \in {"l2order", "l2fullamount", "l2sweepable"} /\ role \in Fields
  BY InputAssumption DEF Fields
<1>2. /\ DOMAIN st = Fields /\ st.cfg = c
      /\ st.l2order \in L2Set /\ st.l2fullamount \in L2Set /\ st.l2sweepable \in L2Set
  BY DEF StreamOK
<1>3. r = [st EXCEPT ![role] = new]
  OBVIOUS
<1>4. old \in L2Set
  BY <1>1, <1>2
<1>5. snap \in [bid : Seq(SweepSet), ask : Seq(SweepSet)] /\ snap.bid = b /\ snap.ask = k
  OBVIOUS
<1> HIDE DEF snap, old
<1>6. new \in L2Set /\ \A x \in EXCHANGE : new[x] = IF x = ex THEN snap ELSE old[x]
  BY <1>4, <1>5 DEF L2Set
<1> HIDE DEF new, r
<1>8. DOMAIN r = Fields /\ \A x \in Fields : r[x] = IF x = role THEN new ELSE st[x]
  BY <1>1, <1>2, <1>3
<1>9. /\ r.cfg = st.cfg /\ r.bid = st.bid /\ r.bid_count = st.bid_count
      /\ r.ask = st.ask /\ r.ask_count = st.ask_count /\ r.order_book = st.order_book
      /\ r.final = st.final /\ r.sweep_bid = st.sweep_bid /\ r.sweep_ask = st.sweep_ask
  BY <1>1, <1>8 DEF Fields
<1>10. r.l2order \in L2Set /\ r.l2fullamount \in L2Set /\ r.l2sweepable \in L2Set
  BY <1>2, <1>6, <1>8 DEF Fields
<1>12. TiersAreVwap(r)
  <2>1. TiersAreVwap(st)
    BY DEF StreamOK
  <2> QED BY <1>9, <2>1 DEF TiersAreVwap
<1>13. StreamOK(r, c)
  <2> USE <1>8, <1>9, <1>10, <1>12
  <2> QED BY DEF StreamOK
<1> QED BY <1>13 DEF r, snap

\* A part of a sequence has no more of an element than the whole.
LEMMA CountPrefix ==
  ASSUME NEW S, NEW s \in Seq(S), NEW k \in 0..Len(s), NEW x
  PROVE  /\ Count(SubSeq(s, 1, k), x) \in Nat /\ Count(s, x) \in Nat
         /\ Count(SubSeq(s, 1, k), x) <= Count(s, x)
<1> DEFINE a == SubSeq(s, 1, k)
           b == SubSeq(s, k + 1, Len(s))
<1>1. Len(s) \in Nat /\ k \in Nat /\ k <= Len(s) /\ \A i \in 1..Len(s) : s[i] \in S
  OBVIOUS
<1>2. a \in Seq(S) /\ b \in Seq(S)
  <2>1. (\A i \in 1..k : s[i] \in S) /\ \A i \in k+1..Len(s) : s[i] \in S
    BY <1>1
  <2> QED BY <1>1, <2>1, SubSeqProperties
<1>3. s = a \o b
  <2>1. 1 \in 1..Len(s)+1 /\ k \in 1-1..Len(s) /\ Len(s) \in k..Len(s)
    BY <1>1
  <2>2. SubSeq(s, 1, k) \o SubSeq(s, k + 1, Len(s)) = SubSeq(s, 1, Len(s))
    BY <2>1, ConcatAdjacentSubSeq
  <2> QED BY <2>2, SubSeqFull
<1> HIDE DEF a, b
<1>4. Count(a \o b, x) = Count(a, x) + Count(b, x)
  BY <1>2, CountConcat
<1>5. Count(a, x) \in Nat /\ Count(b, x) \in Nat
  BY <1>2, CountType
<1>6. Count(s, x) = Count(a, x) + Count(b, x)
  BY <1>3, <1>4
<1> QED BY <1>5, <1>6 DEF a

\* The loop of onSnapshots.
Uncalled(sts) == [sts |-> sts, overrun |-> FALSE]
TargetLoop(sts, targets) ==
  CHOOSE h : h = [i \in 0..Len(targets) |->
    IF i = 0 THEN [sts |-> sts, overrun |-> FALSE] ELSE Call(h[i - 1], targets[i])]

\* The streams after each of the targets.
Serves(A, sts, targets) ==
  /\ A[0] = Uncalled(sts)
  /\ \A i \in 1..Len(targets) : A[i] = Call(A[i-1], targets[i])

\* The loop gives the snapshot to one target a round.
LEMMA TargetRounds ==
  ASSUME NEW sts, NEW targets, Len(targets) \in Nat
  PROVE  /\ onSnapshots(sts, targets) = TargetLoop(sts, targets)[Len(targets)]
         /\ Serves(TargetLoop(sts, targets), sts, targets)
<1> DEFINE m == Len(targets)
           base == Uncalled(sts)
           Step(i, v) == Call(v, targets[i])
           Body(h) == [i \in 0..m |-> IF i = 0 THEN base ELSE Step(i, h[i - 1])]
           A == TargetLoop(sts, targets)
           Good(h, k) == h[0] = base /\ \A i \in 1..k : h[i] = Step(i, h[i-1])
           P == {k \in 0..m : \E h : Good(h, k)}
<1>1. A = CHOOSE h : h = Body(h)
  BY Zenon DEF TargetLoop, Uncalled
<1>2. onSnapshots(sts, targets) = A[m]
  BY Zenon DEF onSnapshots, TargetLoop
<1>3. m \in Nat
  OBVIOUS
<1> HIDE DEF A, m, Step, base
<1>4. 0 \in P
  <2> DEFINE h0 == [i \in 0..m |-> base]
  <2>1. h0[0] = base
    BY <1>3
  <2> HIDE DEF h0
  <2>2. Good(h0, 0)
    BY <2>1
  <2> QED BY <1>3, <2>2
<1>5. ASSUME NEW k \in 0..m-1, k \in P PROVE k + 1 \in P
  <2>1. PICK h : Good(h, k)
    BY <1>5
  <2> DEFINE g == [i \in 0..m |-> IF i = k + 1 THEN Step(k + 1, h[k]) ELSE h[i]]
  <2>2. k \in 0..m /\ k + 1 \in 1..m /\ k + 1 \in 0..m /\ (k + 1) - 1 = k /\ 0 \in 0..m /\ 0 # k + 1
    BY <1>3
  <2>3. \A i \in 0..m : g[i] = IF i = k + 1 THEN Step(k + 1, h[k]) ELSE h[i]
    OBVIOUS
  <2> HIDE DEF g
  <2>4. g[0] = base
    BY <2>1, <2>2, <2>3
  <2>5. ASSUME NEW i \in 1..k+1 PROVE g[i] = Step(i, g[i-1])
    <3>1. i \in 0..m /\ i - 1 \in 0..m /\ i - 1 # k + 1
      BY <1>3, <2>2, <2>5
    <3>2. g[i-1] = h[i-1]
      BY <2>3, <3>1
    <3>3. CASE i = k + 1
      BY <2>2, <2>3, <3>2, <3>3
    <3>4. CASE i # k + 1
      <4>1. i \in 1..k
        BY <2>2, <2>5, <3>4
      <4> QED BY <2>1, <2>3, <3>1, <3>2, <3>4, <4>1
    <3> QED BY <3>3, <3>4
  <2>6. Good(g, k + 1)
    BY <2>4, <2>5
  <2> QED BY <2>2, <2>6
<1>6. m \in P
  <2> HIDE DEF P
  <2>1. \A k \in 0..m : k \in P
    BY <1>3, <1>4, <1>5, Induction
  <2> QED BY <1>3, <2>1
<1>7. PICK h : Good(h, m)
  BY <1>6
<1> DEFINE g == [i \in 0..m |-> h[i]]
<1>8. g = Body(g)
  <2>1. ASSUME NEW i \in 0..m PROVE g[i] = IF i = 0 THEN base ELSE Step(i, g[i-1])
    <3>1. CASE i = 0
      BY <1>7, <3>1
    <3>2. CASE i # 0
      <4>1. i \in 1..m /\ i - 1 \in 0..m
        BY <1>3, <3>2
      <4> QED BY <1>7, <3>2, <4>1
    <3> QED BY <3>1, <3>2
  <2> QED BY <2>1
<1>9. A = Body(A)
  <2> HIDE DEF Body, g
  <2> QED BY <1>1, <1>8, Zenon
<1>10. \A i \in 1..m : i \in 0..m /\ i # 0
  BY <1>3
<1>11. A[0] = base /\ \A i \in 1..m : A[i] = Step(i, A[i-1])
  BY <1>3, <1>9, <1>10
<1>12. Serves(A, sts, targets)
  BY <1>11 DEF Serves, m, Step, base
<1> QED BY <1>2, <1>12 DEF A, m

\* A call that leaves no array serves its stream; one that does is the last.
LEMMA CallFacts ==
  ASSUME NEW acc, acc.overrun \in BOOLEAN, NEW n
  PROVE  /\ acc.overrun => Call(acc, n) = acc
         /\ ~acc.overrun /\ Overruns(acc.sts[n]) => Call(acc, n) = [acc EXCEPT !.overrun = TRUE]
         /\ ~acc.overrun /\ ~Overruns(acc.sts[n]) =>
              Call(acc, n) = [acc EXCEPT !.sts[n] = onSnapshot(@)]
<1>1. CASE acc.overrun
  BY <1>1 DEF Call
<1>2. CASE ~acc.overrun /\ Overruns(acc.sts[n])
  BY <1>2 DEF Call
<1>3. CASE ~acc.overrun /\ ~Overruns(acc.sts[n])
  BY <1>3 DEF Call
<1> QED BY <1>1, <1>2, <1>3

\* The calls so far: every stream is one, and if no array was left those of the
\* set S have merged.
Called(acc, D, cs, S) ==
  /\ acc \in [sts : [D -> {acc.sts[n] : n \in D}], overrun : BOOLEAN]
  /\ \A n \in D : StreamOK(acc.sts[n], cs[n])
  /\ ~acc.overrun => \A n \in S : Merged(acc.sts[n])

\* One call more.
LEMMA CallKeeps ==
  ASSUME NEW D, NEW cs, NEW S \in SUBSET D, NEW acc, Called(acc, D, cs, S), NEW n \in D,
         cs[n].level_vec \in Seq(Nat), Sorted(cs[n].level_vec)
  PROVE  Called(Call(acc, n), D, cs, S \cup {n})
<1> DEFINE st == acc.sts[n]
           new == onSnapshot(st)
           r == Call(acc, n)
           v == acc.sts
<1>1. /\ acc = [sts |-> v, overrun |-> acc.overrun] /\ acc.overrun \in BOOLEAN
      /\ v = [x \in D |-> v[x]] /\ \A x \in D : StreamOK(v[x], cs[x])
      /\ ~acc.overrun => \A x \in S : Merged(v[x])
  BY DEF Called
<1>2. StreamOK(st, cs[n])
  BY <1>1
<1>3. CASE acc.overrun
  <2>1. r = acc
    <3> HIDE DEF st, new, v
    <3>1. Call(acc, n) = acc
      BY <1>3 DEF Call
    <3> QED BY <3>1
  <2> HIDE DEF r
  <2>2. Called(r, D, cs, S \cup {n})
    BY <1>3, <2>1 DEF Called
  <2> QED BY <2>2 DEF r
<1>4. CASE ~acc.overrun /\ Overruns(st)
  <2>1. r = [acc EXCEPT !.overrun = TRUE]
    BY <1>1, <1>4, CallFacts
  <2> HIDE DEF r, v
  <2>2. r = [sts |-> v, overrun |-> TRUE]
    <3> DEFINE o == acc.overrun
    <3>1. acc = [sts |-> v, overrun |-> o]
      BY <1>1
    <3> HIDE DEF o
    <3> QED BY <2>1, <3>1
  <2>3. r.sts = v /\ r.overrun
    BY <2>2
  <2>4. r \in [sts : [D -> {r.sts[x] : x \in D}], overrun : BOOLEAN]
    <3>1. v \in [D -> {v[x] : x \in D}]
      BY <1>1
    <3> QED BY <2>2, <2>3, <3>1
  <2>5. Called(r, D, cs, S \cup {n})
    BY <1>1, <2>3, <2>4 DEF Called
  <2> QED BY <2>5 DEF r
<1>5. CASE ~acc.overrun /\ ~Overruns(st)
  <2>1. StreamOK(new, cs[n]) /\ Merged(new)
    <3> DEFINE c == cs[n]
    <3>1. c.level_vec \in Seq(Nat) /\ Sorted(c.level_vec) /\ StreamOK(st, c) /\ ~Overruns(st)
      BY <1>2, <1>5
    <3> HIDE DEF c, st
    <3>2. StreamOK(onSnapshot(st), c) /\ Merged(onSnapshot(st))
      BY <3>1, SnapshotKeeps
    <3> QED BY <3>2 DEF c
  <2>2. r = [acc EXCEPT !.sts[n] = new]
    BY <1>1, <1>5, CallFacts
  <2> DEFINE w == [v EXCEPT ![n] = new]
  <2> HIDE DEF r, v, new, st
  <2>3. r = [sts |-> w, overrun |-> FALSE]
    BY <1>1, <1>5, <2>2 DEF v
  <2>4. w = [x \in D |-> IF x = n THEN new ELSE v[x]]
    BY <1>1
  <2> HIDE DEF w
  <2>5. r.sts = w /\ r.overrun = FALSE
    BY <2>3
  <2>6. r \in [sts : [D -> {r.sts[x] : x \in D}], overrun : BOOLEAN]
    <3>1. w \in [D -> {w[x] : x \in D}]
      BY <2>4
    <3> QED BY <2>3, <2>5, <3>1
  <2>7. \A x \in D : StreamOK(w[x], cs[x])
    BY <1>1, <2>1, <2>4
  <2>8. \A x \in S \cup {n} : Merged(w[x])
    BY <1>1, <1>5, <2>1, <2>4
  <2>9. Called(r, D, cs, S \cup {n})
    BY <2>5, <2>6, <2>7, <2>8 DEF Called
  <2> QED BY <2>9 DEF r
<1> QED BY <1>1, <1>3, <1>4, <1>5

\* What the targets of a key make of the streams.
LEMMA OnSnapshotsKeeps ==
  ASSUME NEW D, NEW sts, sts = [n \in D |-> sts[n]], NEW cs, NEW targets \in Seq(D),
         \A n \in D : /\ StreamOK(sts[n], cs[n])
                      /\ cs[n].level_vec \in Seq(Nat) /\ Sorted(cs[n].level_vec)
  PROVE  Called(onSnapshots(sts, targets), D, cs, {targets[i] : i \in 1..Len(targets)})
<1> DEFINE m == Len(targets)
           A == TargetLoop(sts, targets)
           S(k) == {targets[i] : i \in 1..k}
           P == {k \in 0..m : Called(A[k], D, cs, S(k))}
<1>1. m \in Nat /\ \A i \in 1..m : targets[i] \in D
  OBVIOUS
<1>2. /\ onSnapshots(sts, targets) = A[m] /\ A[0] = Uncalled(sts)
      /\ \A i \in 1..m : A[i] = Call(A[i-1], targets[i])
  <2>1. onSnapshots(sts, targets) = A[m] /\ Serves(A, sts, targets)
    BY <1>1, TargetRounds
  <2> HIDE DEF A
  <2> QED BY <2>1 DEF Serves
<1> HIDE DEF A, m
<1>3. 0 \in P
  <2> DEFINE b == A[0]
  <2>1. b = [sts |-> sts, overrun |-> FALSE]
    BY <1>2 DEF Uncalled
  <2> HIDE DEF b
  <2>2. b.sts = sts /\ b.overrun = FALSE
    BY <2>1
  <2>3. S(0) = {}
    OBVIOUS
  <2>4. b \in [sts : [D -> {b.sts[n] : n \in D}], overrun : BOOLEAN]
    <3>1. sts \in [D -> {sts[n] : n \in D}]
      OBVIOUS
    <3> QED BY <2>1, <2>2, <3>1
  <2> HIDE DEF S
  <2>5. Called(b, D, cs, S(0))
    BY <2>2, <2>3, <2>4 DEF Called
  <2> QED BY <1>1, <2>5 DEF b
<1>4. ASSUME NEW k \in 0..m-1, k \in P PROVE k + 1 \in P
  <2>1. k \in 0..m /\ k + 1 \in 1..m /\ k + 1 \in 0..m /\ (k + 1) - 1 = k
    BY <1>1
  <2> DEFINE n == targets[k+1]
             acc == A[k]
             T == S(k)
  <2>2. n \in D /\ T \in SUBSET D
    BY <1>1, <2>1
  <2>3. A[k+1] = Call(acc, n)
    BY <1>2, <2>1
  <2>4. S(k + 1) = T \cup {n}
    BY <2>1
  <2>5. Called(acc, D, cs, T)
    BY <1>4
  <2>6. cs[n].level_vec \in Seq(Nat) /\ Sorted(cs[n].level_vec)
    BY <2>2
  <2> HIDE DEF n, acc, T, S
  <2>7. Called(Call(acc, n), D, cs, T \cup {n})
    BY <2>2, <2>5, <2>6, CallKeeps
  <2> QED BY <2>1, <2>3, <2>4, <2>7
<1>5. m \in P
  <2> HIDE DEF P
  <2>1. \A k \in 0..m : k \in P
    BY <1>1, <1>3, <1>4, Induction
  <2> QED BY <1>1, <2>1
<1> QED BY <1>2, <1>5 DEF m

-----------------------------------------------------------------------------
(* The map from exchange and symbol to the streams. *)

Keys == Nat \X EXCHANGE
Names == 1..MaxName
Maps == {<<>>} \cup UNION {[D -> Seq(Names)] : D \in SUBSET Keys}

\* How often a key of the map names a stream.
CountAt(map, key, x) == IF key \in DOMAIN map THEN Count(map[key], x) ELSE 0

\* A configuration of a stream as load makes it.
IsConfig(c) ==
  /\ c.symbol \in Nat
  /\ c.primary \in Seq(EXCHANGE) /\ c.secondary \in Seq(EXCHANGE)
  /\ c.fullamount \in Seq(EXCHANGE) /\ c.sweepable \in Seq(EXCHANGE)
  /\ c.level_vec \in Seq(Nat) /\ Sorted(c.level_vec)

\* The keys and the values of the map.
LEMMA MapFacts ==
  ASSUME NEW map
  PROVE  /\ map \in Maps => DOMAIN map \subseteq Keys /\ \A key \in DOMAIN map : map[key] \in Seq(Names)
         /\ \A D \in SUBSET Keys : map \in [D -> Seq(Names)] => map \in Maps
         /\ map \in Maps => \A key, x : CountAt(map, key, x) \in Nat
<1>1. DOMAIN <<>> = {}
  OBVIOUS
<1>2. ASSUME map \in Maps
      PROVE  DOMAIN map \subseteq Keys /\ \A key \in DOMAIN map : map[key] \in Seq(Names)
  <2>1. CASE map = <<>>
    BY <1>1, <2>1
  <2>2. CASE \E D \in SUBSET Keys : map \in [D -> Seq(Names)]
    BY <2>2
  <2> QED BY <1>2, <2>1, <2>2 DEF Maps
<1>3. ASSUME NEW D \in SUBSET Keys, map \in [D -> Seq(Names)] PROVE map \in Maps
  BY <1>3 DEF Maps
<1>4. ASSUME map \in Maps, NEW key, NEW x PROVE CountAt(map, key, x) \in Nat
  <2>1. CASE key \in DOMAIN map
    <3> DEFINE s == map[key]
    <3>1. s \in Seq(Names)
      BY <1>2, <1>4, <2>1
    <3> HIDE DEF s
    <3>2. Count(s, x) \in Nat
      BY <3>1, CountType
    <3> QED BY <2>1, <3>2 DEF CountAt, s
  <2>2. CASE key \notin DOMAIN map
    BY <2>2 DEF CountAt
  <2> QED BY <2>1, <2>2
<1> QED BY <1>2, <1>3, <1>4

\* Register adds the stream to the key once.
LEMMA RegisterStep ==
  ASSUME NEW map \in Maps, NEW name \in Names, NEW key \in Keys
  PROVE  /\ Register(map, name, key) \in Maps
         /\ \A k, x : CountAt(Register(map, name, key), k, x)
                        = CountAt(map, k, x) + (IF k = key /\ x = name THEN 1 ELSE 0)
<1> DEFINE r == Register(map, name, key)
<1>1. DOMAIN map \subseteq Keys /\ \A k \in DOMAIN map : map[k] \in Seq(Names)
  BY MapFacts
<1>2. \A k, x : CountAt(map, k, x) \in Nat
  BY MapFacts
<1>3. CASE key \in DOMAIN map
  <2> DEFINE s == map[key]
  <2>1. r = [map EXCEPT ![key] = Append(s, name)]
    BY <1>3 DEF Register
  <2>2. s \in Seq(Names)
    BY <1>1, <1>3
  <2> HIDE DEF s, r
  <2>3. Append(s, name) \in Seq(Names)
    BY <2>2, AppendProperties
  <2>4. \A x : Count(Append(s, name), x) = Count(s, x) + (IF name = x THEN 1 ELSE 0)
    BY <2>2, CountAppend
  <2>5. /\ DOMAIN r = DOMAIN map /\ r[key] = Append(s, name)
        /\ \A k \in DOMAIN map : k # key => r[k] = map[k]
        /\ r = [k \in DOMAIN map |-> r[k]]
    BY <1>3, <2>1
  <2>6. r \in [DOMAIN map -> Seq(Names)]
    BY <1>1, <2>3, <2>5
  <2>7. r \in Maps
    BY <1>1, <2>6, MapFacts
  <2>8. ASSUME NEW k, NEW x
        PROVE  CountAt(r, k, x) = CountAt(map, k, x) + (IF k = key /\ x = name THEN 1 ELSE 0)
    <3>1. CASE k = key
      <4>1. CountAt(r, k, x) = Count(Append(s, name), x) /\ CountAt(map, k, x) = Count(s, x)
        BY <1>3, <2>5, <3>1 DEF CountAt, s
      <4> QED BY <2>4, <3>1, <4>1
    <3>2. CASE k # key
      <4>1. CountAt(r, k, x) = CountAt(map, k, x)
        BY <2>5, <3>2 DEF CountAt
      <4> QED BY <1>2, <3>2, <4>1
    <3> QED BY <3>1, <3>2
  <2> QED BY <2>7, <2>8 DEF r
<1>4. CASE key \notin DOMAIN map
  <2> DEFINE s == <<name>>
             D == DOMAIN map \cup {key}
  <2>1. r = [k \in D |-> IF k \in DOMAIN map THEN map[k] ELSE s]
    BY <1>4 DEF Register, MapInsert
  <2>2. s \in Seq(Names)
    OBVIOUS
  <2>3. \A x : Count(s, x) = IF name = x THEN 1 ELSE 0
    BY CountSmall
  <2> HIDE DEF s, r
  <2>4. D \in SUBSET Keys
    BY <1>1
  <2>5. r \in [D -> Seq(Names)]
    BY <1>1, <2>1, <2>2
  <2>6. r \in Maps
    BY <2>4, <2>5, MapFacts
  <2>7. DOMAIN r = D /\ r[key] = s /\ \A k \in DOMAIN map : r[k] = map[k]
    BY <1>4, <2>1
  <2>8. ASSUME NEW k, NEW x
        PROVE  CountAt(r, k, x) = CountAt(map, k, x) + (IF k = key /\ x = name THEN 1 ELSE 0)
    <3>1. CASE k = key
      <4>1. CountAt(r, k, x) = Count(s, x) /\ CountAt(map, k, x) = 0
        BY <1>4, <2>7, <3>1 DEF CountAt
      <4> QED BY <2>3, <3>1, <4>1
    <3>2. CASE k # key
      <4>1. CountAt(r, k, x) = CountAt(map, k, x)
        BY <2>7, <3>2 DEF CountAt
      <4> QED BY <1>2, <3>2, <4>1
    <3> QED BY <3>1, <3>2
  <2> QED BY <2>6, <2>8 DEF r
<1> QED BY <1>3, <1>4

\* The loop of RegisterStream.
ListLoop(map, name, symbol, exs) ==
  CHOOSE h : h = [i \in 0..Len(exs) |->
    IF i = 0 THEN map ELSE Register(h[i - 1], name, Key(symbol, exs[i]))]

\* What a stream adds to a key: how often it names the exchange.
Adds(new, map, name, symbol, exs) ==
  \A s \in Nat, ex \in EXCHANGE, x \in Names :
    CountAt(new, Key(s, ex), x)
      = CountAt(map, Key(s, ex), x) + (IF x = name /\ s = symbol THEN Count(exs, ex) ELSE 0)

\* One exchange more.
LEMMA AddsStep ==
  ASSUME NEW map \in Maps, NEW v \in Maps, NEW name \in Names, NEW symbol \in Nat,
         NEW exs \in Seq(EXCHANGE), NEW k \in 0..Len(exs)-1,
         Adds(v, map, name, symbol, SubSeq(exs, 1, k))
  PROVE  LET r == Register(v, name, Key(symbol, exs[k+1]))
         IN  r \in Maps /\ Adds(r, map, name, symbol, SubSeq(exs, 1, k + 1))
<1> DEFINE e == exs[k+1]
           key == Key(symbol, e)
           r == Register(v, name, key)
           a == SubSeq(exs, 1, k)
           b == SubSeq(exs, 1, k + 1)
<1>1. k + 1 \in 1..Len(exs) /\ e \in EXCHANGE /\ k \in 0..Len(exs)
  OBVIOUS
<1>2. key \in Keys
  BY <1>1 DEF Keys, Key
<1>3. \A s, ex : Key(s, ex) = key <=> s = symbol /\ ex = e
  BY DEF Key
<1> HIDE DEF key
<1>4. /\ r \in Maps
      /\ \A q, x : CountAt(r, q, x) = CountAt(v, q, x) + (IF q = key /\ x = name THEN 1 ELSE 0)
  BY <1>2, RegisterStep
<1>5. \A x : Count(b, x) = Count(a, x) + (IF e = x THEN 1 ELSE 0)
  BY PrefixStep
<1>6. \A x : Count(a, x) \in Nat
  BY <1>1, CountPrefix
<1> HIDE DEF r, a, b, e
<1>7. ASSUME NEW s \in Nat, NEW ex \in EXCHANGE, NEW x \in Names
      PROVE  CountAt(r, Key(s, ex), x)
               = CountAt(map, Key(s, ex), x) + (IF x = name /\ s = symbol THEN Count(b, ex) ELSE 0)
  <2> DEFINE q == Key(s, ex)
             c0 == CountAt(map, q, x)
             c1 == CountAt(v, q, x)
             c2 == CountAt(r, q, x)
             ca == Count(a, ex)
             cb == Count(b, ex)
  <2>1. c0 \in Nat /\ ca \in Nat
    BY <1>6, MapFacts
  <2>2. c1 = c0 + (IF x = name /\ s = symbol THEN ca ELSE 0)
    BY DEF Adds, a
  <2>3. c2 = c1 + (IF q = key /\ x = name THEN 1 ELSE 0) /\ cb = ca + (IF e = ex THEN 1 ELSE 0)
    BY <1>4, <1>5
  <2>4. q = key <=> s = symbol /\ ex = e
    BY <1>3
  <2> HIDE DEF q, c0, c1, c2, ca, cb
  <2>5. c2 = c0 + (IF x = name /\ s = symbol THEN cb ELSE 0)
    BY <2>1, <2>2, <2>3, <2>4
  <2> QED BY <2>5 DEF c0, c2, cb, q
<1>8. Adds(r, map, name, symbol, b)
  BY <1>7 DEF Adds
<1> QED BY <1>4, <1>8 DEF r, b, key, e

\* A stream adds to each key of its symbol as often as it mentions the exchange.
LEMMA RegisterStreamFacts ==
  ASSUME NEW map \in Maps, NEW name \in Names, NEW c, IsConfig(c)
  PROVE  /\ RegisterStream(map, name, c) \in Maps
         /\ \A s \in Nat, ex \in EXCHANGE, x \in Names :
              CountAt(RegisterStream(map, name, c), Key(s, ex), x)
                = CountAt(map, Key(s, ex), x)
                    + (IF x = name /\ s = c.symbol THEN Mentions(c, ex) ELSE 0)
<1> DEFINE exs == c.primary \o c.secondary \o c.fullamount \o c.sweepable
           symbol == c.symbol
           n == Len(exs)
           Body(h) == [i \in 0..n |-> IF i = 0 THEN map
                                      ELSE Register(h[i - 1], name, Key(symbol, exs[i]))]
           W == [i \in 0..n |-> {v \in Maps : Adds(v, map, name, symbol, SubSeq(exs, 1, i))}]
           G == [i \in 1..n |-> [v \in Maps |-> Register(v, name, Key(symbol, exs[i]))]]
           A == ListLoop(map, name, symbol, exs)
<1>1. A = CHOOSE h : h = Body(h)
  BY Zenon DEF ListLoop
<1>2. RegisterStream(map, name, c) = A[n]
  BY Zenon DEF RegisterStream, ListLoop
<1>3. exs \in Seq(EXCHANGE) /\ \A ex : Count(exs, ex) = Mentions(c, ex)
  <2> DEFINE p == c.primary
             s == c.secondary
             f == c.fullamount
             w == c.sweepable
  <2>1. p \in Seq(EXCHANGE) /\ s \in Seq(EXCHANGE) /\ f \in Seq(EXCHANGE) /\ w \in Seq(EXCHANGE)
    BY DEF IsConfig
  <2>2. \A ex : Mentions(c, ex) = Count(p, ex) + Count(s, ex) + Count(f, ex) + Count(w, ex)
    BY DEF Mentions
  <2> HIDE DEF p, s, f, w
  <2> DEFINE ps == p \o s
             psf == ps \o f
  <2>3. ps \in Seq(EXCHANGE) /\ \A ex : Count(ps, ex) = Count(p, ex) + Count(s, ex)
    BY <2>1, ConcatProperties, CountConcat
  <2> HIDE DEF ps
  <2>4. psf \in Seq(EXCHANGE) /\ \A ex : Count(psf, ex) = Count(ps, ex) + Count(f, ex)
    BY <2>1, <2>3, ConcatProperties, CountConcat
  <2> HIDE DEF psf
  <2>5. psf \o w \in Seq(EXCHANGE) /\ \A ex : Count(psf \o w, ex) = Count(psf, ex) + Count(w, ex)
    BY <2>1, <2>4, ConcatProperties, CountConcat
  <2>6. exs = psf \o w
    BY DEF psf, ps, p, s, f, w
  <2> HIDE DEF exs
  <2>7. \A ex : Count(exs, ex) = Mentions(c, ex)
    BY <2>2, <2>3, <2>4, <2>5, <2>6
  <2> QED BY <2>5, <2>6, <2>7
<1>4. symbol \in Nat
  BY DEF IsConfig
<1> HIDE DEF exs, symbol
<1>5. n \in Nat /\ 0 \in 0..n /\ n \in 0..n /\ \A i \in 1..n : i - 1 \in 0..n /\ i \in 0..n /\ i - 1 \in 0..n-1
  BY <1>3
<1>6. Adds(map, map, name, symbol, SubSeq(exs, 1, 0))
  <2>1. SubSeq(exs, 1, 0) = <<>>
    BY <1>3, SubSeqEmpty
  <2>2. \A ex : Count(SubSeq(exs, 1, 0), ex) = 0
    BY <2>1, CountSmall
  <2>3. \A key, x : CountAt(map, key, x) \in Nat
    BY MapFacts
  <2> QED BY <2>2, <2>3 DEF Adds
<1>7. ASSUME NEW i \in 1..n, NEW v \in Maps, Adds(v, map, name, symbol, SubSeq(exs, 1, i - 1))
      PROVE  /\ Register(v, name, Key(symbol, exs[i])) \in Maps
             /\ Adds(Register(v, name, Key(symbol, exs[i])), map, name, symbol, SubSeq(exs, 1, i))
  <2> DEFINE k == i - 1
  <2>1. k \in 0..Len(exs)-1 /\ k + 1 = i
    BY <1>5
  <2>2. Adds(v, map, name, symbol, SubSeq(exs, 1, k))
    BY <1>7
  <2> HIDE DEF k
  <2> DEFINE r == Register(v, name, Key(symbol, exs[k+1]))
  <2>3. r \in Maps /\ Adds(r, map, name, symbol, SubSeq(exs, 1, k + 1))
    BY <1>3, <1>4, <2>1, <2>2, AddsStep
  <2> QED BY <2>1, <2>3
<1> HIDE DEF n
<1>8. PICK h : /\ h = [i \in 0..n |-> h[i]] /\ Recurses(h, map, G, n)
               /\ \A i \in 0..n : h[i] \in W[i]
  <2>1. \A i \in 1..n : \A v \in W[i-1] : G[i][v] \in W[i]
    BY <1>5, <1>7
  <2>2. map \in W[0]
    BY <1>5, <1>6
  <2> HIDE DEF W, G
  <2> QED BY <1>5, <2>1, <2>2, Recursion
<1>9. \A i \in 0..n : h[i] \in Maps /\ Adds(h[i], map, name, symbol, SubSeq(exs, 1, i))
  BY <1>8
<1>10. h[0] = map /\ \A i \in 1..n : h[i] = Register(h[i-1], name, Key(symbol, exs[i]))
  <2>1. h[0] = map /\ \A i \in 1..n : h[i] = G[i][h[i-1]]
    BY <1>8, Zenon DEF Recurses
  <2>2. ASSUME NEW i \in 1..n PROVE h[i] = Register(h[i-1], name, Key(symbol, exs[i]))
    BY <1>5, <1>9, <2>1
  <2> QED BY <2>1, <2>2
<1>11. h = Body(h)
  <2>1. \A i \in 0..n : h[i] = IF i = 0 THEN map ELSE Register(h[i-1], name, Key(symbol, exs[i]))
    BY <1>5, <1>10
  <2> QED BY <1>8, <2>1
<1>12. A = Body(A)
  <2> HIDE DEF A, Body
  <2> QED BY <1>1, <1>11, Zenon
<1> HIDE DEF A
<1>13. A[0] = map /\ \A i \in 1..n : A[i] = Register(A[i-1], name, Key(symbol, exs[i]))
  BY <1>5, <1>12
<1>14. \A i \in 0..n : A[i] = h[i]
  <2> HIDE DEF W, G, Body
  <2>1. A[0] = h[0]
    BY <1>10, <1>13
  <2>2. ASSUME NEW i \in 1..n, A[i-1] = h[i-1] PROVE A[i] = h[i]
    <3>1. /\ h[i] = Register(h[i-1], name, Key(symbol, exs[i]))
          /\ A[i] = Register(A[i-1], name, Key(symbol, exs[i]))
      BY <1>10, <1>13
    <3> QED BY <2>2, <3>1
  <2>3. n \in Nat
    BY <1>5
  <2>4. SameRounds(A, h, n)
    BY <2>1, <2>2 DEF SameRounds
  <2> QED BY <2>3, <2>4, SameLoop
<1>15. A[n] \in Maps /\ Adds(A[n], map, name, symbol, SubSeq(exs, 1, n))
  BY <1>5, <1>9, <1>14
<1>16. SubSeq(exs, 1, n) = exs
  BY <1>3, SubSeqFull DEF n
<1>17. Adds(A[n], map, name, symbol, exs)
  BY <1>15, <1>16
<1> QED BY <1>2, <1>3, <1>15, <1>17 DEF Adds, symbol

\* How often an exchange is mentioned.
LEMMA MentionsType ==
  ASSUME NEW c, IsConfig(c), NEW ex
  PROVE  Mentions(c, ex) \in Nat
<1> DEFINE p == c.primary
           q == c.secondary
           f == c.fullamount
           w == c.sweepable
<1>1. /\ p \in Seq(EXCHANGE) /\ q \in Seq(EXCHANGE) /\ f \in Seq(EXCHANGE)
      /\ w \in Seq(EXCHANGE)
  BY DEF IsConfig
<1> HIDE DEF p, q, f, w
<1>2. Count(p, ex) \in Nat /\ Count(q, ex) \in Nat /\ Count(f, ex) \in Nat /\ Count(w, ex) \in Nat
  BY <1>1, CountType
<1>3. Count(p, ex) + Count(q, ex) + Count(f, ex) + Count(w, ex) \in Nat
  BY <1>2
<1> QED BY <1>3 DEF Mentions, p, q, f, w

\* The loop of RegisterAll.
NameLoop(str_cfg) ==
  CHOOSE h : h = [n \in 0..MaxName |->
    IF n = 0 THEN <<>>
    ELSE IF n \in DOMAIN str_cfg THEN RegisterStream(h[n - 1], n, str_cfg[n])
    ELSE h[n - 1]]

\* The streams up to n are in the map, each as often as it mentions an exchange.
Registered(map, str_cfg, n) ==
  \A s \in Nat, ex \in EXCHANGE, x \in Names :
    CountAt(map, Key(s, ex), x) =
      IF x <= n /\ x \in DOMAIN str_cfg /\ str_cfg[x].symbol = s
      THEN Mentions(str_cfg[x], ex) ELSE 0

\* All streams are registered.
LEMMA RegisterAllFacts ==
  ASSUME NEW str_cfg, \A n \in DOMAIN str_cfg : IsConfig(str_cfg[n])
  PROVE  RegisterAll(str_cfg) \in Maps /\ Registered(RegisterAll(str_cfg), str_cfg, MaxName)
<1> DEFINE Step(v, n) == IF n \in DOMAIN str_cfg THEN RegisterStream(v, n, str_cfg[n]) ELSE v
           m == MaxName
           Body(h) == [n \in 0..m |-> IF n = 0 THEN <<>> ELSE Step(h[n - 1], n)]
           W == [n \in 0..m |-> {v \in Maps : Registered(v, str_cfg, n)}]
           G == [n \in 1..m |-> [v \in Maps |-> Step(v, n)]]
           A == NameLoop(str_cfg)
<1>1. A = CHOOSE h : h = Body(h)
  BY Zenon DEF NameLoop
<1>2. RegisterAll(str_cfg) = A[m]
  BY Zenon DEF RegisterAll, NameLoop
<1>3. m \in Nat /\ 0 \in 0..m /\ m \in 0..m /\ \A n \in 1..m : n - 1 \in 0..m /\ n \in 0..m /\ n \in Names
  BY InputAssumption DEF Names
<1>4. <<>> \in Maps /\ Registered(<<>>, str_cfg, 0)
  <2>1. DOMAIN <<>> = {}
    OBVIOUS
  <2>2. \A key, x : CountAt(<<>>, key, x) = 0
    BY <2>1 DEF CountAt
  <2>3. \A x \in Names : ~(x <= 0)
    BY <1>3 DEF Names
  <2> QED BY <2>2, <2>3 DEF Registered, Maps
<1>5. ASSUME NEW n \in 1..m, NEW v \in Maps, Registered(v, str_cfg, n - 1)
      PROVE  Step(v, n) \in Maps /\ Registered(Step(v, n), str_cfg, n)
  <2>1. n \in Names /\ n \in Nat
    BY <1>3
  <2>2. CASE n \in DOMAIN str_cfg
    <3> DEFINE c == str_cfg[n]
               r == RegisterStream(v, n, c)
    <3>1. Step(v, n) = r
      BY <2>2
    <3>2. IsConfig(c)
      BY <2>2
    <3> HIDE DEF c
    <3>3. /\ r \in Maps
          /\ \A s \in Nat, ex \in EXCHANGE, x \in Names :
               CountAt(r, Key(s, ex), x) = CountAt(v, Key(s, ex), x)
                 + (IF x = n /\ s = c.symbol THEN Mentions(c, ex) ELSE 0)
      BY <2>1, <3>2, RegisterStreamFacts
    <3> HIDE DEF r
    <3>4. ASSUME NEW s \in Nat, NEW ex \in EXCHANGE, NEW x \in Names
          PROVE  CountAt(r, Key(s, ex), x) =
                   IF x <= n /\ x \in DOMAIN str_cfg /\ str_cfg[x].symbol = s
                   THEN Mentions(str_cfg[x], ex) ELSE 0
      <4> DEFINE a == CountAt(v, Key(s, ex), x)
                 b == CountAt(r, Key(s, ex), x)
      <4>1. a = IF x <= n - 1 /\ x \in DOMAIN str_cfg /\ str_cfg[x].symbol = s
                THEN Mentions(str_cfg[x], ex) ELSE 0
        BY <1>5 DEF Registered
      <4>2. b = a + (IF x = n /\ s = c.symbol THEN Mentions(c, ex) ELSE 0)
        BY <3>3
      <4>3. a \in Nat /\ b \in Nat
        BY <3>3, MapFacts
      <4> HIDE DEF a, b
      <4>4. CASE x = n
        <5>1. a = 0 /\ x <= n
          BY <2>1, <4>1, <4>4
        <5>2. CASE s = c.symbol
          <6>1. b = 0 + Mentions(c, ex)
            BY <4>2, <4>4, <5>1, <5>2
          <6>2. Mentions(c, ex) \in Nat
            BY <3>2, MentionsType
          <6>3. b = Mentions(c, ex)
            BY <6>1, <6>2
          <6> QED BY <2>2, <4>4, <5>1, <5>2, <6>3 DEF b, c
        <5>3. CASE s # c.symbol
          <6>1. b = 0
            BY <4>2, <5>1, <5>3
          <6> QED BY <4>4, <5>3, <6>1 DEF b, c
        <5> QED BY <5>2, <5>3
      <4>5. CASE x # n
        <5>1. b = a
          BY <4>2, <4>3, <4>5
        <5>2. x <= n <=> x <= n - 1
          BY <1>3, <2>1, <4>5 DEF Names
        <5> QED BY <4>1, <5>1, <5>2 DEF b
      <4> QED BY <4>4, <4>5
    <3>5. Registered(r, str_cfg, n)
      BY <3>4 DEF Registered
    <3> QED BY <3>1, <3>3, <3>5
  <2>3. CASE n \notin DOMAIN str_cfg
    <3>1. Step(v, n) = v
      BY <2>3
    <3>2. \A x \in Names : x \in DOMAIN str_cfg => (x <= n <=> x <= n - 1)
      <4> SUFFICES ASSUME NEW x \in Names, x \in DOMAIN str_cfg PROVE x <= n <=> x <= n - 1
        OBVIOUS
      <4>1. x \in Int /\ n \in Int
        BY <1>3 DEF Names
      <4>2. x # n
        BY <2>3
      <4> QED BY <4>1, <4>2
    <3>3. Registered(v, str_cfg, n)
      BY <1>5, <3>2 DEF Registered
    <3> QED BY <3>1, <3>3
  <2> QED BY <2>2, <2>3
<1> HIDE DEF m, Step
<1>6. PICK h : /\ h = [n \in 0..m |-> h[n]] /\ Recurses(h, <<>>, G, m)
               /\ \A n \in 0..m : h[n] \in W[n]
  <2>1. \A n \in 1..m : \A v \in W[n-1] : G[n][v] \in W[n]
    BY <1>3, <1>5
  <2>2. <<>> \in W[0]
    BY <1>3, <1>4
  <2> HIDE DEF W, G
  <2> QED BY <1>3, <2>1, <2>2, Recursion
<1>7. \A n \in 0..m : h[n] \in Maps /\ Registered(h[n], str_cfg, n)
  BY <1>6
<1>8. h[0] = <<>> /\ \A n \in 1..m : h[n] = Step(h[n-1], n)
  <2>1. h[0] = <<>> /\ \A n \in 1..m : h[n] = G[n][h[n-1]]
    BY <1>6, Zenon DEF Recurses
  <2>2. ASSUME NEW n \in 1..m PROVE h[n] = Step(h[n-1], n)
    BY <1>3, <1>7, <2>1
  <2> QED BY <2>1, <2>2
<1>9. h = Body(h)
  <2>1. \A n \in 0..m : h[n] = IF n = 0 THEN <<>> ELSE Step(h[n-1], n)
    BY <1>3, <1>8
  <2> QED BY <1>6, <2>1
<1>10. A = Body(A)
  <2> HIDE DEF A, Body
  <2> QED BY <1>1, <1>9, Zenon
<1> HIDE DEF A
<1>11. A[0] = <<>> /\ \A n \in 1..m : A[n] = Step(A[n-1], n)
  BY <1>3, <1>10
<1>12. \A n \in 0..m : A[n] = h[n]
  <2> HIDE DEF W, G, Body
  <2>1. A[0] = h[0]
    BY <1>8, <1>11
  <2>2. ASSUME NEW n \in 1..m, A[n-1] = h[n-1] PROVE A[n] = h[n]
    <3>1. h[n] = Step(h[n-1], n) /\ A[n] = Step(A[n-1], n)
      BY <1>8, <1>11
    <3> QED BY <2>2, <3>1
  <2>3. m \in Nat
    BY <1>3
  <2>4. SameRounds(A, h, m)
    BY <2>1, <2>2 DEF SameRounds
  <2> QED BY <2>3, <2>4, SameLoop
<1>13. A[m] \in Maps /\ Registered(A[m], str_cfg, m)
  BY <1>3, <1>7, <1>12
<1> QED BY <1>2, <1>13 DEF m

-----------------------------------------------------------------------------
(* What load makes of a file. *)

\* The first of the places of a sequence.
LEMMA MinFacts ==
  ASSUME NEW T, T \subseteq Nat, T # {}
  PROVE  Min(T) \in T /\ \A y \in T : Min(T) <= y
<1>1. \E x \in T : \A y \in T : x <= y
  BY LeastNatural
<1> QED BY <1>1, Zenon DEF Min

\* The list of exchanges.
LEMMA SplitType ==
  ASSUME NEW list \in Seq(Int)
  PROVE  splitExchanges(list) \in Seq(EXCHANGE)
<1>1. null \in EXCHANGE
  BY ExchangesAssumption DEF EXCHANGE, null
<1>2. \A x : str2ex(x) \in EXCHANGE
  BY <1>1 DEF str2ex
<1>3. splitExchanges(list) = [i \in 1..Len(list) |-> str2ex(list[i])]
  BY DEF splitExchanges
<1> HIDE DEF EXCHANGE
<1> QED BY <1>2, <1>3

\* An element that does not throw has a configuration.
LEMMA ElementConfig ==
  ASSUME NEW s \in Element, ~Throws(s)
  PROVE  IsConfig(StreamConfig(s))
<1> DEFINE c == StreamConfig(s)
<1>1. /\ s.symbol \in Nat /\ s.primary \in Seq(Int) /\ s.secondary \in Seq(Int)
      /\ s.fullamount \in Seq(Int) /\ s.sweepable \in Seq(Int)
      /\ s.levels \in Seq(Nat \cup {NaN})
  BY DEF Element
<1>2. /\ c.symbol = s.symbol /\ c.primary = splitExchanges(s.primary)
      /\ c.secondary = splitExchanges(s.secondary)
      /\ c.fullamount = splitExchanges(s.fullamount)
      /\ c.sweepable = splitExchanges(s.sweepable) /\ c.level_vec = levelVec(s.levels)
  BY DEF StreamConfig
<1> DEFINE p == s.primary
           q == s.secondary
           f == s.fullamount
           w == s.sweepable
           l == s.levels
<1>3. l \in Seq(Nat)
  <2>1. NaN \notin Range(l)
    BY DEF Throws
  <2> HIDE DEF l
  <2>2. l \in Seq(Nat \cup {NaN})
    BY <1>1 DEF l
  <2>3. \A i \in 1..Len(l) : l[i] \in Range(l)
    BY <2>2 DEF Range
  <2>4. \A i \in 1..Len(l) : l[i] \in Nat \cup {NaN} /\ l[i] # NaN
    BY <2>1, <2>2, <2>3
  <2>5. \A i \in 1..Len(l) : l[i] \in Nat
    BY <2>4
  <2> QED BY <2>2, <2>5
<1> HIDE DEF p, q, f, w, l, c
<1>4. /\ splitExchanges(p) \in Seq(EXCHANGE) /\ splitExchanges(q) \in Seq(EXCHANGE)
      /\ splitExchanges(f) \in Seq(EXCHANGE) /\ splitExchanges(w) \in Seq(EXCHANGE)
  <2>1. p \in Seq(Int) /\ q \in Seq(Int) /\ f \in Seq(Int) /\ w \in Seq(Int)
    BY <1>1 DEF p, q, f, w
  <2> QED BY <2>1, SplitType
<1>5. levelVec(l) \in Seq(Nat) /\ Sorted(levelVec(l))
  BY <1>3, LevelVecSorted
<1>6. IsConfig(c)
  BY <1>1, <1>2, <1>4, <1>5 DEF IsConfig, p, q, f, w, l
<1> QED BY <1>6 DEF c

\* A name in str_cfg has the configuration of an element that was read.
LEMMA InsertedFacts ==
  ASSUME NEW read \in Seq(Element), NEW n \in DOMAIN insertStreams(read)
  PROVE  \E i \in 1..Len(read) :
           n = read[i].name /\ insertStreams(read)[n] = StreamConfig(read[i])
<1> DEFINE I == {i \in 1..Len(read) : read[i].name = n}
           k == SelectInSeq(read, LAMBDA s : s.name = n)
<1>1. PICK j \in 1..Len(read) : n = read[j].name
  BY DEF insertStreams
<1>2. insertStreams(read)[n] = StreamConfig(read[k])
  BY DEF insertStreams
<1>3. I \subseteq Nat /\ j \in I
  BY <1>1
<1>4. k = IF I # {} THEN Min(I) ELSE 0
  BY DEF SelectInSeq
<1> HIDE DEF k
<1>5. k \in I
  <2> HIDE DEF I
  <2>1. I # {} /\ Min(I) \in I
    BY <1>3, MinFacts
  <2> QED BY <1>4, <2>1
<1> QED BY <1>2, <1>5

\* All of str_cfg, after a failure too, is of elements that did not throw.
LEMMA LoadFacts ==
  ASSUME NEW file \in Files, NEW n \in DOMAIN load(file).str_cfg
  PROVE  n \in Names /\ IsConfig(load(file).str_cfg[n])
<1> DEFINE I == {i \in 1..Len(file) : Throws(file[i])}
           bad == SelectInSeq(file, Throws)
           read == IF bad = 0 THEN file ELSE SubSeq(file, 1, bad - 1)
           str == insertStreams(read)
<1>1. file \in Seq(Element) /\ Len(file) \in Nat
  <2>1. file \in Seq(Element)
    BY InputAssumption
  <2> HIDE DEF Element
  <2> QED BY <2>1
<1>2. load(file).str_cfg = str
  BY DEF load
<1>3. bad = IF I # {} THEN Min(I) ELSE 0
  BY DEF SelectInSeq
<1> HIDE DEF Element, bad
<1>4. /\ read \in Seq(Element)
      /\ \A i \in 1..Len(read) : i \in 1..Len(file) /\ read[i] = file[i] /\ ~Throws(file[i])
  <2>1. CASE I = {}
    <3>1. bad = 0
      BY <1>3, <2>1
    <3>2. \A i \in 1..Len(file) : ~Throws(file[i])
      BY <2>1
    <3> QED BY <1>1, <3>1, <3>2
  <2>2. CASE I # {}
    <3>1. bad \in I /\ \A y \in I : bad <= y
      <4>1. I \subseteq Nat
        BY <1>1
      <4> HIDE DEF I
      <4> QED BY <1>3, <2>2, <4>1, MinFacts
    <3> DEFINE k == bad - 1
    <3>2. k \in 0..Len(file)-1 /\ bad # 0
      BY <1>1, <3>1
    <3>3. \A i \in 1..k : i \in 1..Len(file) /\ ~Throws(file[i])
      <4> SUFFICES ASSUME NEW i \in 1..k PROVE i \in 1..Len(file) /\ ~Throws(file[i])
        OBVIOUS
      <4>1. bad \in 1..Len(file)
        BY <3>1
      <4>2. i \in 1..Len(file) /\ ~(bad <= i)
        BY <1>1, <4>1
      <4> QED BY <3>1, <4>2
    <3>4. read = SubSeq(file, 1, k)
      BY <3>2
    <3> HIDE DEF k, read
    <3>5. /\ SubSeq(file, 1, k) \in Seq(Element) /\ Len(SubSeq(file, 1, k)) = k
          /\ \A i \in 1..k : SubSeq(file, 1, k)[i] = file[i]
      BY <1>1, <3>2, PrefixStep
    <3> QED BY <3>3, <3>4, <3>5
  <2> QED BY <2>1, <2>2
<1> HIDE DEF read
<1>5. PICK i \in 1..Len(read) : n = read[i].name /\ str[n] = StreamConfig(read[i])
  <2>1. n \in DOMAIN insertStreams(read)
    BY <1>2
  <2> QED BY <1>4, <2>1, InsertedFacts
<1>6. i \in DOMAIN file /\ read[i] = file[i] /\ ~Throws(file[i]) /\ file[i] \in Element
  BY <1>1, <1>4
<1>7. n \in Names
  BY <1>5, <1>6 DEF Element, Names
<1>8. IsConfig(StreamConfig(file[i]))
  BY <1>6, ElementConfig
<1> QED BY <1>2, <1>5, <1>6, <1>7, <1>8

-----------------------------------------------------------------------------
(* What a round dispatches. *)

\* The configurations that load leaves.
Loaded(str_cfg) ==
  \A n \in DOMAIN str_cfg :
    n \in Names /\ IsConfig(str_cfg[n])

\* The calls of onSnapshot a stream is due after the messages s.
Due(c, s) == IF c.symbol # EmptySymbol THEN 0
             ELSE Total([ex \in EXCHANGE |-> s[ex] * Mentions(c, ex)])

\* What is due is a number.
LEMMA DueType ==
  ASSUME NEW c, IsConfig(c), NEW s \in [EXCHANGE -> Nat]
  PROVE  Due(c, s) \in Nat
<1> DEFINE f == [ex \in EXCHANGE |-> s[ex] * Mentions(c, ex)]
<1>1. \A ex \in EXCHANGE : Mentions(c, ex) \in Nat
  BY MentionsType
<1>2. ASSUME NEW ex \in EXCHANGE PROVE f[ex] \in Int /\ f[ex] >= 0
  <2> DEFINE x == s[ex]
             y == Mentions(c, ex)
  <2>1. x \in Nat /\ y \in Nat /\ f[ex] = x * y
    BY <1>1
  <2> HIDE DEF x, y, f
  <2>2. x * y \in Nat
    BY <2>1
  <2> QED BY <2>1, <2>2
<1> HIDE DEF f
<1>3. Total(f) \in Int /\ Total(f) >= 0
  BY <1>2, TotalFacts
<1>4. Due(c, s) = 0 \/ Due(c, s) = Total(f)
  BY DEF Due, f
<1> QED BY <1>3, <1>4

\* A message of an exchange is due once for each time the stream mentions it.
LEMMA DueRaised ==
  ASSUME NEW c, IsConfig(c), NEW s \in [EXCHANGE -> Nat], NEW e \in EXCHANGE
  PROVE  LET r == [s EXCEPT ![e] = @ + 1]
         IN  /\ Total(r) = Total(s) + 1 /\ Total(s) \in Int
             /\ Due(c, r) = Due(c, s) + (IF c.symbol = EmptySymbol THEN Mentions(c, e) ELSE 0)
<1> DEFINE r == [s EXCEPT ![e] = @ + 1]
           f == [ex \in EXCHANGE |-> s[ex] * Mentions(c, ex)]
           g == [ex \in EXCHANGE |-> r[ex] * Mentions(c, ex)]
           d == Mentions(c, e)
<1>1. /\ \A ex \in EXCHANGE : Mentions(c, ex) \in Nat
      /\ \A ex \in EXCHANGE : s[ex] \in Nat /\ r[ex] \in Nat
      /\ \A ex \in EXCHANGE : r[ex] = s[ex] + (IF ex = e THEN 1 ELSE 0)
  BY MentionsType
<1>2. d \in Nat
  BY <1>1
<1> HIDE DEF r
<1>3. ASSUME NEW ex \in EXCHANGE
      PROVE  f[ex] \in Int /\ g[ex] \in Int /\ g[ex] = f[ex] + (IF ex = e THEN d ELSE 0)
  <2> DEFINE x == s[ex]
             y == Mentions(c, ex)
             z == r[ex]
  <2>1. /\ x \in Nat /\ y \in Nat /\ z \in Nat /\ z = x + (IF ex = e THEN 1 ELSE 0)
        /\ f[ex] = x * y /\ g[ex] = z * y /\ (ex = e => y = d)
    BY <1>1
  <2> HIDE DEF x, y, z, f, g, d
  <2>2. CASE ex = e
    <3>1. z * y = x * y + y /\ x * y \in Int /\ z * y \in Int
      BY <2>1, <2>2
    <3> QED BY <2>1, <2>2, <3>1
  <2>3. CASE ex # e
    <3>1. z = x /\ x * y \in Int /\ x * y = x * y + 0
      BY <2>1, <2>3
    <3> QED BY <2>1, <2>3, <3>1
  <2> QED BY <2>2, <2>3
<1> HIDE DEF f, g, d
<1>4. Total(f) \in Int /\ Total(g) = Total(f) + d
  <2>1. /\ \A ex \in EXCHANGE : f[ex] \in Int /\ g[ex] \in Int
        /\ \A ex \in EXCHANGE : g[ex] = f[ex] + (IF ex = e THEN d ELSE 0)
    BY <1>3
  <2>2. Total(f) \in Int
    BY <2>1, TotalFacts
  <2>3. d \in Int
    BY <1>2
  <2> QED BY <2>1, <2>2, <2>3, TotalFacts
<1>5. Total(s) \in Int /\ Total(r) = Total(s) + 1
  <2>1. /\ \A ex \in EXCHANGE : s[ex] \in Int /\ r[ex] \in Int
        /\ \A ex \in EXCHANGE : r[ex] = s[ex] + (IF ex = e THEN 1 ELSE 0)
    BY <1>1
  <2>2. Total(s) \in Int
    BY <2>1, TotalFacts
  <2>3. 1 \in Int
    OBVIOUS
  <2> QED BY <2>1, <2>2, <2>3, TotalFacts
<1>6. Due(c, r) = Due(c, s) + (IF c.symbol = EmptySymbol THEN d ELSE 0)
  <2>1. CASE c.symbol = EmptySymbol
    <3>1. Due(c, r) = Total(g) /\ Due(c, s) = Total(f)
      BY <2>1 DEF Due, f, g
    <3> QED BY <1>4, <2>1, <3>1
  <2>2. CASE c.symbol # EmptySymbol
    <3>1. Due(c, r) = 0 /\ Due(c, s) = 0
      BY <2>2 DEF Due
    <3> QED BY <2>2, <3>1
  <2> QED BY <2>1, <2>2
<1> QED BY <1>5, <1>6 DEF r, d

NoMessages == [ex \in EXCHANGE |-> 0]

\* No message, no total.
LEMMA TotalNone ==
  NoMessages \in [EXCHANGE -> Nat] /\ Total(NoMessages) = 0
<1> DEFINE s == NoMessages
<1>1. s \in [EXCHANGE -> Nat]
  BY DEF NoMessages
<1>2. \A ex \in EXCHANGE : s[ex] \in Int /\ 1 * s[ex] <= 0 * s[ex] /\ s[ex] >= 0
  BY DEF NoMessages
<1> HIDE DEF s
<1>3. Total(s) \in Int /\ Total(s) >= 0
  BY <1>2, TotalFacts
<1>4. 1 * Total(s) <= 0 * Total(s)
  <2>1. \A p, q \in Int :
          (\A ex \in EXCHANGE : p * s[ex] <= q * s[ex]) => p * Total(s) <= q * Total(s)
    BY <1>2, TotalFacts
  <2>2. 1 \in Int /\ 0 \in Int /\ \A ex \in EXCHANGE : 1 * s[ex] <= 0 * s[ex]
    BY <1>2
  <2> QED BY <2>1, <2>2
<1> QED BY <1>1, <1>3, <1>4 DEF s

\* Nothing is due before the first message.
LEMMA DueNone ==
  ASSUME NEW c, IsConfig(c)
  PROVE  Due(c, NoMessages) = 0
<1> DEFINE f == [ex \in EXCHANGE |-> NoMessages[ex] * Mentions(c, ex)]
<1>1. \A ex \in EXCHANGE : Mentions(c, ex) \in Nat
  BY MentionsType
<1>2. f = NoMessages
  BY <1>1 DEF NoMessages
<1>3. Due(c, NoMessages) = 0 \/ Due(c, NoMessages) = Total(f)
  BY DEF Due
<1> QED BY <1>2, <1>3, TotalNone

\* The streams of a key are streams of the configuration.
LEMMA KeyStreams ==
  ASSUME NEW str_cfg, Loaded(str_cfg), NEW key \in DOMAIN RegisterAll(str_cfg)
  PROVE  RegisterAll(str_cfg)[key] \in Seq(DOMAIN str_cfg)
<1> DEFINE map == RegisterAll(str_cfg)
           t == map[key]
<1>1. map \in Maps /\ Registered(map, str_cfg, MaxName)
  <2>1. \A n \in DOMAIN str_cfg : IsConfig(str_cfg[n])
    BY DEF Loaded
  <2> QED BY <2>1, RegisterAllFacts
<1> HIDE DEF map
<1>2. key \in Keys /\ t \in Seq(Names)
  <2>1. key \in DOMAIN map
    BY DEF map
  <2> QED BY <1>1, <2>1, MapFacts
<1>3. PICK s \in Nat, ex \in EXCHANGE : key = Key(s, ex)
  BY <1>2 DEF Keys, Key
<1>4. ASSUME NEW i \in 1..Len(t) PROVE t[i] \in DOMAIN str_cfg
  <2> DEFINE x == t[i]
  <2>1. x \in Names /\ Count(t, x) > 0
    <3>1. x \in Names
      BY <1>2
    <3> HIDE DEF t
    <3>2. \E j \in 1..Len(t) : t[j] = x
      OBVIOUS
    <3> QED BY <1>2, <3>1, <3>2, CountType
  <2> HIDE DEF x
  <2>2. CountAt(map, Key(s, ex), x) = Count(t, x)
    BY <1>3 DEF CountAt, map
  <2>3. x \notin DOMAIN str_cfg => CountAt(map, Key(s, ex), x) = 0
    BY <1>1, <1>3, <2>1 DEF Registered
  <2>4. x \in DOMAIN str_cfg
    BY <2>1, <2>2, <2>3
  <2> QED BY <2>4 DEF x
<1>5. t \in Seq(DOMAIN str_cfg)
  BY <1>2, <1>4
<1> QED BY <1>5 DEF map

\* A message of an exchange goes to a stream of the empty symbol as often as the
\* stream mentions the exchange.
LEMMA TargetFacts ==
  ASSUME NEW str_cfg, Loaded(str_cfg), NEW ex \in EXCHANGE, NEW t,
         t = IF Key(EmptySymbol, ex) \in DOMAIN RegisterAll(str_cfg)
             THEN RegisterAll(str_cfg)[Key(EmptySymbol, ex)] ELSE <<>>
  PROVE  /\ t \in Seq(DOMAIN str_cfg)
         /\ \A n \in DOMAIN str_cfg :
              Count(t, n) = IF str_cfg[n].symbol = EmptySymbol THEN Mentions(str_cfg[n], ex) ELSE 0
<1> DEFINE map == RegisterAll(str_cfg)
           key == Key(EmptySymbol, ex)
<1>1. Registered(map, str_cfg, MaxName)
  <2>1. \A n \in DOMAIN str_cfg : IsConfig(str_cfg[n])
    BY DEF Loaded
  <2> QED BY <2>1, RegisterAllFacts
<1>2. t \in Seq(DOMAIN str_cfg)
  <2>1. CASE key \in DOMAIN map
    BY <2>1, KeyStreams
  <2>2. CASE key \notin DOMAIN map
    <3>1. t = <<>>
      BY <2>2
    <3>2. <<>> \in Seq(DOMAIN str_cfg)
      OBVIOUS
    <3> QED BY <3>1, <3>2
  <2> QED BY <2>1, <2>2
<1>3. \A n : CountAt(map, key, n) = Count(t, n)
  <2>1. \A n : Count(<<>>, n) = 0
    BY CountSmall
  <2>2. CASE key \in DOMAIN map
    BY <2>2 DEF CountAt
  <2>3. CASE key \notin DOMAIN map
    BY <2>1, <2>3 DEF CountAt
  <2> QED BY <2>2, <2>3
<1> HIDE DEF map
<1>4. ASSUME NEW n \in DOMAIN str_cfg
      PROVE  Count(t, n) = IF str_cfg[n].symbol = EmptySymbol THEN Mentions(str_cfg[n], ex) ELSE 0
  <2>1. n \in Names /\ n <= MaxName /\ EmptySymbol \in Nat
    <3>1. n \in Names
      BY DEF Loaded
    <3> QED BY <3>1, InputAssumption DEF Names, EmptySymbol
  <2>2. CountAt(map, key, n) =
          IF n <= MaxName /\ n \in DOMAIN str_cfg /\ str_cfg[n].symbol = EmptySymbol
          THEN Mentions(str_cfg[n], ex) ELSE 0
    BY <1>1, <2>1 DEF Registered
  <2> QED BY <1>3, <2>1, <2>2
<1> QED BY <1>2, <1>4

-----------------------------------------------------------------------------
(* The invariant.  The books of a stream are what its merges and sweeps leave  *)
(* (StreamOK), up to the first call that leaves an array; the calls it has had *)
(* are those it is due.                                                        *)

\* The streams are there.
Up == {"running", "overrun"}

BookInv ==
  /\ pc \in {"start", "exit", "building", "running", "overrun"}
  /\ xml \in Files
  /\ pc = "start" => cfg.str_cfg = <<>>
  /\ pc # "start" => cfg.str_cfg = load(xml).str_cfg
  /\ pc \notin Up => /\ by_key = <<>> /\ streams = <<>> /\ applied = <<>>
                     /\ seen = NoMessages
  /\ pc \in Up => /\ by_key = RegisterAll(cfg.str_cfg)
                  /\ streams = [n \in DOMAIN cfg.str_cfg |-> streams[n]]
                  /\ DOMAIN applied = DOMAIN cfg.str_cfg
  /\ seen \in [EXCHANGE -> Nat]
  /\ \A n \in DOMAIN streams :
       /\ applied[n] = Due(cfg.str_cfg[n], seen)
       /\ StreamOK(streams[n], cfg.str_cfg[n])

\* The configurations are those that load leaves.
LEMMA CfgLoaded ==
  ASSUME BookInv
  PROVE  Loaded(cfg.str_cfg)
<1>1. CASE pc = "start"
  <2>1. DOMAIN <<>> = {}
    OBVIOUS
  <2>2. cfg.str_cfg = <<>>
    BY <1>1 DEF BookInv
  <2> QED BY <2>1, <2>2 DEF Loaded
<1>2. CASE pc # "start"
  <2>1. cfg.str_cfg = load(xml).str_cfg /\ xml \in Files
    BY <1>2 DEF BookInv
  <2> QED BY <2>1, LoadFacts DEF Loaded
<1> QED BY <1>1, <1>2

\* Only an engine that has been running has streams.
LEMMA StreamDomain ==
  ASSUME BookInv
  PROVE  /\ DOMAIN streams \subseteq DOMAIN cfg.str_cfg /\ DOMAIN applied = DOMAIN streams
<1>1. DOMAIN <<>> = {}
  OBVIOUS
<1>2. CASE pc \in Up
  <2>1. DOMAIN streams = DOMAIN cfg.str_cfg /\ DOMAIN applied = DOMAIN cfg.str_cfg
    BY <1>2 DEF BookInv
  <2> QED BY <2>1
<1>3. CASE pc \notin Up
  BY <1>1, <1>3 DEF BookInv
<1> QED BY <1>2, <1>3

\* The invariant holds at the start.
LEMMA BookInit == Init => BookInv
<1> SUFFICES ASSUME Init PROVE BookInv
  OBVIOUS
<1>1. /\ pc = "start" /\ xml \in Files /\ cfg.str_cfg = <<>>
      /\ by_key = <<>> /\ streams = <<>> /\ applied = <<>> /\ seen = NoMessages
  BY DEF Init, NoMessages
<1>2. DOMAIN streams = {}
  BY <1>1
<1>3. seen \in [EXCHANGE -> Nat]
  BY <1>1, TotalNone
<1> QED BY <1>1, <1>2, <1>3 DEF BookInv, Up

\* load.
LEMMA LoadKeeps ==
  ASSUME BookInv, Load
  PROVE  BookInv'
<1>1. pc = "start" /\ pc' \in {"exit", "building"}
  BY DEF Load
<1>2. cfg'.str_cfg = load(xml).str_cfg /\ xml' = xml
  BY DEF Load
<1>3. /\ by_key' = <<>> /\ streams' = <<>> /\ applied' = <<>> /\ seen' = NoMessages
      /\ xml \in Files
  BY <1>1 DEF Load, BookInv, Up
<1>4. DOMAIN streams' = {}
  BY <1>3
<1>5. seen' \in [EXCHANGE -> Nat]
  BY <1>3, TotalNone
<1> QED BY <1>1, <1>2, <1>3, <1>4, <1>5 DEF BookInv, Up

\* The streams are new, and have had no snapshot.
LEMMA CreateKeeps ==
  ASSUME BookInv, CreateStreams
  PROVE  BookInv'
<1> DEFINE str == cfg.str_cfg
<1>1. /\ pc = "building" /\ pc' = "running" /\ xml' = xml /\ cfg' = cfg /\ seen' = seen
      /\ by_key' = RegisterAll(str)
      /\ streams' = [n \in DOMAIN str |-> NewStream(str[n])]
      /\ applied' = [n \in DOMAIN str |-> 0]
  BY DEF CreateStreams
<1>2. /\ xml \in Files /\ str = load(xml).str_cfg /\ seen = NoMessages
      /\ seen \in [EXCHANGE -> Nat]
  BY <1>1 DEF BookInv, Up
<1>3. Loaded(str)
  BY CfgLoaded
<1> HIDE DEF str
<1>4. /\ DOMAIN streams' = DOMAIN str /\ DOMAIN applied' = DOMAIN str
      /\ streams' = [n \in DOMAIN str |-> streams'[n]]
  BY <1>1
<1>5. ASSUME NEW n \in DOMAIN str
      PROVE  applied'[n] = Due(str[n], seen) /\ StreamOK(streams'[n], str[n])
  <2> DEFINE c == str[n]
  <2>1. IsConfig(c) /\ applied'[n] = 0 /\ streams'[n] = NewStream(c)
    BY <1>1, <1>3 DEF Loaded
  <2> HIDE DEF c
  <2>2. Due(c, seen) = 0
    BY <1>2, <2>1, DueNone
  <2>3. c.level_vec \in Seq(Nat)
    BY <2>1 DEF IsConfig
  <2>4. StreamOK(NewStream(c), c)
    BY <2>3, NewStreamOK
  <2> QED BY <2>1, <2>2, <2>4 DEF c
<1> QED BY <1>1, <1>2, <1>4, <1>5 DEF BookInv, str, Up

\* A round that leaves no array: each stream gets the snapshot as often as it is
\* due, and has merged it where it got it.
LEMMA RoundKeeps ==
  ASSUME BookInv, NEW ex \in EXCHANGE, Round(ex)
  PROVE  /\ BookInv'
         /\ \A n \in DOMAIN streams : applied'[n] > applied[n] => Merged(streams'[n])
<1> DEFINE str == cfg.str_cfg
           t == Dispatch(Key(EmptySymbol, ex))
           D == DOMAIN str
           calls == onSnapshots(streams, t)
           S == {t[i] : i \in 1..Len(t)}
<1>1. /\ pc = "running" /\ ~calls.overrun /\ streams' = calls.sts
      /\ applied' = [n \in DOMAIN applied |-> applied[n] + Count(t, n)]
      /\ seen' = [seen EXCEPT ![ex] = @ + 1]
      /\ pc' = pc /\ xml' = xml /\ cfg' = cfg /\ by_key' = by_key
  BY DEF Round
<1>2. /\ xml \in Files /\ str = load(xml).str_cfg /\ by_key = RegisterAll(str)
      /\ streams = [n \in D |-> streams[n]] /\ DOMAIN applied = D
      /\ seen \in [EXCHANGE -> Nat]
  BY <1>1 DEF BookInv, Up
<1>3. \A n \in D : applied[n] = Due(str[n], seen) /\ StreamOK(streams[n], str[n])
  <2>1. DOMAIN streams = D
    BY <1>2
  <2> QED BY <2>1 DEF BookInv
<1>4. Loaded(str)
  BY CfgLoaded
<1>5. t = IF Key(EmptySymbol, ex) \in DOMAIN RegisterAll(str)
          THEN RegisterAll(str)[Key(EmptySymbol, ex)] ELSE <<>>
  BY <1>2 DEF Dispatch
<1> HIDE DEF str, t
<1>6. /\ t \in Seq(D)
      /\ \A n \in D : Count(t, n) = IF str[n].symbol = EmptySymbol THEN Mentions(str[n], ex) ELSE 0
  BY <1>4, <1>5, TargetFacts
<1> HIDE DEF D
<1>7. \A n \in D : IsConfig(str[n])
  BY <1>4 DEF Loaded, D
<1>8. seen' \in [EXCHANGE -> Nat]
  BY <1>1, <1>2
<1>9. ASSUME NEW n \in D
      PROVE  /\ applied'[n] = applied[n] + Count(t, n) /\ applied'[n] = Due(str[n], seen')
             /\ applied[n] \in Nat /\ Count(t, n) \in Nat
  <2> DEFINE c == str[n]
             k == Count(t, n)
  <2>1. applied'[n] = applied[n] + k
    BY <1>1, <1>2
  <2>2. /\ IsConfig(c) /\ applied[n] = Due(c, seen)
        /\ k = IF c.symbol = EmptySymbol THEN Mentions(c, ex) ELSE 0
    BY <1>3, <1>6, <1>7
  <2> HIDE DEF c, k
  <2>3. Due(c, seen') = Due(c, seen) + k
    <3> DEFINE s == seen
               r == [s EXCEPT ![ex] = @ + 1]
    <3>1. s \in [EXCHANGE -> Nat] /\ seen' = r
      BY <1>1, <1>2
    <3> HIDE DEF s
    <3>2. Due(c, r) = Due(c, s) + (IF c.symbol = EmptySymbol THEN Mentions(c, ex) ELSE 0)
      BY <2>2, <3>1, DueRaised
    <3> HIDE DEF r
    <3> QED BY <2>2, <3>1, <3>2 DEF s
  <2>4. Due(c, seen) \in Nat
    BY <1>2, <2>2, DueType
  <2>5. k \in Nat
    BY <2>2, MentionsType
  <2> QED BY <2>1, <2>2, <2>3, <2>4, <2>5 DEF c, k
<1>10. Called(calls, D, str, S)
  <2>1. \A n \in D : /\ StreamOK(streams[n], str[n])
                     /\ str[n].level_vec \in Seq(Nat) /\ Sorted(str[n].level_vec)
    BY <1>3, <1>7 DEF IsConfig
  <2> DEFINE old == streams
  <2>2. old = [n \in D |-> old[n]]
    BY <1>2
  <2> HIDE DEF old
  <2>3. \A n \in D : /\ StreamOK(old[n], str[n])
                     /\ str[n].level_vec \in Seq(Nat) /\ Sorted(str[n].level_vec)
    BY <2>1 DEF old
  <2>4. Called(onSnapshots(old, t), D, str, {t[i] : i \in 1..Len(t)})
    BY <1>6, <2>2, <2>3, OnSnapshotsKeeps
  <2> QED BY <2>4 DEF old
<1> HIDE DEF calls, S
<1>11. /\ streams' = [n \in D |-> streams'[n]]
       /\ \A n \in D : StreamOK(streams'[n], str[n])
       /\ \A n \in S : Merged(streams'[n])
  BY <1>1, <1>10 DEF Called
<1>12. DOMAIN applied' = D
  BY <1>1, <1>2
<1>13. BookInv'
  BY <1>1, <1>2, <1>8, <1>9, <1>11, <1>12 DEF BookInv, str, D, Up
<1>14. ASSUME NEW n \in D, applied'[n] > applied[n] PROVE Merged(streams'[n])
  <2> DEFINE k == Count(t, n)
             a == applied[n]
  <2>1. applied'[n] = a + k /\ a \in Nat /\ k \in Nat
    BY <1>9
  <2>2. a + k > a
    BY <1>14, <2>1
  <2> HIDE DEF a
  <2>3. k > 0
    <3> HIDE DEF k
    <3> QED BY <2>1, <2>2
  <2>4. n \in S
    BY <1>6, <2>3, CountType DEF S
  <2> QED BY <1>11, <2>4
<1>15. DOMAIN streams = D
  BY <1>2
<1> QED BY <1>13, <1>14, <1>15

\* A round that leaves an array ends the run.
LEMMA OverrunKeeps ==
  ASSUME BookInv, NEW ex \in EXCHANGE, Overrun(ex)
  PROVE  BookInv'
<1>1. /\ pc = "running" /\ pc' = "overrun" /\ xml' = xml /\ cfg' = cfg /\ by_key' = by_key
      /\ streams' = streams /\ seen' = seen /\ applied' = applied
  BY DEF Overrun
<1> QED BY <1>1 DEF BookInv, Up

\* A snapshot is stored: one of the maps of a stream changes.
LEMMA StoreSnapshotKeeps ==
  ASSUME BookInv, NEW n \in DOMAIN streams, NEW role \in Roles,
         NEW ex \in EXCHANGE \ {null}, NEW snap \in Snapshots,
         StoreSnapshot(n, role, ex, snap)
  PROVE  BookInv'
<1> DEFINE FromVenue(side) == [i \in DOMAIN side |->
                                 [ex |-> ex, size |-> side[i].size, price |-> side[i].price]]
           b == FromVenue(snap.bid)
           k == FromVenue(snap.ask)
           str == cfg.str_cfg
           st == streams[n]
           new == [st EXCEPT ![role][ex] = [bid |-> b, ask |-> k]]
<1>1. /\ pc' = pc /\ xml' = xml /\ cfg' = cfg /\ by_key' = by_key /\ seen' = seen
      /\ applied' = applied
      /\ streams' = [streams EXCEPT ![n][role][ex] = [bid |-> b, ask |-> k]]
      /\ pc = "running"
  BY DEF StoreSnapshot
<1>2. streams' = [streams EXCEPT ![n] = new]
  BY <1>1, Zenon
<1>3. ASSUME NEW side \in Seq(Offer) PROVE FromVenue(side) \in Seq(SweepSet)
  <2>1. Len(side) \in Nat /\ DOMAIN side = 1..Len(side) /\ \A i \in 1..Len(side) : side[i] \in Offer
    BY <1>3
  <2>2. \A i \in 1..Len(side) :
          [ex |-> ex, size |-> side[i].size, price |-> side[i].price] \in SweepSet
    BY <2>1 DEF Offer, SweepSet
  <2> DEFINE f == [i \in 1..Len(side) |->
                     [ex |-> ex, size |-> side[i].size, price |-> side[i].price]]
  <2>3. FromVenue(side) = f
    BY <2>1
  <2>4. f \in Seq(SweepSet)
    BY <2>1, <2>2
  <2> HIDE DEF f
  <2> QED BY <1>3, <2>3, <2>4
<1>4. snap.bid \in Seq(Offer) /\ snap.ask \in Seq(Offer)
  BY InputAssumption
<1>5. b \in Seq(SweepSet) /\ k \in Seq(SweepSet)
  <2> DEFINE p == snap.bid
             q == snap.ask
  <2>1. p \in Seq(Offer) /\ q \in Seq(Offer)
    BY <1>4
  <2> HIDE DEF p, q, FromVenue
  <2>2. FromVenue(p) \in Seq(SweepSet) /\ FromVenue(q) \in Seq(SweepSet)
    BY <1>3, <2>1
  <2> QED BY <2>2 DEF p, q
<1> HIDE DEF b, k, FromVenue
<1>6. StreamOK(st, str[n])
  BY DEF BookInv
<1> HIDE DEF st
<1>7. StreamOK(new, str[n])
  BY <1>5, <1>6, StoreKeeps
<1> HIDE DEF new
<1>8. DOMAIN streams' = DOMAIN streams /\ \A x \in DOMAIN streams : streams'[x] = IF x = n THEN new ELSE streams[x]
  BY <1>2
<1>9. \A x \in DOMAIN streams : applied[x] = Due(str[x], seen) /\ StreamOK(streams'[x], str[x])
  BY <1>7, <1>8 DEF BookInv, str
<1>10. streams' = [x \in DOMAIN str |-> streams'[x]]
  <2>1. streams = [x \in DOMAIN str |-> streams[x]]
    BY <1>1 DEF BookInv, Up, str
  <2> HIDE DEF str
  <2> QED BY <1>2, <2>1
<1> QED BY <1>1, <1>8, <1>9, <1>10 DEF BookInv, str, Up

\* Every step keeps the invariant.
LEMMA BookNext == BookInv /\ [Next]_vars => BookInv'
<1> SUFFICES ASSUME BookInv, [Next]_vars PROVE BookInv'
  OBVIOUS
<1>1. CASE Load
  BY <1>1, LoadKeeps
<1>2. CASE CreateStreams
  BY <1>2, CreateKeeps
<1>3. CASE \E ex \in EXCHANGE : Round(ex) \/ Overrun(ex)
  BY <1>3, RoundKeeps, OverrunKeeps
<1>4. CASE \E n \in DOMAIN streams, role \in Roles, ex \in EXCHANGE \ {null},
              snap \in Snapshots : StoreSnapshot(n, role, ex, snap)
  BY <1>4, StoreSnapshotKeeps
<1>5. CASE UNCHANGED vars
  BY <1>5 DEF BookInv, vars, Up
<1> QED BY <1>1, <1>2, <1>3, <1>4, <1>5 DEF Next

\* BookInv holds in every state, up to the first call that leaves an array: the
\* calls of onSnapshot a stream has had are those it is due, and its books are
\* what merges that stay inside the arrays leave.
THEOREM BookInvariant == Spec => []BookInv
<1>1. Init => BookInv
  BY BookInit
<1>2. BookInv /\ [Next]_vars => BookInv'
  BY BookNext
<1> QED BY <1>1, <1>2, PTL DEF Spec

-----------------------------------------------------------------------------
(* The properties. *)

\* A stream, its configuration and its calls.
LEMMA StreamFacts ==
  ASSUME BookInv, NEW n \in DOMAIN streams
  PROVE  /\ IsConfig(cfg.str_cfg[n]) /\ applied[n] = Due(cfg.str_cfg[n], seen)
         /\ applied[n] \in Nat /\ StreamOK(streams[n], cfg.str_cfg[n])
<1> DEFINE c == cfg.str_cfg[n]
<1>1. /\ applied[n] = Due(c, seen) /\ StreamOK(streams[n], c)
      /\ seen \in [EXCHANGE -> Nat]
  BY DEF BookInv
<1>2. IsConfig(c)
  BY CfgLoaded, StreamDomain DEF Loaded
<1> HIDE DEF c
<1>3. Due(c, seen) \in Nat
  BY <1>1, <1>2, DueType
<1> QED BY <1>1, <1>2, <1>3 DEF c

\* TypeOK holds, for every capacity of the books and up to the first call that
\* leaves an array: main's map names only streams that exist, and Sweep leaves no
\* level of a sweepable book without size.
THEOREM BookTypeCorrect == Spec => []TypeOK
<1>1. ASSUME BookInv PROVE TypeOK
  <2>1. pc \in {"start", "exit", "building", "running", "overrun"} /\ DOMAIN streams \subseteq DOMAIN cfg.str_cfg
    BY <1>1, StreamDomain DEF BookInv
  <2>2. ASSUME NEW key \in DOMAIN by_key PROVE Range(by_key[key]) \subseteq DOMAIN streams
    <3>1. pc \in Up
      <4>1. DOMAIN <<>> = {}
        OBVIOUS
      <4> QED BY <1>1, <4>1 DEF BookInv
    <3>2. by_key = RegisterAll(cfg.str_cfg) /\ DOMAIN streams = DOMAIN cfg.str_cfg
      BY <1>1, <3>1 DEF BookInv
    <3>3. by_key[key] \in Seq(DOMAIN streams)
      BY <1>1, <3>2, CfgLoaded, KeyStreams
    <3> QED BY <3>3 DEF Range
  <2>3. ASSUME NEW n \in DOMAIN streams
        PROVE  /\ Len(streams[n].bid) = Depth /\ streams[n].bid_count \in Nat
               /\ Len(streams[n].ask) = Depth /\ streams[n].ask_count \in Nat
               /\ \A l \in Range(streams[n].sweep_bid \o streams[n].sweep_ask) : l.size > 0
    <3> DEFINE st == streams[n]
               b == st.sweep_bid
               k == st.sweep_ask
    <3>1. /\ Len(st.bid) = Depth /\ Len(st.ask) = Depth
          /\ st.bid_count \in Nat /\ st.ask_count \in Nat
          /\ b \in Seq(SweepSet) /\ k \in Seq(SweepSet)
      BY <1>1, StreamFacts DEF StreamOK
    <3>2. \A l \in Range(b \o k) : l.size > 0
      <4> HIDE DEF b, k
      <4>1. b \o k \in Seq(SweepSet)
        BY <3>1, ConcatProperties
      <4> DEFINE v == b \o k
      <4> HIDE DEF v
      <4>2. v \in Seq(SweepSet)
        BY <4>1 DEF v
      <4>3. \A l \in Range(v) : l \in SweepSet
        BY <4>2 DEF Range
      <4>4. \A l \in SweepSet : l.size > 0
        BY DEF SweepSet
      <4> QED BY <4>3, <4>4 DEF v
    <3> QED BY <3>1, <3>2
  <2> QED BY <2>1, <2>2, <2>3 DEF TypeOK
<1>2. BookInv => TypeOK
  BY <1>1
<1> QED BY <1>2, BookInvariant, PTL

\* main dispatches a message to a stream once for each time the configuration of
\* the stream names the exchange, whatever the files and the order of messages.
THEOREM BookDispatches == Spec => []DispatchedPerMention
<1>1. ASSUME BookInv PROVE DispatchedPerMention
  <2>1. DOMAIN applied = DOMAIN streams
    BY <1>1, StreamDomain
  <2>2. \A n \in DOMAIN streams : applied[n] = Due(cfg.str_cfg[n], seen)
    BY <1>1 DEF BookInv
  <2> QED BY <2>1, <2>2 DEF DispatchedPerMention, Due
<1>2. BookInv => DispatchedPerMention
  BY <1>1
<1> QED BY <1>2, BookInvariant, PTL

\* verticalIntergrationLevel gives every tier the composite bids are enough for,
\* and the order book has a level for, the average price of exactly level_vec[k]
\* units in the order of the composite book, whatever the levels, the tiers and
\* the capacities, up to the first call that leaves an array.  In that order the
\* lowest bids come first.
THEOREM BookTiersCut == Spec => []BidTiersCutLevels
<1>1. ASSUME BookInv PROVE BidTiersCutLevels
  <2>1. ASSUME NEW n \in DOMAIN streams, NEW k \in DOMAIN streams[n].cfg.level_vec \cap 1..BookDepth,
               streams[n].cfg.level_vec[k]
                 <= Len(Units(SubSeq(streams[n].bid, 1, streams[n].bid_count)))
        PROVE  streams[n].order_book.bid[k] =
                 [size |-> streams[n].cfg.level_vec[k],
                  cost |-> SumTo(Units(SubSeq(streams[n].bid, 1, streams[n].bid_count)),
                                 streams[n].cfg.level_vec[k])]
    <3> DEFINE c == cfg.str_cfg[n]
               st == streams[n]
    <3>1. IsConfig(c) /\ StreamOK(st, c)
      BY <1>1, StreamFacts
    <3>2. st.cfg = c /\ c.level_vec \in Seq(Nat) /\ TiersAreVwap(st)
      BY <3>1 DEF StreamOK, IsConfig
    <3>3. k \in 1..Len(st.cfg.level_vec) \cap 1..BookDepth
      BY <2>1, <3>2
    <3> QED BY <2>1, <3>2, <3>3 DEF TiersAreVwap
  <2> QED BY <2>1 DEF BidTiersCutLevels
<1>2. BookInv => BidTiersCutLevels
  BY <1>1
<1> QED BY <1>2, BookInvariant, PTL

\* A bid price onSnapshot writes in the final book lies between prices of the
\* sweepable bids, for any tiers and capacities, up to the first call that leaves
\* an array.
THEOREM BookFinalInside == Spec => []FinalInsideSweep
<1>1. ASSUME BookInv PROVE FinalInsideSweep
  <2>1. ASSUME NEW n \in DOMAIN streams, NEW k \in DOMAIN streams[n].final.bid,
               streams[n].final.bid[k].size > 0
        PROVE  LET prices == {l.price : l \in Range(streams[n].sweep_bid)}
                   t == streams[n].final.bid[k]
               IN  /\ \E p \in prices : p * t.size <= t.cost
                   /\ \E p \in prices : p * t.size >= t.cost
    <3> DEFINE c == cfg.str_cfg[n]
               st == streams[n]
               v == st.sweep_bid
               t == st.final.bid[k]
    <3>1. /\ v \in Seq(SweepSet) /\ st.final.bid \in [1..BookDepth -> TierSet]
          /\ \A j \in 1..BookDepth :
               st.final.bid[j].size > 0 => Inside(st.final.bid[j], v)
      BY <1>1, StreamFacts DEF StreamOK
    <3>2. Inside(t, v)
      BY <2>1, <3>1
    <3> HIDE DEF v, t
    <3>3. \A j \in 1..Len(v) : v[j].price \in {l.price : l \in Range(v)}
      BY <3>1 DEF Range
    <3>4. /\ \E p \in {l.price : l \in Range(v)} : p * t.size <= t.cost
          /\ \E p \in {l.price : l \in Range(v)} : p * t.size >= t.cost
      BY <3>2, <3>3 DEF Inside
    <3> QED BY <3>4 DEF v, t
  <2> QED BY <2>1 DEF FinalInsideSweep
<1>2. BookInv => FinalInsideSweep
  BY <1>1
<1> QED BY <1>2, BookInvariant, PTL

\* After every round that leaves no array the composite book of a stream that was
\* called holds each level of the stored snapshots, in ascending order of the
\* prices, however many are merged.
THEOREM BookMerges == Spec => MergeSortsAll
<1> DEFINE Sorts == \A n \in DOMAIN streams : applied'[n] > applied[n] => Merged(streams'[n])
<1>1. ASSUME BookInv, [Next]_vars PROVE [Sorts]_vars
  <2>1. CASE \E ex \in EXCHANGE : Round(ex)
    BY <1>1, <2>1, RoundKeeps
  <2>2. CASE CreateStreams
    <3>1. DOMAIN streams = {}
      <4>1. streams = <<>>
        BY <1>1, <2>2 DEF BookInv, CreateStreams, Up
      <4> QED BY <4>1
    <3> QED BY <3>1
  <2>3. CASE applied' = applied
    <3>1. ASSUME NEW n \in DOMAIN streams PROVE ~(applied[n] > applied[n])
      <4>1. applied[n] \in Nat
        BY <1>1, StreamFacts
      <4> QED BY <4>1
    <3> QED BY <2>3, <3>1
  <2>4. CASE Load
    BY <2>3, <2>4 DEF Load
  <2>5. CASE \E n \in DOMAIN streams, role \in Roles, ex \in EXCHANGE \ {null},
                snap \in Snapshots : StoreSnapshot(n, role, ex, snap)
    BY <2>3, <2>5 DEF StoreSnapshot
  <2>6. CASE \E ex \in EXCHANGE : Overrun(ex)
    BY <2>3, <2>6 DEF Overrun
  <2>7. CASE UNCHANGED vars
    BY <2>7
  <2> QED BY <1>1, <2>1, <2>2, <2>4, <2>5, <2>6, <2>7 DEF Next
<1>2. BookInv /\ [Next]_vars =>
        [\A n \in DOMAIN streams : applied'[n] > applied[n] =>
           LET st == streams'[n]
               bids == SubSeq(st.bid, 1, st.bid_count)
               asks == SubSeq(st.ask, 1, st.ask_count)
           IN  /\ Ascends(bids) /\ Holds(bids, Levels(st.l2order, "bid"))
               /\ Ascends(asks) /\ Holds(asks, Levels(st.l2order, "ask"))]_vars
  BY <1>1 DEF Merged
<1> QED BY <1>2, BookInvariant, PTL DEF Spec, MergeSortsAll
=============================================================================
