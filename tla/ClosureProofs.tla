--------------------------- MODULE ClosureProofs ---------------------------
(***************************************************************************)
(* Reached is the least set that contains S and is closed under succ, once *)
(* the number of steps is large enough: the number of the vertices, or a   *)
(* bound on a rank that decreases along the edges.                         *)
(*                                                                         *)
(* Induction over the natural numbers is stated for sets, SetInduction: a  *)
(* statement P(n) is proved by applying it to {n \in Nat : P(n)}.          *)
(***************************************************************************)
EXTENDS Closure, Integers, Sequences, FiniteSets, Functions,
        FiniteSetTheorems, WellFoundedInduction, TLAPS

Less == {p \in Nat \X Nat : p[1] < p[2]}

LEMMA LessWF == IsWellFoundedOn(Less, Nat)
<1>1. IsWellFoundedOn(OpToRel(<, Nat), Nat)
  BY NatLessThanWellFounded
<1>2. OpToRel(<, Nat) = Less
  BY DEF OpToRel, Less
<1> QED
  BY <1>1, <1>2

\* A set of natural numbers with 0 and with the successor of each of its
\* members holds all of them: the least number outside has no predecessor.
LEMMA SetInduction ==
  ASSUME NEW T \in SUBSET Nat, 0 \in T, \A n \in T : n + 1 \in T
  PROVE  T = Nat
<1> SUFFICES ASSUME Nat \ T # {} PROVE FALSE
  OBVIOUS
<1> DEFINE U == Nat \ T
<1>1. U \subseteq Nat /\ U # {}
  OBVIOUS
<1> HIDE DEF U
<1>2. PICK x \in U : \A y \in U : ~(<<y, x>> \in Less)
  BY LessWF, <1>1, WFMin
<1>3. x # 0 /\ x - 1 \in Nat /\ x - 1 < x /\ x \in Nat
  BY DEF U
<1>4. x - 1 \in T
  BY <1>2, <1>3 DEF Less, U
<1> QED
  BY <1>3, <1>4 DEF U

----------------------------------------------------------------------------
(* The steps.                                                              *)

Graph(U) == [U -> SUBSET U]

LEMMA ExpandGrows ==
  ASSUME NEW succ, NEW S
  PROVE  S \subseteq Expand(succ, S) /\ \A x \in S : succ[x] \subseteq Expand(succ, S)
BY DEF Expand

IsWalk(g, succ, S, n) ==
  /\ DOMAIN g = 0 .. n
  /\ g[0] = S
  /\ \A i \in 1 .. n : g[i] = Expand(succ, g[i - 1])

\* The recursive function of Reached exists for every number of steps.
LEMMA WalkExists ==
  ASSUME NEW succ, NEW S, NEW n \in Nat
  PROVE  \E g : IsWalk(g, succ, S, n)
<1> DEFINE T == {k \in Nat : \E g : IsWalk(g, succ, S, k)}
<1>1. 0 \in T
  <2> DEFINE g == [i \in 0 .. 0 |-> S]
  <2>1. DOMAIN g = 0 .. 0 /\ g[0] = S /\ \A i \in 1 .. 0 : g[i] = Expand(succ, g[i - 1])
    OBVIOUS
  <2>2. IsWalk(g, succ, S, 0)
    BY <2>1 DEF IsWalk
  <2> QED
    BY <2>2
<1>2. ASSUME NEW k \in T PROVE k + 1 \in T
  <2>1. k \in Nat
    OBVIOUS
  <2>2. PICK g : IsWalk(g, succ, S, k)
    OBVIOUS
  <2> DEFINE h == [i \in 0 .. k + 1 |-> IF i <= k THEN g[i] ELSE Expand(succ, g[k])]
  <2>3. h[0] = S /\ DOMAIN h = 0 .. k + 1
    BY <2>1, <2>2 DEF IsWalk
  <2>4. ASSUME NEW i \in 1 .. k + 1 PROVE h[i] = Expand(succ, h[i - 1])
    <3>1. CASE i <= k
      <4>1. i \in 1 .. k /\ i - 1 \in 0 .. k + 1 /\ i - 1 <= k
        BY <3>1, <2>1
      <4>2. h[i] = g[i] /\ h[i - 1] = g[i - 1]
        BY <4>1, <3>1, <2>1
      <4> QED
        BY <4>1, <4>2, <2>2 DEF IsWalk
    <3>2. CASE i = k + 1
      BY <3>2, <2>1
    <3> QED
      BY <3>1, <3>2, <2>1
  <2>5. IsWalk(h, succ, S, k + 1)
    <3> HIDE DEF h
    <3> QED BY <2>3, <2>4 DEF IsWalk
  <2> QED
    BY <2>1, <2>5
<1>3. T = Nat
  <2>1. T \in SUBSET Nat
    OBVIOUS
  <2> HIDE DEF T
  <2> QED BY <1>1, <1>2, <2>1, SetInduction
<1> QED
  BY <1>3

\* Two walks from S agree.
LEMMA WalksAgree ==
  ASSUME NEW succ, NEW S, NEW n \in Nat, NEW m \in Nat, NEW g, NEW h,
         IsWalk(g, succ, S, n), IsWalk(h, succ, S, m)
  PROVE  \A i \in Nat : i <= n /\ i <= m => g[i] = h[i]
<1> DEFINE T == {i \in Nat : i <= n /\ i <= m => g[i] = h[i]}
<1>1. 0 \in T
  BY DEF IsWalk
<1>2. ASSUME NEW k \in T PROVE k + 1 \in T
  <2> SUFFICES ASSUME k + 1 <= n, k + 1 <= m PROVE g[k + 1] = h[k + 1]
    OBVIOUS
  <2>1. g[k] = h[k]
    OBVIOUS
  <2>2. k + 1 \in 1 .. n /\ k + 1 \in 1 .. m /\ (k + 1) - 1 = k
    OBVIOUS
  <2> QED
    BY <2>1, <2>2 DEF IsWalk
<1>3. T = Nat
  <2>1. T \in SUBSET Nat
    OBVIOUS
  <2> HIDE DEF T
  <2> QED BY <1>1, <1>2, <2>1, SetInduction
<1> QED
  BY <1>3

\* The recursive function of Reached is a walk.
LEMMA ReachedIsWalk ==
  ASSUME NEW succ, NEW S, NEW n \in Nat
  PROVE  \E g : IsWalk(g, succ, S, n) /\ Reached(succ, S, n) = g[n]
<1> DEFINE R == CHOOSE R : R = [i \in 0 .. n |->
                                  IF i = 0 THEN S ELSE Expand(succ, R[i - 1])]
<1>1. Reached(succ, S, n) = R[n]
  BY DEF Reached
<1>2. PICK g : IsWalk(g, succ, S, n)
  BY WalkExists
<1> DEFINE G(f) == [i \in 0 .. n |-> IF i = 0 THEN S ELSE Expand(succ, f[i - 1])]
           h == [i \in 0 .. n |-> g[i]]
<1>3. h = G(h)
  <2>1. \A i \in 0 .. n : h[i] = G(h)[i]
    <3> SUFFICES ASSUME NEW i \in 0 .. n PROVE h[i] = G(h)[i]
      OBVIOUS
    <3>1. CASE i = 0
      BY <3>1, <1>2 DEF IsWalk
    <3>2. CASE i # 0
      <4>1. i \in 1 .. n /\ i - 1 \in 0 .. n
        BY <3>2
      <4>2. g[i] = Expand(succ, g[i - 1])
        BY <4>1, <1>2 DEF IsWalk
      <4>3. h[i] = g[i] /\ h[i - 1] = g[i - 1]
        BY <4>1
      <4> HIDE DEF h
      <4> QED BY <4>2, <4>3, <3>2
    <3> QED
      BY <3>1, <3>2
  <2> QED
    BY <2>1
<1>4. R = G(R)
  <2> HIDE DEF h
  <2>1. \E f : f = G(f)
    BY <1>3
  <2> QED
    BY <2>1
<1>5. IsWalk(R, succ, S, n)
  <2> HIDE DEF R
  <2>1. DOMAIN R = 0 .. n
    BY <1>4
  <2>2. R[0] = S
    BY <1>4
  <2>3. \A i \in 1 .. n : R[i] = Expand(succ, R[i - 1])
    <3> SUFFICES ASSUME NEW i \in 1 .. n PROVE R[i] = Expand(succ, R[i - 1])
      OBVIOUS
    <3>1. i \in 0 .. n /\ i # 0
      OBVIOUS
    <3> QED
      BY <1>4, <3>1
  <2> QED
    BY <2>1, <2>2, <2>3 DEF IsWalk
<1> QED
  BY <1>1, <1>5

\* The recursion, step by step.
LEMMA ReachedSteps ==
  ASSUME NEW succ, NEW S
  PROVE  /\ Reached(succ, S, 0) = S
         /\ \A n \in Nat : Reached(succ, S, n + 1) = Expand(succ, Reached(succ, S, n))
<1>1. Reached(succ, S, 0) = S
  <2>1. PICK g : IsWalk(g, succ, S, 0) /\ Reached(succ, S, 0) = g[0]
    BY ReachedIsWalk
  <2> QED
    BY <2>1 DEF IsWalk
<1>2. ASSUME NEW n \in Nat
      PROVE  Reached(succ, S, n + 1) = Expand(succ, Reached(succ, S, n))
  <2>1. PICK g : IsWalk(g, succ, S, n) /\ Reached(succ, S, n) = g[n]
    BY ReachedIsWalk
  <2>2. PICK h : IsWalk(h, succ, S, n + 1) /\ Reached(succ, S, n + 1) = h[n + 1]
    BY ReachedIsWalk, n + 1 \in Nat
  <2>3. g[n] = h[n]
    <3>1. n + 1 \in Nat /\ n <= n /\ n <= n + 1
      OBVIOUS
    <3> QED
      BY <2>1, <2>2, <3>1, WalksAgree
  <2>4. h[n + 1] = Expand(succ, h[n])
    <3>1. n + 1 \in 1 .. n + 1 /\ (n + 1) - 1 = n
      OBVIOUS
    <3>2. h[n + 1] = Expand(succ, h[(n + 1) - 1])
      BY <2>2, <3>1 DEF IsWalk
    <3> QED
      BY <3>1, <3>2
  <2> QED
    BY <2>1, <2>2, <2>3, <2>4
<1> QED
  BY <1>1, <1>2

----------------------------------------------------------------------------
(* The closure.                                                            *)

IsClosed(succ, T) == \A x \in T : succ[x] \subseteq T

\* Nothing outside a closed set is reached from inside, and S itself is
\* reached.
LEMMA ReachedLeast ==
  ASSUME NEW succ, NEW S, NEW n \in Nat, NEW T, S \subseteq T, IsClosed(succ, T)
  PROVE  S \subseteq Reached(succ, S, n) /\ Reached(succ, S, n) \subseteq T
<1> DEFINE N == {k \in Nat : /\ S \subseteq Reached(succ, S, k)
                             /\ Reached(succ, S, k) \subseteq T}
<1>1. 0 \in N
  BY ReachedSteps
<1>2. ASSUME NEW k \in N PROVE k + 1 \in N
  <2>1. Reached(succ, S, k + 1) = Expand(succ, Reached(succ, S, k))
    BY ReachedSteps
  <2>2. S \subseteq Reached(succ, S, k) /\ Reached(succ, S, k) \subseteq T
    OBVIOUS
  <2> QED
    BY <2>1, <2>2 DEF Expand, IsClosed
<1>3. N = Nat
  <2>1. N \in SUBSET Nat
    OBVIOUS
  <2> HIDE DEF N
  <2> QED BY <1>1, <1>2, <2>1, SetInduction
<1> QED
  BY <1>3

\* A step that reaches nothing new closes the set.
LEMMA StableIsClosed ==
  ASSUME NEW succ, NEW T, Expand(succ, T) \subseteq T
  PROVE  IsClosed(succ, T)
BY DEF Expand, IsClosed

\* While new vertices are reached, there is one at least for each step.
LEMMA ReachedGrows ==
  ASSUME NEW U, IsFiniteSet(U), NEW succ \in Graph(U), NEW S \in SUBSET U
  PROVE  \A n \in Nat : \/ IsClosed(succ, Reached(succ, S, n))
                        \/ Cardinality(Reached(succ, S, n)) >= n
<1> DEFINE R(n) == Reached(succ, S, n)
           N == {n \in Nat : IsClosed(succ, R(n)) \/ Cardinality(R(n)) >= n}
<1>1. \A n \in Nat : R(n) \subseteq U
  <2>1. IsClosed(succ, U)
    BY DEF Graph, IsClosed
  <2> QED
    BY <2>1, ReachedLeast
<1>2. \A n \in Nat : IsFiniteSet(R(n)) /\ Cardinality(R(n)) \in Nat
  BY <1>1, FS_Subset, FS_CardinalityType
<1>3. 0 \in N
  <2>1. Cardinality(R(0)) \in Nat
    BY <1>2
  <2> QED
    BY <2>1
<1>4. ASSUME NEW n \in N PROVE n + 1 \in N
  <2>1. R(n + 1) = Expand(succ, R(n))
    BY ReachedSteps
  <2> HIDE DEF R
  <2>2. CASE R(n + 1) \subseteq R(n)
    <3>1. R(n + 1) = R(n)
      BY <2>1, <2>2, ExpandGrows
    <3>2. IsClosed(succ, R(n))
      BY <2>1, <3>1, StableIsClosed
    <3> QED
      BY <3>1, <3>2
  <2>3. CASE ~(R(n + 1) \subseteq R(n))
    <3>1. ~IsClosed(succ, R(n))
      BY <2>1, <2>3 DEF Expand, IsClosed
    <3>2. Cardinality(R(n)) >= n
      BY <3>1
    <3>3. R(n) \subseteq R(n + 1) /\ R(n) # R(n + 1)
      BY <2>1, <2>3 DEF Expand
    <3>4. n + 1 \in Nat /\ n \in Nat
      OBVIOUS
    <3>5. IsFiniteSet(R(n + 1)) /\ Cardinality(R(n + 1)) \in Nat /\ Cardinality(R(n)) \in Nat
      BY <1>2, <3>4
    <3>6. Cardinality(R(n)) < Cardinality(R(n + 1))
      BY <3>3, <3>5, FS_Subset
    <3> QED
      BY <3>2, <3>4, <3>5, <3>6
  <2> QED
    BY <2>2, <2>3
<1>5. N = Nat
  <2>1. N \in SUBSET Nat
    OBVIOUS
  <2> HIDE DEF N
  <2> QED BY <1>3, <1>4, <2>1, SetInduction
<1> QED
  BY <1>5

\* As many steps as there are vertices reach everything.
LEMMA ReachedClosed ==
  ASSUME NEW U, IsFiniteSet(U), NEW succ \in Graph(U), NEW S \in SUBSET U
  PROVE  /\ Reached(succ, S, Cardinality(U)) \subseteq U
         /\ IsClosed(succ, Reached(succ, S, Cardinality(U)))
<1> DEFINE C == Reached(succ, S, Cardinality(U))
<1>1. Cardinality(U) \in Nat
  BY FS_CardinalityType
<1>2. IsClosed(succ, U)
  BY DEF Graph, IsClosed
<1>3. C \subseteq U
  BY <1>1, <1>2, ReachedLeast
<1>4. CASE IsClosed(succ, C)
  BY <1>3, <1>4
<1>5. CASE Cardinality(C) >= Cardinality(U)
  <2> HIDE DEF C
  <2>1. C = U
    <3>1. IsFiniteSet(C) /\ Cardinality(C) \in Nat
      BY <1>3, FS_Subset, FS_CardinalityType
    <3>2. Cardinality(C) <= Cardinality(U) /\ (Cardinality(U) = Cardinality(C) => U = C)
      BY <1>3, FS_Subset
    <3> QED
      BY <3>1, <3>2, <1>1, <1>5
  <2> QED
    BY <2>1, <1>2, <1>3 DEF C
<1> QED
  BY <1>1, <1>4, <1>5, ReachedGrows

\* Where a rank decreases along the edges, as many steps as its greatest
\* value reach everything: what is new after n steps has a rank of at most
\* D - n.
LEMMA ReachedClosedByRank ==
  ASSUME NEW U, NEW succ \in Graph(U), NEW S \in SUBSET U,
         NEW D \in Nat, NEW rank, \A x \in U : rank[x] \in 0 .. D,
         \A x \in U : \A y \in succ[x] : rank[y] < rank[x]
  PROVE  /\ Reached(succ, S, D) \subseteq U
         /\ IsClosed(succ, Reached(succ, S, D))
<1> DEFINE R(n) == Reached(succ, S, n)
           N == {n \in Nat : \A x \in R(n + 1) \ R(n) : rank[x] <= D - n - 1}
<1>1. \A n \in Nat : R(n) \subseteq U
  <2>1. IsClosed(succ, U)
    BY DEF Graph, IsClosed
  <2> QED
    BY <2>1, ReachedLeast
<1>2. \A n \in Nat : R(n + 1) = Expand(succ, R(n))
  BY ReachedSteps
<1> HIDE DEF R
<1>3. ASSUME NEW n \in Nat, NEW x \in R(n + 1) \ R(n)
      PROVE  \E y \in R(n) : x \in succ[y]
  BY <1>2 DEF Expand
<1>4. 0 \in N
  <2> SUFFICES ASSUME NEW x \in R(0 + 1) \ R(0) PROVE rank[x] <= D - 0 - 1
    OBVIOUS
  <2>1. PICK y \in R(0) : x \in succ[y]
    BY <1>3
  <2>2. y \in U /\ x \in U
    BY <2>1, <1>1 DEF Graph
  <2> QED
    BY <2>1, <2>2
<1>5. ASSUME NEW n \in N PROVE n + 1 \in N
  <2> SUFFICES ASSUME NEW x \in R((n + 1) + 1) \ R(n + 1)
               PROVE  rank[x] <= D - (n + 1) - 1
    OBVIOUS
  <2>1. n \in Nat /\ n + 1 \in Nat
    OBVIOUS
  <2>2. PICK y \in R(n + 1) : x \in succ[y]
    BY <1>3, <2>1
  <2>3. y \notin R(n)
    BY <2>1, <2>2, <1>2 DEF Expand
  <2>4. rank[y] <= D - n - 1
    BY <2>2, <2>3
  <2>5. y \in U /\ x \in U
    BY <2>1, <2>2, <1>1 DEF Graph
  <2> QED
    BY <2>1, <2>2, <2>4, <2>5
<1>6. N = Nat
  <2>1. N \in SUBSET Nat
    OBVIOUS
  <2> HIDE DEF N
  <2> QED BY <1>4, <1>5, <2>1, SetInduction
<1>7. R(D + 1) \subseteq R(D)
  <2> SUFFICES ASSUME NEW x \in R(D + 1) \ R(D) PROVE FALSE
    OBVIOUS
  <2>1. rank[x] <= D - D - 1
    BY <1>6
  <2>2. x \in U
    BY <1>1
  <2> QED
    BY <2>1, <2>2
<1>8. IsClosed(succ, R(D))
  BY <1>2, <1>7, StableIsClosed
<1> QED
  BY <1>1, <1>8 DEF R

----------------------------------------------------------------------------
(* Closures of parts of S, where n steps close every set.                  *)

Closes(U, succ, n) ==
  \A T \in SUBSET U : Reached(succ, T, n) \subseteq U /\ IsClosed(succ, Reached(succ, T, n))

LEMMA ReachedMonotone ==
  ASSUME NEW U, NEW succ \in Graph(U), NEW n \in Nat, Closes(U, succ, n),
         NEW T \in SUBSET U, NEW S \in SUBSET U, S \subseteq Reached(succ, T, n)
  PROVE  Reached(succ, S, n) \subseteq Reached(succ, T, n)
<1>1. IsClosed(succ, Reached(succ, T, n))
  BY DEF Closes
<1> QED
  BY <1>1, ReachedLeast

\* What is reached from S is reached from one member of S.
LEMMA ReachedFromOne ==
  ASSUME NEW U, NEW succ \in Graph(U), NEW n \in Nat, Closes(U, succ, n),
         NEW S \in SUBSET U, NEW x \in Reached(succ, S, n)
  PROVE  \E y \in S : x \in Reached(succ, {y}, n)
<1> DEFINE T == UNION {Reached(succ, {y}, n) : y \in S}
<1>1. \A y \in S : IsClosed(succ, Reached(succ, {y}, n))
  BY DEF Closes
<1>2. IsClosed(succ, T)
  BY <1>1 DEF IsClosed
<1>3. \A y \in S : y \in Reached(succ, {y}, n)
  <2> SUFFICES ASSUME NEW y \in S PROVE y \in Reached(succ, {y}, n)
    OBVIOUS
  <2>1. {y} \subseteq U /\ IsClosed(succ, U)
    BY DEF Graph, IsClosed
  <2>2. {y} \subseteq Reached(succ, {y}, n)
    BY <2>1, ReachedLeast
  <2> QED
    BY <2>2
<1>4. S \subseteq T
  BY <1>3
<1>5. Reached(succ, S, n) \subseteq T
  <2> HIDE DEF T
  <2> QED BY <1>2, <1>4, ReachedLeast
<1> QED
  BY <1>5

\* What is reached from y is y or reached from one of its successors.
LEMMA ReachedUnfold ==
  ASSUME NEW U, NEW succ \in Graph(U), NEW n \in Nat, Closes(U, succ, n),
         NEW y \in U, NEW x \in Reached(succ, {y}, n), x # y
  PROVE  x \in Reached(succ, succ[y], n)
<1> DEFINE T == {y} \cup Reached(succ, succ[y], n)
<1>1. succ[y] \subseteq U
  BY DEF Graph
<1>2. IsClosed(succ, Reached(succ, succ[y], n)) /\ IsClosed(succ, U)
  BY <1>1 DEF Closes, Graph, IsClosed
<1>3. succ[y] \subseteq Reached(succ, succ[y], n)
  BY <1>1, <1>2, ReachedLeast
<1>4. IsClosed(succ, T)
  BY <1>2, <1>3 DEF IsClosed
<1>5. Reached(succ, {y}, n) \subseteq T
  <2>1. {y} \subseteq T
    OBVIOUS
  <2> HIDE DEF T
  <2> QED BY <1>4, <2>1, ReachedLeast
<1> QED
  BY <1>5

----------------------------------------------------------------------------
(* Sequences: a list that is extended at the end, a stack of calls.        *)

LEMMA Concatenation ==
  ASSUME NEW S, NEW s \in Seq(S), NEW t \in Seq(S)
  PROVE  /\ s \o t \in Seq(S) /\ Len(s \o t) = Len(s) + Len(t)
         /\ Len(s) \in Nat /\ Len(t) \in Nat
         /\ \A i \in 1 .. Len(s) : (s \o t)[i] = s[i]
         /\ \A i \in 1 .. Len(t) : (s \o t)[i + Len(s)] = t[i]
OBVIOUS

LEMMA TailOf ==
  ASSUME NEW S, NEW s \in Seq(S), s # <<>>
  PROVE  /\ Tail(s) \in Seq(S) /\ Len(Tail(s)) = Len(s) - 1 /\ Len(s) \in Nat \ {0}
         /\ DOMAIN s = 1 .. Len(s) /\ s[1] \in S
         /\ \A i \in 1 .. Len(s) - 1 : Tail(s)[i] = s[i + 1]
OBVIOUS

LEMMA RangeOf ==
  ASSUME NEW S, NEW s \in Seq(S)
  PROVE  /\ Range(s) \subseteq S /\ DOMAIN s = 1 .. Len(s)
         /\ \A i \in DOMAIN s : s[i] \in S /\ s[i] \in Range(s)
BY DEF Range

LEMMA RangeOfConcatenation ==
  ASSUME NEW S, NEW s \in Seq(S), NEW t \in Seq(S)
  PROVE  Range(s \o t) = Range(s) \cup Range(t)
<1>1. Range(s \o t) \subseteq Range(s) \cup Range(t)
  BY DEF Range
<1>2. \A i \in DOMAIN s : i \in DOMAIN (s \o t) /\ (s \o t)[i] = s[i]
  OBVIOUS
<1>3. \A i \in DOMAIN t : i + Len(s) \in DOMAIN (s \o t) /\ (s \o t)[i + Len(s)] = t[i]
  OBVIOUS
<1>4. Range(s) \subseteq Range(s \o t)
  BY <1>2 DEF Range
<1>5. Range(t) \subseteq Range(s \o t)
  BY <1>3 DEF Range
<1> QED
  BY <1>1, <1>4, <1>5

LEMMA RangeOfTail ==
  ASSUME NEW S, NEW s \in Seq(S), s # <<>>
  PROVE  Range(s) = {s[1]} \cup Range(Tail(s))
<1> DEFINE t == Tail(s)
<1>1. /\ t \in Seq(S) /\ Len(t) = Len(s) - 1 /\ Len(s) \in Nat \ {0}
      /\ DOMAIN s = 1 .. Len(s) /\ \A i \in 1 .. Len(s) - 1 : t[i] = s[i + 1]
  BY TailOf
<1>2. DOMAIN t = 1 .. Len(s) - 1
  BY <1>1
<1> HIDE DEF t
<1>3. \A i \in DOMAIN s : i = 1 \/ (i - 1 \in DOMAIN t /\ t[i - 1] = s[i])
  BY <1>1, <1>2
<1>4. \A i \in DOMAIN t : i + 1 \in DOMAIN s /\ s[i + 1] = t[i]
  BY <1>1, <1>2
<1>5. 1 \in DOMAIN s
  BY <1>1
<1>6. Range(s) \subseteq {s[1]} \cup Range(t)
  BY <1>3 DEF Range
<1>7. {s[1]} \cup Range(t) \subseteq Range(s)
  BY <1>4, <1>5 DEF Range
<1> QED
  BY <1>6, <1>7 DEF t

LEMMA InjectiveConcatenation ==
  ASSUME NEW S, NEW s \in Seq(S), NEW t \in Seq(S),
         IsInjective(s), IsInjective(t), Range(s) \cap Range(t) = {}
  PROVE  IsInjective(s \o t)
<1> DEFINE u == s \o t
<1>1. /\ DOMAIN u = 1 .. Len(s) + Len(t) /\ DOMAIN s = 1 .. Len(s) /\ DOMAIN t = 1 .. Len(t)
      /\ Len(s) \in Nat /\ Len(t) \in Nat
  OBVIOUS
<1>2. \A i \in DOMAIN u : \/ i \in DOMAIN s /\ u[i] = s[i]
                          \/ i - Len(s) \in DOMAIN t /\ u[i] = t[i - Len(s)]
  OBVIOUS
<1> HIDE DEF u
<1>3. SUFFICES ASSUME NEW i \in DOMAIN u, NEW j \in DOMAIN u, u[i] = u[j] PROVE i = j
  BY DEF IsInjective, u
<1>4. \A k \in DOMAIN s : s[k] \in Range(s)
  BY DEF Range
<1>5. \A k \in DOMAIN t : t[k] \in Range(t)
  BY DEF Range
<1>6. CASE i \in DOMAIN s /\ u[i] = s[i] /\ j \in DOMAIN s /\ u[j] = s[j]
  BY <1>3, <1>6 DEF IsInjective
<1>7. CASE /\ i - Len(s) \in DOMAIN t /\ u[i] = t[i - Len(s)]
           /\ j - Len(s) \in DOMAIN t /\ u[j] = t[j - Len(s)]
  <2>1. i - Len(s) = j - Len(s)
    BY <1>3, <1>7 DEF IsInjective
  <2> QED
    BY <2>1, <1>1
<1> QED
  BY <1>2, <1>3, <1>4, <1>5, <1>6, <1>7

\* The recursive function of Among, up to n.
IsFilter(g, s, T, n) ==
  /\ DOMAIN g = 0 .. n
  /\ g[0] = <<>>
  /\ \A i \in 1 .. n : g[i] = IF s[i] \in T THEN Append(g[i - 1], s[i]) ELSE g[i - 1]

LEMMA FilterExists ==
  ASSUME NEW s, NEW T, NEW n \in Nat
  PROVE  \E g : IsFilter(g, s, T, n)
<1> DEFINE N == {k \in Nat : \E g : IsFilter(g, s, T, k)}
           Step(x, i) == IF s[i] \in T THEN Append(x, s[i]) ELSE x
<1>1. 0 \in N
  <2> DEFINE g == [i \in 0 .. 0 |-> <<>>]
  <2>1. IsFilter(g, s, T, 0)
    BY DEF IsFilter
  <2> QED
    BY <2>1
<1>2. ASSUME NEW k \in N PROVE k + 1 \in N
  <2>1. k \in Nat
    OBVIOUS
  <2>2. PICK g : IsFilter(g, s, T, k)
    OBVIOUS
  <2> DEFINE h == [i \in 0 .. k + 1 |-> IF i <= k THEN g[i] ELSE Step(g[k], k + 1)]
  <2>3. h[0] = <<>> /\ DOMAIN h = 0 .. k + 1
    BY <2>1, <2>2 DEF IsFilter
  <2>4. ASSUME NEW i \in 1 .. k + 1 PROVE h[i] = Step(h[i - 1], i)
    <3> HIDE DEF Step
    <3>1. CASE i <= k
      <4>1. i \in 1 .. k /\ i - 1 \in 0 .. k + 1 /\ i - 1 <= k
        BY <3>1, <2>1
      <4>2. h[i] = g[i] /\ h[i - 1] = g[i - 1]
        BY <4>1, <3>1, <2>1
      <4>3. g[i] = Step(g[i - 1], i)
        BY <4>1, <2>2 DEF IsFilter, Step
      <4> QED
        BY <4>2, <4>3
    <3>2. CASE i = k + 1
      BY <3>2, <2>1
    <3> QED
      BY <3>1, <3>2, <2>1
  <2>5. IsFilter(h, s, T, k + 1)
    <3> HIDE DEF h
    <3> QED BY <2>3, <2>4 DEF IsFilter
  <2> QED
    BY <2>1, <2>5
<1>3. N = Nat
  <2>1. N \in SUBSET Nat
    OBVIOUS
  <2> HIDE DEF N
  <2> QED BY <1>1, <1>2, <2>1, SetInduction
<1> QED
  BY <1>3

LEMMA AmongIsFilter ==
  ASSUME NEW S, NEW s \in Seq(S), NEW T
  PROVE  \E g : IsFilter(g, s, T, Len(s)) /\ Among(s, T) = g[Len(s)]
<1> DEFINE n == Len(s)
           G(f) == [i \in 0 .. n |->
                      IF i = 0 THEN <<>>
                      ELSE IF s[i] \in T THEN Append(f[i - 1], s[i]) ELSE f[i - 1]]
           F == CHOOSE f : f = G(f)
<1>1. Among(s, T) = F[n] /\ n \in Nat
  BY DEF Among
<1>2. PICK g : IsFilter(g, s, T, n)
  BY <1>1, FilterExists
<1> DEFINE h == [i \in 0 .. n |-> g[i]]
<1> HIDE DEF n
<1>3. h = G(h)
  <2> SUFFICES ASSUME NEW i \in 0 .. n PROVE h[i] = G(h)[i]
    OBVIOUS
  <2>1. CASE i = 0
    BY <2>1, <1>1, <1>2 DEF IsFilter
  <2>2. CASE i # 0
    <3>1. i \in 1 .. n /\ i - 1 \in 0 .. n
      BY <2>2, <1>1
    <3>2. g[i] = IF s[i] \in T THEN Append(g[i - 1], s[i]) ELSE g[i - 1]
      BY <3>1, <1>2 DEF IsFilter
    <3>3. h[i] = g[i] /\ h[i - 1] = g[i - 1]
      BY <3>1
    <3> HIDE DEF h
    <3> QED BY <3>2, <3>3, <2>2
  <2> QED
    BY <2>1, <2>2
<1>4. F = G(F)
  <2> HIDE DEF h
  <2>1. \E f : f = G(f)
    BY <1>3
  <2> QED
    BY <2>1
<1>5. IsFilter(F, s, T, n)
  <2> HIDE DEF F
  <2>1. DOMAIN F = 0 .. n /\ F[0] = <<>>
    BY <1>1, <1>4
  <2>2. ASSUME NEW i \in 1 .. n
        PROVE  F[i] = IF s[i] \in T THEN Append(F[i - 1], s[i]) ELSE F[i - 1]
    <3>1. i \in 0 .. n /\ i # 0
      BY <1>1
    <3> QED
      BY <1>4, <3>1
  <2> QED
    BY <2>1, <2>2 DEF IsFilter
<1> QED
  BY <1>1, <1>5 DEF n

\* Among keeps the members of s that are in T and no others.
LEMMA AmongKeeps ==
  ASSUME NEW S, NEW s \in Seq(S), NEW T
  PROVE  Among(s, T) \in Seq(S) /\ Range(Among(s, T)) = Range(s) \cap T
<1>1. PICK g : IsFilter(g, s, T, Len(s)) /\ Among(s, T) = g[Len(s)]
  BY AmongIsFilter
<1> DEFINE N == {k \in Nat : k <= Len(s) =>
                   g[k] \in Seq(S) /\ Range(g[k]) = {s[i] : i \in 1 .. k} \cap T}
<1>2. 0 \in N
  <2>1. g[0] = <<>> /\ {s[i] : i \in 1 .. 0} = {} /\ Range(<<>>) = {}
    BY <1>1 DEF IsFilter, Range
  <2>2. <<>> \in Seq(S)
    OBVIOUS
  <2>3. g[0] \in Seq(S) /\ Range(g[0]) = {s[i] : i \in 1 .. 0} \cap T
    BY <2>1, <2>2
  <2> QED
    BY <2>3
<1>3. ASSUME NEW k \in N PROVE k + 1 \in N
  <2> SUFFICES ASSUME k + 1 <= Len(s)
               PROVE  /\ g[k + 1] \in Seq(S)
                      /\ Range(g[k + 1]) = {s[i] : i \in 1 .. k + 1} \cap T
    OBVIOUS
  <2>1. k \in Nat /\ g[k] \in Seq(S) /\ Range(g[k]) = {s[i] : i \in 1 .. k} \cap T
    OBVIOUS
  <2>2. g[k + 1] = IF s[k + 1] \in T THEN Append(g[k], s[k + 1]) ELSE g[k]
    <3>1. k + 1 \in 1 .. Len(s) /\ (k + 1) - 1 = k
      BY <2>1
    <3>2. g[k + 1] = IF s[k + 1] \in T THEN Append(g[(k + 1) - 1], s[k + 1]) ELSE g[(k + 1) - 1]
      BY <3>1, <1>1 DEF IsFilter
    <3> QED
      BY <3>1, <3>2
  <2>3. {s[i] : i \in 1 .. k + 1} = {s[i] : i \in 1 .. k} \cup {s[k + 1]}
    BY <2>1
  <2>4. s[k + 1] \in S
    BY <2>1
  <2>5. ASSUME NEW x \in S, NEW t \in Seq(S) PROVE Range(Append(t, x)) = Range(t) \cup {x}
    <3>1. /\ DOMAIN Append(t, x) = DOMAIN t \cup {Len(t) + 1}
          /\ Append(t, x)[Len(t) + 1] = x /\ \A i \in DOMAIN t : Append(t, x)[i] = t[i]
      OBVIOUS
    <3> QED
      BY <3>1 DEF Range
  <2>6. CASE s[k + 1] \in T
    BY <2>1, <2>2, <2>3, <2>4, <2>5, <2>6
  <2>7. CASE s[k + 1] \notin T
    BY <2>1, <2>2, <2>3, <2>7
  <2> QED
    BY <2>6, <2>7
<1>4. N = Nat
  <2>1. N \in SUBSET Nat
    OBVIOUS
  <2> HIDE DEF N
  <2> QED BY <1>2, <1>3, <2>1, SetInduction
<1>5. Len(s) \in Nat /\ Len(s) <= Len(s) /\ Range(s) = {s[i] : i \in 1 .. Len(s)}
  BY DEF Range
<1> QED
  BY <1>1, <1>4, <1>5


\* Two entries of t are two of s, in the same order.
KeepsOrder(t, s) ==
  \A i, j \in 1 .. Len(t) : i < j =>
    \E l, m \in 1 .. Len(s) : l < m /\ t[i] = s[l] /\ t[j] = s[m]

\* Among keeps the order of what it keeps.
LEMMA AmongInOrder ==
  ASSUME NEW S, NEW s \in Seq(S), NEW T
  PROVE  KeepsOrder(Among(s, T), s)
<1>1. PICK g : IsFilter(g, s, T, Len(s)) /\ Among(s, T) = g[Len(s)]
  BY AmongIsFilter
<1> DEFINE Kept(r, k) == /\ r \in Seq(S)
                         /\ \A i \in 1 .. Len(r) : \E m \in 1 .. k : r[i] = s[m]
                         /\ \A i, j \in 1 .. Len(r) : i < j =>
                              \E l, m \in 1 .. k : l < m /\ r[i] = s[l] /\ r[j] = s[m]
           N == {k \in Nat : k <= Len(s) => Kept(g[k], k)}
<1>2. 0 \in N
  <2>1. g[0] = <<>>
    BY <1>1 DEF IsFilter
  <2>2. <<>> \in Seq(S) /\ 1 .. Len(<<>>) = {}
    OBVIOUS
  <2>3. Kept(<<>>, 0)
    BY <2>2
  <2>4. 0 \in Nat
    OBVIOUS
  <2> HIDE DEF Kept
  <2> QED
    BY <2>1, <2>3, <2>4
<1>3. ASSUME NEW k \in N PROVE k + 1 \in N
  <2> SUFFICES ASSUME k + 1 <= Len(s) PROVE Kept(g[k + 1], k + 1)
    OBVIOUS
  <2>1. k \in Nat /\ Kept(g[k], k)
    OBVIOUS
  <2>2. g[k + 1] = IF s[k + 1] \in T THEN Append(g[k], s[k + 1]) ELSE g[k]
    <3>1. k + 1 \in 1 .. Len(s) /\ (k + 1) - 1 = k
      BY <2>1
    <3>2. g[k + 1] = IF s[k + 1] \in T THEN Append(g[(k + 1) - 1], s[k + 1]) ELSE g[(k + 1) - 1]
      BY <3>1, <1>1 DEF IsFilter
    <3> QED
      BY <3>1, <3>2
  <2> DEFINE r == g[k]
             x == s[k + 1]
             u == Append(r, x)
  <2>3. x \in S /\ r \in Seq(S) /\ Len(r) \in Nat
    BY <2>1
  <2>4. \A i \in 1 .. Len(r) : \E m \in 1 .. k : r[i] = s[m]
    BY <2>1
  <2>5. \A i, j \in 1 .. Len(r) : i < j =>
         \E l, m \in 1 .. k : l < m /\ r[i] = s[l] /\ r[j] = s[m]
    BY <2>1
  <2>6. \A m \in 1 .. k : m \in 1 .. k + 1 /\ m < k + 1
    BY <2>1
  <2>7. k + 1 \in 1 .. k + 1
    BY <2>1
  <2> HIDE DEF r
  <2>8. /\ u \in Seq(S) /\ Len(u) = Len(r) + 1 /\ u[Len(r) + 1] = x
        /\ \A i \in 1 .. Len(r) : u[i] = r[i]
    BY <2>3
  <2>9. ASSUME NEW i \in 1 .. Len(r) PROVE \E m \in 1 .. k + 1 : r[i] = s[m]
    <3>1. PICK m \in 1 .. k : r[i] = s[m]
      BY <2>4
    <3>2. m \in 1 .. k + 1
      BY <2>6
    <3> QED
      BY <3>1, <3>2
  <2>10. ASSUME NEW i \in 1 .. Len(r), NEW j \in 1 .. Len(r), i < j
         PROVE  \E l, m \in 1 .. k + 1 : l < m /\ r[i] = s[l] /\ r[j] = s[m]
    <3>1. PICK l \in 1 .. k, m \in 1 .. k : l < m /\ r[i] = s[l] /\ r[j] = s[m]
      BY <2>5, <2>10
    <3>2. l \in 1 .. k + 1 /\ m \in 1 .. k + 1
      BY <2>6
    <3> QED
      BY <3>1, <3>2
  <2>11. Kept(r, k + 1)
    BY <2>3, <2>9, <2>10
  <2>12. Kept(u, k + 1)
    <3> HIDE DEF u
    <3>1. \A i \in 1 .. Len(u) : i \in 1 .. Len(r) \/ i = Len(r) + 1
      BY <2>3, <2>8
    <3>2. ASSUME NEW i \in 1 .. Len(u) PROVE \E m \in 1 .. k + 1 : u[i] = s[m]
      <4>1. CASE i \in 1 .. Len(r)
        <5>1. PICK m \in 1 .. k + 1 : r[i] = s[m]
          BY <2>9, <4>1
        <5>2. u[i] = r[i]
          BY <2>8, <4>1
        <5> QED
          BY <5>1, <5>2
      <4>2. CASE i = Len(r) + 1
        <5>1. u[i] = s[k + 1]
          BY <2>8, <4>2
        <5> QED
          BY <2>7, <5>1
      <4> QED
        BY <3>1, <4>1, <4>2
    <3>3. ASSUME NEW i \in 1 .. Len(u), NEW j \in 1 .. Len(u), i < j
          PROVE  \E l, m \in 1 .. k + 1 : l < m /\ u[i] = s[l] /\ u[j] = s[m]
      <4>1. i \in 1 .. Len(r)
        BY <2>3, <2>8, <3>3
      <4>2. CASE j \in 1 .. Len(r)
        <5>1. PICK l \in 1 .. k + 1, m \in 1 .. k + 1 : l < m /\ r[i] = s[l] /\ r[j] = s[m]
          BY <2>10, <3>3, <4>1, <4>2
        <5>2. u[i] = r[i] /\ u[j] = r[j]
          BY <2>8, <4>1, <4>2
        <5> QED
          BY <5>1, <5>2
      <4>3. CASE j = Len(r) + 1
        <5>1. PICK m \in 1 .. k : r[i] = s[m]
          BY <2>4, <4>1
        <5>2. m \in 1 .. k + 1 /\ m < k + 1
          BY <2>6
        <5>3. u[i] = s[m] /\ u[j] = s[k + 1]
          BY <2>8, <4>1, <4>3, <5>1
        <5> QED
          BY <2>7, <5>2, <5>3
      <4> QED
        BY <3>1, <4>2, <4>3
    <3> QED
      BY <2>8, <3>2, <3>3
  <2> HIDE DEF Kept
  <2> QED
    BY <2>2, <2>11, <2>12 DEF r
<1>4. N = Nat
  <2>1. N \in SUBSET Nat
    OBVIOUS
  <2> HIDE DEF N
  <2> QED BY <1>2, <1>3, <2>1, SetInduction
<1>5. Len(s) \in Nat /\ Len(s) <= Len(s)
  OBVIOUS
<1>6. Kept(g[Len(s)], Len(s))
  <2>1. Len(s) \in N
    <3> HIDE DEF N
    <3> QED BY <1>4, <1>5
  <2> HIDE DEF Kept
  <2> QED BY <1>5, <2>1
<1> QED
  BY <1>1, <1>6 DEF KeepsOrder
=============================================================================
