---------------------------- MODULE NamesProofs ----------------------------
(***************************************************************************)
(* The names of Names.tla, for every set of identifiers and every number   *)
(* of declarations.  The naming functions are recursive functions: each    *)
(* one is first shown to satisfy its equations (ParentRecursion), and then *)
(* followed along the contexts of a declaration by strong induction.       *)
(***************************************************************************)
EXTENDS Names, ClosureProofs

----------------------------------------------------------------------------
(* Natural numbers.                                                        *)

LEMMA StrongInduction ==
  ASSUME NEW T \in SUBSET Nat,
         \A n \in Nat : (\A m \in Nat : m < n => m \in T) => n \in T
  PROVE  T = Nat
<1> DEFINE U == {n \in Nat : \A m \in Nat : m < n => m \in T}
<1>1. 0 \in U
  OBVIOUS
<1>2. ASSUME NEW n \in U PROVE n + 1 \in U
  OBVIOUS
<1>3. U = Nat
  <2>1. U \in SUBSET Nat
    OBVIOUS
  <2> HIDE DEF U
  <2> QED BY <1>1, <1>2, <2>1, SetInduction
<1> QED
  BY <1>3

LEMMA MinIs ==
  ASSUME NEW S \in SUBSET Nat, NEW m \in S, \A y \in S : m <= y
  PROVE  Min(S) = m
<1> DEFINE x == CHOOSE x \in S : \A y \in S : x =< y
<1>1. x \in S /\ \A y \in S : x =< y
  OBVIOUS
<1>2. Min(S) = x
  BY DEF Min
<1> HIDE DEF x
<1>3. x \in Nat /\ m \in Nat /\ x <= m /\ m <= x
  BY <1>1
<1> QED
  BY <1>2, <1>3

LEMMA MinExists ==
  ASSUME NEW S \in SUBSET Nat, S # {}
  PROVE  Min(S) \in S /\ \A y \in S : Min(S) <= y
<1>1. PICK x \in S : \A y \in S : ~(<<y, x>> \in Less)
  BY LessWF, WFMin
<1>2. ASSUME NEW y \in S PROVE x <= y
  <2>1. x \in Nat /\ y \in Nat
    OBVIOUS
  <2>2. ~(<<y, x>> \in Less)
    BY <1>1
  <2> QED BY <2>1, <2>2 DEF Less
<1> QED
  BY <1>2, MinIs

----------------------------------------------------------------------------
(* Functions that are defined by recursion on the contexts.                *)

\* p leads from each of 1 .. n down to 0.
IsParent(p, n) == \A i \in 1 .. n : p[i] \in Nat /\ p[i] < i

IsRecursive(f, n, p, v, G) == f[0] = v /\ \A i \in 1 .. n : f[i] = G[<<i, f[p[i]]>>]

LEMMA ParentRecursion ==
  ASSUME NEW n \in Nat, NEW p, IsParent(p, n), NEW V, NEW v0 \in V,
         NEW G \in [(1 .. n) \X V -> V]
  PROVE  \E f \in [0 .. n -> V] : IsRecursive(f, n, p, v0, G)
<1> DEFINE P(k) == \E f \in [0 .. k -> V] :
                      f[0] = v0 /\ \A i \in 1 .. k : f[i] = G[<<i, f[p[i]]>>]
           T == {k \in Nat : k <= n => P(k)}
<1>1. 0 \in T
  <2> DEFINE f == [i \in 0 .. 0 |-> v0]
  <2>1. f \in [0 .. 0 -> V] /\ f[0] = v0 /\ \A i \in 1 .. 0 : f[i] = G[<<i, f[p[i]]>>]
    OBVIOUS
  <2> HIDE DEF f
  <2> QED BY <2>1
<1>2. ASSUME NEW k \in T PROVE k + 1 \in T
  <2> SUFFICES ASSUME k + 1 <= n PROVE P(k + 1)
    OBVIOUS
  <2>1. PICK f \in [0 .. k -> V] :
           f[0] = v0 /\ \A i \in 1 .. k : f[i] = G[<<i, f[p[i]]>>]
    OBVIOUS
  <2>2. p[k + 1] \in 0 .. k
    BY DEF IsParent
  <2> DEFINE x == G[<<k + 1, f[p[k + 1]]>>]
             g == [i \in 0 .. k + 1 |-> IF i <= k THEN f[i] ELSE x]
  <2>3. x \in V
    <3>1. <<k + 1, f[p[k + 1]]>> \in (1 .. n) \X V
      BY <2>2
    <3> QED BY <3>1
  <2>4. g \in [0 .. k + 1 -> V] /\ g[0] = v0 /\ g[k + 1] = x
    <3> HIDE DEF x
    <3> QED BY <2>1, <2>3
  <2>5. \A i \in 0 .. k : g[i] = f[i]
    OBVIOUS
  <2> HIDE DEF g
  <2>6. ASSUME NEW i \in 1 .. k + 1 PROVE g[i] = G[<<i, g[p[i]]>>]
    <3>1. CASE i = k + 1
      BY <3>1, <2>2, <2>4, <2>5
    <3>2. CASE i # k + 1
      <4>1. i \in 1 .. k /\ p[i] \in 0 .. k
        BY <3>2 DEF IsParent
      <4> QED BY <4>1, <2>1, <2>5
    <3> QED BY <3>1, <3>2
  <2> QED BY <2>4, <2>6
<1>3. T = Nat
  <2>1. T \in SUBSET Nat
    OBVIOUS
  <2> HIDE DEF T
  <2> QED BY <1>1, <1>2, <2>1, SetInduction
<1>4. n \in T
  BY <1>3
<1> QED
  BY <1>4 DEF IsRecursive

\* Chain satisfies its equations.
LEMMA ChainIs ==
  ASSUME NEW n \in Nat, NEW p, IsParent(p, n)
  PROVE  /\ Chain(p, n)[0] = {}
         /\ \A i \in 1 .. n : Chain(p, n)[i] = {i} \cup Chain(p, n)[p[i]]
<1> DEFINE E(f) == [i \in 0 .. n |-> IF i = 0 THEN {} ELSE {i} \cup f[p[i]]]
           C == CHOOSE f : f = E(f)
           V == SUBSET Nat
           G == [q \in (1 .. n) \X V |-> {q[1]} \cup q[2]]
<1>1. Chain(p, n) = C
  BY DEF Chain
<1>2. G \in [(1 .. n) \X V -> V] /\ {} \in V
  OBVIOUS
<1>3. PICK f \in [0 .. n -> V] : IsRecursive(f, n, p, {}, G)
  <2> HIDE DEF V, G
  <2> QED BY <1>2, ParentRecursion, Zenon
<1>4. ASSUME NEW i \in 1 .. n PROVE f[i] = {i} \cup f[p[i]]
  <2>1. p[i] \in 0 .. n
    BY DEF IsParent
  <2>2. <<i, f[p[i]]>> \in (1 .. n) \X V
    BY <2>1
  <2> QED BY <2>2, <1>3 DEF IsRecursive
<1>5. f = E(f)
  <2>1. \A i \in 0 .. n : f[i] = E(f)[i]
    BY <1>3, <1>4 DEF IsRecursive
  <2> QED BY <2>1
<1>6. C = E(C)
  BY <1>5
<1> HIDE DEF C
<1> QED
  BY <1>1, <1>6 DEF IsParent

----------------------------------------------------------------------------
(* Translation units and the contexts of their declarations.               *)

Id == Ident \cup {""}
Decl == [kind : Kinds, ctx : Nat, id : Id, tdef : Id, key : Id, of : Nat]

\* Every context is an earlier declaration that can be one.
Unit(ds) ==
  /\ ds \in Seq(Decl)
  /\ \A i \in 1 .. Len(ds) :
       ds[i].ctx < i /\ (ds[i].ctx # 0 => ds[ds[i].ctx].kind \in Contexts)

Anc(ds) == getNonIgnorableAncestor(ds)
Ctx(ds) == [j \in DOMAIN ds |-> ds[j].ctx]
Around(ds) == Chain(Ctx(ds), Len(ds))

LEMMA UnitType ==
  ASSUME NEW ds, Unit(ds)
  PROVE  /\ Len(ds) \in Nat /\ DOMAIN ds = 1 .. Len(ds)
         /\ \A i \in 1 .. Len(ds) : ds[i] \in Decl /\ ds[i].ctx \in Nat /\ ds[i].ctx < i
         /\ IsParent(Ctx(ds), Len(ds))
<1>1. Len(ds) \in Nat /\ DOMAIN ds = 1 .. Len(ds) /\ \A i \in 1 .. Len(ds) : ds[i] \in Decl
  BY DEF Unit
<1>2. \A i \in 1 .. Len(ds) : ds[i].ctx \in Nat /\ ds[i].ctx < i
  BY <1>1 DEF Unit, Decl
<1> QED
  BY <1>1, <1>2 DEF IsParent, Ctx

LEMMA AroundIs ==
  ASSUME NEW ds, Unit(ds)
  PROVE  /\ Around(ds)[0] = {}
         /\ \A i \in 1 .. Len(ds) : Around(ds)[i] = {i} \cup Around(ds)[ds[i].ctx]
<1>1. \A i \in 1 .. Len(ds) : Ctx(ds)[i] = ds[i].ctx
  BY UnitType DEF Ctx
<1>2. /\ Around(ds)[0] = {}
      /\ \A i \in 1 .. Len(ds) : Around(ds)[i] = {i} \cup Around(ds)[Ctx(ds)[i]]
  BY UnitType, ChainIs DEF Around
<1> QED
  BY <1>1, <1>2

\* getNonIgnorableAncestor satisfies its equation.
LEMMA AncIs ==
  ASSUME NEW ds, Unit(ds)
  PROVE  \A i \in 1 .. Len(ds) :
           Anc(ds)[i] = IF isIgnorableContext(ds, ds[i].ctx) THEN Anc(ds)[ds[i].ctx]
                        ELSE ds[i].ctx
<1> DEFINE n == Len(ds)
           E(f) == [i \in DOMAIN ds |->
                      IF isIgnorableContext(ds, ds[i].ctx) THEN f[ds[i].ctx] ELSE ds[i].ctx]
           A == CHOOSE f : f = E(f)
           G == [q \in (1 .. n) \X Nat |->
                   IF isIgnorableContext(ds, ds[q[1]].ctx) THEN q[2] ELSE ds[q[1]].ctx]
<1>1. Anc(ds) = A
  BY DEF Anc, getNonIgnorableAncestor
<1>2. n \in Nat /\ DOMAIN ds = 1 .. n /\ \A i \in 1 .. n : ds[i].ctx \in Nat /\ ds[i].ctx < i
  BY UnitType
<1>3. G \in [(1 .. n) \X Nat -> Nat]
  BY <1>2
<1>4. PICK f \in [0 .. n -> Nat] : IsRecursive(f, n, Ctx(ds), 0, G)
  <2>1. IsParent(Ctx(ds), n) /\ 0 \in Nat
    BY UnitType
  <2> HIDE DEF n, G
  <2> QED BY <1>2, <1>3, <2>1, ParentRecursion, Zenon
<1>5. ASSUME NEW i \in 1 .. n
      PROVE  f[i] = IF isIgnorableContext(ds, ds[i].ctx) THEN f[ds[i].ctx] ELSE ds[i].ctx
  <2>1. ds[i].ctx \in 0 .. n /\ Ctx(ds)[i] = ds[i].ctx
    BY <1>2 DEF Ctx
  <2>2. <<i, f[ds[i].ctx]>> \in (1 .. n) \X Nat
    BY <2>1
  <2>3. f[i] = G[<<i, f[ds[i].ctx]>>]
    <3> HIDE DEF G
    <3> QED BY <1>4, <2>1 DEF IsRecursive
  <2> QED BY <2>2, <2>3
<1> DEFINE g == [i \in DOMAIN ds |-> f[i]]
<1>6. g = E(g)
  <2>1. ASSUME NEW i \in 1 .. n PROVE g[i] = E(g)[i]
    <3>1. CASE isIgnorableContext(ds, ds[i].ctx)
      <4>1. ds[i].ctx \in 1 .. n
        BY <3>1, <1>2 DEF isIgnorableContext, Kind
      <4> QED BY <4>1, <1>2, <1>5, <3>1
    <3>2. CASE ~isIgnorableContext(ds, ds[i].ctx)
      BY <1>2, <1>5, <3>2
    <3> QED BY <3>1, <3>2
  <2> HIDE DEF n
  <2> QED BY <2>1, <1>2
<1>7. A = E(A)
  <2> HIDE DEF g
  <2> QED BY <1>6
<1> HIDE DEF A
<1> QED
  BY <1>1, <1>2, <1>7

\* The ancestor of a declaration is 0 or a namespace or a class around it.
LEMMA AncType ==
  ASSUME NEW ds, Unit(ds)
  PROVE  \A i \in 1 .. Len(ds) :
           /\ Anc(ds)[i] \in Nat /\ Anc(ds)[i] < i
           /\ Anc(ds)[i] # 0 => ds[Anc(ds)[i]].kind \in {"namespace", "record"}
           /\ Around(ds)[Anc(ds)[i]] \subseteq Around(ds)[i]
<1> DEFINE P(i) == /\ Anc(ds)[i] \in Nat /\ Anc(ds)[i] < i
                   /\ Anc(ds)[i] # 0 => ds[Anc(ds)[i]].kind \in {"namespace", "record"}
                   /\ Around(ds)[Anc(ds)[i]] \subseteq Around(ds)[i]
           T == {i \in Nat : i \in 1 .. Len(ds) => P(i)}
<1>1. ASSUME NEW i \in Nat, \A m \in Nat : m < i => m \in T PROVE i \in T
  <2> SUFFICES ASSUME i \in 1 .. Len(ds) PROVE P(i)
    OBVIOUS
  <2> DEFINE c == ds[i].ctx
  <2>1. Len(ds) \in Nat /\ c \in Nat /\ c < i /\ (c # 0 => ds[c].kind \in Contexts)
    BY UnitType DEF Unit
  <2>2. Around(ds)[c] \subseteq Around(ds)[i]
    BY AroundIs
  <2>3. CASE isIgnorableContext(ds, c)
    <3>1. c # 0
      BY <2>3 DEF isIgnorableContext, Kind
    <3>2. c \in 1 .. Len(ds) /\ c \in T
      BY <2>1, <3>1, <1>1
    <3>3. P(c) /\ Anc(ds)[i] = Anc(ds)[c]
      BY <3>2, <2>3, AncIs
    <3> HIDE DEF c
    <3> QED BY <3>3, <2>1, <2>2
  <2>4. CASE ~isIgnorableContext(ds, c)
    <3>1. Anc(ds)[i] = c
      BY <2>4, AncIs
    <3>2. c # 0 => ds[c].kind \in {"namespace", "record"}
      BY <2>1, <2>4 DEF isIgnorableContext, Kind, Contexts
    <3> HIDE DEF c
    <3> QED BY <3>1, <3>2, <2>1, <2>2
  <2> QED BY <2>3, <2>4
<1>2. T = Nat
  <2>1. T \in SUBSET Nat
    OBVIOUS
  <2> HIDE DEF T
  <2> QED BY <1>1, <2>1, StrongInduction
<1>3. \A i \in 1 .. Len(ds) : i \in T
  BY <1>2, UnitType
<1> QED
  BY <1>3

\* What is around a declaration is not after it and is nested.
LEMMA AroundType ==
  ASSUME NEW ds, Unit(ds)
  PROVE  \A i \in 0 .. Len(ds) :
           /\ Around(ds)[i] \subseteq 1 .. i
           /\ \A j \in Around(ds)[i] : Around(ds)[j] \subseteq Around(ds)[i]
<1> DEFINE P(i) == /\ Around(ds)[i] \subseteq 1 .. i
                   /\ \A j \in Around(ds)[i] : Around(ds)[j] \subseteq Around(ds)[i]
           T == {i \in Nat : i \in 0 .. Len(ds) => P(i)}
<1>1. ASSUME NEW i \in Nat, \A m \in Nat : m < i => m \in T PROVE i \in T
  <2> SUFFICES ASSUME i \in 0 .. Len(ds) PROVE P(i)
    OBVIOUS
  <2>1. CASE i = 0
    BY <2>1, AroundIs
  <2>2. CASE i # 0
    <3> DEFINE c == ds[i].ctx
    <3>1. i \in 1 .. Len(ds) /\ Len(ds) \in Nat
      BY <2>2, UnitType
    <3>2. c \in Nat /\ c < i /\ c \in 0 .. Len(ds)
      BY <3>1, UnitType
    <3>3. P(c)
      BY <3>2, <1>1
    <3>4. Around(ds)[i] = {i} \cup Around(ds)[c]
      BY <3>1, AroundIs
    <3> HIDE DEF c
    <3> QED BY <3>2, <3>3, <3>4
  <2> QED BY <2>1, <2>2
<1>2. T = Nat
  <2>1. T \in SUBSET Nat
    OBVIOUS
  <2> HIDE DEF T
  <2> QED BY <1>1, <2>1, StrongInduction
<1>3. \A i \in 0 .. Len(ds) : i \in T
  BY <1>2, UnitType
<1> QED
  BY <1>3

\* The ancestor is the innermost of what is around that is not ignorable.
LEMMA AncInnermost ==
  ASSUME NEW ds, Unit(ds)
  PROVE  \A i \in 1 .. Len(ds) : \A j \in Around(ds)[i] :
           j = i \/ ds[j].kind = "linkage" \/ j <= Anc(ds)[i]
<1> DEFINE P(i) == \A j \in Around(ds)[i] : j = i \/ ds[j].kind = "linkage" \/ j <= Anc(ds)[i]
           T == {i \in Nat : i \in 1 .. Len(ds) => P(i)}
<1>1. ASSUME NEW i \in Nat, \A m \in Nat : m < i => m \in T PROVE i \in T
  <2> SUFFICES ASSUME i \in 1 .. Len(ds), NEW j \in Around(ds)[i], j # i,
                      ds[j].kind # "linkage"
               PROVE  j <= Anc(ds)[i]
    OBVIOUS
  <2> DEFINE c == ds[i].ctx
  <2>1. Len(ds) \in Nat /\ c \in Nat /\ c < i /\ c \in 0 .. Len(ds)
    BY UnitType
  <2>2. j \in Around(ds)[c]
    BY AroundIs
  <2>3. j \in 1 .. c /\ c \in 1 .. Len(ds)
    BY <2>1, <2>2, AroundType
  <2>4. CASE isIgnorableContext(ds, c)
    <3>1. ds[c].kind = "linkage" /\ j # c
      BY <2>3, <2>4 DEF isIgnorableContext, Kind
    <3>2. P(c) /\ Anc(ds)[i] = Anc(ds)[c]
      BY <2>1, <2>3, <2>4, <1>1, AncIs
    <3> QED BY <2>2, <3>1, <3>2
  <2>5. CASE ~isIgnorableContext(ds, c)
    BY <2>3, <2>5, AncIs
  <2> QED BY <2>4, <2>5
<1>2. T = Nat
  <2>1. T \in SUBSET Nat
    OBVIOUS
  <2> HIDE DEF T
  <2> QED BY <1>1, <2>1, StrongInduction
<1>3. \A i \in 1 .. Len(ds) : i \in T
  BY <1>2, UnitType
<1> QED
  BY <1>3

\* printName satisfies its equations.
LEMMA NameIs ==
  ASSUME NEW ds, Unit(ds)
  PROVE  /\ printName(ds)[0] = <<>>
         /\ \A i \in 1 .. Len(ds) :
              printName(ds)[i] = Append(printName(ds)[Anc(ds)[i]], printAtomicName(ds, i))
         /\ \A i \in 0 .. Len(ds) :
              printName(ds)[i] \in Seq({printAtomicName(ds, j) : j \in 1 .. Len(ds)})
<1> DEFINE n == Len(ds)
           A == {printAtomicName(ds, j) : j \in 1 .. n}
           V == Seq(A)
           E(f) == [i \in 0 .. n |->
                      IF i = 0 THEN <<>> ELSE Append(f[Anc(ds)[i]], printAtomicName(ds, i))]
           N == CHOOSE f : f = E(f)
           G == [q \in (1 .. n) \X V |-> Append(q[2], printAtomicName(ds, q[1]))]
           p == [i \in 1 .. n |-> Anc(ds)[i]]
<1>1. printName(ds) = N
  BY DEF printName, Anc
<1>2. n \in Nat /\ IsParent(p, n) /\ \A i \in 1 .. n : Anc(ds)[i] \in 0 .. n
  BY UnitType, AncType DEF IsParent
<1>3. \A i \in 1 .. n : printAtomicName(ds, i) \in A
  OBVIOUS
<1> HIDE DEF n, A, p
<1>4. <<>> \in V /\ G \in [(1 .. n) \X V -> V]
  BY <1>3
<1>5. PICK f \in [0 .. n -> V] : IsRecursive(f, n, p, <<>>, G)
  <2> HIDE DEF V, G
  <2> QED BY <1>2, <1>4, ParentRecursion, Zenon
<1>6. ASSUME NEW i \in 1 .. n
      PROVE  f[i] = Append(f[Anc(ds)[i]], printAtomicName(ds, i))
  <2>1. p[i] = Anc(ds)[i] /\ Anc(ds)[i] \in 0 .. n
    BY <1>2 DEF p
  <2>2. <<i, f[p[i]]>> \in (1 .. n) \X V
    <3> HIDE DEF V
    <3> QED BY <2>1
  <2>3. f[i] = G[<<i, f[p[i]]>>]
    <3> HIDE DEF G, V
    <3> QED BY <1>5 DEF IsRecursive
  <2>4. f[i] = Append(f[p[i]], printAtomicName(ds, i))
    <3> HIDE DEF V
    <3> QED BY <2>2, <2>3
  <2> QED BY <2>1, <2>4
<1>7. f = E(f)
  <2>1. \A i \in 0 .. n : f[i] = E(f)[i]
    <3> HIDE DEF V
    <3> QED BY <1>5, <1>6 DEF IsRecursive
  <2> HIDE DEF V
  <2> QED BY <2>1
<1>8. N = E(N)
  BY <1>7
<1> HIDE DEF N
<1>9. N[0] = <<>> /\ \A i \in 1 .. n : N[i] = Append(N[Anc(ds)[i]], printAtomicName(ds, i))
  <2>1. N[0] = <<>>
    BY <1>2, <1>8
  <2>2. ASSUME NEW i \in 1 .. n PROVE N[i] = Append(N[Anc(ds)[i]], printAtomicName(ds, i))
    <3>1. i \in 0 .. n /\ i # 0
      BY <1>2
    <3>2. E(N)[i] = Append(N[Anc(ds)[i]], printAtomicName(ds, i))
      BY <3>1
    <3> QED BY <1>8, <3>2
  <2> QED BY <2>1, <2>2
<1> DEFINE T == {i \in Nat : i <= n => N[i] \in V}
<1>10. ASSUME NEW i \in Nat, \A m \in Nat : m < i => m \in T PROVE i \in T
  <2> SUFFICES ASSUME i <= n PROVE N[i] \in V
    OBVIOUS
  <2>1. CASE i = 0
    BY <2>1, <1>4, <1>9
  <2>2. CASE i # 0
    <3>1. i \in 1 .. n /\ Anc(ds)[i] \in Nat /\ Anc(ds)[i] < i
      BY <2>2, <1>2, AncType DEF n
    <3>2. N[Anc(ds)[i]] \in V /\ printAtomicName(ds, i) \in A
      BY <3>1, <1>10, <1>2, <1>3
    <3>3. Append(N[Anc(ds)[i]], printAtomicName(ds, i)) \in V
      BY <3>2
    <3> QED BY <3>1, <3>3, <1>9
  <2> QED BY <2>1, <2>2
<1>11. T = Nat
  <2>1. T \in SUBSET Nat
    OBVIOUS
  <2> HIDE DEF T
  <2> QED BY <1>10, <2>1, StrongInduction
<1>12. \A i \in 0 .. n : N[i] \in V
  <2> SUFFICES ASSUME NEW i \in 0 .. n PROVE N[i] \in V
    OBVIOUS
  <2>1. i \in Nat /\ i <= n
    BY <1>2
  <2>2. i \in T
    <3> HIDE DEF T
    <3> QED BY <1>11, <2>1
  <2> QED BY <2>1, <2>2
<1> QED
  BY <1>1, <1>9, <1>12 DEF n, A

----------------------------------------------------------------------------
(* The inductive invariant.                                                *)

\* The contexts being parsed are declared, the innermost first; the
\* translation unit is the outermost.
Stack(ds, st) ==
  /\ st \in Seq(Nat) /\ st # <<>> /\ st[Len(st)] = 0
  /\ \A p \in 1 .. Len(st) : st[p] <= Len(ds) /\ (st[p] # 0 => ds[st[p]].kind \in Contexts)
  /\ \A p, q \in 1 .. Len(st) : p < q => st[q] < st[p]

\* All that was declared since a context was opened is inside it.
Enclosing(ds, st) ==
  \A p \in 1 .. Len(st) : st[p] # 0 =>
    \A a \in st[p] .. Len(ds) : st[p] \in Around(ds)[a]

\* A context that is around a declaration is around all between them.
Nested(ds) ==
  \A b \in 1 .. Len(ds) : \A j \in Around(ds)[b] : \A a \in j .. b : j \in Around(ds)[a]

\* No declaration declares what another entity of its scope is.
Scoped(ds) ==
  \A m \in 1 .. Len(ds) : \A i \in 1 .. m - 1 :
    /\ Entity(ds)[i] # Entity(ds)[m]
    /\ Entity(ds)[Anc(ds)[i]] = Entity(ds)[Anc(ds)[m]]
    => \A x \in Introduces(ds[i]) \cap Introduces(ds[m]) : x[2] = ""

NInv ==
  /\ Unit(decls)
  /\ Stack(decls, open)
  /\ Enclosing(decls, open)
  /\ Nested(decls)
  /\ Scoped(decls)

----------------------------------------------------------------------------
(* One more declaration changes nothing of the earlier ones but what       *)
(* follows the last one of a context.                                      *)

Grown(ds, es) ==
  /\ Unit(ds) /\ Unit(es) /\ Len(es) = Len(ds) + 1
  /\ \A i \in 1 .. Len(ds) : es[i] = ds[i]

LEMMA AroundGrown ==
  ASSUME NEW ds, NEW es, Grown(ds, es)
  PROVE  \A i \in 0 .. Len(ds) : Around(es)[i] = Around(ds)[i]
<1> DEFINE T == {i \in Nat : i \in 0 .. Len(ds) => Around(es)[i] = Around(ds)[i]}
<1>1. ASSUME NEW i \in Nat, \A m \in Nat : m < i => m \in T PROVE i \in T
  <2> SUFFICES ASSUME i \in 0 .. Len(ds) PROVE Around(es)[i] = Around(ds)[i]
    OBVIOUS
  <2>1. CASE i = 0
    BY <2>1, AroundIs DEF Grown
  <2>2. CASE i # 0
    <3>1. i \in 1 .. Len(ds) /\ i \in 1 .. Len(es) /\ es[i] = ds[i] /\ Len(ds) \in Nat
      BY <2>2, UnitType DEF Grown
    <3>2. ds[i].ctx \in Nat /\ ds[i].ctx < i /\ ds[i].ctx \in 0 .. Len(ds)
      BY <3>1, UnitType DEF Grown
    <3>3. Around(es)[ds[i].ctx] = Around(ds)[ds[i].ctx]
      BY <3>2, <1>1
    <3>4. /\ Around(ds)[i] = {i} \cup Around(ds)[ds[i].ctx]
          /\ Around(es)[i] = {i} \cup Around(es)[es[i].ctx]
      BY <3>1, AroundIs DEF Grown
    <3> QED BY <3>1, <3>3, <3>4
  <2> QED BY <2>1, <2>2
<1>2. T = Nat
  <2>1. T \in SUBSET Nat
    OBVIOUS
  <2> HIDE DEF T
  <2> QED BY <1>1, <2>1, StrongInduction
<1>3. \A i \in 0 .. Len(ds) : i \in T
  BY <1>2, UnitType DEF Grown
<1> QED
  BY <1>3

LEMMA AncGrown ==
  ASSUME NEW ds, NEW es, Grown(ds, es)
  PROVE  \A i \in 1 .. Len(ds) : Anc(es)[i] = Anc(ds)[i]
<1> DEFINE T == {i \in Nat : i \in 1 .. Len(ds) => Anc(es)[i] = Anc(ds)[i]}
<1>1. ASSUME NEW i \in Nat, \A m \in Nat : m < i => m \in T PROVE i \in T
  <2> SUFFICES ASSUME i \in 1 .. Len(ds) PROVE Anc(es)[i] = Anc(ds)[i]
    OBVIOUS
  <2> DEFINE c == ds[i].ctx
  <2>1. Len(ds) \in Nat /\ i \in 1 .. Len(es) /\ es[i].ctx = c /\ c \in Nat /\ c < i
    BY UnitType DEF Grown
  <2>2. isIgnorableContext(es, c) <=> isIgnorableContext(ds, c)
    <3>1. c # 0 => c \in 1 .. Len(ds) /\ es[c] = ds[c]
      BY <2>1 DEF Grown
    <3> HIDE DEF c
    <3> QED BY <3>1 DEF isIgnorableContext, Kind
  <2>3. isIgnorableContext(ds, c) => c \in 1 .. Len(ds) /\ Anc(es)[c] = Anc(ds)[c]
    <3>1. isIgnorableContext(ds, c) => c # 0
      BY DEF isIgnorableContext, Kind
    <3> QED BY <3>1, <2>1, <1>1
  <2>4. /\ Anc(ds)[i] = IF isIgnorableContext(ds, c) THEN Anc(ds)[c] ELSE c
        /\ Anc(es)[i] = IF isIgnorableContext(es, c) THEN Anc(es)[c] ELSE c
    BY <2>1, AncIs DEF Grown
  <2> HIDE DEF c
  <2> QED BY <2>2, <2>3, <2>4
<1>2. T = Nat
  <2>1. T \in SUBSET Nat
    OBVIOUS
  <2> HIDE DEF T
  <2> QED BY <1>1, <2>1, StrongInduction
<1>3. \A i \in 1 .. Len(ds) : i \in T
  BY <1>2, UnitType DEF Grown
<1> QED
  BY <1>3

LEMMA IndexGrown ==
  ASSUME NEW ds, NEW es, Grown(ds, es), NEW i \in 1 .. Len(ds)
  PROVE  getAnonymousIndex(es, i) = getAnonymousIndex(ds, i)
<1>1. ASSUME NEW j \in 1 .. i - 1
      PROVE  /\ Anc(es)[j] = Anc(ds)[j] /\ Anc(es)[i] = Anc(ds)[i] /\ es[j] = ds[j]
             /\ Inside(es, j, i) <=> Inside(ds, j, i)
  <2>1. j \in 1 .. Len(ds) /\ i \in 0 .. Len(ds)
    BY UnitType DEF Grown
  <2>2. Around(es)[i] = Around(ds)[i]
    BY <2>1, AroundGrown
  <2> QED BY <2>1, <2>2, AncGrown DEF Inside, Around, Ctx, Grown
<1>2. {j \in 1 .. i - 1 : Anc(es)[j] = Anc(es)[i] /\ isAnonymous(es[j]) /\ ~Inside(es, j, i)}
      = {j \in 1 .. i - 1 : Anc(ds)[j] = Anc(ds)[i] /\ isAnonymous(ds[j]) /\ ~Inside(ds, j, i)}
  BY <1>1
<1> QED
  BY <1>2 DEF getAnonymousIndex, Anc

LEMMA FollowingType ==
  ASSUME NEW ds, Unit(ds), NEW i \in 1 .. Len(ds), Following(ds, i) # 0
  PROVE  /\ Following(ds, i) \in 1 .. Len(ds) /\ Following(ds, i) > i
         /\ ds[Following(ds, i)].ctx = ds[i].ctx
         /\ \A j \in 1 .. Len(ds) : j > i /\ ds[j].ctx = ds[i].ctx => Following(ds, i) <= j
<1> DEFINE after == {j \in DOMAIN ds : j > i /\ ds[j].ctx = ds[i].ctx}
<1>1. DOMAIN ds = 1 .. Len(ds) /\ Len(ds) \in Nat
  BY UnitType
<1>2. Following(ds, i) = IF after = {} THEN 0 ELSE Min(after)
  BY DEF Following
<1>3. Min(after) \in after /\ \A j \in after : Min(after) <= j
  <2>1. after # {} /\ after \in SUBSET Nat
    BY <1>1, <1>2
  <2> HIDE DEF after
  <2> QED BY <2>1, MinExists
<1> QED
  BY <1>1, <1>2, <1>3

LEMMA FollowingGrown ==
  ASSUME NEW ds, NEW es, Grown(ds, es), NEW i \in 1 .. Len(ds), Following(ds, i) # 0
  PROVE  Following(es, i) = Following(ds, i)
<1> DEFINE n == Following(ds, i)
           after == {j \in DOMAIN es : j > i /\ es[j].ctx = es[i].ctx}
<1>1. /\ n \in 1 .. Len(ds) /\ n > i /\ ds[n].ctx = ds[i].ctx
      /\ \A j \in 1 .. Len(ds) : j > i /\ ds[j].ctx = ds[i].ctx => n <= j
  BY FollowingType DEF Grown
<1>2. DOMAIN es = 1 .. Len(ds) + 1 /\ Len(ds) \in Nat
  BY UnitType DEF Grown
<1> HIDE DEF n
<1>3. n \in after /\ after \in SUBSET Nat
  BY <1>1, <1>2 DEF Grown
<1>4. ASSUME NEW j \in after PROVE n <= j
  <2>1. CASE j = Len(ds) + 1
    BY <2>1, <1>1, <1>2
  <2>2. CASE j # Len(ds) + 1
    <3>1. j \in 1 .. Len(ds)
      BY <2>2, <1>2
    <3> QED BY <3>1, <1>1 DEF Grown
  <2> QED BY <2>1, <2>2
<1>5. Min(after) = n /\ after # {}
  <2> HIDE DEF after
  <2> QED BY <1>3, <1>4, MinIs
<1> QED
  BY <1>5 DEF Following, n

\* An atomic name depends on what follows only for a tag.
LEMMA AtomGrown ==
  ASSUME NEW ds, NEW es, Grown(ds, es), NEW i \in 1 .. Len(ds),
         ds[i].kind \in Tags => Following(ds, i) # 0
  PROVE  printAtomicName(es, i) = printAtomicName(ds, i)
<1>1. es[i] = ds[i]
  BY DEF Grown
<1>2. getAnonymousIndex(es, i) = getAnonymousIndex(ds, i)
  BY IndexGrown
<1>3. ds[i].kind \in Tags =>
        /\ by_first_decl(es, i) <=> by_first_decl(ds, i)
        /\ es[Following(es, i)].id = ds[Following(ds, i)].id
  <2> SUFFICES ASSUME ds[i].kind \in Tags
               PROVE  /\ by_first_decl(es, i) <=> by_first_decl(ds, i)
                      /\ es[Following(es, i)].id = ds[Following(ds, i)].id
    OBVIOUS
  <2>1. Following(es, i) = Following(ds, i) /\ Following(ds, i) \in 1 .. Len(ds)
    BY FollowingGrown, FollowingType DEF Grown
  <2>2. es[Following(es, i)] = ds[Following(ds, i)]
    BY <2>1 DEF Grown
  <2> QED BY <2>1, <2>2 DEF by_first_decl
<1>4. CASE ds[i].kind \in Tags
  BY <1>1, <1>2, <1>3, <1>4 DEF printAtomicName
<1>5. CASE ds[i].kind \notin Tags
  BY <1>1, <1>2, <1>5 DEF printAtomicName
<1> QED
  BY <1>4, <1>5

\* The names of what is settled stay.
LEMMA NameGrown ==
  ASSUME NEW ds, NEW es, Grown(ds, es)
  PROVE  \A i \in 1 .. Len(ds) : Settled(ds, i) => printName(es)[i] = printName(ds)[i]
<1> DEFINE T == {i \in Nat : i \in 1 .. Len(ds) /\ Settled(ds, i)
                               => printName(es)[i] = printName(ds)[i]}
<1>1. ASSUME NEW i \in Nat, \A m \in Nat : m < i => m \in T PROVE i \in T
  <2> SUFFICES ASSUME i \in 1 .. Len(ds), Settled(ds, i)
               PROVE  printName(es)[i] = printName(ds)[i]
    OBVIOUS
  <2> DEFINE c == Anc(ds)[i]
  <2>1. Len(ds) \in Nat /\ DOMAIN ds = 1 .. Len(ds) /\ i \in 1 .. Len(es)
    BY UnitType DEF Grown
  <2>2. c \in Nat /\ c < i /\ Around(ds)[c] \subseteq Around(ds)[i] /\ Anc(es)[i] = c
    BY AncType, AncGrown DEF Grown
  <2>3. ds[i].kind \in Tags => Following(ds, i) # 0
    <3>1. Inside(ds, i, i)
      BY AroundIs DEF Grown, Inside, Around, Ctx
    <3> QED BY <3>1, <2>1 DEF Settled
  <2>4. printAtomicName(es, i) = printAtomicName(ds, i)
    BY <2>3, AtomGrown
  <2>5. printName(es)[c] = printName(ds)[c]
    <3>1. CASE c = 0
      BY <3>1, NameIs DEF Grown
    <3>2. CASE c # 0
      <4>1. Settled(ds, c)
        BY <2>2 DEF Settled, Inside, Around, Ctx
      <4>2. c \in 1 .. Len(ds) /\ c \in T
        BY <3>2, <2>1, <2>2, <1>1
      <4> QED BY <4>1, <4>2
    <3> QED BY <3>1, <3>2
  <2>6. /\ printName(ds)[i] = Append(printName(ds)[c], printAtomicName(ds, i))
        /\ printName(es)[i] = Append(printName(es)[Anc(es)[i]], printAtomicName(es, i))
    BY <2>1, NameIs DEF Grown
  <2> QED BY <2>2, <2>4, <2>5, <2>6
<1>2. T = Nat
  <2>1. T \in SUBSET Nat
    OBVIOUS
  <2> HIDE DEF T
  <2> QED BY <1>1, <2>1, StrongInduction
<1>3. \A i \in 1 .. Len(ds) : i \in T
  BY <1>2, UnitType DEF Grown
<1> QED
  BY <1>3

----------------------------------------------------------------------------
(* Entities.                                                               *)

\* The body of Entity's recursive function f.
Same(ds, f, i) ==
  {j \in 1 .. i : /\ ds[j].kind = "namespace" /\ ds[j].id = ds[i].id
                  /\ f[Anc(ds)[j]] = f[Anc(ds)[i]]}
First(ds, f, i) ==
  IF i = 0 \/ ds[i].kind # "namespace" THEN i ELSE Min(Same(ds, f, i))

\* It looks at earlier declarations only.
LEMMA FirstAgrees ==
  ASSUME NEW ds, Unit(ds), NEW f, NEW g, NEW i \in 0 .. Len(ds),
         \A m \in Nat : m < i => f[m] = g[m]
  PROVE  First(ds, f, i) = First(ds, g, i)
<1>1. CASE i = 0
  BY <1>1 DEF First
<1>2. CASE i # 0
  <2>1. i \in 1 .. Len(ds) /\ Len(ds) \in Nat
    BY <1>2, UnitType
  <2>2. \A j \in 1 .. i : f[Anc(ds)[j]] = g[Anc(ds)[j]]
    <3> SUFFICES ASSUME NEW j \in 1 .. i PROVE f[Anc(ds)[j]] = g[Anc(ds)[j]]
      OBVIOUS
    <3>1. Anc(ds)[j] \in Nat /\ Anc(ds)[j] < i
      BY <2>1, AncType
    <3> QED BY <3>1
  <2>3. Same(ds, f, i) = Same(ds, g, i)
    BY <2>1, <2>2 DEF Same
  <2> QED BY <2>3 DEF First
<1> QED
  BY <1>1, <1>2

LEMMA EntityExists ==
  ASSUME NEW ds, Unit(ds)
  PROVE  \E f : f = [i \in 0 .. Len(ds) |-> First(ds, f, i)]
<1> DEFINE n == Len(ds)
           P(k) == \E f : f = [i \in 0 .. k |-> First(ds, f, i)]
           T == {k \in Nat : k <= n => P(k)}
<1>1. n \in Nat
  BY UnitType
<1>2. 0 \in T
  <2> DEFINE f == [i \in 0 .. 0 |-> 0]
  <2>1. \A i \in 0 .. 0 : First(ds, f, i) = 0
    BY DEF First
  <2>2. f = [i \in 0 .. 0 |-> First(ds, f, i)]
    <3>1. \A i \in 0 .. 0 : f[i] = First(ds, f, i)
      BY <2>1
    <3> QED BY <3>1
  <2> HIDE DEF f
  <2> QED BY <2>2
<1>3. ASSUME NEW k \in T PROVE k + 1 \in T
  <2> SUFFICES ASSUME k + 1 <= n PROVE P(k + 1)
    OBVIOUS
  <2>1. PICK f : f = [i \in 0 .. k |-> First(ds, f, i)]
    BY <1>1
  <2>2. \A i \in 0 .. k : f[i] = First(ds, f, i)
    BY <2>1
  <2> DEFINE g == [i \in 0 .. k + 1 |-> First(ds, f, i)]
  <2>3. \A i \in 0 .. k : g[i] = f[i]
    BY <2>2
  <2>4. ASSUME NEW i \in 0 .. k + 1 PROVE First(ds, g, i) = First(ds, f, i)
    <3>1. i \in 0 .. Len(ds)
      BY <1>1
    <3>2. \A m \in Nat : m < i => g[m] = f[m]
      <4> HIDE DEF g
      <4> QED BY <2>3
    <3> HIDE DEF g
    <3> QED BY <3>1, <3>2, FirstAgrees
  <2>5. g = [i \in 0 .. k + 1 |-> First(ds, g, i)]
    <3>1. \A i \in 0 .. k + 1 : g[i] = First(ds, g, i)
      BY <2>4
    <3> QED BY <3>1
  <2> HIDE DEF g
  <2> QED BY <2>5
<1>4. T = Nat
  <2>1. T \in SUBSET Nat
    OBVIOUS
  <2> HIDE DEF T
  <2> QED BY <1>2, <1>3, <2>1, SetInduction
<1>5. n \in T
  BY <1>1, <1>4
<1> QED
  BY <1>5

LEMMA EntityIs ==
  ASSUME NEW ds, Unit(ds)
  PROVE  \A i \in 0 .. Len(ds) : Entity(ds)[i] = First(ds, Entity(ds), i)
<1> DEFINE E(f) == [i \in 0 .. Len(ds) |-> First(ds, f, i)]
           C == CHOOSE f : f = E(f)
<1>1. Entity(ds) = C
  BY DEF Entity, First, Same, Anc
<1>2. C = E(C)
  BY EntityExists
<1> HIDE DEF C
<1> QED
  BY <1>1, <1>2

LEMMA EntityGrown ==
  ASSUME NEW ds, NEW es, Grown(ds, es)
  PROVE  \A i \in 0 .. Len(ds) : Entity(es)[i] = Entity(ds)[i]
<1> DEFINE T == {i \in Nat : i \in 0 .. Len(ds) => Entity(es)[i] = Entity(ds)[i]}
<1>1. ASSUME NEW i \in Nat, \A m \in Nat : m < i => m \in T PROVE i \in T
  <2> SUFFICES ASSUME i \in 0 .. Len(ds) PROVE Entity(es)[i] = Entity(ds)[i]
    OBVIOUS
  <2>1. Len(ds) \in Nat /\ i \in 0 .. Len(es)
    BY UnitType DEF Grown
  <2>2. \A m \in Nat : m < i => Entity(es)[m] = Entity(ds)[m]
    BY <2>1, <1>1
  <2>3. First(es, Entity(es), i) = First(es, Entity(ds), i)
    BY <2>1, <2>2, FirstAgrees DEF Grown
  <2>4. First(es, Entity(ds), i) = First(ds, Entity(ds), i)
    <3>1. CASE i = 0
      BY <3>1 DEF First
    <3>2. CASE i # 0
      <4>1. \A j \in 1 .. i : es[j] = ds[j] /\ Anc(es)[j] = Anc(ds)[j]
        BY <2>1, AncGrown DEF Grown
      <4>2. i \in 1 .. i
        BY <3>2, <2>1
      <4>3. Same(es, Entity(ds), i) = Same(ds, Entity(ds), i)
        BY <4>1, <4>2 DEF Same
      <4> QED BY <4>1, <4>2, <4>3 DEF First
    <3> QED BY <3>1, <3>2
  <2> QED BY <2>1, <2>3, <2>4, EntityIs DEF Grown
<1>2. T = Nat
  <2>1. T \in SUBSET Nat
    OBVIOUS
  <2> HIDE DEF T
  <2> QED BY <1>1, <2>1, StrongInduction
<1>3. \A i \in 0 .. Len(ds) : i \in T
  BY <1>2, UnitType DEF Grown
<1> QED
  BY <1>3

----------------------------------------------------------------------------
(* The invariant holds.                                                    *)

LEMMA StackTop ==
  ASSUME NEW ds, Unit(ds), NEW st, Stack(ds, st)
  PROVE  /\ Len(st) \in Nat /\ Len(st) >= 1 /\ Head(st) = st[1]
         /\ Head(st) \in Nat /\ Head(st) <= Len(ds)
         /\ Head(st) # 0 => ds[Head(st)].kind \in Contexts
         /\ \A p \in 1 .. Len(st) : st[p] \in Nat /\ st[p] <= Head(st)
<1>1. Len(st) \in Nat /\ Len(st) >= 1 /\ Head(st) = st[1] /\ \A p \in 1 .. Len(st) : st[p] \in Nat
  BY DEF Stack
<1>2. 1 \in 1 .. Len(st)
  BY <1>1
<1>3. \A p \in 1 .. Len(st) : st[p] <= st[1]
  BY <1>1, <1>2 DEF Stack
<1> QED
  BY <1>1, <1>2, <1>3 DEF Stack

LEMMA DeclareGrows ==
  ASSUME NInv, Declare
  PROVE  /\ Grown(decls, decls')
         /\ decls'[Len(decls')].ctx = Head(open)
         /\ Legal(decls')
         /\ \/ open' = open
            \/ /\ open' = <<Len(decls')>> \o open
               /\ decls'[Len(decls')].kind \in Contexts
<1> DEFINE n == Len(decls)
<1>1. PICK d \in Candidates(decls, Head(open)) :
        /\ Legal(Append(decls, d))
        /\ decls' = Append(decls, d)
        /\ open' = IF d.kind \in Contexts THEN <<n + 1>> \o open ELSE open
  BY DEF Declare
<1>2. Head(open) \in Nat /\ Head(open) <= n /\ (Head(open) # 0 => decls[Head(open)].kind \in Contexts)
  BY StackTop DEF NInv
<1>3. Unit(decls) /\ n \in Nat /\ DOMAIN decls = 1 .. n /\ decls \in Seq(Decl)
  BY UnitType DEF NInv, Unit
<1>4. d \in Decl /\ d.ctx = Head(open)
  <2> DEFINE types == {0} \cup {j \in DOMAIN decls : decls[j].kind \in Tags /\ decls[j].ctx = Head(open)}
  <2>1. d \in [kind : Kinds, ctx : {Head(open)}, id : Id, tdef : Id, key : Id, of : types]
    BY DEF Candidates, Id
  <2>2. types \subseteq Nat
    BY <1>3
  <2> HIDE DEF types
  <2> QED BY <2>1, <2>2, <1>2 DEF Decl
<1>5. /\ decls' \in Seq(Decl) /\ Len(decls') = n + 1 /\ decls'[n + 1] = d
      /\ \A i \in 1 .. n : decls'[i] = decls[i]
  BY <1>1, <1>3, <1>4
<1>6. Unit(decls')
  <2>1. ASSUME NEW i \in 1 .. n + 1
        PROVE  /\ decls'[i].ctx < i
               /\ decls'[i].ctx # 0 => decls'[decls'[i].ctx].kind \in Contexts
    <3>1. CASE i = n + 1
      <4>1. Head(open) # 0 => Head(open) \in 1 .. n
        BY <1>2, <1>3
      <4> QED BY <3>1, <4>1, <1>2, <1>3, <1>4, <1>5
    <3>2. CASE i # n + 1
      <4>1. i \in 1 .. n
        BY <3>2, <1>3
      <4>2. decls[i].ctx \in Nat /\ decls[i].ctx < i /\ (decls[i].ctx # 0 => decls[i].ctx \in 1 .. n)
        BY <4>1, <1>3, UnitType
      <4> QED BY <4>1, <4>2, <1>3, <1>5 DEF Unit
    <3> QED BY <3>1, <3>2
  <2> QED BY <2>1, <1>5 DEF Unit
<1> QED
  BY <1>1, <1>3, <1>4, <1>5, <1>6 DEF Grown

LEMMA StackGrows ==
  ASSUME NEW ds, NEW es, Grown(ds, es), NEW st, Stack(ds, st), NEW su,
         su = st \/ (su = <<Len(es)>> \o st /\ es[Len(es)].kind \in Contexts)
  PROVE  Stack(es, su)
<1> DEFINE n == Len(ds)
<1>1. n \in Nat /\ Len(es) = n + 1 /\ \A i \in 1 .. n : es[i] = ds[i]
  BY UnitType DEF Grown
<1>2. st \in Seq(Nat) /\ Len(st) \in Nat /\ Len(st) >= 1 /\ st[Len(st)] = 0
  BY StackTop DEF Stack, Grown
<1>3. \A p \in 1 .. Len(st) :
        /\ st[p] \in Nat /\ st[p] <= n
        /\ st[p] # 0 => es[st[p]].kind \in Contexts
  <2> SUFFICES ASSUME NEW p \in 1 .. Len(st)
               PROVE  st[p] \in Nat /\ st[p] <= n /\ (st[p] # 0 => es[st[p]].kind \in Contexts)
    OBVIOUS
  <2>1. st[p] \in Nat /\ st[p] <= n /\ (st[p] # 0 => ds[st[p]].kind \in Contexts)
    BY <1>2 DEF Stack
  <2>2. st[p] # 0 => st[p] \in 1 .. n
    BY <2>1, <1>1
  <2> QED BY <2>1, <2>2, <1>1
<1>4. CASE su = st
  BY <1>1, <1>2, <1>3, <1>4 DEF Stack
<1>5. CASE su = <<n + 1>> \o st /\ es[n + 1].kind \in Contexts
  <2>1. /\ su \in Seq(Nat) /\ Len(su) = Len(st) + 1 /\ su[1] = n + 1
        /\ \A p \in 2 .. Len(su) : su[p] = st[p - 1]
    BY <1>1, <1>2, <1>5
  <2>2. su # <<>> /\ su[Len(su)] = 0
    BY <2>1, <1>2
  <2>3. ASSUME NEW p \in 1 .. Len(su)
        PROVE  su[p] <= n + 1 /\ (su[p] # 0 => es[su[p]].kind \in Contexts)
    <3>1. CASE p = 1
      BY <3>1, <2>1, <1>5, <1>1
    <3>2. CASE p # 1
      <4>1. p \in 2 .. Len(su) /\ p - 1 \in 1 .. Len(st)
        BY <3>2, <2>1, <1>2
      <4>2. su[p] = st[p - 1]
        BY <4>1, <2>1
      <4> QED BY <4>1, <4>2, <1>3, <1>1
    <3> QED BY <3>1, <3>2
  <2>4. ASSUME NEW p \in 1 .. Len(su), NEW q \in 1 .. Len(su), p < q PROVE su[q] < su[p]
    <3>1. q \in 2 .. Len(su) /\ q - 1 \in 1 .. Len(st)
      BY <2>4, <2>1, <1>2
    <3>2. su[q] = st[q - 1] /\ st[q - 1] <= n /\ st[q - 1] \in Nat
      BY <3>1, <2>1, <1>3
    <3>3. CASE p = 1
      BY <3>2, <3>3, <2>1, <1>1
    <3>4. CASE p # 1
      <4>1. p \in 2 .. Len(su) /\ p - 1 \in 1 .. Len(st) /\ p - 1 < q - 1
        BY <3>4, <2>4, <2>1, <1>2
      <4>2. su[p] = st[p - 1] /\ st[q - 1] < st[p - 1]
        BY <4>1, <3>1, <2>1 DEF Stack
      <4> QED BY <4>2, <3>2
    <3> QED BY <3>3, <3>4
  <2> QED BY <2>1, <2>2, <2>3, <2>4, <1>1 DEF Stack
<1> QED
  BY <1>1, <1>4, <1>5

LEMMA EnclosingGrows ==
  ASSUME NEW ds, NEW es, Grown(ds, es), NEW st, Stack(ds, st), Enclosing(ds, st),
         es[Len(es)].ctx = Head(st), NEW su,
         su = st \/ (su = <<Len(es)>> \o st /\ es[Len(es)].kind \in Contexts)
  PROVE  Enclosing(es, su)
<1> DEFINE n == Len(ds)
<1>1. n \in Nat /\ Len(es) = n + 1 /\ n + 1 \in 1 .. Len(es)
  BY UnitType DEF Grown
<1>2. Around(es)[n + 1] = {n + 1} \cup Around(es)[Head(st)]
  BY <1>1, AroundIs DEF Grown
<1>3. /\ Len(st) \in Nat /\ Len(st) >= 1 /\ Head(st) \in Nat /\ Head(st) <= n
      /\ \A p \in 1 .. Len(st) : st[p] \in Nat /\ st[p] <= Head(st)
  BY StackTop DEF Grown
<1>4. \A i \in 0 .. n : Around(es)[i] = Around(ds)[i]
  BY AroundGrown
<1>5. ASSUME NEW p \in 1 .. Len(st), st[p] # 0, NEW a \in st[p] .. n + 1
      PROVE  st[p] \in Around(es)[a]
  <2>1. CASE a = n + 1
    <3>1. Head(st) \in st[p] .. n /\ Head(st) \in 0 .. n
      BY <1>1, <1>3
    <3>2. st[p] \in Around(ds)[Head(st)]
      BY <3>1, <1>5 DEF Enclosing
    <3> QED BY <3>1, <3>2, <2>1, <1>2, <1>4
  <2>2. CASE a # n + 1
    <3>1. a \in st[p] .. n /\ a \in 0 .. n
      BY <2>2, <1>1, <1>3
    <3> QED BY <3>1, <1>4, <1>5 DEF Enclosing
  <2> QED BY <2>1, <2>2
<1>6. CASE su = st
  BY <1>5, <1>6, <1>1 DEF Enclosing
<1>7. CASE su = <<n + 1>> \o st
  <2> SUFFICES ASSUME NEW p \in 1 .. Len(su), su[p] # 0, NEW a \in su[p] .. n + 1
               PROVE  su[p] \in Around(es)[a]
    BY <1>1 DEF Enclosing
  <2>1. Len(su) = Len(st) + 1 /\ su[1] = n + 1 /\ \A q \in 2 .. Len(su) : su[q] = st[q - 1]
    BY <1>1, <1>3, <1>7 DEF Stack
  <2>2. CASE p = 1
    <3>1. a = n + 1 /\ su[p] = n + 1
      BY <2>1, <2>2, <1>1
    <3> QED BY <3>1, <1>2
  <2>3. CASE p # 1
    <3>1. p \in 2 .. Len(su) /\ p - 1 \in 1 .. Len(st)
      BY <2>1, <2>3, <1>3
    <3>2. su[p] = st[p - 1]
      BY <3>1, <2>1
    <3> QED BY <3>1, <3>2, <1>5
  <2> QED BY <2>2, <2>3
<1> QED
  BY <1>1, <1>6, <1>7

LEMMA NestedGrows ==
  ASSUME NEW ds, NEW es, Grown(ds, es), NEW st, Stack(ds, st), Enclosing(ds, st),
         Nested(ds), es[Len(es)].ctx = Head(st)
  PROVE  Nested(es)
<1> DEFINE n == Len(ds)
           h == Head(st)
<1>1. n \in Nat /\ Len(es) = n + 1 /\ n + 1 \in 1 .. Len(es)
  BY UnitType DEF Grown
<1>2. Around(es)[n + 1] = {n + 1} \cup Around(es)[h]
  BY <1>1, AroundIs DEF Grown
<1>3. h \in Nat /\ h <= n /\ h = st[1] /\ 1 \in 1 .. Len(st)
  BY StackTop DEF Grown
<1>4. \A i \in 0 .. n : Around(es)[i] = Around(ds)[i]
  BY AroundGrown
<1>5. \A i \in 0 .. n : /\ Around(ds)[i] \subseteq 1 .. i
                        /\ \A j \in Around(ds)[i] : Around(ds)[j] \subseteq Around(ds)[i]
  BY AroundType DEF Grown
<1> HIDE DEF n, h
<1> SUFFICES ASSUME NEW b \in 1 .. n + 1, NEW j \in Around(es)[b], NEW a \in j .. b
             PROVE  j \in Around(es)[a]
  BY <1>1 DEF Nested
<1>6. CASE b # n + 1
  <2>1. b \in 1 .. n /\ b \in 0 .. n
    BY <1>1, <1>6
  <2>2. j \in Around(ds)[b] /\ j \in 1 .. b
    BY <2>1, <1>4, <1>5
  <2>3. a \in 0 .. n
    BY <2>1, <2>2, <1>1
  <2>4. j \in Around(ds)[a]
    BY <2>1, <2>2 DEF Nested, n
  <2> QED BY <2>3, <2>4, <1>4
<1>7. CASE b = n + 1 /\ a = b
  BY <1>7
<1>8. CASE b = n + 1 /\ a # b
  <2>0. j = n + 1 \/ j \in Around(ds)[h]
    <3>1. h \in 0 .. n
      BY <1>1, <1>3
    <3> QED BY <3>1, <1>2, <1>4, <1>8
  <2>1. j # n + 1
    <3> SUFFICES ASSUME j = n + 1 PROVE FALSE
      OBVIOUS
    <3> QED BY <1>1, <1>8
  <2>2. h \in 0 .. n /\ j \in Around(ds)[h] /\ j \in 1 .. h
    BY <2>0, <2>1, <1>1, <1>3, <1>5
  <2>3. h \in 1 .. n /\ h # 0 /\ a \in 0 .. n
    BY <2>2, <1>1, <1>8
  <2>4. CASE a <= h
    <3>1. a \in j .. h
      BY <2>2, <2>4
    <3>2. j \in Around(ds)[a]
      BY <3>1, <2>2, <2>3 DEF Nested, n
    <3> QED BY <3>2, <2>3, <1>4
  <2>5. CASE ~(a <= h)
    <3>1. a \in h .. n
      BY <2>2, <2>3, <2>5
    <3>2. h \in Around(ds)[a]
      BY <3>1, <1>3, <2>3 DEF Enclosing, n
    <3> QED BY <3>2, <2>2, <2>3, <1>4, <1>5
  <2> QED BY <2>4, <2>5
<1> QED
  BY <1>6, <1>7, <1>8

LEMMA ScopedGrows ==
  ASSUME NEW ds, NEW es, Grown(ds, es), Scoped(ds), Legal(es)
  PROVE  Scoped(es)
<1> DEFINE n == Len(ds)
<1>1. n \in Nat /\ Len(es) = n + 1
  BY UnitType DEF Grown
<1> SUFFICES ASSUME NEW m \in 1 .. Len(es), NEW i \in 1 .. m - 1,
                    Entity(es)[i] # Entity(es)[m],
                    Entity(es)[Anc(es)[i]] = Entity(es)[Anc(es)[m]]
             PROVE  \A x \in Introduces(es[i]) \cap Introduces(es[m]) : x[2] = ""
  BY DEF Scoped
<1>2. CASE m = n + 1
  <2>1. m = Len(es) /\ i \in 1 .. Len(es) - 1
    BY <1>1, <1>2
  <2> QED BY <2>1 DEF Legal, Anc
<1>3. CASE m # n + 1
  <2>1. m \in 1 .. n /\ i \in 1 .. n /\ m \in 0 .. n /\ i \in 0 .. n
    BY <1>1, <1>3
  <2>2. /\ Anc(ds)[m] \in 0 .. n /\ Anc(ds)[i] \in 0 .. n
        /\ Anc(es)[m] = Anc(ds)[m] /\ Anc(es)[i] = Anc(ds)[i]
    BY <2>1, <1>1, AncGrown, AncType DEF Grown
  <2>3. /\ Entity(es)[i] = Entity(ds)[i] /\ Entity(es)[m] = Entity(ds)[m]
        /\ Entity(es)[Anc(ds)[i]] = Entity(ds)[Anc(ds)[i]]
        /\ Entity(es)[Anc(ds)[m]] = Entity(ds)[Anc(ds)[m]]
    BY <2>1, <2>2, EntityGrown
  <2>4. es[i] = ds[i] /\ es[m] = ds[m]
    BY <2>1 DEF Grown
  <2> QED BY <2>1, <2>2, <2>3, <2>4 DEF Scoped
<1> QED
  BY <1>2, <1>3

LEMMA CloseStack ==
  ASSUME NInv, Close
  PROVE  Stack(decls, open') /\ Enclosing(decls, open')
<1>1. open \in Seq(Nat) /\ Len(open) \in Nat /\ Len(open) > 1 /\ open' = Tail(open)
  BY DEF NInv, Stack, Close
<1>2. /\ open' \in Seq(Nat) /\ Len(open') = Len(open) - 1
      /\ \A p \in 1 .. Len(open') : open'[p] = open[p + 1]
  BY <1>1
<1>3. \A p \in 1 .. Len(open') : p + 1 \in 1 .. Len(open)
  BY <1>1, <1>2
<1>4. open' # <<>> /\ open'[Len(open')] = 0
  <2>1. Len(open') \in 1 .. Len(open') /\ Len(open') + 1 = Len(open)
    BY <1>1, <1>2
  <2>2. open'[Len(open')] = open[Len(open)]
    BY <2>1, <1>2
  <2>3. open' # <<>>
    BY <2>1
  <2> QED BY <2>2, <2>3 DEF NInv, Stack
<1>5. \A p \in 1 .. Len(open') :
        open'[p] <= Len(decls) /\ (open'[p] # 0 => decls[open'[p]].kind \in Contexts)
  BY <1>2, <1>3 DEF NInv, Stack
<1>6. ASSUME NEW p \in 1 .. Len(open'), NEW q \in 1 .. Len(open'), p < q
      PROVE  open'[q] < open'[p]
  <2>1. p + 1 \in 1 .. Len(open) /\ q + 1 \in 1 .. Len(open) /\ p + 1 < q + 1
    BY <1>3, <1>6
  <2> QED BY <2>1, <1>2 DEF NInv, Stack
<1>7. Enclosing(decls, open')
  <2> SUFFICES ASSUME NEW p \in 1 .. Len(open'), open'[p] # 0,
                      NEW a \in open'[p] .. Len(decls)
               PROVE  open'[p] \in Around(decls)[a]
    BY DEF Enclosing
  <2>1. p + 1 \in 1 .. Len(open) /\ open'[p] = open[p + 1]
    BY <1>2, <1>3
  <2> QED BY <2>1 DEF NInv, Enclosing
<1> QED
  BY <1>2, <1>4, <1>5, <1>6, <1>7 DEF Stack

LEMMA NamesInit ==
  ASSUME Init
  PROVE  NInv
<1>1. decls = <<>> /\ Len(decls) = 0 /\ decls \in Seq(Decl)
  BY DEF Init
<1>2. Unit(decls) /\ Nested(decls) /\ Scoped(decls)
  BY <1>1 DEF Unit, Nested, Scoped
<1>3. open \in Seq(Nat) /\ Len(open) = 1 /\ open[1] = 0
  BY DEF Init
<1>4. \A p \in 1 .. Len(open) : p = 1 /\ open[p] = 0
  BY <1>3
<1>5. Stack(decls, open)
  <2>1. open # <<>> /\ open[Len(open)] = 0
    BY <1>3
  <2>2. \A p \in 1 .. Len(open) : open[p] <= Len(decls)
    BY <1>1, <1>4
  <2>3. \A p, q \in 1 .. Len(open) : ~(p < q)
    BY <1>3
  <2> QED BY <1>3, <1>4, <2>1, <2>2, <2>3 DEF Stack
<1>6. Enclosing(decls, open)
  BY <1>4 DEF Enclosing
<1> QED
  BY <1>2, <1>5, <1>6 DEF NInv

LEMMA NamesNext ==
  ASSUME NInv, [Next]_nvars
  PROVE  NInv'
<1>1. CASE Declare
  <2>1. /\ Grown(decls, decls') /\ decls'[Len(decls')].ctx = Head(open) /\ Legal(decls')
        /\ open' = open \/ (open' = <<Len(decls')>> \o open /\ decls'[Len(decls')].kind \in Contexts)
    BY <1>1, DeclareGrows
  <2>2. Unit(decls')
    BY <2>1 DEF Grown
  <2>3. Stack(decls', open')
    BY <2>1, StackGrows DEF NInv
  <2>4. Enclosing(decls', open')
    BY <2>1, EnclosingGrows DEF NInv
  <2>5. Nested(decls')
    BY <2>1, NestedGrows DEF NInv
  <2>6. Scoped(decls')
    BY <2>1, ScopedGrows DEF NInv
  <2> QED BY <2>2, <2>3, <2>4, <2>5, <2>6 DEF NInv
<1>2. CASE Close
  <2>1. Stack(decls, open') /\ Enclosing(decls, open') /\ decls' = decls
    BY <1>2, CloseStack DEF Close
  <2>2. Stack(decls', open') /\ Enclosing(decls', open')
    BY <2>1
  <2>3. Unit(decls') /\ Nested(decls') /\ Scoped(decls')
    BY <2>1 DEF NInv
  <2> QED BY <2>2, <2>3 DEF NInv
<1>3. CASE UNCHANGED nvars
  BY <1>3 DEF NInv, nvars
<1> QED
  BY <1>1, <1>2, <1>3 DEF Next

\* The inductive invariant: every context is an earlier declaration that can
\* be one, contexts nest in source order, and no two entities of a scope
\* declare the same name.
THEOREM NamesInvariant == Spec => []NInv
<1>1. Init => NInv
  BY NamesInit
<1>2. NInv /\ [Next]_nvars => NInv'
  BY NamesNext
<1> QED
  BY <1>1, <1>2, PTL DEF Spec

----------------------------------------------------------------------------
(* Names settle.                                                           *)

\* What follows changes no name but that of a tag without a name that ends
\* the text so far: printName of a declaration looks at its contexts, at the
\* earlier declarations, and at the one after each tag that it is in.
THEOREM NamesStay == Spec => NamesSettle
<1> DEFINE A == \A i \in Named(decls) :
                  Settled(decls, i) => printName(decls')[i] = printName(decls)[i]
<1>1. NInv /\ [Next]_nvars => A \/ UNCHANGED nvars
  <2> SUFFICES ASSUME NInv, [Next]_nvars, ~UNCHANGED nvars PROVE A
    OBVIOUS
  <2>1. CASE Declare
    <3>1. Grown(decls, decls')
      BY <2>1, DeclareGrows
    <3>2. DOMAIN decls = 1 .. Len(decls)
      BY UnitType DEF NInv
    <3> QED BY <3>1, <3>2, NameGrown DEF Named
  <2>2. CASE Close
    BY <2>2 DEF Close
  <2> QED BY <2>1, <2>2 DEF Next
<1>2. NInv /\ [Next]_nvars => [A]_nvars
  BY <1>1
<1> QED
  BY <1>2, NamesInvariant, PTL DEF Spec, NamesSettle

----------------------------------------------------------------------------
(* Distinct entities have distinct names.                                  *)

LEMMA EntityOfOther ==
  ASSUME NEW ds, Unit(ds), NEW i \in 1 .. Len(ds), ds[i].kind # "namespace"
  PROVE  Entity(ds)[i] = i
<1>1. i \in 0 .. Len(ds)
  BY UnitType
<1> QED
  BY <1>1, EntityIs DEF First

\* Blocks of the same namespace, named or not, declare the same entity.
LEMMA SameNamespace ==
  ASSUME NEW ds, Unit(ds), NEW a \in 1 .. Len(ds), NEW b \in 1 .. Len(ds), a <= b,
         ds[a].kind = "namespace", ds[b].kind = "namespace", ds[a].id = ds[b].id,
         Entity(ds)[Anc(ds)[a]] = Entity(ds)[Anc(ds)[b]]
  PROVE  Entity(ds)[a] = Entity(ds)[b]
<1> DEFINE e == Entity(ds)
           A == Same(ds, e, a)
           B == Same(ds, e, b)
<1>1. Len(ds) \in Nat /\ a \in 0 .. Len(ds) /\ b \in 0 .. Len(ds) /\ a \in Nat /\ b \in Nat
  BY UnitType
<1>2. e[a] = Min(A) /\ e[b] = Min(B)
  <2>1. e[a] = First(ds, e, a) /\ e[b] = First(ds, e, b)
    BY <1>1, EntityIs
  <2> QED BY <2>1, <1>1 DEF First
<1>3. A = {j \in B : j <= a} /\ a \in B /\ B \in SUBSET Nat
  BY <1>1 DEF Same
<1> HIDE DEF A, B, e
<1>4. Min(B) \in B /\ \A y \in B : Min(B) <= y
  BY <1>3, MinExists
<1>5. Min(B) \in A /\ A \in SUBSET Nat /\ \A y \in A : Min(B) <= y
  BY <1>3, <1>4
<1>6. Min(A) = Min(B)
  BY <1>5, MinIs
<1> QED
  BY <1>2, <1>6 DEF e

\* What the atomic name x of a declaration says of it.
Says(ds, i, x) ==
  /\ x.ctor \in {"Nid", "Nby_first_decl", "Nenum_by_enumerator", "Nanonymous", "Nanon",
                 "Nunsupported_atomic", "Nrecord_by_field"}
  /\ x.ctor = "Nid" =>
       x.str # "" /\ (x.str = ds[i].id \/ (ds[i].kind \in Tags /\ x.str = ds[i].tdef))
  /\ x.ctor = "Nby_first_decl" => by_first_decl(ds, i) /\ x.str = ds[Following(ds, i)].id
  /\ x.ctor = "Nenum_by_enumerator" => x.str # "" /\ ds[i].kind = "enum" /\ x.str = ds[i].key
  /\ x.ctor = "Nanonymous" => ds[i].kind = "namespace" /\ ds[i].id = ""
  /\ x.ctor = "Nanon" => ds[i].id = "" /\ x.num = getAnonymousIndex(ds, i)

LEMMA AtomIs ==
  ASSUME NEW ds, NEW i
  PROVE  Says(ds, i, printAtomicName(ds, i))
BY DEF printAtomicName, Atom, Says

\* a and b, which are i and j or contexts of theirs, are of different
\* entities of one scope and have the same atomic name.
Forks(ds, i, j, a, b) ==
  /\ a \in 1 .. Len(ds) /\ b \in 1 .. Len(ds)
  /\ Entity(ds)[a] # Entity(ds)[b]
  /\ Entity(ds)[Anc(ds)[a]] = Entity(ds)[Anc(ds)[b]]
  /\ printAtomicName(ds, a) = printAtomicName(ds, b)
  /\ \/ a = i /\ b = j
     \/ {ds[a].kind, ds[b].kind} \subseteq {"namespace", "record"}

\* Equal names of different entities fork.
LEMMA NamesFork ==
  ASSUME NEW ds, Unit(ds)
  PROVE  \A i, j \in 0 .. Len(ds) :
           /\ Entity(ds)[i] # Entity(ds)[j]
           /\ printName(ds)[i] = printName(ds)[j]
           => \E a \in Chain(Anc(ds), Len(ds))[i], b \in Chain(Anc(ds), Len(ds))[j] :
                Forks(ds, i, j, a, b)
<1> DEFINE n == Len(ds)
           e == Entity(ds)
           anc == Anc(ds)
           name == printName(ds)
           path == Chain(anc, n)
           F(i, j, a, b) == /\ a \in 1 .. n /\ b \in 1 .. n
                            /\ e[a] # e[b] /\ e[anc[a]] = e[anc[b]]
                            /\ printAtomicName(ds, a) = printAtomicName(ds, b)
                            /\ \/ a = i /\ b = j
                               \/ {ds[a].kind, ds[b].kind} \subseteq {"namespace", "record"}
           P(i) == \A j \in 0 .. n : e[i] # e[j] /\ name[i] = name[j] =>
                     \E a \in path[i], b \in path[j] : F(i, j, a, b)
           T == {i \in Nat : i <= n => P(i)}
<1>1. n \in Nat
  BY UnitType
<1>2. \A i \in 1 .. n : /\ anc[i] \in Nat /\ anc[i] < i /\ anc[i] \in 0 .. n
                        /\ anc[i] # 0 => ds[anc[i]].kind \in {"namespace", "record"}
  BY <1>1, AncType
<1>3. \A i \in 1 .. n : path[i] = {i} \cup path[anc[i]]
  BY <1>1, <1>2, ChainIs DEF IsParent
<1>4. /\ name[0] = <<>>
      /\ \A i \in 1 .. n : name[i] = Append(name[anc[i]], printAtomicName(ds, i))
      /\ \A i \in 0 .. n : name[i] \in Seq({printAtomicName(ds, j) : j \in 1 .. n})
  BY NameIs
<1> HIDE DEF n, e, anc, name, path
<1>5. \A i \in 1 .. n : name[i] # <<>>
  BY <1>2, <1>4
<1>6. ASSUME NEW i \in Nat, \A m \in Nat : m < i => m \in T PROVE i \in T
  <2> SUFFICES ASSUME i <= n, NEW j \in 0 .. n, e[i] # e[j], name[i] = name[j]
               PROVE  \E a \in path[i], b \in path[j] : F(i, j, a, b)
    OBVIOUS
  <2>1. i \in 1 .. n /\ j \in 1 .. n
    <3>1. i \in 0 .. n /\ j \in 0 .. n /\ ~(i = 0 /\ j = 0)
      BY <1>1
    <3>2. ~(i = 0 /\ j # 0) /\ ~(i # 0 /\ j = 0)
      BY <3>1, <1>4, <1>5
    <3> QED BY <3>1, <3>2
  <2> DEFINE c == anc[i]
             d == anc[j]
  <2>2. c \in 0 .. n /\ d \in 0 .. n /\ c \in Nat /\ c < i
    BY <2>1, <1>2
  <2>3. name[c] = name[d] /\ printAtomicName(ds, i) = printAtomicName(ds, j)
    <3> DEFINE A == {printAtomicName(ds, k) : k \in 1 .. n}
    <3>1. /\ name[c] \in Seq(A) /\ name[d] \in Seq(A)
          /\ printAtomicName(ds, i) \in A /\ printAtomicName(ds, j) \in A
      BY <2>1, <2>2, <1>4
    <3>2. Append(name[c], printAtomicName(ds, i)) = Append(name[d], printAtomicName(ds, j))
      BY <2>1, <1>4
    <3> HIDE DEF A, c, d
    <3> QED BY <3>1, <3>2
  <2>4. CASE e[c] = e[d]
    <3>1. F(i, j, i, j) /\ i \in path[i] /\ j \in path[j]
      BY <2>1, <2>3, <2>4, <1>3
    <3> QED BY <3>1
  <2>5. CASE e[c] # e[d]
    <3>1. P(c)
      BY <2>2, <1>6, <1>1
    <3>2. PICK a \in path[c], b \in path[d] : F(c, d, a, b)
      BY <3>1, <2>2, <2>3, <2>5
    <3>3. a \in path[i] /\ b \in path[j]
      BY <2>1, <1>3
    <3>4. F(i, j, a, b)
      <4>1. a = c /\ b = d => {ds[a].kind, ds[b].kind} \subseteq {"namespace", "record"}
        BY <3>2, <2>1, <1>2, <1>1
      <4> QED BY <4>1, <3>2
    <3> QED BY <3>3, <3>4
  <2> QED BY <2>4, <2>5
<1>7. T = Nat
  <2>1. T \in SUBSET Nat
    OBVIOUS
  <2> HIDE DEF T
  <2> QED BY <1>6, <2>1, StrongInduction
<1>8. \A i \in 0 .. n : P(i)
  <2>1. \A i \in 0 .. n : i \in T /\ i <= n
    BY <1>1, <1>7
  <2> QED BY <2>1
<1> QED
  BY <1>8 DEF n, e, anc, name, path, Forks

\* What getAnonymousIndex counts.
Counted(ds, i) ==
  {j \in 1 .. i - 1 : /\ Anc(ds)[j] = Anc(ds)[i] /\ isAnonymous(ds[j])
                      /\ j \notin Around(ds)[i]}

LEMMA IndexIs ==
  ASSUME NEW ds, NEW i
  PROVE  getAnonymousIndex(ds, i) = Cardinality(Counted(ds, i))
BY DEF getAnonymousIndex, Counted, Inside, Around, Ctx, Anc

LEMMA CountedIs ==
  ASSUME NEW ds, NEW i, NEW j \in 1 .. i - 1
  PROVE  j \in Counted(ds, i) <=> /\ Anc(ds)[j] = Anc(ds)[i] /\ isAnonymous(ds[j])
                                  /\ j \notin Around(ds)[i]
BY DEF Counted

\* The numbers of what has no name increase within a context.
LEMMA IndexIncreases ==
  ASSUME NEW ds, Unit(ds), Nested(ds), NEW a \in 1 .. Len(ds), NEW b \in 1 .. Len(ds),
         a < b, Anc(ds)[a] = Anc(ds)[b], isAnonymous(ds[a]), ds[a].kind # "linkage"
  PROVE  getAnonymousIndex(ds, a) # getAnonymousIndex(ds, b)
<1> DEFINE S(i) == Counted(ds, i)
<1>1. getAnonymousIndex(ds, a) = Cardinality(S(a)) /\ getAnonymousIndex(ds, b) = Cardinality(S(b))
  BY IndexIs
<1>2. a \in Nat /\ b \in Nat
  BY UnitType
<1>3. a \in S(b) /\ a \notin S(a)
  <2>1. a \notin Around(ds)[b]
    BY <1>2, AncInnermost, AncType
  <2> QED BY <2>1, <1>2 DEF Counted
<1>4. ASSUME NEW j \in S(a) PROVE j \in S(b)
  <2>1. j \in 1 .. b - 1 /\ a \in j .. b
    BY <1>2 DEF Counted
  <2>2. j \notin Around(ds)[b]
    BY <2>1 DEF Nested, Counted
  <2> QED BY <2>1, <2>2 DEF Counted
<1>5. IsFiniteSet(S(a)) /\ IsFiniteSet(S(b))
  <2>1. IsFiniteSet(1 .. a - 1) /\ IsFiniteSet(1 .. b - 1)
    <3>1. 1 \in Int /\ a - 1 \in Int /\ b - 1 \in Int
      BY <1>2
    <3> QED BY <3>1, FS_Interval, Zenon
  <2>2. S(a) \subseteq 1 .. a - 1 /\ S(b) \subseteq 1 .. b - 1
    BY DEF Counted
  <2> HIDE DEF S
  <2> QED BY <2>1, <2>2, FS_Subset
<1>6. S(a) \cup {a} \subseteq S(b)
  BY <1>3, <1>4
<1> HIDE DEF S
<1>7. IsFiniteSet(S(a) \cup {a}) /\ Cardinality(S(a) \cup {a}) = Cardinality(S(a)) + 1
  BY <1>3, <1>5, FS_AddElement
<1>8. /\ Cardinality(S(a) \cup {a}) <= Cardinality(S(b))
      /\ Cardinality(S(a)) \in Nat /\ Cardinality(S(b)) \in Nat
  BY <1>5, <1>6, <1>7, FS_Subset, FS_CardinalityType
<1> QED
  BY <1>1, <1>7, <1>8

\* Two declarations of one scope that have the same atomic name and are not
\* of one entity are classes, or numbered in different blocks.
LEMMA AtomsDiffer ==
  ASSUME NEW ds, Unit(ds), Nested(ds), Scoped(ds),
         NEW a \in 1 .. Len(ds), NEW b \in 1 .. Len(ds), a < b,
         Entity(ds)[a] # Entity(ds)[b], Entity(ds)[Anc(ds)[a]] = Entity(ds)[Anc(ds)[b]],
         printAtomicName(ds, a) = printAtomicName(ds, b),
         \/ {ds[a].kind, ds[b].kind} \subseteq {"namespace", "record"}
         \/ /\ {ds[a].kind, ds[b].kind} \subseteq {"record", "enum", "value"}
            /\ Sort(ds[a]) = Sort(ds[b])
  PROVE  \/ printAtomicName(ds, a).ctor \in {"Nunsupported_atomic", "Nrecord_by_field"}
         \/ printAtomicName(ds, a).ctor = "Nanon" /\ Anc(ds)[a] # Anc(ds)[b]
<1> DEFINE x == printAtomicName(ds, a)
<1>1. Says(ds, a, x) /\ Says(ds, b, x)
  BY AtomIs
<1> HIDE DEF x
<1>2. Len(ds) \in Nat /\ a \in Nat /\ b \in Nat /\ a \in 1 .. b - 1
  BY UnitType
<1>3. \A y \in Introduces(ds[a]) \cap Introduces(ds[b]) : y[2] = ""
  BY <1>2 DEF Scoped
<1>4. x.ctor # "Nid"
  <2> SUFFICES ASSUME x.ctor = "Nid" PROVE FALSE
    OBVIOUS
  <2>1. /\ x.str # ""
        /\ x.str = ds[a].id \/ (ds[a].kind \in Tags /\ x.str = ds[a].tdef)
        /\ x.str = ds[b].id \/ (ds[b].kind \in Tags /\ x.str = ds[b].tdef)
    BY <1>1 DEF Says
  <2>2. PICK s \in {"type", "value"} :
          <<s, x.str>> \in Introduces(ds[a]) /\ <<s, x.str>> \in Introduces(ds[b])
    BY <2>1 DEF Introduces, Sort, Tags
  <2>3. <<s, x.str>>[2] = ""
    BY <2>2, <1>3
  <2> QED BY <2>1, <2>3
<1>5. x.ctor # "Nenum_by_enumerator"
  <2> SUFFICES ASSUME x.ctor = "Nenum_by_enumerator" PROVE FALSE
    OBVIOUS
  <2>1. /\ x.str # "" /\ ds[a].kind = "enum" /\ ds[b].kind = "enum"
        /\ x.str = ds[a].key /\ x.str = ds[b].key
    BY <1>1 DEF Says
  <2>2. <<"value", x.str>> \in Introduces(ds[a]) /\ <<"value", x.str>> \in Introduces(ds[b])
    BY <2>1 DEF Introduces
  <2>3. <<"value", x.str>>[2] = ""
    BY <2>2, <1>3
  <2> QED BY <2>1, <2>3
<1>6. x.ctor # "Nanonymous"
  <2> SUFFICES ASSUME x.ctor = "Nanonymous" PROVE FALSE
    OBVIOUS
  <2>1. ds[a].kind = "namespace" /\ ds[b].kind = "namespace" /\ ds[a].id = ds[b].id
    BY <1>1 DEF Says
  <2> QED BY <2>1, <1>2, SameNamespace
<1>7. x.ctor # "Nby_first_decl"
  <2> SUFFICES ASSUME x.ctor = "Nby_first_decl" PROVE FALSE
    OBVIOUS
  <2> DEFINE f == Following(ds, a)
             g == Following(ds, b)
  <2>1. by_first_decl(ds, a) /\ by_first_decl(ds, b) /\ x.str = ds[f].id /\ x.str = ds[g].id
    BY <1>1 DEF Says
  <2>2. /\ f # 0 /\ ds[f].kind = "value" /\ ds[f].of = a /\ ds[f].id # ""
        /\ g # 0 /\ ds[g].kind = "value" /\ ds[g].of = b
    BY <2>1 DEF by_first_decl
  <2>3. /\ f \in 1 .. Len(ds) /\ ds[f].ctx = ds[a].ctx
        /\ g \in 1 .. Len(ds) /\ ds[g].ctx = ds[b].ctx
    BY <2>2, FollowingType
  <2> HIDE DEF f, g
  <2>4. f # g
    BY <2>2, <1>2
  <2>5. Entity(ds)[f] = f /\ Entity(ds)[g] = g
    <3>1. ds[f].kind # "namespace" /\ ds[g].kind # "namespace"
      BY <2>2
    <3> QED BY <3>1, <2>3, EntityOfOther
  <2>6. Anc(ds)[f] = Anc(ds)[a] /\ Anc(ds)[g] = Anc(ds)[b]
    BY <2>3, AncIs
  <2>7. <<"value", ds[f].id>> \in Introduces(ds[f]) \cap Introduces(ds[g])
    <3>1. Sort(ds[f]) = "value" /\ Sort(ds[g]) = "value"
      BY <2>2 DEF Sort, Tags
    <3> QED BY <3>1, <2>1, <2>2 DEF Introduces
  <2>8. \A y \in Introduces(ds[f]) \cap Introduces(ds[g]) : y[2] = ""
    <3>1. f \in 1 .. g - 1 \/ g \in 1 .. f - 1
      BY <2>3, <2>4, <1>2
    <3> QED BY <3>1, <2>3, <2>4, <2>5, <2>6 DEF Scoped
  <2>9. <<"value", ds[f].id>>[2] = ""
    BY <2>7, <2>8
  <2> QED BY <2>2, <2>9
<1>8. x.ctor = "Nanon" => Anc(ds)[a] # Anc(ds)[b]
  <2> SUFFICES ASSUME x.ctor = "Nanon", Anc(ds)[a] = Anc(ds)[b] PROVE FALSE
    OBVIOUS
  <2>1. /\ isAnonymous(ds[a])
        /\ getAnonymousIndex(ds, a) = getAnonymousIndex(ds, b)
    BY <1>1 DEF Says, isAnonymous
  <2>2. ds[a].kind # "linkage"
    OBVIOUS
  <2> QED BY <2>1, <2>2, IndexIncreases
<1>9. x.ctor \in {"Nid", "Nby_first_decl", "Nenum_by_enumerator", "Nanonymous", "Nanon",
                  "Nunsupported_atomic", "Nrecord_by_field"}
  BY <1>1 DEF Says
<1>10. x.ctor \in {"Nunsupported_atomic", "Nrecord_by_field"} \/ (x.ctor = "Nanon" /\ Anc(ds)[a] # Anc(ds)[b])
  BY <1>4, <1>5, <1>6, <1>7, <1>8, <1>9
<1> QED
  BY <1>10 DEF x

LEMMA NamesDistinct ==
  ASSUME NInv
  PROVE  DistinctNames
<1> SUFFICES ASSUME NEW i \in Named(decls), NEW j \in Named(decls), i # j,
                    Sort(decls[i]) = Sort(decls[j]),
                    printName(decls)[i] = printName(decls)[j]
             PROVE  Excused(decls, i, j)
  BY DEF DistinctNames
<1> DEFINE n == Len(decls)
           e == Entity(decls)
           anc == Anc(decls)
           Excuse(a, b) ==
             \/ printAtomicName(decls, a).ctor \in {"Nunsupported_atomic", "Nrecord_by_field"}
             \/ printAtomicName(decls, a).ctor = "Nanon" /\ anc[a] # anc[b]
<1>1. Unit(decls) /\ Nested(decls) /\ Scoped(decls)
  BY DEF NInv
<1>2. n \in Nat /\ DOMAIN decls = 1 .. n
  BY <1>1, UnitType
<1>3. /\ i \in 1 .. n /\ decls[i].kind \in {"record", "enum", "value"}
      /\ j \in 1 .. n /\ decls[j].kind \in {"record", "enum", "value"}
  BY <1>2 DEF Named, Tags
<1>4. e[i] # e[j]
  <2>1. decls[i].kind # "namespace" /\ decls[j].kind # "namespace"
    BY <1>3
  <2>2. e[i] = i /\ e[j] = j
    BY <2>1, <1>1, <1>3, EntityOfOther
  <2> QED BY <2>2
<1>5. PICK a \in Chain(anc, n)[i], b \in Chain(anc, n)[j] : Forks(decls, i, j, a, b)
  <2>1. i \in 0 .. n /\ j \in 0 .. n
    BY <1>2, <1>3
  <2> QED BY <2>1, <1>1, <1>4, NamesFork
<1>6. /\ a \in 1 .. n /\ b \in 1 .. n /\ e[a] # e[b] /\ e[anc[a]] = e[anc[b]]
      /\ printAtomicName(decls, a) = printAtomicName(decls, b)
      /\ \/ a = i /\ b = j
         \/ {decls[a].kind, decls[b].kind} \subseteq {"namespace", "record"}
  BY <1>5 DEF Forks
<1>7. \/ {decls[a].kind, decls[b].kind} \subseteq {"namespace", "record"}
      \/ /\ {decls[a].kind, decls[b].kind} \subseteq {"record", "enum", "value"}
         /\ Sort(decls[a]) = Sort(decls[b])
  BY <1>3, <1>6
<1>8. Excuse(a, b)
  <2>1. CASE a < b
    BY <2>1, <1>1, <1>6, <1>7, AtomsDiffer
  <2>2. CASE b < a
    <3>1. Excuse(b, a)
      <4>1. \/ {decls[b].kind, decls[a].kind} \subseteq {"namespace", "record"}
            \/ /\ {decls[b].kind, decls[a].kind} \subseteq {"record", "enum", "value"}
               /\ Sort(decls[b]) = Sort(decls[a])
        BY <1>7
      <4> QED BY <2>2, <4>1, <1>1, <1>6, AtomsDiffer
    <3> QED BY <3>1, <1>6
  <2>3. a # b /\ a \in Nat /\ b \in Nat
    BY <1>2, <1>6
  <2> QED BY <2>1, <2>2, <2>3
<1> QED
  BY <1>5, <1>6, <1>8 DEF Excused, Anc

\* Two entities have different names, for every nesting of namespaces, linkage
\* specifications and classes, but for the unnamed classes that printName
\* does not support, names by their first field, or numbers in different
\* blocks of a namespace.
THEOREM NamesAreDistinct == Spec => []DistinctNames
BY NamesInvariant, NamesDistinct, PTL

----------------------------------------------------------------------------
(* Headers.                                                                *)

Shift(k, m) == IF m > k THEN m - k ELSE 0

\* The units ds, and fs that is ds without its first k declarations.
Cut(ds, fs, k) ==
  /\ Unit(ds) /\ Unit(fs) /\ k \in Nat /\ Len(ds) = k + Len(fs)
  /\ \A i \in 1 .. Len(fs) :
       /\ fs[i].kind = ds[k + i].kind /\ fs[i].id = ds[k + i].id
       /\ fs[i].tdef = ds[k + i].tdef /\ fs[i].key = ds[k + i].key
       /\ fs[i].ctx = Shift(k, ds[k + i].ctx) /\ fs[i].of = Shift(k, ds[k + i].of)
       /\ ds[k + i].ctx = 0 \/ ds[k + i].ctx > k

\* File cuts before a declaration of the translation unit: by Nested, nothing
\* after it is in a context before it.
LEMMA FileCuts ==
  ASSUME NEW ds, Unit(ds), Nested(ds), NEW k \in Nat, k < Len(ds), ds[k + 1].ctx = 0
  PROVE  Cut(ds, File(ds, k), k)
<1> DEFINE n == Len(ds)
           m == n - k
           F == File(ds, k)
<1>1. n \in Nat /\ m \in Nat /\ k + 1 \in 1 .. n
  BY UnitType
<1>2. \A i \in 1 .. m : k + i \in 1 .. n /\ ds[k + i] \in Decl
  <2>1. \A i \in 1 .. m : k + i \in 1 .. n
    BY <1>1
  <2> QED BY <2>1, UnitType
<1>3. F = [i \in 1 .. m |->
             [ds[k + i] EXCEPT !.ctx = Shift(k, ds[k + i].ctx), !.of = Shift(k, ds[k + i].of)]]
  BY DEF File, Shift
<1>4. \A i \in 1 .. m :
        /\ F[i] \in Decl
        /\ F[i].kind = ds[k + i].kind /\ F[i].id = ds[k + i].id
        /\ F[i].tdef = ds[k + i].tdef /\ F[i].key = ds[k + i].key
        /\ F[i].ctx = Shift(k, ds[k + i].ctx) /\ F[i].of = Shift(k, ds[k + i].of)
  <2> SUFFICES ASSUME NEW i \in 1 .. m
               PROVE  /\ F[i] \in Decl
                      /\ F[i].kind = ds[k + i].kind /\ F[i].id = ds[k + i].id
                      /\ F[i].tdef = ds[k + i].tdef /\ F[i].key = ds[k + i].key
                      /\ F[i].ctx = Shift(k, ds[k + i].ctx) /\ F[i].of = Shift(k, ds[k + i].of)
    OBVIOUS
  <2> DEFINE d == ds[k + i]
             c == Shift(k, ds[k + i].ctx)
             o == Shift(k, ds[k + i].of)
  <2>1. F[i] = [d EXCEPT !.ctx = c, !.of = o]
    BY <1>3
  <2>2. d \in Decl /\ c \in Nat /\ o \in Nat
    BY <1>2 DEF Decl, Shift
  <2> HIDE DEF c, o, d, m, F
  <2>3. /\ [d EXCEPT !.ctx = c, !.of = o] \in Decl
        /\ [d EXCEPT !.ctx = c, !.of = o].kind = d.kind
        /\ [d EXCEPT !.ctx = c, !.of = o].id = d.id
        /\ [d EXCEPT !.ctx = c, !.of = o].tdef = d.tdef
        /\ [d EXCEPT !.ctx = c, !.of = o].key = d.key
        /\ [d EXCEPT !.ctx = c, !.of = o].ctx = c
        /\ [d EXCEPT !.ctx = c, !.of = o].of = o
    BY <2>2 DEF Decl
  <2> QED BY <2>1, <2>3 DEF c, o, d
<1>5. F \in Seq(Decl) /\ Len(F) = m
  <2>1. F \in [1 .. m -> Decl]
    <3> HIDE DEF m
    <3> QED BY <1>3, <1>4
  <2> HIDE DEF F, m
  <2> QED BY <2>1, <1>1
<1> HIDE DEF F
<1>6. ASSUME NEW i \in 1 .. m PROVE ds[k + i].ctx = 0 \/ ds[k + i].ctx > k
  <2> SUFFICES ASSUME ds[k + i].ctx # 0, ds[k + i].ctx <= k PROVE FALSE
    BY <1>2 DEF Decl
  <2> DEFINE c == ds[k + i].ctx
  <2>1. k + i \in 1 .. n /\ c \in Nat /\ c \in 1 .. n /\ k + 1 \in c .. k + i
    BY <1>1, <1>2, UnitType
  <2>2. c \in Around(ds)[k + i]
    BY <2>1, AroundIs
  <2>3. c \in Around(ds)[k + 1]
    BY <2>1, <2>2 DEF Nested
  <2>4. Around(ds)[k + 1] = {k + 1}
    BY <1>1, AroundIs
  <2> QED BY <2>1, <2>3, <2>4
<1>7. Unit(F)
  <2>1. ASSUME NEW i \in 1 .. m
        PROVE  F[i].ctx < i /\ (F[i].ctx # 0 => F[F[i].ctx].kind \in Contexts)
    <3> DEFINE c == ds[k + i].ctx
    <3>1. c \in Nat /\ c < k + i /\ (c # 0 => ds[c].kind \in Contexts) /\ F[i].ctx = Shift(k, c)
      BY <1>2, <1>4, UnitType DEF Unit
    <3>2. CASE c = 0
      BY <3>1, <3>2 DEF Shift
    <3>3. CASE c # 0
      <4>1. c > k /\ F[i].ctx = c - k /\ c - k \in 1 .. m /\ c - k < i /\ k + (c - k) = c
        BY <3>1, <3>3, <1>1, <1>6 DEF Shift
      <4>2. F[c - k].kind = ds[c].kind
        BY <4>1, <1>4
      <4> QED BY <4>1, <4>2, <3>1, <3>3
    <3> QED BY <3>2, <3>3
  <2> QED BY <2>1, <1>5 DEF Unit
<1>8. n = k + Len(F)
  BY <1>1, <1>5
<1> QED
  BY <1>4, <1>5, <1>6, <1>7, <1>8 DEF Cut, F

LEMMA CutType ==
  ASSUME NEW ds, NEW fs, NEW k, Cut(ds, fs, k)
  PROVE  /\ k \in Nat /\ Len(fs) \in Nat /\ Len(ds) = k + Len(fs)
         /\ DOMAIN fs = 1 .. Len(fs) /\ DOMAIN ds = 1 .. Len(ds)
         /\ \A i \in 1 .. Len(fs) :
              /\ k + i \in 1 .. Len(ds) /\ fs[i].ctx \in Nat /\ fs[i].ctx < i
              /\ \/ ds[k + i].ctx = 0 /\ fs[i].ctx = 0
                 \/ fs[i].ctx \in 1 .. Len(fs) /\ ds[k + i].ctx = k + fs[i].ctx
<1>1. /\ k \in Nat /\ Len(fs) \in Nat /\ Len(ds) = k + Len(fs) /\ Unit(ds) /\ Unit(fs)
      /\ DOMAIN fs = 1 .. Len(fs) /\ DOMAIN ds = 1 .. Len(ds)
  BY UnitType DEF Cut
<1> SUFFICES ASSUME NEW i \in 1 .. Len(fs)
             PROVE  /\ k + i \in 1 .. Len(ds) /\ fs[i].ctx \in Nat /\ fs[i].ctx < i
                    /\ \/ ds[k + i].ctx = 0 /\ fs[i].ctx = 0
                       \/ fs[i].ctx \in 1 .. Len(fs) /\ ds[k + i].ctx = k + fs[i].ctx
  BY <1>1
<1>2. k + i \in 1 .. Len(ds)
  BY <1>1
<1>3. fs[i].ctx \in Nat /\ fs[i].ctx < i /\ ds[k + i].ctx \in Nat
  BY <1>1, <1>2, UnitType
<1>4. fs[i].ctx = Shift(k, ds[k + i].ctx) /\ (ds[k + i].ctx = 0 \/ ds[k + i].ctx > k)
  BY DEF Cut
<1> QED
  BY <1>1, <1>2, <1>3, <1>4 DEF Shift

LEMMA CutAround ==
  ASSUME NEW ds, NEW fs, NEW k, Cut(ds, fs, k)
  PROVE  \A i \in 1 .. Len(fs) : \A x \in 1 .. Len(fs) :
           x \in Around(fs)[i] <=> k + x \in Around(ds)[k + i]
<1> DEFINE P(i) == \A x \in 1 .. Len(fs) : x \in Around(fs)[i] <=> k + x \in Around(ds)[k + i]
           T == {i \in Nat : i \in 1 .. Len(fs) => P(i)}
<1>1. k \in Nat /\ Len(fs) \in Nat /\ Unit(ds) /\ Unit(fs)
  BY CutType DEF Cut
<1>2. ASSUME NEW i \in Nat, \A m \in Nat : m < i => m \in T PROVE i \in T
  <2> SUFFICES ASSUME i \in 1 .. Len(fs), NEW x \in 1 .. Len(fs)
               PROVE  x \in Around(fs)[i] <=> k + x \in Around(ds)[k + i]
    OBVIOUS
  <2> DEFINE c == fs[i].ctx
  <2>1. /\ k + i \in 1 .. Len(ds) /\ c \in Nat /\ c < i
        /\ \/ ds[k + i].ctx = 0 /\ c = 0
           \/ c \in 1 .. Len(fs) /\ ds[k + i].ctx = k + c
    BY CutType
  <2>2. /\ Around(fs)[i] = {i} \cup Around(fs)[c] /\ Around(fs)[0] = {}
        /\ Around(ds)[k + i] = {k + i} \cup Around(ds)[ds[k + i].ctx] /\ Around(ds)[0] = {}
    BY <1>1, <2>1, AroundIs
  <2>3. x = i <=> k + x = k + i
    BY <1>1
  <2>4. CASE c = 0 /\ ds[k + i].ctx = 0
    BY <2>2, <2>3, <2>4
  <2>5. CASE c \in 1 .. Len(fs) /\ ds[k + i].ctx = k + c
    <3>1. P(c)
      BY <2>1, <2>5, <1>2
    <3> QED BY <3>1, <2>2, <2>3, <2>5
  <2> QED BY <2>1, <2>4, <2>5
<1>3. T = Nat
  <2>1. T \in SUBSET Nat
    OBVIOUS
  <2> HIDE DEF T
  <2> QED BY <1>2, <2>1, StrongInduction
<1>4. \A i \in 1 .. Len(fs) : i \in T
  BY <1>1, <1>3
<1> QED
  BY <1>4

LEMMA CutAnc ==
  ASSUME NEW ds, NEW fs, NEW k, Cut(ds, fs, k)
  PROVE  \A i \in 1 .. Len(fs) :
           \/ Anc(fs)[i] = 0 /\ Anc(ds)[k + i] = 0
           \/ Anc(fs)[i] \in 1 .. Len(fs) /\ Anc(ds)[k + i] = k + Anc(fs)[i]
<1> DEFINE P(i) == \/ Anc(fs)[i] = 0 /\ Anc(ds)[k + i] = 0
                   \/ Anc(fs)[i] \in 1 .. Len(fs) /\ Anc(ds)[k + i] = k + Anc(fs)[i]
           T == {i \in Nat : i \in 1 .. Len(fs) => P(i)}
<1>1. k \in Nat /\ Len(fs) \in Nat /\ Unit(ds) /\ Unit(fs)
  BY CutType DEF Cut
<1>2. ASSUME NEW i \in Nat, \A m \in Nat : m < i => m \in T PROVE i \in T
  <2> SUFFICES ASSUME i \in 1 .. Len(fs) PROVE P(i)
    OBVIOUS
  <2> DEFINE c == fs[i].ctx
             b == ds[k + i].ctx
  <2>1. /\ k + i \in 1 .. Len(ds) /\ c \in Nat /\ c < i
        /\ (b = 0 /\ c = 0) \/ (c \in 1 .. Len(fs) /\ b = k + c)
    BY CutType
  <2>2. /\ Anc(fs)[i] = IF isIgnorableContext(fs, c) THEN Anc(fs)[c] ELSE c
        /\ Anc(ds)[k + i] = IF isIgnorableContext(ds, b) THEN Anc(ds)[b] ELSE b
    BY <1>1, <2>1, AncIs
  <2> HIDE DEF b, c
  <2>3. CASE b = 0 /\ c = 0
    <3>1. ~isIgnorableContext(fs, c) /\ ~isIgnorableContext(ds, b)
      BY <2>3 DEF isIgnorableContext, Kind
    <3> QED BY <3>1, <2>2, <2>3
  <2>4. CASE c \in 1 .. Len(fs) /\ b = k + c
    <3>1. b # 0 /\ c # 0 /\ fs[c].kind = ds[b].kind
      BY <2>4, <1>1 DEF Cut
    <3>2. isIgnorableContext(fs, c) <=> isIgnorableContext(ds, b)
      BY <3>1 DEF isIgnorableContext, Kind
    <3>3. P(c)
      BY <2>1, <2>4, <1>2
    <3>4. CASE isIgnorableContext(fs, c)
      <4>1. Anc(fs)[i] = Anc(fs)[c] /\ Anc(ds)[k + i] = Anc(ds)[k + c]
        BY <2>2, <2>4, <3>2, <3>4
      <4> QED BY <4>1, <3>3
    <3>5. CASE ~isIgnorableContext(fs, c)
      <4>1. Anc(fs)[i] = c /\ Anc(ds)[k + i] = k + c
        BY <2>2, <2>4, <3>2, <3>5
      <4> QED BY <4>1, <2>4
    <3> QED BY <3>4, <3>5
  <2> QED BY <2>1, <2>3, <2>4
<1>3. T = Nat
  <2>1. T \in SUBSET Nat
    OBVIOUS
  <2> HIDE DEF T
  <2> QED BY <1>2, <2>1, StrongInduction
<1>4. \A i \in 1 .. Len(fs) : i \in T
  BY <1>1, <1>3
<1> QED
  BY <1>4

LEMMA CutFollowing ==
  ASSUME NEW ds, NEW fs, NEW k, Cut(ds, fs, k), NEW i \in 1 .. Len(fs)
  PROVE  \/ Following(fs, i) = 0 /\ Following(ds, k + i) = 0
         \/ /\ Following(fs, i) \in 1 .. Len(fs)
            /\ Following(ds, k + i) = k + Following(fs, i)
<1> DEFINE f == Following(fs, i)
           A == {j \in DOMAIN fs : j > i /\ fs[j].ctx = fs[i].ctx}
           B == {j \in DOMAIN ds : j > k + i /\ ds[j].ctx = ds[k + i].ctx}
<1>1. /\ k \in Nat /\ Len(fs) \in Nat /\ Len(ds) = k + Len(fs) /\ Unit(fs)
      /\ DOMAIN fs = 1 .. Len(fs) /\ DOMAIN ds = 1 .. Len(ds)
  BY CutType DEF Cut
<1>2. f = IF A = {} THEN 0 ELSE Min(A)
  BY DEF Following
<1>3. Following(ds, k + i) = IF B = {} THEN 0 ELSE Min(B)
  BY DEF Following
<1>4. \A j \in 1 .. Len(fs) : fs[j].ctx = fs[i].ctx <=> ds[k + j].ctx = ds[k + i].ctx
  <2> SUFFICES ASSUME NEW j \in 1 .. Len(fs)
               PROVE  fs[j].ctx = fs[i].ctx <=> ds[k + j].ctx = ds[k + i].ctx
    OBVIOUS
  <2>1. /\ fs[i].ctx \in Nat
        /\ \/ ds[k + i].ctx = 0 /\ fs[i].ctx = 0
           \/ fs[i].ctx \in 1 .. Len(fs) /\ ds[k + i].ctx = k + fs[i].ctx
    BY CutType
  <2>2. /\ fs[j].ctx \in Nat
        /\ \/ ds[k + j].ctx = 0 /\ fs[j].ctx = 0
           \/ fs[j].ctx \in 1 .. Len(fs) /\ ds[k + j].ctx = k + fs[j].ctx
    BY CutType
  <2> QED BY <2>1, <2>2, <1>1
<1>5. \A j \in A : k + j \in B
  BY <1>1, <1>4
<1>6. ASSUME NEW j \in B PROVE j - k \in A
  <2>1. j - k \in 1 .. Len(fs) /\ j - k > i /\ k + (j - k) = j
    BY <1>1
  <2> QED BY <2>1, <1>1, <1>4
<1>7. A \in SUBSET Nat /\ B \in SUBSET Nat
  BY <1>1
<1> HIDE DEF A, B
<1>8. CASE A = {}
  BY <1>2, <1>3, <1>6, <1>8
<1>9. CASE A # {}
  <2>1. f \in A /\ \A j \in A : f <= j
    <3>1. f = Min(A)
      BY <1>2, <1>9
    <3>2. Min(A) \in A /\ \A j \in A : Min(A) <= j
      BY <1>7, <1>9, MinExists
    <3> HIDE DEF f
    <3> QED BY <3>1, <3>2
  <2>2. k + f \in B
    BY <2>1, <1>5
  <2>3. ASSUME NEW j \in B PROVE k + f <= j
    <3>1. f <= j - k /\ j \in Nat /\ f \in Nat
      BY <2>1, <1>6, <1>7
    <3> QED BY <3>1, <1>1
  <2>4. Min(B) = k + f
    <3> HIDE DEF f
    <3> QED BY <2>2, <2>3, <1>7, MinIs
  <2>5. B # {} /\ f \in 1 .. Len(fs)
    BY <2>1, <2>2, <1>1 DEF A
  <2> QED BY <2>4, <2>5, <1>3
<1> QED
  BY <1>8, <1>9

LEMMA CutIndex ==
  ASSUME NEW ds, NEW fs, NEW k, Cut(ds, fs, k), NEW i \in 1 .. Len(fs), Anc(ds)[k + i] # 0
  PROVE  getAnonymousIndex(fs, i) = getAnonymousIndex(ds, k + i)
<1> DEFINE A == Counted(fs, i)
           B == Counted(ds, k + i)
<1>1. /\ k \in Nat /\ Len(fs) \in Nat /\ Len(ds) = k + Len(fs) /\ Unit(ds) /\ Unit(fs)
  BY CutType DEF Cut
<1>2. getAnonymousIndex(fs, i) = Cardinality(A) /\ getAnonymousIndex(ds, k + i) = Cardinality(B)
  BY IndexIs
<1>3. Anc(fs)[i] \in 1 .. Len(fs) /\ Anc(ds)[k + i] = k + Anc(fs)[i]
  BY CutAnc
<1>4. ASSUME NEW j \in 1 .. i - 1 PROVE j \in A <=> k + j \in B
  <2>1. j \in 1 .. Len(fs) /\ k + j \in 1 .. k + i - 1
    BY <1>1
  <2>2. Anc(fs)[j] = Anc(fs)[i] <=> Anc(ds)[k + j] = Anc(ds)[k + i]
    <3>1. \/ Anc(fs)[j] = 0 /\ Anc(ds)[k + j] = 0
          \/ Anc(fs)[j] \in 1 .. Len(fs) /\ Anc(ds)[k + j] = k + Anc(fs)[j]
      BY <2>1, CutAnc
    <3> QED BY <3>1, <1>1, <1>3
  <2>3. isAnonymous(fs[j]) <=> isAnonymous(ds[k + j])
    BY <2>1 DEF isAnonymous, Cut
  <2>4. j \in Around(fs)[i] <=> k + j \in Around(ds)[k + i]
    BY <2>1, CutAround
  <2>5. j \in A <=> /\ Anc(fs)[j] = Anc(fs)[i] /\ isAnonymous(fs[j])
                    /\ j \notin Around(fs)[i]
    BY CountedIs
  <2>6. k + j \in B <=> /\ Anc(ds)[k + j] = Anc(ds)[k + i] /\ isAnonymous(ds[k + j])
                        /\ k + j \notin Around(ds)[k + i]
    <3> DEFINE p == k + i
               q == k + j
    <3>1. q \in 1 .. p - 1
      BY <1>1
    <3> HIDE DEF p, q
    <3>2. q \in Counted(ds, p) <=> /\ Anc(ds)[q] = Anc(ds)[p] /\ isAnonymous(ds[q])
                                   /\ q \notin Around(ds)[p]
      BY <3>1, CountedIs
    <3> QED BY <3>2 DEF p, q
  <2> HIDE DEF A, B
  <2> QED BY <2>2, <2>3, <2>4, <2>5, <2>6
<1>5. ASSUME NEW j \in B PROVE j - k \in 1 .. i - 1 /\ k + (j - k) = j
  <2>1. j \in 1 .. Len(ds) /\ j \in 1 .. k + i - 1 /\ Anc(ds)[j] = Anc(ds)[k + i]
    BY <1>1 DEF Counted
  <2>2. Anc(ds)[j] < j /\ Anc(ds)[j] = k + Anc(fs)[i]
    BY <2>1, <1>1, <1>3, AncType
  <2> QED BY <2>1, <2>2, <1>1, <1>3
<1>6. A \subseteq 1 .. i - 1
  BY DEF Counted
<1>7. IsFiniteSet(A)
  <2>1. 1 \in Int /\ i - 1 \in Int
    BY <1>1
  <2>2. IsFiniteSet(1 .. i - 1)
    BY <2>1, FS_Interval, Zenon
  <2> HIDE DEF A
  <2> QED BY <2>2, <1>6, FS_Subset
<1> HIDE DEF A, B
<1>8. ExistsBijection(A, B)
  <2> DEFINE g == [j \in A |-> k + j]
  <2>1. g \in [A -> B]
    BY <1>4, <1>6
  <2>2. \A x, y \in A : g[x] = g[y] => x = y
    BY <1>1, <1>6
  <2>3. \A y \in B : \E x \in A : g[x] = y
    <3> SUFFICES ASSUME NEW y \in B PROVE \E x \in A : g[x] = y
      OBVIOUS
    <3>1. y - k \in A /\ k + (y - k) = y
      BY <1>4, <1>5
    <3> QED BY <3>1
  <2> HIDE DEF g
  <2> QED BY <2>1, <2>2, <2>3 DEF ExistsBijection, Bijection, Injection, Surjection, IsInjective
<1> QED
  BY <1>2, <1>7, <1>8, FS_Bijection

\* Only a number that is counted in the translation unit can change.
LEMMA CutAtom ==
  ASSUME NEW ds, NEW fs, NEW k, Cut(ds, fs, k), NEW i \in 1 .. Len(fs),
         printAtomicName(ds, k + i).ctor # "Nanon" \/ Anc(ds)[k + i] # 0
  PROVE  printAtomicName(fs, i) = printAtomicName(ds, k + i)
<1> DEFINE d == ds[k + i]
           f == Following(fs, i)
           g == Following(ds, k + i)
<1>1. /\ fs[i].kind = d.kind /\ fs[i].id = d.id /\ fs[i].tdef = d.tdef /\ fs[i].key = d.key
  BY DEF Cut
<1>2. fs[i].ctx = 0 <=> d.ctx = 0
  <2>1. /\ fs[i].ctx \in Nat /\ k \in Nat
        /\ (d.ctx = 0 /\ fs[i].ctx = 0) \/ (fs[i].ctx \in 1 .. Len(fs) /\ d.ctx = k + fs[i].ctx)
    BY CutType
  <2> HIDE DEF d
  <2> QED BY <2>1
<1>3. /\ by_first_decl(fs, i) <=> by_first_decl(ds, k + i)
      /\ by_first_decl(ds, k + i) => fs[f].id = ds[g].id
  <2>1. k \in Nat /\ Len(fs) \in Nat /\ ((f = 0 /\ g = 0) \/ (f \in 1 .. Len(fs) /\ g = k + f))
    BY CutType, CutFollowing
  <2>2. CASE f = 0 /\ g = 0
    BY <2>2 DEF by_first_decl
  <2>3. CASE f \in 1 .. Len(fs) /\ g = k + f
    <3>1. /\ fs[f].kind = ds[g].kind /\ fs[f].id = ds[g].id
          /\ fs[f].of = Shift(k, ds[g].of)
      BY <2>3 DEF Cut
    <3>2. ds[g].of \in Nat
      <4>1. g \in 1 .. Len(ds) /\ Unit(ds)
        BY <2>3, CutType DEF Cut
      <4>2. ds[g] \in Decl
        BY <4>1, UnitType
      <4> QED BY <4>2 DEF Decl
    <3>3. fs[f].of = i <=> ds[g].of = k + i
      BY <3>1, <3>2, <2>1 DEF Shift
    <3>4. f # 0 /\ g # 0
      BY <2>1, <2>3
    <3> QED BY <3>1, <3>3, <3>4 DEF by_first_decl
  <2> QED BY <2>1, <2>2, <2>3
<1>4. CASE Anc(ds)[k + i] # 0
  <2>1. getAnonymousIndex(fs, i) = getAnonymousIndex(ds, k + i)
    BY <1>4, CutIndex
  <2> QED BY <2>1, <1>1, <1>2, <1>3 DEF printAtomicName
<1>5. CASE printAtomicName(ds, k + i).ctor # "Nanon"
  BY <1>1, <1>2, <1>3, <1>5 DEF printAtomicName, Atom
<1> QED
  BY <1>4, <1>5

LEMMA CutName ==
  ASSUME NEW ds, NEW fs, NEW k, Cut(ds, fs, k)
  PROVE  \A i \in 1 .. Len(fs) :
           printName(ds)[k + i][1].ctor # "Nanon" => printName(ds)[k + i] = printName(fs)[i]
<1> DEFINE P(i) == printName(ds)[k + i][1].ctor # "Nanon" =>
                     printName(ds)[k + i] = printName(fs)[i]
           T == {i \in Nat : i \in 1 .. Len(fs) => P(i)}
<1>1. k \in Nat /\ Len(fs) \in Nat /\ Len(ds) = k + Len(fs) /\ Unit(ds) /\ Unit(fs)
  BY CutType DEF Cut
<1>2. ASSUME NEW i \in Nat, \A m \in Nat : m < i => m \in T PROVE i \in T
  <2> SUFFICES ASSUME i \in 1 .. Len(fs), printName(ds)[k + i][1].ctor # "Nanon"
               PROVE  printName(ds)[k + i] = printName(fs)[i]
    OBVIOUS
  <2> DEFINE A == {printAtomicName(ds, j) : j \in 1 .. Len(ds)}
             x == printAtomicName(ds, k + i)
             a == Anc(fs)[i]
             b == Anc(ds)[k + i]
  <2>1. k + i \in 1 .. Len(ds)
    BY CutType
  <2>2. /\ printName(fs)[0] = <<>> /\ printName(ds)[0] = <<>>
        /\ printName(fs)[i] = Append(printName(fs)[a], printAtomicName(fs, i))
        /\ printName(ds)[k + i] = Append(printName(ds)[b], x)
        /\ \A j \in 0 .. Len(ds) : printName(ds)[j] \in Seq(A)
        /\ \A j \in 1 .. Len(ds) :
             printName(ds)[j] = Append(printName(ds)[Anc(ds)[j]], printAtomicName(ds, j))
    BY <1>1, <2>1, NameIs
  <2>3. x \in A
    BY <2>1
  <2>4. (a = 0 /\ b = 0) \/ (a \in 1 .. Len(fs) /\ b = k + a)
    BY CutAnc
  <2>5. a \in Nat /\ a < i
    BY <1>1, AncType
  <2> HIDE DEF A, a, x
  <2>6. CASE a = 0 /\ b = 0
    <3>1. printName(ds)[k + i] = <<x>>
      <4>1. printName(ds)[k + i] = Append(<<>>, x)
        BY <2>2, <2>6
      <4>2. Append(<<>>, x) = <<x>>
        OBVIOUS
      <4> QED BY <4>1, <4>2
    <3>2. x.ctor # "Nanon"
      BY <3>1
    <3>3. printAtomicName(fs, i) = x
      BY <3>2, CutAtom DEF x
    <3> QED BY <2>2, <2>6, <3>3
  <2>7. CASE a \in 1 .. Len(fs) /\ b = k + a
    <3>1. b # 0 /\ b \in 1 .. Len(ds) /\ b \in 0 .. Len(ds)
      BY <2>7, <1>1
    <3>2. printName(ds)[b] \in Seq(A) /\ printName(ds)[b] # <<>>
      <4>1. Anc(ds)[b] \in 0 .. Len(ds)
        BY <1>1, <3>1, AncType
      <4>2. printName(ds)[Anc(ds)[b]] \in Seq(A) /\ printAtomicName(ds, b) \in A
        BY <2>2, <3>1, <4>1 DEF A
      <4>3. Append(printName(ds)[Anc(ds)[b]], printAtomicName(ds, b)) # <<>>
        BY <4>2
      <4> QED BY <2>2, <3>1, <4>3
    <3>3. printName(ds)[k + i][1] = printName(ds)[b][1]
      <4> HIDE DEF b
      <4> QED BY <2>2, <2>3, <3>2
    <3>4. P(a)
      BY <2>5, <2>7, <1>2
    <3>5. printName(ds)[b] = printName(fs)[a]
      BY <3>3, <3>4, <2>7
    <3>6. printAtomicName(fs, i) = x
      BY <3>1, CutAtom DEF x
    <3> QED BY <2>2, <3>5, <3>6
  <2> QED BY <2>4, <2>6, <2>7
<1>3. T = Nat
  <2>1. T \in SUBSET Nat
    OBVIOUS
  <2> HIDE DEF T
  <2> QED BY <1>2, <2>1, StrongInduction
<1>4. \A i \in 1 .. Len(fs) : i \in T
  BY <1>1, <1>3
<1> QED
  BY <1>4

LEMMA HeadersKeepNames ==
  ASSUME NInv
  PROVE  HeaderNames
<1> SUFFICES ASSUME NEW k \in {n \in 0 .. Len(decls) - 1 : decls[n + 1].ctx = 0},
                    NEW i \in Named(decls), i > k, printName(decls)[i][1].ctor # "Nanon"
             PROVE  printName(decls)[i] = printName(File(decls, k))[i - k]
  BY DEF HeaderNames
<1>1. Unit(decls) /\ Nested(decls)
  BY DEF NInv
<1>2. Len(decls) \in Nat /\ DOMAIN decls = 1 .. Len(decls)
  BY <1>1, UnitType
<1>3. k \in Nat /\ k < Len(decls) /\ decls[k + 1].ctx = 0 /\ i \in 1 .. Len(decls)
  BY <1>2 DEF Named
<1>4. Cut(decls, File(decls, k), k)
  BY <1>1, <1>3, FileCuts
<1>5. i - k \in 1 .. Len(File(decls, k)) /\ k + (i - k) = i
  BY <1>2, <1>3, <1>4, CutType
<1> QED
  BY <1>4, <1>5, CutName

\* A header gets the same names on its own and after other headers, whatever
\* they declare, but for the numbers that are counted in the translation unit.
THEOREM HeadersAgree == Spec => []HeaderNames
BY NamesInvariant, HeadersKeepNames, PTL
=============================================================================
