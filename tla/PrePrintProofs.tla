--------------------------- MODULE PrePrintProofs ---------------------------
(***************************************************************************)
(* The file printed with sharing on is well formed, for every set of items  *)
(* that clang can build and every module: references resolve upwards, no   *)
(* identifier is defined twice and the always_assert of store holds.       *)
(*                                                                         *)
(* The inductive invariant relates the cache to the definitions printed    *)
(* and says of the calls that are still to be made that an item whose      *)
(* definition is pending has no entry and that only shallower items are    *)
(* visited before it is defined.                                           *)
(***************************************************************************)
EXTENDS PrePrint, ClosureProofs, TLAPS

\* The entries are the definitions printed.
EntriesAreDefs ==
  /\ \A x \in DOMAIN entries_ :
       \E j \in DOMAIN defs : /\ defs[j].of = x /\ defs[j].num = entries_[x]
                              /\ defs[j].prefix = PREFIX(x)
  /\ \A j \in DOMAIN defs :
       /\ defs[j].of \in DOMAIN entries_
       /\ defs[j].prefix = PREFIX(defs[j].of)
       /\ defs[j].num <= next_[defs[j].prefix]

\* The pending definitions wait for shallower items only.
PendingIsDeeper ==
  \A j \in DOMAIN stack : stack[j].call = "Define" =>
    /\ stack[j].of \notin DOMAIN entries_
    /\ \A i \in 1 .. j - 1 : depth[stack[i].of] < depth[stack[j].of]

IInv ==
  /\ mod \in Modules
  /\ TypeOK
  /\ EntriesAreDefs
  /\ PendingIsDeeper
  /\ Resolves
  /\ DistinctDefinitions
  /\ NeverAborts

\* The references printed are those of entries, so they resolve.
LEMMA ReferencesResolve ==
  ASSUME IInv, NEW x \in Item, NEW r \in References(x)
  PROVE  r \in Reference /\ ResolvesIn(r, Len(defs))
<1>1. PICK y \in DOMAIN entries_ : r = reference(y)
  BY DEF References
<1>2. PICK j \in DOMAIN defs : /\ defs[j].of = y /\ defs[j].num = entries_[y]
                               /\ defs[j].prefix = PREFIX(y)
  BY <1>1 DEF IInv, EntriesAreDefs
<1>3. r = [prefix |-> PREFIX(y), num |-> entries_[y], of |-> y]
  BY <1>1 DEF reference
<1>4. y \in Item /\ entries_[y] \in Nat
  BY <1>1 DEF IInv, TypeOK
<1>5. r \in Reference
  BY <1>3, <1>4 DEF Reference, PREFIX
<1>6. j \in 1 .. Len(defs)
  BY <1>2 DEF IInv, TypeOK
<1> QED
  BY <1>2, <1>3, <1>5, <1>6 DEF ResolvesIn

LEMMA InitIInv == Init => IInv
<1> SUFFICES ASSUME Init PROVE IInv
  OBVIOUS
<1>1. mod.declarations \in Seq(Item) /\ mod.definitions \in Seq(Item)
  BY ModulesAssumption DEF Init
<1>2. todo \in Seq(Item)
  BY <1>1 DEF Init
<1>3. TypeOK
  <2>1. stack = <<>> /\ defs = <<>> /\ list = <<>> /\ aborted = FALSE
    BY DEF Init
  <2>2. \A S : <<>> \in Seq(S)
    OBVIOUS
  <2>3. next_ \in [{"t", "n"} -> Nat]
    BY DEF Init
  <2>4. DOMAIN entries_ = {} /\ entries_ \in [{} -> Nat]
    BY DEF Init
  <2> QED
    BY <1>2, <2>1, <2>2, <2>3, <2>4 DEF TypeOK
<1>4. EntriesAreDefs /\ PendingIsDeeper /\ Resolves /\ DistinctDefinitions /\ NeverAborts
  BY DEF Init, EntriesAreDefs, PendingIsDeeper, Resolves, DistinctDefinitions, NeverAborts
<1> QED
  BY <1>3, <1>4 DEF IInv, Init

\* Only the stack and the declarations to come change.
LEMMA StackStep ==
  ASSUME IInv, UNCHANGED <<mod, next_, entries_, defs, list, aborted>>,
         todo' \in Seq(Item), stack' \in Seq([call : {"Visit", "Define"}, of : Item]),
         PendingIsDeeper'
  PROVE  IInv'
<1>1. TypeOK'
  BY DEF IInv, TypeOK
<1>2. EntriesAreDefs'
  BY DEF IInv, EntriesAreDefs
<1>3. Resolves' /\ DistinctDefinitions' /\ NeverAborts'
  BY DEF IInv, Resolves, ResolvesIn, DistinctDefinitions, NeverAborts
<1> QED
  BY <1>1, <1>2, <1>3 DEF IInv

LEMMA PreprintIInv == IInv /\ preprint => IInv'
<1> SUFFICES ASSUME IInv, preprint PROVE IInv'
  OBVIOUS
<1>1. todo' \in Seq(Item) /\ todo[1] \in Item
  BY DEF IInv, TypeOK, preprint
<1>2. stack' = <<Visit(todo[1])>>
  BY DEF preprint
<1>3. stack' \in Seq([call : {"Visit", "Define"}, of : Item])
  BY <1>1, <1>2 DEF Visit
<1>4. PendingIsDeeper'
  BY <1>2 DEF PendingIsDeeper, Visit
<1> QED
  BY <1>1, <1>3, <1>4, StackStep DEF preprint

LEMMA VisitCachedIInv == IInv /\ VisitCached => IInv'
<1> SUFFICES ASSUME IInv, VisitCached PROVE IInv'
  OBVIOUS
<1>1. stack' = Tail(stack) /\ entries_' = entries_ /\ stack # <<>>
  BY DEF VisitCached
<1>2. stack' \in Seq([call : {"Visit", "Define"}, of : Item])
  BY <1>1 DEF IInv, TypeOK
<1>3. Len(stack') = Len(stack) - 1 /\ \A i \in 1 .. Len(stack') : stack'[i] = stack[i + 1]
  BY <1>1 DEF IInv, TypeOK
<1>4. PendingIsDeeper'
  <2> SUFFICES ASSUME NEW j \in DOMAIN stack', stack'[j].call = "Define"
               PROVE  /\ stack'[j].of \notin DOMAIN entries_
                      /\ \A i \in 1 .. j - 1 : depth[stack'[i].of] < depth[stack'[j].of]
    BY <1>1 DEF PendingIsDeeper
  <2>1. j \in 1 .. Len(stack') /\ j + 1 \in DOMAIN stack
    BY <1>2, <1>3 DEF IInv, TypeOK
  <2>2. stack'[j] = stack[j + 1]
    BY <1>3, <2>1
  <2>3. /\ stack[j + 1].of \notin DOMAIN entries_
        /\ \A i \in 1 .. j : depth[stack[i].of] < depth[stack[j + 1].of]
    BY <2>1, <2>2 DEF IInv, PendingIsDeeper
  <2>4. \A i \in 1 .. j - 1 : stack'[i] = stack[i + 1] /\ i + 1 \in 1 .. j
    BY <1>3, <2>1
  <2> QED
    BY <2>2, <2>3, <2>4
<1> QED
  BY <1>2, <1>4, StackStep DEF VisitCached, IInv, TypeOK

Call == [call : {"Visit", "Define"}, of : Item]

\* The stack after VisitNew: the visits of the parts, the definition if the
\* item gets one, and the calls that were already to be made.
VisitNewEffect(x, n, d) ==
  /\ x \in Item /\ x \notin DOMAIN entries_ /\ visits(x) \in Seq(Item)
  /\ stack # <<>> /\ stack \in Seq(Call) /\ n \in Nat /\ d \in {0, 1}
  /\ stack' \in Seq(Call) /\ Len(stack') = n + d + Len(stack) - 1
  /\ \A i \in 1 .. n : stack'[i] = Visit(visits(x)[i])
  /\ d = 1 => stack'[n + 1] = Define(x)
  /\ \A i \in 2 .. Len(stack) : stack'[i - 1 + (n + d)] = stack[i]

LEMMA VisitNewStack ==
  ASSUME IInv, VisitNew, NEW x, x = top.of, NEW n, n = Len(visits(x)),
         NEW d, d = IF Cached(x) THEN 1 ELSE 0
  PROVE  VisitNewEffect(x, n, d)
<1> DEFINE V == Visits(visits(x))
           D == IF Cached(x) THEN <<Define(x)>> ELSE <<>>
           T == Tail(stack)
<1>1. /\ stack # <<>> /\ stack \in Seq(Call) /\ x \notin DOMAIN entries_
      /\ stack' = V \o D \o T
  BY DEF VisitNew, IInv, TypeOK, lookup, Call
<1>2. stack[1] \in Call
  BY <1>1
<1>3. x \in Item
  BY <1>2 DEF top, Call
<1>4. visits(x) \in Seq(Item)
  BY <1>3, ItemAssumption
<1>5. /\ V \in Seq(Call) /\ n \in Nat /\ Len(V) = n
      /\ \A i \in 1 .. n : V[i] = Visit(visits(x)[i])
  <2> DEFINE vs == visits(x)
  <2>1. vs \in Seq(Item) /\ n = Len(vs)
    BY <1>4
  <2> HIDE DEF vs
  <2>2. V = [i \in 1 .. Len(vs) |-> Visit(vs[i])]
    BY <2>1 DEF Visits, vs
  <2>3. \A i \in 1 .. Len(vs) : Visit(vs[i]) \in Call
    BY <2>1 DEF Visit, Call
  <2>4. V \in Seq(Call) /\ n = Len(V) /\ n \in Nat
    <3> HIDE DEF V
    <3> QED BY <2>1, <2>2, <2>3
  <2> QED
    BY <2>1, <2>2, <2>4 DEF vs
<1>6. D \in Seq(Call) /\ Len(D) = d /\ d \in {0, 1} /\ (d = 1 => D[1] = Define(x))
  <2>1. Define(x) \in Call
    BY <1>3 DEF Define, Call
  <2> QED
    BY <2>1
<1>7. T \in Seq(Call) /\ Len(T) = Len(stack) - 1 /\ Len(stack) \in Nat
      /\ \A i \in 1 .. Len(stack) - 1 : T[i] = stack[i + 1]
  BY <1>1
<1> HIDE DEF V, D, T
<1>8. /\ V \o D \in Seq(Call) /\ Len(V \o D) = n + d
      /\ \A i \in 1 .. n : (V \o D)[i] = V[i]
      /\ \A i \in 1 .. d : (V \o D)[i + n] = D[i]
  <2>1. /\ V \o D \in Seq(Call) /\ Len(V \o D) = Len(V) + Len(D)
        /\ \A i \in 1 .. Len(V) : (V \o D)[i] = V[i]
        /\ \A i \in 1 .. Len(D) : (V \o D)[i + Len(V)] = D[i]
    BY <1>5, <1>6, Concatenation
  <2> QED
    BY <2>1, <1>5, <1>6
<1> DEFINE A == V \o D
<1>9. A \in Seq(Call) /\ Len(A) = n + d /\ stack' = A \o T
  BY <1>1, <1>8
<1> HIDE DEF A
<1>10. /\ stack' \in Seq(Call) /\ Len(stack') = n + d + Len(stack) - 1
       /\ \A i \in 1 .. n + d : stack'[i] = A[i]
       /\ \A i \in 1 .. Len(stack) - 1 : stack'[i + (n + d)] = T[i]
  <2>1. Len(T) \in Nat /\ n + d \in Nat
    BY <1>5, <1>6, <1>7
  <2>2. /\ A \o T \in Seq(Call) /\ Len(A \o T) = Len(A) + Len(T)
        /\ \A i \in 1 .. Len(A) : (A \o T)[i] = A[i]
        /\ \A i \in 1 .. Len(T) : (A \o T)[i + Len(A)] = T[i]
    <3>1. A \in Seq(Call) /\ T \in Seq(Call)
      BY <1>7, <1>9
    <3> QED
      BY <3>1, Concatenation
  <2> QED
    BY <2>1, <2>2, <1>7, <1>9
<1>11. \A i \in 2 .. Len(stack) : stack'[i - 1 + (n + d)] = stack[i]
  <2> SUFFICES ASSUME NEW i \in 2 .. Len(stack)
               PROVE  stack'[i - 1 + (n + d)] = stack[i]
    OBVIOUS
  <2>1. i - 1 \in 1 .. Len(stack) - 1 /\ (i - 1) + 1 = i
    BY <1>7
  <2>2. stack'[(i - 1) + (n + d)] = T[i - 1] /\ T[i - 1] = stack[(i - 1) + 1]
    BY <2>1, <1>7, <1>10
  <2> QED
    BY <2>1, <2>2
<1>12. \A i \in 1 .. n : i \in 1 .. n + d
  BY <1>5, <1>6
<1>13. d = 1 => n + 1 \in 1 .. n + d /\ 1 \in 1 .. d /\ 1 + n = n + 1
  BY <1>5, <1>6
<1>14. d = 1 => stack'[n + 1] = Define(x)
  BY <1>6, <1>8, <1>10, <1>13 DEF A
<1> QED
  BY <1>1, <1>3, <1>4, <1>5, <1>6, <1>8, <1>10, <1>11, <1>12, <1>14 DEF A, VisitNewEffect

LEMMA VisitNewIInv == IInv /\ VisitNew => IInv'
<1> SUFFICES ASSUME IInv, VisitNew PROVE IInv'
  OBVIOUS
<1> DEFINE x == top.of
           n == Len(visits(x))
           d == IF Cached(x) THEN 1 ELSE 0
<1>0. x = top.of /\ n = Len(visits(x)) /\ d = IF Cached(x) THEN 1 ELSE 0
  OBVIOUS
<1> HIDE DEF x, n, d
<1>1. /\ x \in Item /\ x \notin DOMAIN entries_ /\ visits(x) \in Seq(Item)
      /\ stack # <<>> /\ stack \in Seq(Call) /\ n \in Nat /\ d \in {0, 1}
      /\ stack' \in Seq(Call) /\ Len(stack') = n + d + Len(stack) - 1
      /\ \A i \in 1 .. n : stack'[i] = Visit(visits(x)[i])
      /\ d = 1 => stack'[n + 1] = Define(x)
      /\ \A i \in 2 .. Len(stack) : stack'[i - 1 + (n + d)] = stack[i]
  <2>1. VisitNewEffect(x, n, d)
    BY <1>0, VisitNewStack
  <2> QED
    BY <2>1 DEF VisitNewEffect
<1>2. Len(stack) \in Nat \ {0} /\ DOMAIN stack = 1 .. Len(stack) /\ stack[1].of = x
  BY <1>0, <1>1 DEF top
<1>3. \A i \in 1 .. n : /\ stack'[i].call = "Visit" /\ stack'[i].of \in Item
                        /\ depth[stack'[i].of] < depth[x]
  <2> SUFFICES ASSUME NEW i \in 1 .. n
               PROVE  /\ stack'[i].call = "Visit" /\ stack'[i].of \in Item
                      /\ depth[stack'[i].of] < depth[x]
    OBVIOUS
  <2>1. visits(x)[i] \in Range(visits(x)) /\ visits(x)[i] \in Item
    <3>1. i \in DOMAIN visits(x)
      BY <1>0, <1>1
    <3> QED
      BY <3>1, <1>1, RangeOf
  <2>2. stack'[i].call = "Visit" /\ stack'[i].of = visits(x)[i]
    <3>1. stack'[i] = [call |-> "Visit", of |-> visits(x)[i]]
      BY <1>1 DEF Visit
    <3> QED
      BY <3>1
  <2> QED
    BY <1>1, <2>1, <2>2, DepthAssumption
<1>4. d = 1 => stack'[n + 1].of = x
  BY <1>1 DEF Define
<1>5. \A k \in DOMAIN stack : stack[k].of \in Item
  <2>1. \A k \in DOMAIN stack : stack[k] \in Call
    BY <1>1
  <2> QED
    BY <2>1 DEF Call
<1>6. UNCHANGED <<mod, todo, next_, entries_, defs, list, aborted>>
  BY DEF VisitNew
<1>7. PendingIsDeeper'
  <2> SUFFICES ASSUME NEW j \in DOMAIN stack', stack'[j].call = "Define"
               PROVE  /\ stack'[j].of \notin DOMAIN entries_
                      /\ \A i \in 1 .. j - 1 : depth[stack'[i].of] < depth[stack'[j].of]
    BY <1>6 DEF PendingIsDeeper
  <2>1. j \in 1 .. Len(stack')
    BY <1>1
  <2>2. CASE j <= n
    BY <2>1, <2>2, <1>3
  <2>3. CASE j > n /\ j <= n + d
    <3>1. d = 1 /\ j = n + 1
      BY <2>1, <2>3, <1>1
    <3>2. \A i \in 1 .. j - 1 : i \in 1 .. n
      BY <3>1, <1>1
    <3> QED
      BY <3>1, <3>2, <1>1, <1>3, <1>4
  <2>4. CASE j > n + d
    <3> DEFINE k == j + 1 - (n + d)
    <3>1. k \in 2 .. Len(stack) /\ k \in DOMAIN stack /\ k - 1 + (n + d) = j
      <4>1. j \in Nat /\ n \in Nat /\ d \in Nat /\ Len(stack) \in Nat
            /\ j > n + d /\ j <= n + d + Len(stack) - 1
        BY <2>1, <2>4, <1>1, <1>2
      <4> QED
        BY <4>1, <1>2
    <3> HIDE DEF k
    <3>2. stack'[j] = stack[k]
      BY <3>1, <1>1
    <3>3. /\ stack[k].of \notin DOMAIN entries_
          /\ \A i \in 1 .. k - 1 : depth[stack[i].of] < depth[stack[k].of]
      BY <3>1, <3>2 DEF IInv, PendingIsDeeper
    <3>4. depth[x] < depth[stack[k].of]
      BY <3>1, <3>3, <1>2
    <3>5. ASSUME NEW i \in 1 .. j - 1
          PROVE  depth[stack'[i].of] < depth[stack[k].of]
      <4>1. CASE i <= n
        <5>1. depth[stack'[i].of] < depth[x] /\ stack'[i].of \in Item
          BY <4>1, <1>1, <1>3
        <5>2. depth[stack'[i].of] \in Nat /\ depth[x] \in Nat /\ depth[stack[k].of] \in Nat
          <6>1. \A y \in Item : depth[y] \in Nat
            BY DepthAssumption
          <6> QED
            BY <6>1, <5>1, <3>1, <1>1, <1>5
        <5> QED
          BY <5>1, <5>2, <3>4
      <4>2. CASE i > n /\ i <= n + d
        <5>1. d = 1 /\ i = n + 1
          BY <4>2, <1>1
        <5> QED
          BY <5>1, <3>4, <1>4
      <4>3. CASE i > n + d
        <5> DEFINE l == i + 1 - (n + d)
        <5>1. l \in 2 .. Len(stack) /\ l \in 1 .. k - 1 /\ l - 1 + (n + d) = i
          <6>1. n \in Nat /\ d \in Nat /\ Len(stack) \in Nat /\ i \in 1 .. j - 1 /\ j \in Nat
            BY <2>1, <1>1, <1>2
          <6>2. k \in 2 .. Len(stack) /\ k - 1 + (n + d) = j
            BY <3>1
          <6> HIDE DEF n, d
          <6> QED
            BY <4>3, <6>1, <6>2
        <5> HIDE DEF l
        <5>2. stack'[i] = stack[l]
          BY <5>1, <1>1
        <5> QED
          BY <5>1, <5>2, <3>3
      <4> QED
        BY <4>1, <4>2, <4>3, <1>1
    <3> QED
      BY <3>2, <3>3, <3>5
  <2> QED
    BY <2>1, <2>2, <2>3, <2>4, <1>1
<1> QED
  BY <1>1, <1>6, <1>7, StackStep DEF IInv, TypeOK, Call

LEMMA DefineItemIInv == IInv /\ DefineItem => IInv'
<1> SUFFICES ASSUME IInv, DefineItem PROVE IInv'
  OBVIOUS
<1> DEFINE x == top.of
           p == PREFIX(x)
           C == [call : {"Visit", "Define"}, of : Item]
           R == [prefix : {"t", "n"}, num : Nat, of : Item, refs : SUBSET Reference]
           e == [prefix |-> p, num |-> fresh(x), of |-> x, refs |-> References(x)]
<1>1. stack # <<>> /\ stack \in Seq(C) /\ defs \in Seq(R)
  BY DEF DefineItem, IInv, TypeOK
<1>2. 1 \in DOMAIN stack /\ stack[1] = top /\ top.call = "Define"
  BY <1>1 DEF top, DefineItem
<1>3. x \in Item /\ x \notin DOMAIN entries_
  <2>1. top \in C
    <3> HIDE DEF C
    <3> QED BY <1>1, <1>2
  <2>2. top.of \notin DOMAIN entries_
    BY <1>2 DEF IInv, PendingIsDeeper
  <2> QED
    BY <2>1, <2>2
<1> HIDE DEF x
<1>4. p \in {"t", "n"} /\ next_ \in [{"t", "n"} -> Nat] /\ fresh(x) = next_[p] + 1
  BY DEF PREFIX, IInv, TypeOK, fresh
<1>5. /\ next_' = [next_ EXCEPT ![p] = fresh(x)] /\ defs' = Append(defs, e)
      /\ entries_' = [y \in DOMAIN entries_ \cup {x} |-> IF y = x THEN fresh(x) ELSE entries_[y]]
      /\ stack' = Tail(stack) /\ UNCHANGED <<mod, todo, list, aborted>>
  BY <1>3 DEF DefineItem, store, lookup, x
<1>6. References(x) \subseteq Reference /\ \A r \in References(x) : ResolvesIn(r, Len(defs))
  BY <1>3, ReferencesResolve
<1>7. /\ e \in R /\ e.of = x /\ e.prefix = p /\ e.num = next_[p] + 1
      /\ e.refs = References(x)
  BY <1>3, <1>4, <1>6
<1> HIDE DEF e, p, C, R
<1>8. /\ defs' \in Seq(R) /\ Len(defs') = Len(defs) + 1 /\ defs'[Len(defs) + 1] = e
      /\ \A k \in 1 .. Len(defs) : defs'[k] = defs[k]
      /\ DOMAIN defs = 1 .. Len(defs) /\ DOMAIN defs' = 1 .. Len(defs) + 1
      /\ Len(defs) \in Nat
  BY <1>1, <1>5, <1>7
<1>8a. \A k \in DOMAIN defs : defs[k].prefix \in {"t", "n"} /\ defs[k].num \in Nat
  <2>1. \A k \in DOMAIN defs : defs[k] \in R
    BY <1>1
  <2> QED
    BY <2>1 DEF R
<1>9. /\ DOMAIN entries_' = DOMAIN entries_ \cup {x} /\ entries_'[x] = next_[p] + 1
      /\ \A y \in DOMAIN entries_ : entries_'[y] = entries_[y]
  BY <1>3, <1>4, <1>5
<1>10. next_' \in [{"t", "n"} -> Nat] /\ next_'[p] = next_[p] + 1
       /\ \A q \in {"t", "n"} : next_[q] <= next_'[q]
  BY <1>4, <1>5
<1>11. TypeOK'
  <2>1. stack' \in Seq(C)
    BY <1>1, <1>5
  <2>2. DOMAIN entries_' \subseteq Item /\ entries_' \in [DOMAIN entries_' -> Nat]
    BY <1>3, <1>4, <1>5, <1>9 DEF IInv, TypeOK
  <2>3. /\ todo \in Seq(Item) /\ list \in Seq([of : Item, refs : SUBSET Reference])
        /\ aborted \in BOOLEAN
    BY DEF IInv, TypeOK
  <2> QED
    BY <1>5, <1>8, <1>10, <2>1, <2>2, <2>3 DEF TypeOK, C, R
<1>12. EntriesAreDefs'
  <2>1. ASSUME NEW y \in DOMAIN entries_'
        PROVE  \E j \in DOMAIN defs' : /\ defs'[j].of = y /\ defs'[j].num = entries_'[y]
                                       /\ defs'[j].prefix = PREFIX(y)
    <3>1. CASE y = x
      BY <3>1, <1>7, <1>8, <1>9 DEF p
    <3>2. CASE y # x
      <4>1. y \in DOMAIN entries_ /\ entries_'[y] = entries_[y]
        BY <3>2, <1>9
      <4>2. PICK j \in DOMAIN defs : /\ defs[j].of = y /\ defs[j].num = entries_[y]
                                     /\ defs[j].prefix = PREFIX(y)
        BY <4>1 DEF IInv, EntriesAreDefs
      <4> QED
        BY <4>1, <4>2, <1>8
    <3> QED
      BY <3>1, <3>2
  <2>2. ASSUME NEW j \in DOMAIN defs'
        PROVE  /\ defs'[j].of \in DOMAIN entries_'
               /\ defs'[j].prefix = PREFIX(defs'[j].of)
               /\ defs'[j].num <= next_'[defs'[j].prefix]
    <3>1. CASE j = Len(defs) + 1
      BY <3>1, <1>4, <1>7, <1>8, <1>9, <1>10 DEF p
    <3>2. CASE j \in DOMAIN defs
      <4>1. /\ defs[j].of \in DOMAIN entries_ /\ defs[j].prefix = PREFIX(defs[j].of)
            /\ defs[j].num <= next_[defs[j].prefix]
        BY <3>2 DEF IInv, EntriesAreDefs
      <4>2. defs[j].prefix \in {"t", "n"} /\ defs[j].num \in Nat
        BY <3>2, <1>8a
      <4>3. defs'[j] = defs[j] /\ next_[defs[j].prefix] <= next_'[defs[j].prefix]
        BY <3>2, <4>2, <1>8, <1>10
      <4> QED
        BY <4>1, <4>2, <4>3, <1>4, <1>9, <1>10
    <3> QED
      BY <3>1, <3>2, <1>8
  <2> QED
    BY <2>1, <2>2 DEF EntriesAreDefs, PREFIX
<1>13. PendingIsDeeper'
  <2> SUFFICES ASSUME NEW j \in DOMAIN stack', stack'[j].call = "Define"
               PROVE  /\ stack'[j].of \notin DOMAIN entries_'
                      /\ \A i \in 1 .. j - 1 : depth[stack'[i].of] < depth[stack'[j].of]
    BY DEF PendingIsDeeper
  <2>1. /\ Len(stack') = Len(stack) - 1 /\ Len(stack) \in Nat
        /\ DOMAIN stack = 1 .. Len(stack) /\ DOMAIN stack' = 1 .. Len(stack) - 1
        /\ \A i \in 1 .. Len(stack) - 1 : stack'[i] = stack[i + 1]
    BY <1>1, <1>5
  <2>2. j \in 1 .. Len(stack) - 1 /\ j + 1 \in DOMAIN stack /\ stack'[j] = stack[j + 1]
    BY <2>1
  <2>3. /\ stack[j + 1].of \notin DOMAIN entries_
        /\ \A i \in 1 .. j : depth[stack[i].of] < depth[stack[j + 1].of]
    BY <2>2 DEF IInv, PendingIsDeeper
  <2>4. depth[x] < depth[stack[j + 1].of]
    <3>1. 1 \in 1 .. j
      BY <2>2
    <3> QED
      BY <3>1, <2>3, <1>2 DEF x
  <2>5. stack[j + 1].of # x
    BY <2>4, <1>3, DepthAssumption
  <2>6. \A i \in 1 .. j - 1 : stack'[i] = stack[i + 1] /\ i + 1 \in 1 .. j
    BY <2>1, <2>2
  <2> QED
    BY <2>2, <2>3, <2>5, <2>6, <1>9
<1>14. \A r, n : n \in 0 .. Len(defs) /\ ResolvesIn(r, n) => ResolvesIn(r, n)'
  BY <1>8 DEF ResolvesIn
<1>15. Resolves'
  <2>1. ASSUME NEW k \in DOMAIN defs', NEW r \in defs'[k].refs
        PROVE  ResolvesIn(r, k - 1)'
    <3>1. CASE k = Len(defs) + 1
      <4>1. ResolvesIn(r, Len(defs))
        BY <3>1, <1>6, <1>7, <1>8
      <4>2. k - 1 = Len(defs) /\ k - 1 \in 0 .. Len(defs)
        BY <3>1, <1>8
      <4> QED
        BY <4>1, <4>2, <1>8 DEF ResolvesIn
    <3>2. CASE k \in DOMAIN defs
      <4>1. defs'[k] = defs[k]
        BY <3>2, <1>8
      <4>2. ResolvesIn(r, k - 1)
        BY <3>2, <4>1 DEF IInv, Resolves
      <4>3. k - 1 \in 0 .. Len(defs)
        BY <3>2, <1>8
      <4> QED
        BY <4>2, <4>3, <1>8 DEF ResolvesIn
    <3> QED
      BY <3>1, <3>2, <1>8
  <2>2. ASSUME NEW k \in DOMAIN list', NEW r \in list'[k].refs
        PROVE  ResolvesIn(r, Len(defs))'
    <3>1. ResolvesIn(r, Len(defs))
      BY <1>5 DEF IInv, Resolves
    <3> QED
      BY <3>1, <1>8 DEF ResolvesIn
  <2> QED
    BY <2>1, <2>2 DEF Resolves
<1>16. DistinctDefinitions'
  <2>1. ASSUME NEW i \in DOMAIN defs
        PROVE  /\ defs[i].of # x
               /\ ~(defs[i].prefix = p /\ defs[i].num = next_[p] + 1)
    <3>1. /\ defs[i].of \in DOMAIN entries_ /\ defs[i].num <= next_[defs[i].prefix]
          /\ defs[i].num \in Nat
      BY <1>8a DEF IInv, EntriesAreDefs
    <3> QED
      BY <3>1, <1>3, <1>4
  <2> SUFFICES ASSUME NEW i \in DOMAIN defs', NEW j \in DOMAIN defs',
                      \/ defs'[i].of = defs'[j].of
                      \/ defs'[i].prefix = defs'[j].prefix /\ defs'[i].num = defs'[j].num
               PROVE  i = j
    BY DEF DistinctDefinitions
  <2>2. CASE i \in DOMAIN defs /\ j \in DOMAIN defs
    BY <2>2, <1>8 DEF IInv, DistinctDefinitions
  <2>3. CASE i \in DOMAIN defs /\ j = Len(defs) + 1
    BY <2>1, <2>3, <1>7, <1>8
  <2>4. CASE j \in DOMAIN defs /\ i = Len(defs) + 1
    BY <2>1, <2>4, <1>7, <1>8
  <2> QED
    BY <2>2, <2>3, <2>4, <1>8
<1> QED
  BY <1>5, <1>11, <1>12, <1>13, <1>15, <1>16 DEF IInv, NeverAborts

LEMMA PrintDeclIInv == IInv /\ printDecl => IInv'
<1> SUFFICES ASSUME IInv, printDecl PROVE IInv'
  OBVIOUS
<1> DEFINE x == Listed[Len(list) + 1]
           E == [of : Item, refs : SUBSET Reference]
           e == [of |-> x, refs |-> References(x)]
<1>1. Listed \in Seq(Item)
  BY ModulesAssumption DEF IInv, Listed
<1>2. x \in Item
  BY <1>1 DEF printDecl, IInv, TypeOK
<1> HIDE DEF x
<1>3. References(x) \subseteq Reference /\ \A r \in References(x) : ResolvesIn(r, Len(defs))
  BY <1>2, ReferencesResolve
<1>4. e \in E /\ e.refs = References(x)
  BY <1>2, <1>3
<1>5. /\ list' = Append(list, e) /\ list \in Seq(E)
      /\ UNCHANGED <<mod, todo, stack, next_, entries_, defs, aborted>>
  BY DEF printDecl, IInv, TypeOK, x
<1> HIDE DEF e, E
<1>6. /\ list' \in Seq(E) /\ DOMAIN list' = 1 .. Len(list) + 1 /\ DOMAIN list = 1 .. Len(list)
      /\ list'[Len(list) + 1] = e /\ \A k \in 1 .. Len(list) : list'[k] = list[k]
      /\ Len(list) \in Nat
  BY <1>4, <1>5
<1>7. TypeOK'
  BY <1>5, <1>6 DEF IInv, TypeOK, E
<1>8. EntriesAreDefs' /\ PendingIsDeeper' /\ DistinctDefinitions' /\ NeverAborts'
  BY <1>5 DEF IInv, EntriesAreDefs, PendingIsDeeper, DistinctDefinitions, NeverAborts
<1>9. Resolves'
  <2>1. \A k \in DOMAIN defs' : \A r \in defs'[k].refs : ResolvesIn(r, k - 1)'
    BY <1>5 DEF IInv, Resolves, ResolvesIn
  <2>2. ASSUME NEW k \in DOMAIN list', NEW r \in list'[k].refs
        PROVE  ResolvesIn(r, Len(defs))'
    <3>1. ResolvesIn(r, Len(defs))
      BY <1>3, <1>4, <1>6 DEF IInv, Resolves
    <3> QED
      BY <3>1, <1>5 DEF ResolvesIn
  <2> QED
    BY <2>1, <2>2 DEF Resolves
<1> QED
  BY <1>5, <1>7, <1>8, <1>9 DEF IInv

(* The invariant holds in every state of the pass. *)
THEOREM Inductive == Spec => []IInv
<1>1. IInv /\ [Next]_vars => IInv'
  <2> SUFFICES ASSUME IInv, [Next]_vars PROVE IInv'
    OBVIOUS
  <2>1. CASE Next
    BY <2>1, PreprintIInv, VisitCachedIInv, VisitNewIInv, DefineItemIInv, PrintDeclIInv DEF Next
  <2>2. CASE UNCHANGED vars
    <3>1. PendingIsDeeper'
      BY <2>2 DEF vars, IInv, PendingIsDeeper
    <3> QED
      BY <2>2, <3>1, StackStep DEF vars, IInv, TypeOK
  <2> QED
    BY <2>1, <2>2
<1> QED
  BY InitIInv, <1>1, PTL DEF Spec

(* Every variable of the pass keeps its type. *)
THEOREM TypeCorrect == Spec => []TypeOK
<1>1. IInv => TypeOK
  BY DEF IInv
<1> QED
  BY Inductive, <1>1, PTL

(* Whatever the types and names and however they share parts, every t<num>   *)
(* and n<num> printed is defined above its use, for the item meant.          *)
THEOREM ReferencesAreDefined == Spec => []Resolves
<1>1. IInv => Resolves
  BY DEF IInv
<1> QED
  BY Inductive, <1>1, PTL

(* No identifier is defined twice and no item has two definitions.           *)
THEOREM DefinitionsAreDistinct == Spec => []DistinctDefinitions
<1>1. IInv => DistinctDefinitions
  BY DEF IInv
<1> QED
  BY Inductive, <1>1, PTL

(* The always_assert of NameCache::store never fails.                        *)
THEOREM StoreNeverAborts == Spec => []NeverAborts
<1>1. IInv => NeverAborts
  BY DEF IInv
<1> QED
  BY Inductive, <1>1, PTL

----------------------------------------------------------------------------
(* What is shared.  The visitor defines an item after everything below it, *)
(* so an entry stands for the whole of what is visited below the item: a   *)
(* visit that ends at an entry leaves nothing out.                         *)

VisitGraph == [y \in Item |-> Range(visits(y))]

PrintGraph(E) == [y \in Item |-> IF y \in E THEN {} ELSE prints(y)]

LEMMA VisitGraphCloses ==
  VisitGraph \in Graph(Item) /\ Closes(Item, VisitGraph, MaxDepth) /\ MaxDepth \in Nat
<1>1. \A y \in Item : Range(visits(y)) \subseteq Item
  BY ItemAssumption, RangeOf
<1>2. VisitGraph \in Graph(Item)
  BY <1>1 DEF VisitGraph, Graph
<1>3. /\ MaxDepth \in Nat /\ \A x \in Item : depth[x] \in 0 .. MaxDepth
      /\ \A x \in Item : \A y \in VisitGraph[x] : depth[y] < depth[x]
  BY DepthAssumption DEF VisitGraph
<1> HIDE DEF VisitGraph
<1>4. Closes(Item, VisitGraph, MaxDepth)
  BY <1>2, <1>3, ReachedClosedByRank DEF Closes
<1> QED
  BY <1>2, <1>3, <1>4

LEMMA PrintGraphCloses ==
  ASSUME NEW E
  PROVE  /\ PrintGraph(E) \in Graph(Item) /\ Closes(Item, PrintGraph(E), MaxDepth)
         /\ MaxDepth \in Nat
<1> DEFINE G == PrintGraph(E)
<1>1. G \in Graph(Item)
  BY ItemAssumption DEF PrintGraph, Graph
<1>2. /\ MaxDepth \in Nat /\ \A x \in Item : depth[x] \in 0 .. MaxDepth
      /\ \A x \in Item : \A y \in G[x] : depth[y] < depth[x]
  BY DepthAssumption DEF PrintGraph
<1> HIDE DEF G
<1>3. Closes(Item, G, MaxDepth)
  BY <1>1, <1>2, ReachedClosedByRank DEF Closes
<1> QED
  BY <1>1, <1>2, <1>3 DEF G

\* VisitedBelow holds the items it starts with, is closed, ...
LEMMA BelowClosed ==
  ASSUME NEW S \in SUBSET Item
  PROVE  /\ S \subseteq VisitedBelow(S) /\ VisitedBelow(S) \subseteq Item
         /\ \A x \in VisitedBelow(S) : Range(visits(x)) \subseteq VisitedBelow(S)
<1>1. VisitedBelow(S) = Reached(VisitGraph, S, MaxDepth)
  BY DEF VisitedBelow, VisitGraph
<1> DEFINE C == Reached(VisitGraph, S, MaxDepth)
<1>2. C \subseteq Item /\ IsClosed(VisitGraph, C)
  BY VisitGraphCloses DEF Closes
<1>3. S \subseteq C
  <2>1. IsClosed(VisitGraph, Item)
    BY VisitGraphCloses DEF IsClosed, Graph
  <2> QED
    BY <2>1, VisitGraphCloses, ReachedLeast
<1> HIDE DEF C
<1>4. \A x \in C : VisitGraph[x] = Range(visits(x))
  BY <1>2 DEF VisitGraph
<1> QED
  BY <1>1, <1>2, <1>3, <1>4 DEF IsClosed, C

\* ... is monotone, ...
LEMMA BelowMonotone ==
  ASSUME NEW S \in SUBSET Item, NEW T \in SUBSET Item, S \subseteq VisitedBelow(T)
  PROVE  VisitedBelow(S) \subseteq VisitedBelow(T)
<1>1. /\ VisitedBelow(S) = Reached(VisitGraph, S, MaxDepth)
      /\ VisitedBelow(T) = Reached(VisitGraph, T, MaxDepth)
  BY DEF VisitedBelow, VisitGraph
<1> HIDE DEF VisitedBelow
<1> QED
  BY <1>1, VisitGraphCloses, ReachedMonotone

\* ... is reached from the single items ...
LEMMA BelowOne ==
  ASSUME NEW S \in SUBSET Item, NEW x \in VisitedBelow(S)
  PROVE  \E y \in S : x \in VisitedBelow({y})
<1>1. \A T : VisitedBelow(T) = Reached(VisitGraph, T, MaxDepth)
  BY DEF VisitedBelow, VisitGraph
<1>2. \E y \in S : x \in Reached(VisitGraph, {y}, MaxDepth)
  <2>1. x \in Reached(VisitGraph, S, MaxDepth)
    BY <1>1
  <2> QED
    BY <2>1, VisitGraphCloses, ReachedFromOne
<1> QED
  BY <1>1, <1>2

\* ... and unfolds to what is visited below the parts.
LEMMA BelowUnfold ==
  ASSUME NEW y \in Item, NEW x \in VisitedBelow({y}), x # y
  PROVE  x \in VisitedBelow(Range(visits(y)))
<1>1. \A T : VisitedBelow(T) = Reached(VisitGraph, T, MaxDepth)
  BY DEF VisitedBelow, VisitGraph
<1>2. x \in Reached(VisitGraph, {y}, MaxDepth) /\ VisitGraph[y] = Range(visits(y))
  BY <1>1 DEF VisitGraph
<1>3. x \in Reached(VisitGraph, VisitGraph[y], MaxDepth)
  BY <1>2, VisitGraphCloses, ReachedUnfold
<1> QED
  BY <1>1, <1>2, <1>3

\* To stop at the references that are printed is to stop at the entries.
LEMMA PrintedAgain ==
  ASSUME NEW P \in SUBSET Item, NEW E
  PROVE  Printed(P, Printed(P, E) \cap E) \subseteq Printed(P, E)
<1> DEFINE A == Printed(P, E)
           F == A \cap E
<1>1. A = Reached(PrintGraph(E), P, MaxDepth) /\ Printed(P, F) = Reached(PrintGraph(F), P, MaxDepth)
  BY DEF Printed, PrintGraph
<1> HIDE DEF A, F
<1>2. A \subseteq Item /\ IsClosed(PrintGraph(E), A) /\ MaxDepth \in Nat
  BY <1>1, PrintGraphCloses DEF Closes
<1>3. P \subseteq A
  <2>1. IsClosed(PrintGraph(E), Item)
    BY PrintGraphCloses DEF IsClosed, Graph
  <2> QED
    BY <1>1, <1>2, <2>1, ReachedLeast
<1>4. IsClosed(PrintGraph(F), A)
  <2> SUFFICES ASSUME NEW x \in A PROVE PrintGraph(F)[x] \subseteq A
    BY DEF IsClosed
  <2>1. x \in Item /\ PrintGraph(E)[x] \subseteq A
    BY <1>2 DEF IsClosed
  <2>2. x \in E => x \in F
    BY DEF F
  <2> QED
    BY <2>1, <2>2 DEF PrintGraph
<1>5. Printed(P, F) \subseteq A
  BY <1>1, <1>2, <1>3, <1>4, ReachedLeast
<1> QED
  BY <1>5 DEF A, F

\* The calls that lead to a definition of y.
LeadsTo(c, y) == c = Define(y) \/ (c.call = "Visit" /\ y \in VisitedBelow({c.of}))

\* y has its definition, or the first j calls will see to it.
Covered(y, j) == y \in DOMAIN entries_ \/ \E i \in 1 .. j : LeadsTo(stack[i], y)

\* An entry stands for everything below it ...
EntriesComplete ==
  \A x \in DOMAIN entries_ :
    Cached(x) /\ \A y \in VisitedBelow(Range(visits(x))) : Cached(y) => y \in DOMAIN entries_

\* ... because what is below it is defined before it.
PendingComplete ==
  \A j \in DOMAIN stack : stack[j].call = "Define" =>
    /\ Cached(stack[j].of)
    /\ \A y \in VisitedBelow(Range(visits(stack[j].of))) : Cached(y) => Covered(y, j - 1)

\* The declarations that are pre-printed.
Roots == IF mod.sharing THEN Range(mod.declarations \o mod.definitions) ELSE {}

RootsCovered ==
  \A y \in VisitedBelow(Roots) :
    Cached(y) => Covered(y, Len(stack)) \/ \E i \in DOMAIN todo : y \in VisitedBelow({todo[i]})

OnlyVisited ==
  /\ DOMAIN entries_ \cup Range(todo) \subseteq VisitedBelow(Roots)
  /\ \A j \in DOMAIN stack : stack[j].of \in VisitedBelow(Roots)

SInv == EntriesComplete /\ PendingComplete /\ RootsCovered /\ OnlyVisited /\ PartsAreShared

LEMMA RootsAreItems == IInv => Roots \in SUBSET Item
<1> SUFFICES ASSUME IInv PROVE Roots \subseteq Item
  OBVIOUS
<1>1. mod.declarations \in Seq(Item) /\ mod.definitions \in Seq(Item)
  BY ModulesAssumption DEF IInv
<1>2. mod.declarations \o mod.definitions \in Seq(Item)
  BY <1>1
<1> QED
  BY <1>2, RangeOf DEF Roots

\* The first call is replaced by m calls that lead to what it leads to, unless
\* that has its definition now.
Replaces(m) ==
  /\ m \in Nat /\ stack # <<>> /\ stack \in Seq(Call) /\ stack' \in Seq(Call)
  /\ Len(stack') = m + Len(stack) - 1
  /\ \A i \in 2 .. Len(stack) : stack'[i - 1 + m] = stack[i]
  /\ DOMAIN entries_ \subseteq DOMAIN entries_'
  /\ \A y \in Item : Cached(y) /\ LeadsTo(stack[1], y) =>
       y \in DOMAIN entries_' \/ \E i \in 1 .. m : LeadsTo(stack'[i], y)

LEMMA CoveredShift ==
  ASSUME NEW m, Replaces(m), NEW y \in Item, Cached(y), NEW j \in 1 .. Len(stack),
         Covered(y, j)
  PROVE  Covered(y, j - 1 + m)'
<1>1. m \in Nat /\ Len(stack) \in Nat /\ j - 1 + m \in Nat
  BY DEF Replaces
<1>2. CASE y \in DOMAIN entries_
  BY <1>2 DEF Covered, Replaces
<1>3. CASE \E i \in 1 .. j : LeadsTo(stack[i], y)
  <2>1. PICK i \in 1 .. j : LeadsTo(stack[i], y)
    BY <1>3
  <2>2. CASE i = 1
    <3>1. y \in DOMAIN entries_' \/ \E k \in 1 .. m : LeadsTo(stack'[k], y)
      BY <2>1, <2>2 DEF Replaces
    <3>2. \A k \in 1 .. m : k \in 1 .. j - 1 + m
      BY <1>1
    <3> QED
      BY <3>1, <3>2 DEF Covered
  <2>3. CASE i # 1
    <3>1. i \in 2 .. Len(stack) /\ i - 1 + m \in 1 .. j - 1 + m
      BY <2>3, <1>1
    <3>2. LeadsTo(stack'[i - 1 + m], y)
      BY <3>1, <2>1 DEF Replaces
    <3> QED
      BY <3>1, <3>2 DEF Covered
  <2> QED
    BY <2>2, <2>3
<1> QED
  BY <1>2, <1>3 DEF Covered

LEMMA StackShared ==
  ASSUME IInv, SInv, NEW m, Replaces(m), UNCHANGED <<mod, todo>>,
         \A j \in 1 .. m : stack'[j].call = "Define" =>
           /\ Cached(stack'[j].of)
           /\ \A y \in VisitedBelow(Range(visits(stack'[j].of))) : Cached(y) => Covered(y, j - 1)'
  PROVE  PendingComplete' /\ RootsCovered'
<1>1. /\ m \in Nat /\ Len(stack) \in Nat \ {0} /\ Len(stack') = m + Len(stack) - 1
      /\ DOMAIN stack = 1 .. Len(stack) /\ DOMAIN stack' = 1 .. Len(stack')
  BY DEF Replaces
<1>2. PendingComplete'
  <2> SUFFICES ASSUME NEW j \in DOMAIN stack', stack'[j].call = "Define"
               PROVE  /\ Cached(stack'[j].of)
                      /\ \A y \in VisitedBelow(Range(visits(stack'[j].of))) :
                           Cached(y) => Covered(y, j - 1)'
    BY DEF PendingComplete
  <2>1. CASE j <= m
    BY <2>1, <1>1
  <2>2. CASE j > m
    <3> DEFINE k == j + 1 - m
    <3>1. k \in 2 .. Len(stack) /\ k \in DOMAIN stack /\ k - 1 + m = j
      BY <2>2, <1>1
    <3>2. (k - 1) - 1 + m = j - 1 /\ k - 1 \in 1 .. Len(stack)
      BY <2>2, <1>1
    <3> HIDE DEF k
    <3>3. stack'[j] = stack[k] /\ stack[k] \in Call
      BY <3>1 DEF Replaces
    <3>4. /\ Cached(stack[k].of)
          /\ \A y \in VisitedBelow(Range(visits(stack[k].of))) : Cached(y) => Covered(y, k - 1)
      BY <3>1, <3>3 DEF SInv, PendingComplete
    <3>5. VisitedBelow(Range(visits(stack[k].of))) \subseteq Item
      <4>1. stack[k].of \in Item
        BY <3>3 DEF Call
      <4>2. Range(visits(stack[k].of)) \subseteq Item
        BY <4>1, ItemAssumption, RangeOf
      <4> QED
        BY <4>2, BelowClosed
    <3>6. ASSUME NEW y \in VisitedBelow(Range(visits(stack[k].of))), Cached(y)
          PROVE  Covered(y, j - 1)'
      <4>1. y \in Item /\ Covered(y, k - 1)
        BY <3>4, <3>5, <3>6
      <4>2. Covered(y, (k - 1) - 1 + m)'
        BY <4>1, <3>2, <3>6, CoveredShift
      <4> QED
        BY <4>2, <3>2
    <3> QED
      BY <3>3, <3>4, <3>6
  <2> QED
    BY <2>1, <2>2, <1>1
<1>3. RootsCovered'
  <2> SUFFICES ASSUME NEW y \in VisitedBelow(Roots), Cached(y)
               PROVE  \/ Covered(y, Len(stack))'
                      \/ \E i \in DOMAIN todo : y \in VisitedBelow({todo[i]})
    BY DEF RootsCovered, Roots
  <2>1. y \in Item
    BY RootsAreItems, BelowClosed
  <2>2. CASE Covered(y, Len(stack))
    <3>0. Len(stack) \in 1 .. Len(stack)
      BY <1>1
    <3>1. PICK n \in 1 .. Len(stack) : n = Len(stack)
      BY <3>0
    <3>2. n - 1 + m = Len(stack')
      BY <1>1, <3>1
    <3>3. Covered(y, n)
      BY <2>2, <3>1
    <3>4. Covered(y, n - 1 + m)'
      BY <2>1, <3>3, CoveredShift
    <3> QED
      BY <3>2, <3>4 DEF Covered
  <2>3. CASE \E i \in DOMAIN todo : y \in VisitedBelow({todo[i]})
    BY <2>3
  <2> QED
    BY <2>2, <2>3 DEF SInv, RootsCovered
<1> QED
  BY <1>2, <1>3

LEMMA InitSInv == Init => SInv
<1> SUFFICES ASSUME Init PROVE SInv
  OBVIOUS
<1>1. IInv
  BY InitIInv
<1>2. /\ stack = <<>> /\ DOMAIN stack = {} /\ DOMAIN entries_ = {} /\ DOMAIN defs = {}
      /\ Range(todo) = Roots /\ Roots \in SUBSET Item /\ todo \in Seq(Item)
  <2>1. Range(<<>>) = {}
    BY DEF Range
  <2>2. Range(todo) = Roots
    BY <2>1 DEF Init, Roots
  <2>3. todo \in Seq(Item)
    BY <1>1 DEF IInv, TypeOK
  <2>4. stack = <<>> /\ defs = <<>> /\ DOMAIN entries_ = {}
    BY DEF Init
  <2> QED
    BY <1>1, <2>2, <2>3, <2>4, RootsAreItems
<1>3. EntriesComplete /\ PendingComplete /\ PartsAreShared
  BY <1>2 DEF EntriesComplete, PendingComplete, PartsAreShared
<1>4. Roots \subseteq VisitedBelow(Roots)
  BY <1>2, BelowClosed
<1>5. OnlyVisited
  BY <1>2, <1>4 DEF OnlyVisited
<1>6. RootsCovered
  <2> SUFFICES ASSUME NEW y \in VisitedBelow(Roots)
               PROVE  \E i \in DOMAIN todo : y \in VisitedBelow({todo[i]})
    BY DEF RootsCovered
  <2>1. PICK z \in Roots : y \in VisitedBelow({z})
    BY <1>2, BelowOne
  <2>2. PICK i \in DOMAIN todo : todo[i] = z
    BY <1>2 DEF Range
  <2> QED
    BY <2>1, <2>2
<1> QED
  BY <1>3, <1>5, <1>6 DEF SInv

LEMMA PreprintSInv == IInv /\ SInv /\ preprint => SInv'
<1> SUFFICES ASSUME IInv, SInv, preprint PROVE SInv'
  OBVIOUS
<1>1. /\ stack = <<>> /\ todo # <<>> /\ todo \in Seq(Item) /\ todo' = Tail(todo)
      /\ stack' = <<Visit(todo[1])>> /\ UNCHANGED <<mod, entries_, defs>>
  BY DEF preprint, IInv, TypeOK
<1>2. /\ todo' \in Seq(Item) /\ DOMAIN todo = 1 .. Len(todo) /\ Len(todo) \in Nat \ {0}
      /\ DOMAIN todo' = 1 .. Len(todo) - 1
      /\ \A i \in 1 .. Len(todo) - 1 : todo'[i] = todo[i + 1]
  BY <1>1
<1>3. Visit(todo[1]).call = "Visit" /\ Visit(todo[1]).of = todo[1]
  BY DEF Visit
<1>4. DOMAIN stack' = {1} /\ stack'[1] = Visit(todo[1]) /\ Len(stack') = 1
  BY <1>1
<1>5. EntriesComplete' /\ PartsAreShared'
  BY <1>1 DEF SInv, EntriesComplete, PartsAreShared
<1>6. PendingComplete'
  BY <1>3, <1>4 DEF PendingComplete
<1>7. OnlyVisited'
  <2>1. DOMAIN entries_ \cup Range(todo) \subseteq VisitedBelow(Roots) /\ Roots' = Roots
    BY <1>1 DEF SInv, OnlyVisited, Roots
  <2>2. \A i \in DOMAIN todo : todo[i] \in VisitedBelow(Roots)
    BY <2>1 DEF Range
  <2>3. \A i \in DOMAIN todo' : todo'[i] \in VisitedBelow(Roots)
    <3>1. \A i \in DOMAIN todo' : i + 1 \in DOMAIN todo /\ todo'[i] = todo[i + 1]
      BY <1>2
    <3> QED
      BY <2>2, <3>1
  <2>4. Range(todo') \subseteq VisitedBelow(Roots)
    BY <2>3 DEF Range
  <2>5. \A j \in DOMAIN stack' : stack'[j].of \in VisitedBelow(Roots)
    BY <1>2, <1>3, <1>4, <2>2
  <2> QED
    BY <1>1, <2>1, <2>4, <2>5 DEF OnlyVisited
<1>8. RootsCovered'
  <2> SUFFICES ASSUME NEW y \in VisitedBelow(Roots), Cached(y)
               PROVE  \/ Covered(y, Len(stack))'
                      \/ \E i \in DOMAIN todo' : y \in VisitedBelow({todo'[i]})
    BY <1>1 DEF RootsCovered, Roots
  <2>1. CASE Covered(y, Len(stack))
    <3>1. y \in DOMAIN entries_
      BY <1>1, <2>1 DEF Covered
    <3> QED
      BY <3>1, <1>1 DEF Covered
  <2>2. CASE \E i \in DOMAIN todo : y \in VisitedBelow({todo[i]})
    <3>1. PICK i \in DOMAIN todo : y \in VisitedBelow({todo[i]})
      BY <2>2
    <3>2. CASE i = 1
      <4>1. LeadsTo(stack'[1], y) /\ 1 \in 1 .. Len(stack')
        BY <3>1, <3>2, <1>3, <1>4 DEF LeadsTo
      <4> QED
        BY <4>1 DEF Covered
    <3>3. CASE i # 1
      <4>1. i - 1 \in 1 .. Len(todo) - 1 /\ (i - 1) + 1 = i
        BY <3>3, <1>2
      <4>2. todo'[i - 1] = todo[i] /\ i - 1 \in DOMAIN todo'
        BY <4>1, <1>2
      <4> QED
        BY <3>1, <4>2
    <3> QED
      BY <3>2, <3>3
  <2> QED
    BY <2>1, <2>2 DEF SInv, RootsCovered
<1> QED
  BY <1>5, <1>6, <1>7, <1>8 DEF SInv

LEMMA VisitCachedSInv == IInv /\ SInv /\ VisitCached => SInv'
<1> SUFFICES ASSUME IInv, SInv, VisitCached PROVE SInv'
  OBVIOUS
<1> DEFINE x == top.of
<1>1. /\ stack # <<>> /\ stack \in Seq(Call) /\ stack' = Tail(stack) /\ stack[1] = top
      /\ top.call = "Visit" /\ x \in DOMAIN entries_ /\ DOMAIN entries_ \subseteq Item
      /\ UNCHANGED <<mod, todo, entries_, defs>>
  BY DEF VisitCached, lookup, IInv, TypeOK, Call, top
<1>2. /\ stack' \in Seq(Call) /\ Len(stack') = Len(stack) - 1 /\ Len(stack) \in Nat \ {0}
      /\ DOMAIN stack = 1 .. Len(stack)
      /\ \A i \in 1 .. Len(stack) - 1 : stack'[i] = stack[i + 1]
  BY <1>1, TailOf
<1>3. EntriesComplete' /\ PartsAreShared'
  BY <1>1 DEF SInv, EntriesComplete, PartsAreShared
<1>4. Replaces(0)
  <2>1. ASSUME NEW y \in Item, Cached(y), LeadsTo(stack[1], y) PROVE y \in DOMAIN entries_'
    <3>1. y \in VisitedBelow({x})
      BY <1>1, <2>1 DEF LeadsTo, Define
    <3>2. CASE y = x
      BY <3>2, <1>1
    <3>3. CASE y # x
      <4>1. x \in Item
        BY <1>1
      <4> HIDE DEF x
      <4>2. y \in VisitedBelow(Range(visits(x)))
        BY <4>1, <3>1, <3>3, BelowUnfold
      <4> QED
        BY <4>2, <2>1, <1>1 DEF SInv, EntriesComplete
    <3> QED
      BY <3>2, <3>3
  <2>2. \A i \in 2 .. Len(stack) : stack'[i - 1 + 0] = stack[i]
    BY <1>2
  <2> QED
    BY <2>1, <2>2, <1>1, <1>2 DEF Replaces
<1>5. PendingComplete' /\ RootsCovered'
  <2>1. \A j \in 1 .. 0 : FALSE
    OBVIOUS
  <2> QED
    BY <2>1, <1>1, <1>4, StackShared
<1>6. OnlyVisited'
  BY <1>1, <1>2 DEF SInv, OnlyVisited, Roots
<1> QED
  BY <1>3, <1>5, <1>6 DEF SInv

LEMMA VisitNewSInv == IInv /\ SInv /\ VisitNew => SInv'
<1> SUFFICES ASSUME IInv, SInv, VisitNew PROVE SInv'
  OBVIOUS
<1> DEFINE x == top.of
           n == Len(visits(x))
           d == IF Cached(x) THEN 1 ELSE 0
           vs == visits(x)
<1>0. x = top.of /\ n = Len(visits(x)) /\ d = (IF Cached(x) THEN 1 ELSE 0) /\ vs = visits(x)
  OBVIOUS
<1> HIDE DEF x, n, d, vs
<1>1. /\ x \in Item /\ x \notin DOMAIN entries_ /\ vs \in Seq(Item)
      /\ stack # <<>> /\ stack \in Seq(Call) /\ n \in Nat /\ d \in {0, 1}
      /\ stack' \in Seq(Call) /\ Len(stack') = n + d + Len(stack) - 1
      /\ \A i \in 1 .. n : stack'[i] = Visit(vs[i])
      /\ d = 1 => stack'[n + 1] = Define(x)
      /\ \A i \in 2 .. Len(stack) : stack'[i - 1 + (n + d)] = stack[i]
  <2>1. VisitNewEffect(x, n, d)
    BY <1>0, VisitNewStack
  <2> QED
    BY <2>1, <1>0 DEF VisitNewEffect
<1>2. /\ stack[1].of = x /\ stack[1].call = "Visit" /\ UNCHANGED <<mod, todo, entries_, defs>>
      /\ Len(stack) \in Nat \ {0} /\ DOMAIN stack = 1 .. Len(stack)
      /\ DOMAIN stack' = 1 .. Len(stack') /\ DOMAIN vs = 1 .. n
  <2>1. /\ stack[1].of = x /\ stack[1].call = "Visit"
        /\ UNCHANGED <<mod, todo, entries_, defs>>
    BY <1>0 DEF VisitNew, top
  <2>2. /\ Len(stack) \in Nat \ {0} /\ DOMAIN stack = 1 .. Len(stack)
        /\ DOMAIN stack' = 1 .. Len(stack')
    BY <1>1
  <2>3. DOMAIN vs = 1 .. n
    BY <1>0, <1>1
  <2> QED
    BY <2>1, <2>2, <2>3
<1>3. EntriesComplete' /\ PartsAreShared'
  BY <1>2 DEF SInv, EntriesComplete, PartsAreShared
<1>4. Range(vs) \subseteq Item
  BY <1>1, RangeOf
\* What is below x is below one of the parts that are visited.
<1>5. ASSUME NEW y \in VisitedBelow(Range(vs))
      PROVE  \E i \in 1 .. n : LeadsTo(stack'[i], y)
  <2>1. PICK z \in Range(vs) : y \in VisitedBelow({z})
    BY <1>4, BelowOne
  <2>2. PICK i \in 1 .. n : vs[i] = z
    BY <1>2 DEF Range
  <2>3. stack'[i] = [call |-> "Visit", of |-> z]
    BY <1>1, <2>2 DEF Visit
  <2>4. stack'[i].call = "Visit" /\ stack'[i].of = z
    BY <2>3
  <2> QED
    BY <2>1, <2>4 DEF LeadsTo
<1>6. Replaces(n + d)
  <2>1. ASSUME NEW y \in Item, Cached(y), LeadsTo(stack[1], y)
        PROVE  \E i \in 1 .. n + d : LeadsTo(stack'[i], y)
    <3>1. y \in VisitedBelow({x})
      BY <1>2, <2>1 DEF LeadsTo, Define
    <3>2. CASE y = x
      <4>1. d = 1 /\ n + 1 \in 1 .. n + d
        BY <3>2, <2>1, <1>0, <1>1
      <4>2. LeadsTo(stack'[n + 1], y)
        BY <4>1, <3>2, <1>1 DEF LeadsTo
      <4> QED
        BY <4>1, <4>2
    <3>3. CASE y # x
      <4>1. y \in VisitedBelow(Range(vs))
        BY <3>1, <3>3, <1>0, <1>1, BelowUnfold
      <4>2. PICK i \in 1 .. n : LeadsTo(stack'[i], y)
        BY <4>1, <1>5
      <4>3. i \in 1 .. n + d
        BY <1>1
      <4> QED
        BY <4>2, <4>3
    <3> QED
      BY <3>2, <3>3
  <2>2. n + d \in Nat /\ DOMAIN entries_ \subseteq DOMAIN entries_'
    BY <1>1, <1>2
  <2> QED
    BY <2>1, <2>2, <1>1 DEF Replaces
<1>7. ASSUME NEW j \in 1 .. n + d, stack'[j].call = "Define"
      PROVE  /\ Cached(stack'[j].of)
             /\ \A y \in VisitedBelow(Range(visits(stack'[j].of))) : Cached(y) => Covered(y, j - 1)'
  <2>1. j > n
    <3> SUFFICES ASSUME j \in 1 .. n PROVE FALSE
      BY <1>1
    <3>1. stack'[j] = [call |-> "Visit", of |-> vs[j]]
      BY <1>1 DEF Visit
    <3> QED
      BY <3>1, <1>7
  <2>2. d = 1 /\ j = n + 1 /\ Cached(x)
    BY <2>1, <1>0, <1>1
  <2>3. stack'[j] = [call |-> "Define", of |-> x]
    BY <2>2, <1>1 DEF Define
  <2>4. stack'[j].of = x
    BY <2>3
  <2>5. ASSUME NEW y \in VisitedBelow(Range(vs)) PROVE Covered(y, j - 1)'
    <3>1. \E i \in 1 .. n : LeadsTo(stack'[i], y)
      BY <1>5
    <3>2. n = j - 1
      BY <2>2, <1>1
    <3>3. \E i \in 1 .. j - 1 : LeadsTo(stack'[i], y)
      BY <3>1, <3>2
    <3> QED
      BY <3>3 DEF Covered
  <2> QED
    BY <2>2, <2>4, <2>5, <1>0
<1>8. PendingComplete' /\ RootsCovered'
  BY <1>2, <1>6, <1>7, StackShared
<1>9. OnlyVisited'
  <2>1. /\ DOMAIN entries_ \cup Range(todo) \subseteq VisitedBelow(Roots) /\ Roots' = Roots
        /\ \A j \in DOMAIN stack : stack[j].of \in VisitedBelow(Roots)
    BY <1>2 DEF SInv, OnlyVisited, Roots
  <2>2. x \in VisitedBelow(Roots)
    BY <2>1, <1>2
  <2>3. Range(vs) \subseteq VisitedBelow(Roots)
    BY <2>2, <1>0, RootsAreItems, BelowClosed
  <2>4. ASSUME NEW j \in DOMAIN stack' PROVE stack'[j].of \in VisitedBelow(Roots)
    <3>1. CASE j <= n
      <4>1. j \in 1 .. n /\ vs[j] \in VisitedBelow(Roots)
        BY <3>1, <2>3, <1>1, <1>2, RangeOf
      <4>2. stack'[j] = [call |-> "Visit", of |-> vs[j]]
        BY <4>1, <1>1 DEF Visit
      <4> QED
        BY <4>1, <4>2
    <3>2. CASE j > n /\ j <= n + d
      <4>1. d = 1 /\ j = n + 1
        BY <3>2, <1>1, <1>2
      <4>2. stack'[j] = [call |-> "Define", of |-> x]
        BY <4>1, <1>1 DEF Define
      <4> QED
        BY <4>2, <2>2
    <3>3. CASE j > n + d
      <4> DEFINE k == j + 1 - (n + d)
      <4>0. /\ j \in Nat /\ n + d \in Nat /\ Len(stack) \in Nat
            /\ j > n + d /\ j <= n + d + Len(stack) - 1
        BY <3>3, <1>1, <1>2
      <4>1. k \in 2 .. Len(stack) /\ k \in DOMAIN stack /\ k - 1 + (n + d) = j
        BY <4>0, <1>2
      <4> HIDE DEF k
      <4>2. stack'[j] = stack[k]
        BY <4>1, <1>1
      <4> QED
        BY <4>1, <4>2, <2>1
    <3> QED
      BY <3>1, <3>2, <3>3, <1>1, <1>2
  <2> QED
    BY <1>2, <2>1, <2>4 DEF OnlyVisited
<1> QED
  BY <1>3, <1>8, <1>9 DEF SInv

\* The references of a definition are the entries that are printed in it.
LEMMA SharedIsPrinted ==
  ASSUME NEW x \in Item
  PROVE  {r.of : r \in References(x)} = Printed(prints(x), DOMAIN entries_) \cap DOMAIN entries_
<1> DEFINE P == Printed(prints(x), DOMAIN entries_) \cap DOMAIN entries_
<1>1. References(x) = {reference(y) : y \in P}
  BY DEF References
<1>2. \A y : reference(y).of = y
  BY DEF reference
<1> HIDE DEF P
<1>3. {r.of : r \in References(x)} = P
  BY <1>1, <1>2
<1> QED
  BY <1>3 DEF P

\* One definition refers to what is shared below it.
RefersToParts(x, shared) ==
  {y \in VisitedBelow(Range(visits(x))) : Cached(y)} \cap Printed(prints(x), shared) \subseteq shared

LEMMA DefineItemSInv == IInv /\ SInv /\ DefineItem => SInv'
<1> SUFFICES ASSUME IInv, SInv, DefineItem PROVE SInv'
  OBVIOUS
<1> DEFINE x == top.of
           E == DOMAIN entries_
           e == [prefix |-> PREFIX(x), num |-> fresh(x), of |-> x, refs |-> References(x)]
<1>1. /\ stack # <<>> /\ stack \in Seq(Call) /\ stack[1] = top /\ top.call = "Define"
      /\ 1 \in DOMAIN stack /\ E \subseteq Item
  BY DEF DefineItem, IInv, TypeOK, Call, top
<1>2. x \in Item /\ x \notin E
  <2>1. top \in Call
    BY <1>1
  <2>2. top.of \notin DOMAIN entries_
    BY <1>1 DEF IInv, PendingIsDeeper
  <2> QED
    BY <2>1, <2>2 DEF Call
<1>3. /\ defs' = Append(defs, e) /\ stack' = Tail(stack) /\ DOMAIN entries_' = E \cup {x}
      /\ UNCHANGED <<mod, todo>>
  BY <1>2 DEF DefineItem, store, lookup
<1>4. defs \in Seq([prefix : {"t", "n"}, num : Nat, of : Item, refs : SUBSET Reference])
  BY DEF IInv, TypeOK
<1>5. e.of = x /\ e.refs = References(x)
  OBVIOUS
<1>6. Cached(x) /\ \A y \in VisitedBelow(Range(visits(x))) : Cached(y) => y \in E
  <2>1. /\ Cached(x)
        /\ \A y \in VisitedBelow(Range(visits(x))) : Cached(y) => Covered(y, 1 - 1)
    BY <1>1 DEF SInv, PendingComplete
  <2>2. \A y : Covered(y, 1 - 1) => y \in E
    BY DEF Covered
  <2> QED
    BY <2>1, <2>2
<1> HIDE DEF x, E, e
<1>7. /\ stack' \in Seq(Call) /\ Len(stack') = Len(stack) - 1 /\ Len(stack) \in Nat \ {0}
      /\ DOMAIN stack = 1 .. Len(stack)
      /\ \A i \in 1 .. Len(stack) - 1 : stack'[i] = stack[i + 1]
  BY <1>1, <1>3, TailOf
<1>8. EntriesComplete'
  <2> SUFFICES ASSUME NEW z \in DOMAIN entries_'
               PROVE  Cached(z) /\ \A y \in VisitedBelow(Range(visits(z))) : Cached(y) => y \in E
    BY <1>3 DEF EntriesComplete
  <2>1. CASE z = x
    BY <2>1, <1>6
  <2>2. CASE z \in E
    BY <2>2 DEF SInv, EntriesComplete, E
  <2> QED
    BY <2>1, <2>2, <1>3
<1>9. Replaces(0)
  <2>1. ASSUME NEW y \in Item, LeadsTo(stack[1], y) PROVE y \in DOMAIN entries_'
    <3>1. top = [call |-> "Define", of |-> y]
      BY <1>1, <2>1 DEF LeadsTo, Define
    <3>2. top.of = y
      BY <3>1
    <3> QED
      BY <3>2, <1>3 DEF x
  <2>2. \A i \in 2 .. Len(stack) : stack'[i - 1 + 0] = stack[i]
    BY <1>7
  <2> QED
    BY <2>1, <2>2, <1>1, <1>3, <1>7 DEF Replaces, E
<1>10. PendingComplete' /\ RootsCovered'
  <2>1. \A j \in 1 .. 0 : FALSE
    OBVIOUS
  <2> QED
    BY <2>1, <1>3, <1>9, StackShared
<1>11. OnlyVisited'
  <2>1. /\ E \cup Range(todo) \subseteq VisitedBelow(Roots) /\ Roots' = Roots
        /\ \A j \in DOMAIN stack : stack[j].of \in VisitedBelow(Roots)
    BY <1>3 DEF SInv, OnlyVisited, Roots, E
  <2>2. x \in VisitedBelow(Roots)
    BY <2>1, <1>1 DEF x
  <2>3. \A j \in DOMAIN stack' : stack'[j].of \in VisitedBelow(Roots)
    BY <2>1, <1>7
  <2> QED
    BY <1>3, <2>1, <2>2, <2>3 DEF OnlyVisited
<1>12. PartsAreShared'
  <2>1. \A k \in DOMAIN defs : RefersToParts(defs[k].of, {r.of : r \in defs[k].refs})
    BY DEF SInv, PartsAreShared, RefersToParts
  <2>2. RefersToParts(e.of, {r.of : r \in e.refs})
    <3> DEFINE F == Printed(prints(x), E) \cap E
    <3>1. {r.of : r \in e.refs} = F
      BY <1>2, <1>5, SharedIsPrinted DEF E
    <3>2. Printed(prints(x), F) \subseteq Printed(prints(x), E)
      BY <1>2, ItemAssumption, PrintedAgain
    <3>3. RefersToParts(x, F)
      BY <3>2, <1>6 DEF RefersToParts
    <3> QED
      BY <3>1, <3>3, <1>5
  <2>3. \A k \in DOMAIN defs' : RefersToParts(defs'[k].of, {r.of : r \in defs'[k].refs})
    <3>1. DOMAIN defs' = DOMAIN defs \cup {Len(defs) + 1} /\ defs'[Len(defs) + 1] = e
      BY <1>3, <1>4
    <3>2. \A k \in DOMAIN defs : defs'[k] = defs[k]
      BY <1>3, <1>4
    <3> QED
      BY <2>1, <2>2, <3>1, <3>2
  <2> QED
    BY <2>3 DEF PartsAreShared, RefersToParts
<1> QED
  BY <1>8, <1>10, <1>11, <1>12 DEF SInv

(* The invariant of sharing: an entry stands for everything below its item.  *)
THEOREM SharingInductive == Spec => []SInv
<1>1. IInv /\ SInv /\ [Next]_vars => SInv'
  <2> SUFFICES ASSUME IInv, SInv, [Next]_vars PROVE SInv'
    OBVIOUS
  <2>1. ASSUME UNCHANGED <<mod, todo, stack, entries_, defs>> PROVE SInv'
    BY <2>1 DEF SInv, EntriesComplete, PendingComplete, RootsCovered, OnlyVisited,
                PartsAreShared, Covered, Roots
  <2>2. CASE printDecl
    BY <2>1, <2>2 DEF printDecl
  <2>3. CASE UNCHANGED vars
    BY <2>1, <2>3 DEF vars
  <2> QED
    BY <2>2, <2>3, PreprintSInv, VisitCachedSInv, VisitNewSInv, DefineItemSInv DEF Next
<1> QED
  BY InitSInv, Inductive, <1>1, PTL DEF Spec

(* The definition of a type or name prints no part a second time that is     *)
(* visited below it and has a definition, however deep it is and however     *)
(* many types share it.                                                      *)
THEOREM SharedPartsAreReferences == Spec => []PartsAreShared
<1>1. SInv => PartsAreShared
  BY DEF SInv
<1> QED
  BY SharingInductive, <1>1, PTL

(* When the pass is over, the types and names that are defined are those     *)
(* that can be reached from the module's lists: a visit that ends at an      *)
(* entry leaves out nothing, and nothing else is defined.                    *)
THEOREM SharingIsComplete == Spec => []AllShared
<1>1. IInv /\ SInv => AllShared
  <2> SUFFICES ASSUME IInv, SInv, Done
               PROVE  {defs[k].of : k \in DOMAIN defs} =
                        IF mod.sharing
                        THEN {x \in VisitedBelow(Range(mod.declarations \o mod.definitions))
                                : Cached(x)}
                        ELSE {}
    BY DEF AllShared
  <2>1. {defs[k].of : k \in DOMAIN defs} = DOMAIN entries_
    BY DEF IInv, EntriesAreDefs
  <2>2. stack = <<>> /\ todo = <<>> /\ Len(stack) = 0
    BY DEF Done
  <2>3. \A y : Covered(y, Len(stack)) => y \in DOMAIN entries_
    BY <2>2 DEF Covered
  <2>4. DOMAIN entries_ = {x \in VisitedBelow(Roots) : Cached(x)}
    <3>1. \A x \in VisitedBelow(Roots) : Cached(x) => x \in DOMAIN entries_
      BY <2>2, <2>3 DEF SInv, RootsCovered
    <3>2. \A x \in DOMAIN entries_ : Cached(x) /\ x \in VisitedBelow(Roots)
      BY DEF SInv, EntriesComplete, OnlyVisited
    <3> QED
      BY <3>1, <3>2
  <2>5. CASE mod.sharing
    BY <2>1, <2>4, <2>5 DEF Roots
  <2>6. CASE ~mod.sharing
    <3>1. Roots = {}
      BY <2>6 DEF Roots
    <3>2. ASSUME NEW x \in VisitedBelow({}) PROVE FALSE
      <4>1. {} \in SUBSET Item
        OBVIOUS
      <4>2. \E y \in {} : x \in VisitedBelow({y})
        BY <4>1, BelowOne
      <4> QED
        BY <4>2
    <3>3. VisitedBelow({}) = {}
      BY <3>2
    <3> QED
      BY <2>1, <2>4, <2>6, <3>1, <3>3
  <2> QED
    BY <2>5, <2>6
<1> QED
  BY <1>1, Inductive, SharingInductive, PTL
=============================================================================
