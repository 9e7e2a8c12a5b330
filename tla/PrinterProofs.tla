--------------------------- MODULE PrinterProofs ---------------------------
(***************************************************************************)
(* The assertions on the indentation hold for every nesting of the         *)
(* printers.  That each text of each visitor is balanced is a fact about   *)
(* finite tables, TextsAreBalanced, which TLC evaluates in full; that      *)
(* texts put into each other to any depth never take back an indentation   *)
(* that is not there, and that printStmt, printExpr and printType leave    *)
(* the indentation as they found it, is proved here.                       *)
(*                                                                         *)
(* The invariant gives every item of the work still to be done the         *)
(* indentation at which it will be printed: Runs(w, x, y) says that w can  *)
(* be printed from indentation x and ends at y.                            *)
(***************************************************************************)
EXTENDS Printer, FiniteSetTheorems, TLAPS

\* The items of texts, of check_depth and of the first call.
Item0 == [k : STRING \cup {"call", "depth"}, v : STRING \cup {""} \cup Roots, n : Nat]

\* What an item does to the indentation, and what it asserts of it.
Change(it) == IF it.k = "lparen" THEN 2 ELSE IF it.k = "rparen" THEN -2 ELSE 0

Holds(it, x) ==
  /\ it.k = "rparen" => x >= 2
  /\ it.k = "depth" => it.n = x

Profile(w, d) ==
  \A i \in 1 .. Len(w) : d[i + 1] = d[i] + Change(w[i]) /\ Holds(w[i], d[i])

Runs(w, x, y) ==
  \E d \in [1 .. Len(w) + 1 -> Nat] : d[1] = x /\ d[Len(w) + 1] = y /\ Profile(w, d)

----------------------------------------------------------------------------
(* Runs.                                                                   *)

LEMMA RunsEmpty == ASSUME NEW x \in Nat PROVE Runs(<<>>, x, x)
<1> DEFINE d == [i \in 1 .. 1 |-> x]
<1>1. d \in [1 .. Len(<<>>) + 1 -> Nat] /\ d[1] = x /\ d[Len(<<>>) + 1] = x /\ Profile(<<>>, d)
  BY DEF Profile
<1> QED
  BY <1>1 DEF Runs

LEMMA RunsOne ==
  ASSUME NEW U, NEW it \in U, NEW x \in Nat, x + Change(it) \in Nat, Holds(it, x)
  PROVE  Runs(<<it>>, x, x + Change(it))
<1> DEFINE y == x + Change(it)
           w == <<it>>
           d == [i \in 1 .. 2 |-> IF i = 1 THEN x ELSE y]
<1>1. Len(w) = 1 /\ w[1] = it
  OBVIOUS
<1> HIDE DEF y, w
<1>2. d \in [1 .. 2 -> Nat] /\ d[1] = x /\ d[2] = y
  BY DEF y
<1> HIDE DEF d
<1>3. Profile(w, d)
  BY <1>1, <1>2 DEF Profile, y
<1>4. Runs(w, x, y)
  BY <1>1, <1>2, <1>3 DEF Runs
<1> QED
  BY <1>4 DEF w, y

LEMMA RunsConcatenation ==
  ASSUME NEW U, NEW s \in Seq(U), NEW t \in Seq(U), NEW x \in Nat, NEW y \in Nat, NEW z \in Nat,
         Runs(s, x, y), Runs(t, y, z)
  PROVE  Runs(s \o t, x, z)
<1> DEFINE m == Len(s)
           n == Len(t)
           w == s \o t
<1>1. PICK d \in [1 .. m + 1 -> Nat] : d[1] = x /\ d[m + 1] = y /\ Profile(s, d)
  BY DEF Runs
<1>2. PICK e \in [1 .. n + 1 -> Nat] : e[1] = y /\ e[n + 1] = z /\ Profile(t, e)
  BY DEF Runs
<1>3. /\ m \in Nat /\ n \in Nat /\ Len(w) = m + n
      /\ \A i \in 1 .. m : w[i] = s[i]
      /\ \A i \in m + 1 .. m + n : w[i] = t[i - m]
  OBVIOUS
<1> DEFINE f == [i \in 1 .. m + n + 1 |-> IF i <= m THEN d[i] ELSE e[i - m]]
<1> HIDE DEF m, n, w
<1>4. f \in [1 .. m + n + 1 -> Nat]
  BY <1>3
<1>5. f[1] = x /\ f[m + n + 1] = z
  BY <1>1, <1>2, <1>3
<1>6. \A i \in 1 .. m + 1 : f[i] = d[i]
  BY <1>1, <1>2, <1>3
<1>7. \A i \in m + 1 .. m + n + 1 : f[i] = e[i - m]
  BY <1>1, <1>2, <1>3
<1> HIDE DEF f
<1>8. ASSUME NEW i \in 1 .. m
      PROVE  f[i + 1] = f[i] + Change(w[i]) /\ Holds(w[i], f[i])
  <2>0. i \in 1 .. m + 1 /\ i + 1 \in 1 .. m + 1
    BY <1>3
  <2>1. f[i] = d[i] /\ f[i + 1] = d[i + 1] /\ w[i] = s[i]
    BY <1>3, <1>6, <2>0
  <2>2. d[i + 1] = d[i] + Change(s[i]) /\ Holds(s[i], d[i])
    BY <1>1 DEF Profile, m
  <2> QED
    BY <2>1, <2>2
<1>9. ASSUME NEW i \in m + 1 .. m + n
      PROVE  f[i + 1] = f[i] + Change(w[i]) /\ Holds(w[i], f[i])
  <2> DEFINE j == i - m
  <2>1. j \in 1 .. n /\ j + 1 = i + 1 - m
    BY <1>3
  <2>2. f[i] = e[j] /\ f[i + 1] = e[j + 1] /\ w[i] = t[j]
    BY <1>3, <1>7, <2>1
  <2> HIDE DEF j
  <2>3. e[j + 1] = e[j] + Change(t[j]) /\ Holds(t[j], e[j])
    BY <1>2, <2>1 DEF Profile, n
  <2> QED
    BY <2>2, <2>3
<1>10. Profile(w, f)
  <2> SUFFICES ASSUME NEW i \in 1 .. Len(w)
               PROVE  f[i + 1] = f[i] + Change(w[i]) /\ Holds(w[i], f[i])
    BY DEF Profile
  <2>1. i \in 1 .. m \/ i \in m + 1 .. m + n
    BY <1>3
  <2> QED
    BY <2>1, <1>8, <1>9
<1>11. Runs(w, x, z)
  BY <1>3, <1>4, <1>5, <1>10 DEF Runs
<1> QED
  BY <1>11 DEF w

\* The next item can be printed now, and the others after it.
LEMMA RunsStep ==
  ASSUME NEW U, NEW w \in Seq(U), w # <<>>, NEW x \in Nat, NEW z \in Nat, Runs(w, x, z)
  PROVE  /\ Holds(w[1], x) /\ x + Change(w[1]) \in Nat
         /\ Runs(Tail(w), x + Change(w[1]), z)
<1> DEFINE n == Len(w)
           t == Tail(w)
<1>1. PICK d \in [1 .. n + 1 -> Nat] : d[1] = x /\ d[n + 1] = z /\ Profile(w, d)
  BY DEF Runs
<1>2. n \in Nat \ {0} /\ Len(t) = n - 1 /\ \A i \in 1 .. n - 1 : t[i] = w[i + 1]
  OBVIOUS
<1> HIDE DEF t
<1> DEFINE f == [i \in 1 .. n |-> d[i + 1]]
<1>3. f \in [1 .. Len(t) + 1 -> Nat] /\ \A i \in 1 .. n : f[i] = d[i + 1]
  BY <1>2
<1> HIDE DEF f
<1>4. Holds(w[1], x) /\ d[2] = x + Change(w[1]) /\ d[2] \in Nat
  <2>1. 1 \in 1 .. Len(w) /\ 2 \in 1 .. n + 1 /\ 1 + 1 = 2
    BY <1>2
  <2>2. d[1 + 1] = d[1] + Change(w[1]) /\ Holds(w[1], d[1])
    BY <1>1, <2>1 DEF Profile
  <2> QED
    BY <1>1, <2>1, <2>2
<1>5. Profile(t, f)
  <2> SUFFICES ASSUME NEW i \in 1 .. n - 1
               PROVE  f[i + 1] = f[i] + Change(t[i]) /\ Holds(t[i], f[i])
    BY <1>2 DEF Profile
  <2>1. i \in 1 .. n /\ i + 1 \in 1 .. n
    BY <1>2
  <2>2. d[(i + 1) + 1] = d[i + 1] + Change(w[i + 1]) /\ Holds(w[i + 1], d[i + 1])
    BY <1>1, <2>1 DEF Profile
  <2> QED
    BY <1>2, <1>3, <2>1, <2>2
<1>6. f[1] = d[2] /\ f[Len(t) + 1] = z
  BY <1>1, <1>2, <1>3
<1>7. Runs(t, d[2], z)
  BY <1>3, <1>5, <1>6 DEF Runs
<1> QED
  BY <1>4, <1>7 DEF t

----------------------------------------------------------------------------
(* Texts.                                                                  *)

LEMMA CountStep ==
  ASSUME NEW P, NEW i \in Nat \ {0}
  PROVE  /\ Cardinality(P \cap (1 .. i - 1)) \in Nat /\ Cardinality(P \cap (1 .. i)) \in Nat
         /\ i \in P => Cardinality(P \cap (1 .. i)) = Cardinality(P \cap (1 .. i - 1)) + 1
         /\ i \notin P => Cardinality(P \cap (1 .. i)) = Cardinality(P \cap (1 .. i - 1))
<1> DEFINE A == P \cap (1 .. i - 1)
           B == P \cap (1 .. i)
<1>1. IsFiniteSet(1 .. i) /\ IsFiniteSet(1 .. i - 1)
  BY FS_Interval
<1>2. A \subseteq 1 .. i - 1 /\ B \subseteq 1 .. i
  OBVIOUS
<1>3. IsFiniteSet(A) /\ IsFiniteSet(B)
  BY <1>1, <1>2, FS_Subset
<1>4. Cardinality(A) \in Nat /\ Cardinality(B) \in Nat
  BY <1>3, FS_CardinalityType
<1>5. i \in P => B = A \cup {i} /\ i \notin A
  OBVIOUS
<1>6. i \notin P => B = A
  OBVIOUS
<1> HIDE DEF A, B
<1>7. i \in P => Cardinality(B) = Cardinality(A) + 1
  BY <1>3, <1>5, FS_AddElement
<1>8. i \notin P => Cardinality(B) = Cardinality(A)
  BY <1>6
<1> QED
  BY <1>4, <1>7, <1>8 DEF A, B

LEMMA OpenedStep ==
  ASSUME NEW t \in Seq(Item0), NEW i \in 1 .. Len(t)
  PROVE  /\ Opened(t, i) \in Int
         /\ 2 * Opened(t, i + 1) = 2 * Opened(t, i) + Change(t[i])
<1> DEFINE P == {j \in 1 .. Len(t) : t[j].k = "lparen"}
           Q == {j \in 1 .. Len(t) : t[j].k = "rparen"}
<1>1. i \in Nat \ {0} /\ Len(t) \in Nat /\ (i + 1) - 1 = i
  OBVIOUS
<1>2. /\ {j \in 1 .. i - 1 : t[j].k = "lparen"} = P \cap (1 .. i - 1)
      /\ {j \in 1 .. i : t[j].k = "lparen"} = P \cap (1 .. i)
      /\ {j \in 1 .. i - 1 : t[j].k = "rparen"} = Q \cap (1 .. i - 1)
      /\ {j \in 1 .. i : t[j].k = "rparen"} = Q \cap (1 .. i)
  BY <1>1
<1>3. /\ Opened(t, i) = Cardinality(P \cap (1 .. i - 1)) - Cardinality(Q \cap (1 .. i - 1))
      /\ Opened(t, i + 1) = Cardinality(P \cap (1 .. i)) - Cardinality(Q \cap (1 .. i))
  BY <1>1, <1>2 DEF Opened
<1>4. (i \in P <=> t[i].k = "lparen") /\ (i \in Q <=> t[i].k = "rparen")
  OBVIOUS
<1> HIDE DEF P, Q
<1>5. /\ Cardinality(P \cap (1 .. i - 1)) \in Nat /\ Cardinality(P \cap (1 .. i)) \in Nat
      /\ i \in P => Cardinality(P \cap (1 .. i)) = Cardinality(P \cap (1 .. i - 1)) + 1
      /\ i \notin P => Cardinality(P \cap (1 .. i)) = Cardinality(P \cap (1 .. i - 1))
  BY <1>1, CountStep
<1>6. /\ Cardinality(Q \cap (1 .. i - 1)) \in Nat /\ Cardinality(Q \cap (1 .. i)) \in Nat
      /\ i \in Q => Cardinality(Q \cap (1 .. i)) = Cardinality(Q \cap (1 .. i - 1)) + 1
      /\ i \notin Q => Cardinality(Q \cap (1 .. i)) = Cardinality(Q \cap (1 .. i - 1))
  BY <1>1, CountStep
<1> DEFINE a == Cardinality(P \cap (1 .. i - 1))  a2 == Cardinality(P \cap (1 .. i))
           b == Cardinality(Q \cap (1 .. i - 1))  b2 == Cardinality(Q \cap (1 .. i))
<1>7. /\ a \in Nat /\ a2 \in Nat /\ b \in Nat /\ b2 \in Nat
      /\ Opened(t, i) = a - b /\ Opened(t, i + 1) = a2 - b2
  BY <1>3, <1>5, <1>6
<1>8. /\ t[i].k = "lparen" => a2 = a + 1 /\ b2 = b
      /\ t[i].k = "rparen" => a2 = a /\ b2 = b + 1
      /\ t[i].k \notin {"lparen", "rparen"} => a2 = a /\ b2 = b
  BY <1>4, <1>5, <1>6
<1> HIDE DEF a, a2, b, b2
<1>9. Change(t[i]) = 2 * (a2 - b2) - 2 * (a - b)
  BY <1>7, <1>8 DEF Change
<1> QED
  BY <1>7, <1>9

\* A balanced text leaves the indentation as it was.  u is the text with the
\* nesting of its calls.
LEMMA BalancedRuns ==
  ASSUME NEW t \in Seq(Item0), IsBalanced(t), \A i \in 1 .. Len(t) : t[i].k # "depth",
         NEW u \in Seq(Item0), Len(u) = Len(t), \A i \in 1 .. Len(t) : u[i].k = t[i].k,
         NEW x \in Nat
  PROVE  Runs(u, x, x)
<1> DEFINE n == Len(t)
           o(i) == Opened(t, i)
           d == [i \in 1 .. n + 1 |-> x + 2 * o(i)]
<1>1. n \in Nat
  OBVIOUS
<1>2. o(1) = 0
  <2>1. \A s : {j \in 1 .. 1 - 1 : t[j].k = s} = {}
    OBVIOUS
  <2>2. Cardinality({}) = 0
    BY FS_EmptySet
  <2> QED
    BY <2>1, <2>2 DEF Opened
<1>3. o(n + 1) = 0 /\ \A i \in 1 .. n : o(i) >= IF t[i].k = "rparen" THEN 1 ELSE 0
  BY DEF IsBalanced
<1>4. \A i \in 1 .. n : o(i) \in Int /\ 2 * o(i + 1) = 2 * o(i) + Change(t[i])
  BY OpenedStep
<1> HIDE DEF o, n
<1>5. \A i \in 1 .. n + 1 : o(i) \in Nat
  <2> TAKE i \in 1 .. n + 1
  <2>1. i = n + 1 \/ i \in 1 .. n
    BY <1>1
  <2> QED
    BY <1>3, <1>4, <2>1
<1>6. /\ d \in [1 .. n + 1 -> Nat] /\ \A i \in 1 .. n + 1 : d[i] = x + 2 * o(i)
  BY <1>5
<1> HIDE DEF d
<1>7. d[1] = x /\ d[n + 1] = x
  BY <1>1, <1>2, <1>3, <1>6
<1>8. Profile(u, d)
  <2> SUFFICES ASSUME NEW i \in 1 .. n
               PROVE  d[i + 1] = d[i] + Change(u[i]) /\ Holds(u[i], d[i])
    BY DEF Profile, n
  <2>1. i \in 1 .. n + 1 /\ i + 1 \in 1 .. n + 1
    BY <1>1
  <2>2. d[i] = x + 2 * o(i) /\ d[i + 1] = x + 2 * o(i + 1) /\ o(i) \in Nat /\ o(i + 1) \in Nat
    BY <1>5, <1>6, <2>1
  <2>3. u[i].k = t[i].k /\ t[i].k # "depth"
    BY DEF n
  <2>4. Change(u[i]) = Change(t[i]) /\ Change(t[i]) \in Int
    BY <2>3 DEF Change
  <2>5. 2 * o(i + 1) = 2 * o(i) + Change(t[i])
    BY <1>4
  <2>6. t[i].k = "rparen" => o(i) >= 1
    BY <1>3
  <2>7. Holds(u[i], d[i])
    BY <2>2, <2>3, <2>6 DEF Holds
  <2> QED
    BY <2>2, <2>4, <2>5, <2>7
<1> QED
  BY <1>6, <1>7, <1>8 DEF Runs, n

----------------------------------------------------------------------------
(* The printers at work.                                                   *)

Printers == DOMAIN Table(mode)

\* The items still to be printed, from the indentation at hand.
PInv ==
  /\ mode \in Modes
  /\ work \in Seq(Item0)
  /\ \A i \in 1 .. Len(work) : work[i].k \in Calls => work[i].v \in Printers
  /\ fmt \in [depth : Nat, spaces : Nat, blank : BOOLEAN]
  /\ outcome \in {"printing", "died"}
  /\ outcome = "printing" => \E z \in Nat : Runs(work, fmt.depth, z)

\* What is left after the next item.
LEMMA PopFacts ==
  ASSUME PInv, outcome = "printing", work # <<>>
  PROVE  /\ Head(work) = work[1] /\ work[1] \in Item0 /\ Tail(work) \in Seq(Item0)
         /\ \A i \in 1 .. Len(Tail(work)) : Tail(work)[i].k \in Calls => Tail(work)[i].v \in Printers
         /\ fmt.depth \in Nat /\ Holds(work[1], fmt.depth)
         /\ fmt.depth + Change(work[1]) \in Nat
         /\ \E z \in Nat : Runs(Tail(work), fmt.depth + Change(work[1]), z)
<1>1. work \in Seq(Item0) /\ fmt.depth \in Nat
  BY DEF PInv
<1>2. PICK z \in Nat : Runs(work, fmt.depth, z)
  BY DEF PInv
<1>3. /\ Holds(work[1], fmt.depth) /\ fmt.depth + Change(work[1]) \in Nat
      /\ Runs(Tail(work), fmt.depth + Change(work[1]), z)
  BY <1>1, <1>2, RunsStep
<1>4. /\ Head(work) = work[1] /\ work[1] \in Item0 /\ Tail(work) \in Seq(Item0)
      /\ Len(Tail(work)) = Len(work) - 1 /\ Len(work) \in Nat
      /\ \A i \in 1 .. Len(work) - 1 : Tail(work)[i] = work[i + 1] /\ i + 1 \in 1 .. Len(work)
  BY <1>1
<1>5. \A i \in 1 .. Len(Tail(work)) : Tail(work)[i].k \in Calls => Tail(work)[i].v \in Printers
  BY <1>4 DEF PInv
<1> QED
  BY <1>1, <1>3, <1>4, <1>5

\* An item is printed: the indentation becomes what the next one expects.
LEMMA PopStep ==
  ASSUME PInv, outcome = "printing", work # <<>>, work' = Tail(work), mode' = mode,
         fmt' \in [depth : Nat, spaces : Nat, blank : BOOLEAN],
         outcome' \in {"printing", "died"},
         outcome' = "printing" => fmt'.depth = fmt.depth + Change(work[1])
  PROVE  PInv'
<1>1. /\ Tail(work) \in Seq(Item0)
      /\ \A i \in 1 .. Len(Tail(work)) : Tail(work)[i].k \in Calls => Tail(work)[i].v \in Printers
      /\ \E z \in Nat : Runs(Tail(work), fmt.depth + Change(work[1]), z)
  BY PopFacts
<1>2. Printers' = Printers /\ mode \in Modes
  BY DEF Printers, PInv
<1>3. outcome' = "printing" => \E z \in Nat : Runs(work', fmt'.depth, z)
  BY <1>1
<1>4. (outcome = "printing" => \E z \in Nat : Runs(work, fmt.depth, z))'
  BY <1>3 DEF Runs, Profile
<1> QED
  BY <1>1, <1>2, <1>4 DEF PInv

LEMMA WriteStep ==
  ASSUME PInv, outcome = "printing", work # <<>>, work' = Tail(work), mode' = mode,
         NEW t, NEW depth \in Nat, Write(t, depth), depth = fmt.depth + Change(work[1])
  PROVE  PInv'
<1>1. fmt' = [depth |-> depth, spaces |-> 0, blank |-> FALSE] /\ outcome' = outcome
  BY DEF Write
<1>2. fmt' \in [depth : Nat, spaces : Nat, blank : BOOLEAN] /\ fmt'.depth = depth
  BY <1>1
<1> QED
  BY <1>1, <1>2, PopStep

LEMMA SeqMonotone ==
  ASSUME NEW U, NEW T, U \subseteq T, NEW s \in Seq(U)
  PROVE  s \in Seq(T)
<1>1. Len(s) \in Nat /\ DOMAIN s = 1 .. Len(s) /\ s = [i \in 1 .. Len(s) |-> s[i]]
  OBVIOUS
<1>2. \A i \in 1 .. Len(s) : s[i] \in T
  OBVIOUS
<1>3. s \in [1 .. Len(s) -> T]
  BY <1>1, <1>2
<1> QED
  BY <1>1, <1>3

\* The texts of a call are among those that TextsAreBalanced speaks of.
LEMMA TextsKnown ==
  ASSUME TextsAreBalanced, mode \in Modes, NEW it \in Item0, it.k \in Calls, it.v \in Printers,
         NEW t \in Texts(it)
  PROVE  /\ t \in Seq(Item0) /\ IsBalanced(t)
         /\ \A i \in 1 .. Len(t) : t[i].k # "depth" /\ (t[i].k \in Calls => t[i].v \in Printers)
<1> DEFINE p == it.v
           All == UNION {Table(mode)[p], optional(p), list_range_filter(p), loop(p)}
<1> HIDE DEF p
<1>0. p \in Printers /\ it.v = p
  BY DEF p
<1>1. Leaves[mode][p] \subseteq Productions[mode][p]
  <2>1. p \in DOMAIN Productions[mode]
    BY <1>0 DEF Productions, Printers
  <2> QED
    BY <2>1 DEF Leaves
<1>2. Productions[mode][p] \subseteq Table(mode)[p]
  BY <1>0 DEF Productions, Printers
<1>11. Texts(it) \subseteq All
  BY <1>0, <1>1, <1>2 DEF Texts, Calls, list_range_filter
<1>3. t \in All
  BY <1>11
<1>4. IsBalanced(t) /\ Calling(t, Printers)
  BY <1>0, <1>3 DEF TextsAreBalanced, Printers
<1>5. t \in Seq([k : STRING, v : STRING, n : Nat])
  BY <1>4 DEF Calling
<1>6. [k : STRING, v : STRING, n : Nat] \subseteq Item0
  BY DEF Item0
<1>7. t \in Seq(Item0)
  BY <1>5, <1>6, SeqMonotone
<1> QED
  BY <1>4, <1>7 DEF Calling, Printers

LEMMA BelowIsNat == ASSUME NEW y \in Item0 PROVE Below(y) \in Nat
<1>1. y.n \in Nat
  BY DEF Item0
<1>2. \A j \in Nat : j > 0 => j - 1 \in Nat
  OBVIOUS
<1> QED
  BY <1>1, <1>2 DEF Below

LEMMA VisitInductive == ASSUME TextsAreBalanced, PInv, visit PROVE PInv'
<1> DEFINE it == Head(work)
           b == Below(it)
           c == CheckDepth(it)
           x == fmt.depth
           r == Tail(work)
<1>1. /\ outcome = "printing" /\ work # <<>> /\ it.k \in Calls
      /\ fmt' = fmt /\ mode' = mode /\ outcome' = outcome
  BY DEF visit, Silent
<1>2. PICK t \in Texts(it) : work' = [i \in DOMAIN t |-> [t[i] EXCEPT !.n = b]] \o c \o r
  BY DEF visit
<1> DEFINE u == [i \in DOMAIN t |-> [t[i] EXCEPT !.n = b]]
<1>3. /\ it = work[1] /\ it \in Item0 /\ r \in Seq(Item0)
      /\ \A i \in 1 .. Len(r) : r[i].k \in Calls => r[i].v \in Printers
      /\ x \in Nat
      /\ \E z \in Nat : Runs(r, x + Change(it), z)
  BY <1>1, PopFacts
<1>4. it.v \in Printers /\ mode \in Modes
  BY <1>1, <1>3 DEF PInv
<1>5. /\ t \in Seq(Item0) /\ IsBalanced(t)
      /\ \A i \in 1 .. Len(t) : t[i].k # "depth" /\ (t[i].k \in Calls => t[i].v \in Printers)
  BY <1>1, <1>3, <1>4, TextsKnown
<1>6. b \in Nat
  BY <1>3, BelowIsNat
<1>7. Change(it) = 0
  BY <1>1 DEF Change, Calls
<1>8. /\ c \in Seq(Item0) /\ Runs(c, x, x)
      /\ \A i \in 1 .. Len(c) : c[i].k \notin Calls
  <2> DEFINE e == [k |-> "depth", v |-> "", n |-> x]
  <2>1. c = <<>> \/ c = <<e>>
    BY DEF CheckDepth
  <2>2. x \in Nat
    BY <1>3
  <2> HIDE DEF c, x
  <2>3. e \in Item0 /\ e.k = "depth" /\ e.n = x
    BY <2>2 DEF Item0
  <2> HIDE DEF e
  <2>4. CASE c = <<>>
    <3>1. Runs(<<>>, x, x)
      BY <2>2, RunsEmpty
    <3>2. c \in Seq(Item0) /\ Len(c) = 0
      BY <2>4
    <3>3. Runs(c, x, x)
      BY <2>4, <3>1
    <3>4. \A i \in 1 .. Len(c) : c[i].k \notin Calls
      BY <3>2
    <3> QED
      BY <3>2, <3>3, <3>4
  <2>5. CASE c = <<e>>
    <3>1. Change(e) = 0 /\ Holds(e, x) /\ x + Change(e) = x
      BY <2>2, <2>3 DEF Change, Holds
    <3>2. Runs(<<e>>, x, x + Change(e))
      BY <2>2, <2>3, <3>1, RunsOne
    <3>3. c \in Seq(Item0) /\ Len(c) = 1 /\ c[1] = e
      BY <2>3, <2>5
    <3>4. \A i \in 1 .. Len(c) : c[i].k \notin Calls
      BY <2>3, <3>3 DEF Calls
    <3>5. Runs(c, x, x)
      BY <2>5, <3>1, <3>2
    <3> QED
      BY <3>3, <3>4, <3>5
  <2> QED
    BY <2>1, <2>4, <2>5
<1> HIDE DEF it, b, c, x, r
<1>9. /\ u \in Seq(Item0) /\ Len(u) = Len(t)
      /\ \A i \in 1 .. Len(t) : u[i].k = t[i].k /\ u[i].v = t[i].v
  <2>1. DOMAIN t = 1 .. Len(t) /\ Len(t) \in Nat /\ \A i \in 1 .. Len(t) : t[i] \in Item0
    BY <1>5
  <2>2. \A i \in 1 .. Len(t) : /\ [t[i] EXCEPT !.n = b] \in Item0
                               /\ [t[i] EXCEPT !.n = b].k = t[i].k
                               /\ [t[i] EXCEPT !.n = b].v = t[i].v
    BY <1>6, <2>1 DEF Item0
  <2>3. \A i \in 1 .. Len(t) : u[i] = [t[i] EXCEPT !.n = b]
    BY <2>1
  <2>4. DOMAIN u = 1 .. Len(t)
    BY <2>1
  <2>5. u \in [1 .. Len(t) -> Item0]
    BY <2>1, <2>2
  <2> HIDE DEF u
  <2>6. u \in Seq(Item0) /\ Len(u) = Len(t)
    BY <2>1, <2>5
  <2> QED
    BY <2>2, <2>3, <2>6
<1>10. work' = u \o c \o r
  BY <1>2
<1> HIDE DEF u
<1>11. Runs(u, x, x)
  BY <1>3, <1>5, <1>9, BalancedRuns
<1>12. PICK z \in Nat : Runs(r, x, z)
  BY <1>3, <1>7
<1> DEFINE w == u \o c
<1>13. w \in Seq(Item0) /\ Runs(w, x, x)
  BY <1>3, <1>8, <1>9, <1>11, RunsConcatenation
<1>14. \A i \in 1 .. Len(w) : w[i].k \in Calls => w[i].v \in Printers
  <2>1. \A i \in 1 .. Len(u) : u[i].k \in Calls => u[i].v \in Printers
    BY <1>5, <1>9
  <2> QED
    BY <1>8, <1>9, <2>1
<1> HIDE DEF w
<1>15. w \o r \in Seq(Item0) /\ Runs(w \o r, x, z)
  BY <1>3, <1>12, <1>13, RunsConcatenation
<1>16. \A i \in 1 .. Len(w \o r) : (w \o r)[i].k \in Calls => (w \o r)[i].v \in Printers
  BY <1>3, <1>13, <1>14
<1>17. work' = w \o r
  BY <1>10 DEF w
<1>18. Printers' = Printers
  BY <1>1 DEF Printers
<1>19. \E y \in Nat : Runs(work', fmt'.depth, y)
  BY <1>1, <1>15, <1>17 DEF x
<1>20. (outcome = "printing" => \E y \in Nat : Runs(work, fmt.depth, y))'
  BY <1>19 DEF Runs, Profile
<1> QED
  BY <1>1, <1>4, <1>15, <1>16, <1>17, <1>18, <1>20 DEF PInv


LEMMA InitPInv == ASSUME Init PROVE PInv
<1>1. PICK r \in Roots : /\ r \in DOMAIN Productions[mode]
                         /\ work = <<[k |-> "call", v |-> r, n |-> Nesting]>>
  BY DEF Init
<1>2. /\ mode \in Modes /\ outcome = "printing"
      /\ fmt = [depth |-> 0, spaces |-> 0, blank |-> TRUE]
  BY DEF Init
<1> DEFINE it == [k |-> "call", v |-> r, n |-> Nesting]
<1>3. it \in Item0 /\ it.k = "call" /\ it.v = r
  BY NestingAssumption DEF Item0
<1>4. work = <<it>>
  BY <1>1
<1> HIDE DEF it
<1>5. Change(it) = 0 /\ Holds(it, 0) /\ 0 + Change(it) = 0
  BY <1>3 DEF Change, Holds
<1>6. Runs(<<it>>, 0, 0 + Change(it))
  BY <1>3, <1>5, RunsOne
<1>7. fmt.depth = 0 /\ fmt \in [depth : Nat, spaces : Nat, blank : BOOLEAN]
  BY <1>2
<1>8. Runs(work, fmt.depth, 0)
  BY <1>4, <1>5, <1>6, <1>7
<1>9. work \in Seq(Item0) /\ Len(work) = 1 /\ work[1] = it
  BY <1>3, <1>4
<1>11. r \in Printers
  BY <1>1, <1>2 DEF Productions, Printers
<1>10. \A i \in 1 .. Len(work) : work[i].k \in Calls => work[i].v \in Printers
  BY <1>3, <1>9, <1>11
<1> QED
  BY <1>2, <1>7, <1>8, <1>9, <1>10 DEF PInv

LEMMA PInvInductive == ASSUME TextsAreBalanced, PInv, Next PROVE PInv'
<1> DEFINE F == [depth : Nat, spaces : Nat, blank : BOOLEAN]
<1>1. fmt \in F /\ fmt.depth \in Nat
  BY DEF PInv
<1>2. CASE output
  <2>1. /\ outcome = "printing" /\ work # <<>> /\ Head(work).k = "tok" /\ work' = Tail(work)
        /\ mode' = mode /\ Write(Head(work).v, fmt.depth)
    BY <1>2 DEF output, Top, Pop
  <2>2. Head(work) = work[1]
    BY <2>1, PopFacts
  <2>3. fmt.depth = fmt.depth + Change(work[1])
    BY <1>1, <2>1, <2>2 DEF Change
  <2> QED
    BY <1>1, <2>1, <2>3, WriteStep
<1>3. CASE put_lparen
  <2>1. /\ outcome = "printing" /\ work # <<>> /\ Head(work).k = "lparen" /\ work' = Tail(work)
        /\ mode' = mode /\ Write("(", fmt.depth + 2)
    BY <1>3 DEF put_lparen, Top, Pop
  <2>2. Head(work) = work[1]
    BY <2>1, PopFacts
  <2>3. fmt.depth + 2 = fmt.depth + Change(work[1]) /\ fmt.depth + 2 \in Nat
    BY <1>1, <2>1, <2>2 DEF Change
  <2> QED
    BY <2>1, <2>3, WriteStep
<1>4. CASE put_rparen
  <2>1. /\ outcome = "printing" /\ work # <<>> /\ Head(work).k = "rparen" /\ work' = Tail(work)
        /\ mode' = mode
    BY <1>4 DEF put_rparen, Top, Pop
  <2>2. Head(work) = work[1] /\ Holds(work[1], fmt.depth)
    BY <2>1, PopFacts
  <2>3. fmt.depth >= 2
    BY <2>1, <2>2 DEF Holds
  <2>4. Write(")", fmt.depth - 2)
    BY <1>4, <2>3 DEF put_rparen
  <2>5. fmt.depth - 2 = fmt.depth + Change(work[1]) /\ fmt.depth - 2 \in Nat
    BY <1>1, <2>1, <2>2, <2>3 DEF Change
  <2> QED
    BY <2>1, <2>4, <2>5, WriteStep
<1>5. CASE put_nbsp \/ put_line
  <2>1. /\ outcome = "printing" /\ work # <<>> /\ Head(work).k \in {"nbsp", "line"}
        /\ work' = Tail(work) /\ mode' = mode /\ outcome' = outcome
        /\ \/ fmt' = [fmt EXCEPT !.spaces = 1]
           \/ fmt' = [fmt EXCEPT !.spaces = 0, !.blank = TRUE]
    BY <1>5 DEF put_nbsp, put_line, Top, Pop, Silent
  <2>2. Head(work) = work[1]
    BY <2>1, PopFacts
  <2>3. fmt' \in F /\ fmt'.depth = fmt.depth
    <3>1. CASE fmt' = [fmt EXCEPT !.spaces = 1]
      BY <1>1, <3>1
    <3>2. CASE fmt' = [fmt EXCEPT !.spaces = 0, !.blank = TRUE]
      BY <1>1, <3>2
    <3> QED
      BY <2>1, <3>1, <3>2
  <2>4. fmt'.depth = fmt.depth + Change(work[1])
    BY <1>1, <2>1, <2>2, <2>3 DEF Change
  <2> QED
    BY <2>1, <2>3, <2>4, PopStep
<1>6. CASE visit
  BY <1>6, VisitInductive
<1>7. CASE check_depth
  <2>1. /\ outcome = "printing" /\ work # <<>> /\ Head(work).k = "depth" /\ work' = Tail(work)
        /\ mode' = mode /\ fmt' = fmt
        /\ outcome' = IF Head(work).n = fmt.depth THEN outcome ELSE "aborted"
    BY <1>7 DEF check_depth, Top, Pop
  <2>2. Head(work) = work[1] /\ Holds(work[1], fmt.depth)
    BY <2>1, PopFacts
  <2>3. outcome' = "printing"
    BY <2>1, <2>2 DEF Holds
  <2>4. fmt'.depth = fmt.depth + Change(work[1])
    BY <1>1, <2>1, <2>2 DEF Change
  <2> QED
    BY <1>1, <2>1, <2>3, <2>4, PopStep
<1>8. CASE die
  <2>1. /\ outcome = "printing" /\ work # <<>> /\ work' = Tail(work) /\ mode' = mode
        /\ fmt' = fmt /\ outcome' = "died"
    BY <1>8 DEF die, Top, Pop
  <2> QED
    BY <1>1, <2>1, PopStep
<1> QED
  BY <1>2, <1>3, <1>4, <1>5, <1>6, <1>7, <1>8 DEF Next

(* However deeply statements, expressions, types, names and declarations are *)
(* nested, and whichever printer is called first, the assertion of           *)
(* Formatter::outdent and those at the end of printStmt, printExpr and       *)
(* printType hold, because each text of each visitor is balanced.            *)
THEOREM AssertionsHold == TextsAreBalanced => (Spec => []NeverAborts)
<1>1. Init => PInv
  BY InitPInv
<1>2. TextsAreBalanced /\ PInv /\ [Next]_pvars => PInv'
  <2> SUFFICES ASSUME TextsAreBalanced, PInv, [Next]_pvars PROVE PInv'
    OBVIOUS
  <2>1. CASE Next
    BY <2>1, PInvInductive
  <2>2. CASE UNCHANGED pvars
    <3>1. work' = work /\ fmt' = fmt /\ outcome' = outcome /\ mode' = mode
      BY <2>2 DEF pvars
    <3>2. Printers' = Printers
      BY <3>1 DEF Printers
    <3>3. (outcome = "printing" => \E z \in Nat : Runs(work, fmt.depth, z))'
      BY <3>1 DEF PInv, Runs, Profile
    <3> QED
      BY <3>1, <3>2, <3>3 DEF PInv
  <2> QED
    BY <2>1, <2>2
<1>3. PInv => NeverAborts
  BY DEF PInv, NeverAborts
<1>4. ASSUME TextsAreBalanced PROVE Spec => []NeverAborts
  <2>1. PInv /\ [Next]_pvars => PInv'
    BY <1>2, <1>4
  <2> QED
    BY <1>1, <1>3, <2>1, PTL DEF Spec
<1> QED
  BY <1>4
=============================================================================
