------------------------ MODULE ModuleBuilderProofs ------------------------
(***************************************************************************)
(* What build_module lists, for every AST that clang can build.            *)
(*                                                                         *)
(* A declaration is walked once, with the flags of the first path that     *)
(* leads to it.  The inductive invariant says what is known of the calls   *)
(* still to be made (GoodCall), of the four lists (ListsAreGood), and that *)
(* nothing is lost: what a walked declaration gives access to is walked or *)
(* on the stack (SuccessorsWalked), and the entries walked are listed      *)
(* (EntriesListed).  When the stack is empty, what has been walked is      *)
(* closed and holds everything that can be reached.                        *)
(***************************************************************************)
EXTENDS ModuleBuilder, ClosureProofs, TLAPS

\* What a declaration lists next to itself.
Enumerators(n) ==
  IF ast[n].kind = "Enum" /\ ast[n].canon = n THEN Range(ast[n].decls) ELSE {}

Walked == visited_ \cup UNION {Enumerators(n) : n \in visited_}

ToWalk == {c.decl : c \in Range(stack)}

\* The flags of a call tell where its declaration is.
GoodCall(c) ==
  /\ c.flags.in_template => c.decl \in Dependent(ast)
  /\ c.flags # none => ast[c.decl].kind \notin Scope
  /\ c.decl \notin Dependent(ast) => c.decl \in Below({TU})

Declarable == {"Record", "Function", "Method"}

Declares(n) == ast[n].kind \in Declarable /\ ast[n].defn = None
Defines(n)  == ast[n].kind \in Declarable => ast[n].defn = n

\* Only entries of what has been walked are listed, each once.
GoodList(l) == IsInjective(l) /\ \A n \in Range(l) : n \in Walked /\ IsEntry(n)

ListsAreGood ==
  /\ GoodList(mod.declarations) /\ \A n \in Range(mod.declarations) : Declares(n)
  /\ GoodList(mod.template_declarations)
  /\ \A n \in Range(mod.template_declarations) : Declares(n)
  /\ GoodList(mod.definitions) /\ \A n \in Range(mod.definitions) : Defines(n)
  /\ GoodList(mod.template_definitions)
  /\ \A n \in Range(mod.template_definitions) : Defines(n)

VisitedIsBelow ==
  \A n \in visited_ : /\ ast[n].kind # "EnumConstant"
                      /\ n \notin Dependent(ast) => n \in Below({TU})

\* What a walked declaration gives access to has been walked or will be ...
SuccessorsWalked ==
  \A n \in (visited_ \cup {TU}) \ Dependent(ast) : Successors(n) \subseteq Walked \cup ToWalk

\* ... and every entry that has been walked is listed.
EntriesListed ==
  \A n \in Walked \ Dependent(ast) :
    IsEntry(n) => n \in Range(mod.declarations) \cup Range(mod.definitions)

WInv ==
  /\ ast \in ASTs
  /\ TypeOK
  /\ ~aborted
  /\ \A c \in Range(stack) : GoodCall(c)
  /\ ListsAreGood
  /\ VisitedIsBelow
  /\ SuccessorsWalked
  /\ EntriesListed

----------------------------------------------------------------------------
(* The AST.                                                                *)

CallOf == [decl : DOMAIN ast, flags : Flags]

LEMMA ASTFacts == ASSUME ast \in ASTs PROVE WellFormed(ast)
BY ASTAssumption

LEMMA LiftedKeeps ==
  ASSUME NEW ds \in Seq(DOMAIN ast)
  PROVE  Lifted(ds) \in Seq(DOMAIN ast) /\ Range(Lifted(ds)) \subseteq Range(ds)
BY AmongKeeps DEF Lifted

\* The fields of a declaration.
LEMMA NodeFacts ==
  ASSUME ast \in ASTs, NEW n \in DOMAIN ast
  PROVE  /\ ast[n].decls \in Seq(DOMAIN ast) /\ ast[n].specs \in Seq(DOMAIN ast)
         /\ Range(ast[n].decls) \subseteq DOMAIN ast /\ Range(ast[n].specs) \subseteq DOMAIN ast
         /\ Lifted(ast[n].decls) \in Seq(DOMAIN ast)
         /\ Range(Lifted(ast[n].decls)) \subseteq Range(ast[n].decls)
         /\ ast[n].friend \in DOMAIN ast \cup {None}
         /\ ast[n].templated \in DOMAIN ast \cup {None}
<1>1. /\ ast[n].decls \in Seq(DOMAIN ast) /\ ast[n].specs \in Seq(DOMAIN ast)
      /\ {ast[n].defn, ast[n].templated, ast[n].friend} \subseteq DOMAIN ast \cup {None}
  BY ASTFacts DEF WellFormed
<1> QED
  BY <1>1, LiftedKeeps, RangeOf

LEMMA SuccessorsAreNodes ==
  ASSUME ast \in ASTs, NEW n \in DOMAIN ast
  PROVE  Successors(n) \subseteq DOMAIN ast
BY NodeFacts DEF Successors

\* What a dependent declaration gives access to is dependent.
LEMMA DependentClosed ==
  ASSUME ast \in ASTs, NEW n \in Dependent(ast)
  PROVE  Successors(n) \subseteq Dependent(ast)
<1>1. n \in DOMAIN ast
  BY DEF Dependent
<1>2. /\ Range(ast[n].decls) \subseteq Dependent(ast)
      /\ ast[n].friend \in Dependent(ast) \cup {None} /\ ast[n].specs = <<>>
  BY <1>1, ASTFacts DEF WellFormed
<1>3. Range(<<>>) = {}
  BY DEF Range
<1>4. Range(Lifted(ast[n].decls)) \subseteq Range(ast[n].decls)
  BY <1>1, NodeFacts
<1> HIDE DEF Dependent
<1> QED
  BY <1>2, <1>3, <1>4 DEF Successors

SuccGraph == [n \in DOMAIN ast |-> Successors(n)]

\* Below is the closure under Successors.
LEMMA BelowTU ==
  ASSUME ast \in ASTs
  PROVE  /\ TU \in Below({TU}) /\ Below({TU}) \subseteq DOMAIN ast
         /\ \A n \in Below({TU}) : Successors(n) \subseteq Below({TU})
         /\ \A T : TU \in T /\ (\A n \in T \cap DOMAIN ast : Successors(n) \subseteq T)
                     => Below({TU}) \subseteq T
<1> DEFINE U == DOMAIN ast
           C == Reached(SuccGraph, {TU}, Cardinality(U))
<1>1. Below({TU}) = C
  BY DEF Below, SuccGraph
<1>2. IsFiniteSet(U) /\ TU \in U
  BY ASTFacts DEF WellFormed
<1>3. SuccGraph \in Graph(U)
  BY SuccessorsAreNodes DEF SuccGraph, Graph
<1>4. \A n \in U : SuccGraph[n] = Successors(n)
  BY DEF SuccGraph
<1> HIDE DEF SuccGraph, U
<1>5. C \subseteq U /\ IsClosed(SuccGraph, C)
  BY <1>2, <1>3, ReachedClosed
<1>6. Cardinality(U) \in Nat
  BY <1>2, FS_CardinalityType
<1>7. TU \in C
  <2>1. IsClosed(SuccGraph, U)
    BY <1>3 DEF Graph, IsClosed
  <2>2. {TU} \subseteq C
    BY <1>2, <1>6, <2>1, ReachedLeast
  <2> QED
    BY <2>2
<1>8. ASSUME NEW T, TU \in T, \A n \in T \cap U : Successors(n) \subseteq T
      PROVE  C \subseteq T
  <2> DEFINE W == T \cap U
  <2>1. IsClosed(SuccGraph, W)
    BY <1>3, <1>4, <1>8 DEF IsClosed, Graph
  <2>2. {TU} \subseteq W
    BY <1>2, <1>8
  <2> HIDE DEF W
  <2>3. C \subseteq W
    BY <1>6, <2>1, <2>2, ReachedLeast
  <2> QED
    BY <2>3 DEF W
<1>9. \A n \in C : Successors(n) \subseteq C
  BY <1>4, <1>5 DEF IsClosed
<1> HIDE DEF C
<1> QED
  BY <1>1, <1>5, <1>7, <1>8, <1>9 DEF U


\* What is said of the AST does not change.
LEMMA Frozen ==
  ASSUME ast' = ast
  PROVE  /\ Below({TU})' = Below({TU})
         /\ \A n : /\ Successors(n)' = Successors(n) /\ Enumerators(n)' = Enumerators(n)
                   /\ IsEntry(n)' <=> IsEntry(n)
                   /\ Declares(n)' <=> Declares(n)
                   /\ Defines(n)' <=> Defines(n)
         /\ \A c : GoodCall(c)' <=> GoodCall(c)
<1>1. Below({TU})' = Below({TU})
  BY DEF Below, Successors, Skipped, Lifted
<1>2. \A n : Successors(n)' = Successors(n)
  BY DEF Successors, Skipped, Lifted
<1>3. \A n : Enumerators(n)' = Enumerators(n)
  BY DEF Enumerators
<1>4. \A n : IsEntry(n)' <=> IsEntry(n)
  BY DEF IsEntry, Skipped
<1>5. \A n : (Declares(n)' <=> Declares(n)) /\ (Defines(n)' <=> Defines(n))
  BY DEF Declares, Defines
<1>6. \A c : GoodCall(c)' <=> GoodCall(c)
  BY <1>1 DEF GoodCall
<1> QED
  BY <1>1, <1>2, <1>3, <1>4, <1>5, <1>6

\* The call that is made next.
LEMMA TopCall ==
  ASSUME WInv, stack # <<>>
  PROVE  /\ decl \in DOMAIN ast /\ flags \in Flags /\ Tail(stack) \in Seq(CallOf)
         /\ Range(stack) = {stack[1]} \cup Range(Tail(stack))
         /\ flags.in_template => decl \in Dependent(ast)
         /\ flags # none => ast[decl].kind \notin Scope
         /\ decl \notin Dependent(ast) => decl \in Below({TU})
<1>1. stack \in Seq(CallOf)
  BY DEF WInv, TypeOK, CallOf
<1>2. stack[1] \in CallOf /\ Tail(stack) \in Seq(CallOf)
  BY <1>1, TailOf
<1>3. decl \in DOMAIN ast /\ flags \in Flags
  BY <1>2 DEF decl, flags, CallOf
<1>4. Range(stack) = {stack[1]} \cup Range(Tail(stack))
  BY <1>1, RangeOfTail
<1>5. GoodCall(stack[1])
  BY <1>4 DEF WInv
<1> QED
  BY <1>2, <1>3, <1>4, <1>5 DEF GoodCall, decl, flags

----------------------------------------------------------------------------
(* One call of Visit: the walk.                                            *)

Visitable == Kind \ {"EnumConstant"}

\* The calls that a declaration makes are good and reach all that it gives
\* access to.
CallsAreGood(calls) ==
  /\ calls \in Seq(CallOf)
  /\ \A c \in Range(calls) : GoodCall(c)
  /\ decl \notin Dependent(ast) =>
       Successors(decl) \subseteq Enumerators(decl) \cup {c.decl : c \in Range(calls)}

LEMMA WalkedGrows ==
  ASSUME Enter(Visitable)
  PROVE  Walked' = Walked \cup {decl} \cup Enumerators(decl)
<1>1. ast' = ast /\ visited_' = visited_ \cup {decl}
  BY DEF Enter
<1>2. \A n : Enumerators(n)' = Enumerators(n)
  BY <1>1, Frozen
<1> QED
  BY <1>1, <1>2 DEF Walked

LEMMA WalkStep ==
  ASSUME WInv, Enter(Visitable), NEW calls, CallsAreGood(calls),
         stack' = calls \o Tail(stack)
  PROVE  /\ stack' \in Seq(CallOf) /\ visited_' \subseteq DOMAIN ast
         /\ (\A c \in Range(stack) : GoodCall(c))'
         /\ VisitedIsBelow' /\ SuccessorsWalked'
<1>1. stack # <<>> /\ ast' = ast /\ visited_' = visited_ \cup {decl}
  BY DEF Enter
<1>2. /\ decl \in DOMAIN ast /\ Tail(stack) \in Seq(CallOf)
      /\ Range(stack) = {stack[1]} \cup Range(Tail(stack))
      /\ decl \notin Dependent(ast) => decl \in Below({TU})
  BY <1>1, TopCall
<1>3. calls \in Seq(CallOf)
  BY DEF CallsAreGood
<1>4. stack' \in Seq(CallOf) /\ Range(calls \o Tail(stack)) = Range(calls) \cup Range(Tail(stack))
  <2> DEFINE t == Tail(stack)
             C == CallOf
  <2>1. calls \in Seq(C) /\ t \in Seq(C) /\ stack' = calls \o t
    BY <1>2, <1>3
  <2> HIDE DEF t, C
  <2>2. calls \o t \in Seq(C)
    BY <2>1, Concatenation
  <2>3. Range(calls \o t) = Range(calls) \cup Range(t)
    BY <2>1, RangeOfConcatenation
  <2> QED
    BY <2>1, <2>2, <2>3 DEF t, C
<1>5. Range(stack)' = Range(calls) \cup Range(Tail(stack))
  <2>1. Range(stack') = Range(calls) \cup Range(Tail(stack))
    BY <1>4
  <2> QED
    BY <2>1
<1>6. visited_' \subseteq DOMAIN ast
  BY <1>1, <1>2 DEF WInv, TypeOK
<1>7. (\A c \in Range(stack) : GoodCall(c))'
  <2>1. \A c \in Range(calls) \cup Range(Tail(stack)) : GoodCall(c)
    BY <1>2 DEF WInv, CallsAreGood
  <2>2. \A c : GoodCall(c)' <=> GoodCall(c)
    BY <1>1, Frozen
  <2> QED
    BY <2>1, <2>2, <1>5
<1>8. VisitedIsBelow'
  <2>1. Below({TU})' = Below({TU})
    BY <1>1, Frozen
  <2>2. ast[decl].kind # "EnumConstant"
    BY DEF Enter, node, Visitable
  <2>3. \A n \in visited_ \cup {decl} :
           ast[n].kind # "EnumConstant" /\ (n \notin Dependent(ast) => n \in Below({TU}))
    BY <1>2, <2>2 DEF WInv, VisitedIsBelow
  <2> HIDE DEF Dependent
  <2> QED
    BY <2>1, <2>3, <1>1 DEF VisitedIsBelow
<1>9. SuccessorsWalked'
  <2>1. \A n : Successors(n)' = Successors(n)
    BY <1>1, Frozen
  <2>2. Walked' = Walked \cup {decl} \cup Enumerators(decl)
    BY WalkedGrows
  <2>3. ToWalk' = {c.decl : c \in Range(calls) \cup Range(Tail(stack))}
    BY <1>5 DEF ToWalk
  <2>4. ToWalk = {decl} \cup {c.decl : c \in Range(Tail(stack))}
    BY <1>2 DEF ToWalk, decl
  <2>5. Walked \cup ToWalk \subseteq Walked' \cup ToWalk'
    BY <2>2, <2>3, <2>4
  <2>6. decl \notin Dependent(ast) => Successors(decl) \subseteq Walked' \cup ToWalk'
    BY <2>2, <2>3 DEF CallsAreGood
  <2>7. \A n \in (visited_ \cup {TU}) \ Dependent(ast) : Successors(n) \subseteq Walked \cup ToWalk
    BY DEF WInv, SuccessorsWalked
  <2>8. \A n \in (visited_' \cup {TU}) \ Dependent(ast) :
           Successors(n) \subseteq Walked' \cup ToWalk'
    BY <1>1, <2>5, <2>6, <2>7
  <2> QED
    BY <1>1, <2>1, <2>8 DEF SuccessorsWalked
<1> QED
  BY <1>4, <1>6, <1>7, <1>8, <1>9

----------------------------------------------------------------------------
(* One call of Visit: the lists.                                           *)

\* An enumerator belongs to one enumeration.
LEMMA EnumeratorsOfOne ==
  ASSUME WellFormed(ast), NEW n \in DOMAIN ast, NEW m \in DOMAIN ast,
         ast[n].kind = "Enum", ast[m].kind = "Enum",
         Range(ast[n].decls) \cap Range(ast[m].decls) # {}
  PROVE  ast[m].canon = ast[n].canon
<1> DEFINE Owned(a) == \A k \in DOMAIN a : a[k].kind = "Enum" =>
             \A l \in DOMAIN a :
               a[l].kind = "Enum" /\ Range(a[k].decls) \cap Range(a[l].decls) # {}
                 => a[l].canon = a[k].canon
<1>1. Owned(ast)
  BY Zenon DEF WellFormed
<1> QED
  BY <1>1

\* An entry that is walked is not listed yet.
LEMMA Fresh ==
  ASSUME WInv, Enter(Visitable)
  PROVE  ({decl} \cup Enumerators(decl)) \cap Walked = {}
<1>1. stack # <<>> /\ decl \notin visited_ /\ ast[decl].kind # "EnumConstant"
  BY DEF Enter, node, Visitable
<1>2. decl \in DOMAIN ast
  BY <1>1, TopCall
<1>3. visited_ \subseteq DOMAIN ast /\ \A n \in visited_ : ast[n].kind # "EnumConstant"
  BY DEF WInv, TypeOK, VisitedIsBelow
<1>4. WellFormed(ast)
  BY ASTFacts DEF WInv
<1>5. \A n \in DOMAIN ast : \A x \in Enumerators(n) : ast[x].kind = "EnumConstant"
  BY <1>4 DEF WellFormed, Enumerators
<1>6. decl \notin Walked
  BY <1>1, <1>3, <1>5 DEF Walked
<1>7. ASSUME NEW x \in Enumerators(decl) PROVE x \notin Walked
  <2>1. x \notin visited_
    BY <1>2, <1>3, <1>5, <1>7
  <2>2. ASSUME NEW n \in visited_, x \in Enumerators(n) PROVE FALSE
    <3>1. n \in DOMAIN ast /\ n # decl
      BY <1>1, <1>3, <2>2
    <3>2. /\ ast[n].kind = "Enum" /\ ast[n].canon = n /\ x \in Range(ast[n].decls)
          /\ ast[decl].kind = "Enum" /\ ast[decl].canon = decl /\ x \in Range(ast[decl].decls)
      BY <1>7, <2>2 DEF Enumerators
    <3>3. Range(ast[n].decls) \cap Range(ast[decl].decls) # {}
      BY <3>2
    <3>4. ast[decl].canon = ast[n].canon
      BY <1>2, <1>4, <3>1, <3>2, <3>3, EnumeratorsOfOne
    <3> QED
      BY <3>1, <3>2, <3>4
  <2> QED
    BY <2>1, <2>2 DEF Walked
<1> QED
  BY <1>6, <1>7

\* A list that stays as it is, or that xs is appended to.
Extends(l, xs, m) == m = l \/ m = l \o xs

LEMMA Grows ==
  ASSUME NEW S, NEW W, NEW l \in Seq(S), NEW xs \in Seq(S), NEW m, Extends(l, xs, m),
         IsInjective(l), IsInjective(xs), Range(l) \subseteq W, Range(xs) \cap W = {}
  PROVE  /\ IsInjective(m) /\ Range(l) \subseteq Range(m)
         /\ Range(m) = Range(l) \/ Range(m) = Range(l) \cup Range(xs)
<1>1. CASE m = l
  BY <1>1
<1>2. CASE m = l \o xs
  <2>1. Range(l) \cap Range(xs) = {}
    OBVIOUS
  <2>2. IsInjective(l \o xs)
    BY <2>1, InjectiveConcatenation
  <2>3. Range(l \o xs) = Range(l) \cup Range(xs)
    BY RangeOfConcatenation
  <2> QED
    BY <1>2, <2>2, <2>3
<1> QED
  BY <1>1, <1>2 DEF Extends

\* The effect of a call of Visit on the module: the entries xs are appended to
\* some of the lists, and no untemplated entry is left out.
ListsGrow(xs) ==
  /\ mod' \in ModuleOf(DOMAIN ast)
  /\ xs \in Seq(DOMAIN ast) /\ IsInjective(xs)
  /\ \A n \in Range(xs) : n \in {decl} \cup Enumerators(decl) /\ IsEntry(n)
  /\ Extends(mod.declarations, xs, mod'.declarations)
  /\ Extends(mod.template_declarations, xs, mod'.template_declarations)
  /\ Extends(mod.definitions, xs, mod'.definitions)
  /\ Extends(mod.template_definitions, xs, mod'.template_definitions)
  /\ \/ \A n \in Range(xs) : Declares(n)
     \/ /\ mod'.declarations = mod.declarations
        /\ mod'.template_declarations = mod.template_declarations
  /\ \/ \A n \in Range(xs) : Defines(n)
     \/ /\ mod'.definitions = mod.definitions
        /\ mod'.template_definitions = mod.template_definitions
  /\ \A n \in ({decl} \cup Enumerators(decl)) \ Dependent(ast) :
       IsEntry(n) => n \in Range(mod'.declarations) \cup Range(mod'.definitions)

\* A list that is good after the call.
GoodAfter(l) ==
  IsInjective(l) /\ \A n \in Range(l) : n \in Walked \cup {decl} \cup Enumerators(decl) /\ IsEntry(n)

LEMMA ListGrows ==
  ASSUME WInv, Enter(Visitable), NEW xs \in Seq(DOMAIN ast), IsInjective(xs),
         \A n \in Range(xs) : n \in {decl} \cup Enumerators(decl) /\ IsEntry(n),
         NEW l \in Seq(DOMAIN ast), GoodList(l), NEW m, Extends(l, xs, m)
  PROVE  /\ GoodAfter(m) /\ Range(l) \subseteq Range(m)
         /\ Range(m) = Range(l) \/ Range(m) = Range(l) \cup Range(xs)
<1>1. Range(xs) \cap Walked = {}
  BY Fresh
<1>2. IsInjective(l) /\ Range(l) \subseteq Walked /\ \A n \in Range(l) : IsEntry(n)
  BY DEF GoodList
<1>3. /\ IsInjective(m) /\ Range(l) \subseteq Range(m)
      /\ Range(m) = Range(l) \/ Range(m) = Range(l) \cup Range(xs)
  BY <1>1, <1>2, Grows
<1> QED
  BY <1>2, <1>3 DEF GoodAfter

LEMMA ListStep ==
  ASSUME WInv, Enter(Visitable), NEW xs, ListsGrow(xs)
  PROVE  ListsAreGood' /\ EntriesListed'
<1> DEFINE a == mod.declarations           a2 == mod'.declarations
           b == mod.template_declarations  b2 == mod'.template_declarations
           c == mod.definitions            c2 == mod'.definitions
           d == mod.template_definitions   d2 == mod'.template_definitions
<1>1. ast' = ast
  BY DEF Enter
<1>2. /\ a \in Seq(DOMAIN ast) /\ b \in Seq(DOMAIN ast)
      /\ c \in Seq(DOMAIN ast) /\ d \in Seq(DOMAIN ast)
  BY DEF WInv, TypeOK, ModuleOf
<1>3. /\ GoodList(a) /\ GoodList(b) /\ GoodList(c) /\ GoodList(d)
      /\ \A n \in Range(a) \cup Range(b) : Declares(n)
      /\ \A n \in Range(c) \cup Range(d) : Defines(n)
  BY DEF WInv, ListsAreGood
<1>4. /\ xs \in Seq(DOMAIN ast) /\ IsInjective(xs)
      /\ \A n \in Range(xs) : n \in {decl} \cup Enumerators(decl) /\ IsEntry(n)
      /\ Extends(a, xs, a2) /\ Extends(b, xs, b2) /\ Extends(c, xs, c2) /\ Extends(d, xs, d2)
  BY DEF ListsGrow
<1>5. /\ (\A n \in Range(xs) : Declares(n)) \/ (a2 = a /\ b2 = b)
      /\ (\A n \in Range(xs) : Defines(n)) \/ (c2 = c /\ d2 = d)
      /\ \A n \in ({decl} \cup Enumerators(decl)) \ Dependent(ast) :
           IsEntry(n) => n \in Range(a2) \cup Range(c2)
  BY DEF ListsGrow
<1> HIDE DEF a, b, c, d, a2, b2, c2, d2
<1>6. /\ GoodAfter(a2) /\ Range(a) \subseteq Range(a2)
      /\ Range(a2) = Range(a) \/ Range(a2) = Range(a) \cup Range(xs)
  BY <1>2, <1>3, <1>4, ListGrows
<1>7. /\ GoodAfter(b2)
      /\ Range(b2) = Range(b) \/ Range(b2) = Range(b) \cup Range(xs)
  BY <1>2, <1>3, <1>4, ListGrows
<1>8. /\ GoodAfter(c2) /\ Range(c) \subseteq Range(c2)
      /\ Range(c2) = Range(c) \/ Range(c2) = Range(c) \cup Range(xs)
  BY <1>2, <1>3, <1>4, ListGrows
<1>9. /\ GoodAfter(d2)
      /\ Range(d2) = Range(d) \/ Range(d2) = Range(d) \cup Range(xs)
  BY <1>2, <1>3, <1>4, ListGrows
<1>10. \A n \in Range(a2) \cup Range(b2) : Declares(n)
  BY <1>3, <1>5, <1>6, <1>7
<1>11. \A n \in Range(c2) \cup Range(d2) : Defines(n)
  BY <1>3, <1>5, <1>8, <1>9
<1>12. Walked' = Walked \cup {decl} \cup Enumerators(decl)
  BY WalkedGrows
<1>13. \A n : /\ IsEntry(n)' <=> IsEntry(n)
              /\ Declares(n)' <=> Declares(n)
              /\ Defines(n)' <=> Defines(n)
  BY <1>1, Frozen
<1>14. ListsAreGood'
  BY <1>6, <1>7, <1>8, <1>9, <1>10, <1>11, <1>12, <1>13
     DEF ListsAreGood, GoodList, GoodAfter, a2, b2, c2, d2
<1>15. \A n \in (Walked \cup {decl} \cup Enumerators(decl)) \ Dependent(ast) :
         IsEntry(n) => n \in Range(a2) \cup Range(c2)
  <2>1. \A n \in Walked \ Dependent(ast) : IsEntry(n) => n \in Range(a) \cup Range(c)
    BY DEF WInv, EntriesListed, a, c
  <2> HIDE DEF Dependent
  <2> QED
    BY <2>1, <1>5, <1>6, <1>8
<1>16. EntriesListed'
  BY <1>1, <1>12, <1>13, <1>15 DEF EntriesListed, a2, c2
<1> QED
  BY <1>14, <1>16


\* A call of Visit for a declaration that has not been walked.
LEMMA VisitStep ==
  ASSUME WInv, NEW kinds, Enter(kinds), kinds \subseteq Visitable,
         NEW calls, CallsAreGood(calls), Then(calls),
         NEW xs, ListsGrow(xs)
  PROVE  WInv'
<1>1. Enter(Visitable)
  BY DEF Enter
<1>2. ast' = ast /\ templates_' = templates_ /\ aborted' = aborted /\ stack' = calls \o Tail(stack)
  BY DEF Enter, Then
<1>3. /\ stack' \in Seq(CallOf) /\ visited_' \subseteq DOMAIN ast
      /\ (\A c \in Range(stack) : GoodCall(c))'
      /\ VisitedIsBelow' /\ SuccessorsWalked'
  BY <1>1, <1>2, WalkStep
<1>4. ListsAreGood' /\ EntriesListed'
  BY <1>1, ListStep
<1>5. mod' \in ModuleOf(DOMAIN ast)
  BY DEF ListsGrow
<1>6. TypeOK'
  <2>1. TU \in DOMAIN ast /\ templates_ \in BOOLEAN /\ aborted \in BOOLEAN
    BY DEF WInv, TypeOK
  <2> QED
    BY <2>1, <1>2, <1>3, <1>5 DEF TypeOK, CallOf
<1>7. ast \in ASTs /\ ~aborted
  BY DEF WInv
<1> QED
  BY <1>2, <1>3, <1>4, <1>6, <1>7 DEF WInv

----------------------------------------------------------------------------
(* What go does to the lists.                                              *)

LEMMA SomeFlag ==
  ASSUME NEW f \in Flags, f # none
  PROVE  f.in_template \/ f.in_specialization
<1> SUFFICES ASSUME f.in_template = FALSE, f.in_specialization = FALSE PROVE f = none
  BY DEF Flags
<1> QED
  BY DEF Flags, none

LEMMA GoDefines ==
  ASSUME mod \in ModuleOf(DOMAIN ast), flags \in Flags, NEW xs, xs \in Seq(DOMAIN ast),
         NEW g, g = go(mod, xs, flags, TRUE)
  PROVE  /\ g \in ModuleOf(DOMAIN ast)
         /\ g.declarations = mod.declarations
         /\ g.template_declarations = mod.template_declarations
         /\ Extends(mod.definitions, xs, g.definitions)
         /\ Extends(mod.template_definitions, xs, g.template_definitions)
         /\ ~flags.in_template => g.definitions = mod.definitions \o xs
         /\ flags = none => g.template_definitions = mod.template_definitions
         /\ flags # none => g.template_definitions = mod.template_definitions \o xs
<1> DEFINE S == DOMAIN ast
           f == flags
           x == IF f.in_template THEN mod.definitions ELSE mod.definitions \o xs
           y == IF f.in_template \/ f.in_specialization
                THEN mod.template_definitions \o xs ELSE mod.template_definitions
<1>1. g = [mod EXCEPT !["definitions"] = x, !["template_definitions"] = y]
  BY DEF go, add_decl, ModuleOf
<1>2. mod.definitions \in Seq(S) /\ mod.template_definitions \in Seq(S)
  BY DEF ModuleOf
<1>3. x \in Seq(S) /\ y \in Seq(S)
  BY <1>2, Concatenation
<1>4. Extends(mod.definitions, xs, x) /\ Extends(mod.template_definitions, xs, y)
  BY DEF Extends
<1>5. /\ ~f.in_template => x = mod.definitions \o xs
      /\ f = none => y = mod.template_definitions
      /\ f # none => y = mod.template_definitions \o xs
  BY SomeFlag DEF none
<1>6. mod \in ModuleOf(S)
  OBVIOUS
<1> HIDE DEF S, x, y
<1>7. /\ g \in ModuleOf(S)
      /\ g.declarations = mod.declarations
      /\ g.template_declarations = mod.template_declarations
      /\ g.definitions = x /\ g.template_definitions = y
  BY <1>1, <1>3, <1>6 DEF ModuleOf
<1> QED
  BY <1>4, <1>5, <1>7 DEF S

LEMMA GoDeclares ==
  ASSUME mod \in ModuleOf(DOMAIN ast), flags \in Flags, NEW xs, xs \in Seq(DOMAIN ast),
         NEW g, g = go(mod, xs, flags, FALSE)
  PROVE  /\ g \in ModuleOf(DOMAIN ast)
         /\ g.definitions = mod.definitions
         /\ g.template_definitions = mod.template_definitions
         /\ Extends(mod.declarations, xs, g.declarations)
         /\ Extends(mod.template_declarations, xs, g.template_declarations)
         /\ ~flags.in_template => g.declarations = mod.declarations \o xs
         /\ flags = none => g.template_declarations = mod.template_declarations
         /\ flags # none => g.template_declarations = mod.template_declarations \o xs
<1> DEFINE S == DOMAIN ast
           f == flags
           x == IF f.in_template THEN mod.declarations ELSE mod.declarations \o xs
           y == IF f.in_template \/ f.in_specialization
                THEN mod.template_declarations \o xs ELSE mod.template_declarations
<1>1. g = [mod EXCEPT !["declarations"] = x, !["template_declarations"] = y]
  BY DEF go, add_decl, ModuleOf
<1>2. mod.declarations \in Seq(S) /\ mod.template_declarations \in Seq(S)
  BY DEF ModuleOf
<1>3. x \in Seq(S) /\ y \in Seq(S)
  BY <1>2, Concatenation
<1>4. Extends(mod.declarations, xs, x) /\ Extends(mod.template_declarations, xs, y)
  BY DEF Extends
<1>5. /\ ~f.in_template => x = mod.declarations \o xs
      /\ f = none => y = mod.template_declarations
      /\ f # none => y = mod.template_declarations \o xs
  BY SomeFlag DEF none
<1>6. mod \in ModuleOf(S)
  OBVIOUS
<1> HIDE DEF S, x, y
<1>7. /\ g \in ModuleOf(S)
      /\ g.definitions = mod.definitions
      /\ g.template_definitions = mod.template_definitions
      /\ g.declarations = x /\ g.template_declarations = y
  BY <1>1, <1>3, <1>6 DEF ModuleOf
<1> QED
  BY <1>4, <1>5, <1>7 DEF S

----------------------------------------------------------------------------
(* The lists after each kind of call.                                      *)

\* What is listed for a declaration outside the templates goes to the module.
LEMMA NotInTemplate ==
  ASSUME WInv, stack # <<>>, NEW n \in ({decl} \cup Enumerators(decl)) \ Dependent(ast)
  PROVE  ~flags.in_template
<1>1. SUFFICES ASSUME flags.in_template PROVE n \in Dependent(ast)
  OBVIOUS
<1>2. decl \in Dependent(ast)
  BY <1>1, TopCall
<1>3. decl \in DOMAIN ast
  BY TopCall
<1>4. Range(ast[decl].decls) \subseteq Dependent(ast)
  BY <1>2, <1>3, ASTFacts DEF WInv, WellFormed
<1> HIDE DEF Dependent
<1> QED
  BY <1>2, <1>4 DEF Enumerators

LEMMA NothingListed ==
  ASSUME WInv, mod' \in ModuleOf(DOMAIN ast),
         mod'.declarations = mod.declarations, mod'.definitions = mod.definitions,
         mod'.template_declarations = mod.template_declarations,
         mod'.template_definitions = mod.template_definitions,
         \A n \in ({decl} \cup Enumerators(decl)) \ Dependent(ast) : ~IsEntry(n)
  PROVE  ListsGrow(<<>>)
<1>1. <<>> \in Seq(DOMAIN ast) /\ Range(<<>>) = {} /\ IsInjective(<<>>)
  BY DEF Range, IsInjective
<1> HIDE DEF Dependent
<1> QED
  BY <1>1 DEF ListsGrow, Extends

LEMMA ModuleUnchanged ==
  ASSUME WInv, mod' = mod,
         \A n \in ({decl} \cup Enumerators(decl)) \ Dependent(ast) : ~IsEntry(n)
  PROVE  ListsGrow(<<>>)
<1>1. mod' \in ModuleOf(DOMAIN ast)
  BY DEF WInv, TypeOK
<1> HIDE DEF Dependent
<1> QED
  BY <1>1, NothingListed

LEMMA DefinitionsListed ==
  ASSUME WInv, stack # <<>>, NEW xs \in Seq(DOMAIN ast), IsInjective(xs),
         Range(xs) = {decl} \cup Enumerators(decl),
         \A n \in Range(xs) : IsEntry(n) /\ Defines(n),
         mod' = go(mod, xs, flags, TRUE)
  PROVE  ListsGrow(xs)
<1>1. mod \in ModuleOf(DOMAIN ast) /\ mod.definitions \in Seq(DOMAIN ast)
  BY DEF WInv, TypeOK, ModuleOf
<1>2. flags \in Flags
  BY TopCall
<1>3. /\ mod' \in ModuleOf(DOMAIN ast)
      /\ mod'.declarations = mod.declarations
      /\ mod'.template_declarations = mod.template_declarations
      /\ Extends(mod.definitions, xs, mod'.definitions)
      /\ Extends(mod.template_definitions, xs, mod'.template_definitions)
      /\ ~flags.in_template => mod'.definitions = mod.definitions \o xs
  BY <1>1, <1>2, GoDefines
<1>4. ASSUME NEW n \in ({decl} \cup Enumerators(decl)) \ Dependent(ast)
      PROVE  n \in Range(mod'.definitions)
  <2>1. ~flags.in_template
    BY NotInTemplate
  <2>2. Range(mod.definitions \o xs) = Range(mod.definitions) \cup Range(xs)
    BY <1>1, RangeOfConcatenation
  <2>3. n \in Range(xs)
    OBVIOUS
  <2>4. mod'.definitions = mod.definitions \o xs
    BY <2>1, <1>3
  <2> QED
    BY <2>2, <2>3, <2>4
<1> HIDE DEF Dependent
<1> QED
  BY <1>3, <1>4 DEF ListsGrow, Extends

LEMMA DeclarationListed ==
  ASSUME WInv, stack # <<>>, NEW xs \in Seq(DOMAIN ast), IsInjective(xs),
         Range(xs) = {decl} \cup Enumerators(decl),
         \A n \in Range(xs) : IsEntry(n) /\ Declares(n),
         mod' = go(mod, xs, flags, FALSE)
  PROVE  ListsGrow(xs)
<1>1. mod \in ModuleOf(DOMAIN ast) /\ mod.declarations \in Seq(DOMAIN ast)
  BY DEF WInv, TypeOK, ModuleOf
<1>2. flags \in Flags
  BY TopCall
<1>3. /\ mod' \in ModuleOf(DOMAIN ast)
      /\ mod'.definitions = mod.definitions
      /\ mod'.template_definitions = mod.template_definitions
      /\ Extends(mod.declarations, xs, mod'.declarations)
      /\ Extends(mod.template_declarations, xs, mod'.template_declarations)
      /\ ~flags.in_template => mod'.declarations = mod.declarations \o xs
  BY <1>1, <1>2, GoDeclares
<1>4. ASSUME NEW n \in ({decl} \cup Enumerators(decl)) \ Dependent(ast)
      PROVE  n \in Range(mod'.declarations)
  <2>1. ~flags.in_template
    BY NotInTemplate
  <2>2. Range(mod.declarations \o xs) = Range(mod.declarations) \cup Range(xs)
    BY <1>1, RangeOfConcatenation
  <2>3. n \in Range(xs)
    OBVIOUS
  <2>4. mod'.declarations = mod.declarations \o xs
    BY <2>1, <1>3
  <2> QED
    BY <2>2, <2>3, <2>4
<1> HIDE DEF Dependent
<1> QED
  BY <1>3, <1>4 DEF ListsGrow, Extends

\* A list of one declaration.
LEMMA Single ==
  ASSUME NEW S, NEW x \in S
  PROVE  <<x>> \in Seq(S) /\ IsInjective(<<x>>) /\ Range(<<x>>) = {x}
BY DEF IsInjective, Range

----------------------------------------------------------------------------
(* The calls that a declaration makes.                                     *)

LEMMA CallsAre ==
  ASSUME NEW ds \in Seq(DOMAIN ast), NEW fl \in Flags
  PROVE  /\ Calls(ds, fl) \in Seq(CallOf)
         /\ Range(Calls(ds, fl)) = {[decl |-> x, flags |-> fl] : x \in Range(ds)}
<1>1. DOMAIN ds = 1 .. Len(ds) /\ Len(ds) \in Nat /\ \A i \in DOMAIN ds : ds[i] \in DOMAIN ast
  OBVIOUS
<1>2. Calls(ds, fl) = [i \in 1 .. Len(ds) |-> [decl |-> ds[i], flags |-> fl]]
  BY <1>1 DEF Calls
<1>3. \A i \in 1 .. Len(ds) : [decl |-> ds[i], flags |-> fl] \in CallOf
  BY <1>1 DEF CallOf
<1>4. Calls(ds, fl) \in Seq(CallOf)
  BY <1>1, <1>2, <1>3
<1>5. Range(Calls(ds, fl)) = {[decl |-> x, flags |-> fl] : x \in Range(ds)}
  BY DEF Calls, Range
<1> QED
  BY <1>4, <1>5

\* A call for something that the declaration gives access to is good when its
\* flags are the declaration's, or when it is not a scope.
LEMMA GoodSuccessor ==
  ASSUME WInv, stack # <<>>, NEW x \in Successors(decl), NEW fl \in Flags,
         fl.in_template => flags.in_template,
         fl = flags \/ ast[x].kind \notin Scope
  PROVE  GoodCall([decl |-> x, flags |-> fl])
<1>1. /\ decl \in DOMAIN ast
      /\ flags.in_template => decl \in Dependent(ast)
      /\ flags # none => ast[decl].kind \notin Scope
      /\ decl \notin Dependent(ast) => decl \in Below({TU})
  BY TopCall
<1>2. ast \in ASTs /\ x \in DOMAIN ast
  BY <1>1, SuccessorsAreNodes DEF WInv
<1>3. decl \in Dependent(ast) => x \in Dependent(ast)
  BY <1>2, DependentClosed
<1>4. decl \in Below({TU}) => x \in Below({TU})
  BY <1>2, BelowTU
<1>5. fl # none => ast[x].kind \notin Scope
  <2>1. SUFFICES ASSUME fl = flags, fl # none, ast[x].kind \in Scope PROVE FALSE
    OBVIOUS
  <2>2. ast[decl].kind \notin Scope
    BY <1>1, <2>1
  <2>3. /\ \A c \in Range(ast[decl].decls) : ast[c].kind \notin Scope
        /\ \A c \in Range(ast[decl].specs) \cup ({ast[decl].templated, ast[decl].friend} \ {None}) :
             ast[c].kind \notin Scope
    BY <1>1, <1>2, <2>2, ASTFacts DEF WellFormed
  <2>4. Range(Lifted(ast[decl].decls)) \subseteq Range(ast[decl].decls)
    BY <1>1, <1>2, NodeFacts
  <2> QED
    BY <2>1, <2>3, <2>4 DEF Successors
<1> DEFINE c == [decl |-> x, flags |-> fl]
<1>6. c.decl = x /\ c.flags = fl
  OBVIOUS
<1> HIDE DEF c, Dependent
<1>7. GoodCall(c)
  BY <1>1, <1>3, <1>4, <1>5, <1>6 DEF GoodCall
<1> QED
  BY <1>7 DEF c

LEMMA NoCalls ==
  ASSUME decl \notin Dependent(ast) => Successors(decl) \subseteq Enumerators(decl)
  PROVE  CallsAreGood(<<>>)
<1>1. <<>> \in Seq(CallOf) /\ Range(<<>>) = {}
  BY DEF Range
<1> HIDE DEF Dependent
<1> QED
  BY <1>1 DEF CallsAreGood

\* The declarations of a context are visited with its flags.
LEMMA FlagsPassedOn ==
  ASSUME WInv, stack # <<>>, NEW ds \in Seq(DOMAIN ast), Range(ds) = Successors(decl)
  PROVE  CallsAreGood(Calls(ds, flags))
<1> DEFINE C == Calls(ds, flags)
<1>1. flags \in Flags
  BY TopCall
<1>2. C \in Seq(CallOf) /\ Range(C) = {[decl |-> x, flags |-> flags] : x \in Range(ds)}
  BY <1>1, CallsAre
<1>3. \A x \in Range(ds) : GoodCall([decl |-> x, flags |-> flags])
  BY <1>1, GoodSuccessor
<1> HIDE DEF C
<1>4. \A c \in Range(C) : GoodCall(c)
  BY <1>2, <1>3
<1>5. \A x \in Range(ds) : x \in {c.decl : c \in Range(C)}
  <2> TAKE x \in Range(ds)
  <2>1. [decl |-> x, flags |-> flags].decl = x
    OBVIOUS
  <2> QED
    BY <2>1, <1>2
<1>6. CallsAreGood(C)
  BY <1>2, <1>4, <1>5 DEF CallsAreGood
<1> QED
  BY <1>6 DEF C


\* The pattern of a template is visited as such.
LEMMA PatternCall ==
  ASSUME WInv, stack # <<>>, NEW C, C = Call(ast[decl].templated, set_template(flags))
  PROVE  C \in Seq(CallOf) /\ \A c \in Range(C) : GoodCall(c)
<1> DEFINE p == ast[decl].templated
           c == [decl |-> p, flags |-> set_template(flags)]
<1>1. CASE p = None
  <2>1. C = <<>>
    BY <1>1 DEF Call
  <2>2. Range(<<>>) = {}
    BY DEF Range
  <2> QED
    BY <2>1, <2>2
<1>2. CASE p # None
  <2>1. decl \in DOMAIN ast /\ flags \in Flags
    BY TopCall
  <2>2. p \in DOMAIN ast /\ p \in Dependent(ast) /\ ast[p].kind \notin Scope
    BY <1>2, <2>1, ASTFacts, NodeFacts DEF WInv, WellFormed
  <2>3. set_template(flags) \in Flags
    BY <2>1 DEF Flags, set_template
  <2>4. c.decl = p /\ c.flags = set_template(flags) /\ c \in CallOf
    BY <2>2, <2>3 DEF CallOf
  <2>5. C = <<c>>
    BY <1>2 DEF Call
  <2> HIDE DEF c, p
  <2>6. GoodCall(c)
    BY <2>2, <2>4 DEF GoodCall
  <2>7. <<c>> \in Seq(CallOf) /\ Range(<<c>>) = {c}
    BY <2>4, Single
  <2> QED
    BY <2>5, <2>6, <2>7
<1> QED
  BY <1>1, <1>2

\* What a specialization lists is marked, and only that.
LEMMA SpecializationCalls ==
  ASSUME WInv, stack # <<>>, NEW C, C = Calls(ast[decl].specs, set_specialization(flags)),
         ast[decl].kind \in {"ClassTemplate", "FunctionTemplate", "VarTemplate"}
  PROVE  /\ C \in Seq(CallOf) /\ \A c \in Range(C) : GoodCall(c)
         /\ Successors(decl) \subseteq {c.decl : c \in Range(C)}
<1> DEFINE ds == ast[decl].specs
           fl == set_specialization(flags)
<1>1. decl \in DOMAIN ast /\ flags \in Flags
  BY TopCall
<1>2. fl \in Flags /\ fl.in_template = flags.in_template
  BY <1>1 DEF Flags, set_specialization
<1>3. ds \in Seq(DOMAIN ast)
  BY <1>1, NodeFacts DEF WInv
<1>4. Successors(decl) = Range(ds)
  BY DEF Successors, Skipped, Template, Scope
<1>5. \A x \in Range(ds) : ast[x].kind \notin Scope
  BY <1>1, ASTFacts DEF WInv, WellFormed
<1>6. C = Calls(ds, fl)
  OBVIOUS
<1> HIDE DEF ds, fl
<1>7. C \in Seq(CallOf) /\ Range(C) = {[decl |-> x, flags |-> fl] : x \in Range(ds)}
  BY <1>2, <1>3, <1>6, CallsAre
<1>8. \A x \in Range(ds) : GoodCall([decl |-> x, flags |-> fl])
  BY <1>2, <1>4, <1>5, GoodSuccessor
<1>9. \A x \in Range(ds) : x \in {c.decl : c \in Range(C)}
  <2> TAKE x \in Range(ds)
  <2>1. [decl |-> x, flags |-> fl].decl = x
    OBVIOUS
  <2> QED
    BY <2>1, <1>7
<1> QED
  BY <1>4, <1>7, <1>8, <1>9

\* A class or a function is listed with its definition, or else with its
\* first declaration.
LEMMA EntryListed ==
  ASSUME WInv, stack # <<>>, ast[decl].kind \in Declarable, ~Skipped(decl),
         mod' = EntryOfEntity(mod)
  PROVE  \E xs : ListsGrow(xs)
<1>1. decl \in DOMAIN ast
  BY TopCall
<1>2. decl # None
  BY <1>1, ASTFacts DEF WInv, WellFormed
<1>3. Enumerators(decl) = {}
  BY DEF Enumerators, Declarable
<1>4. IsEntry(decl) <=> (ast[decl].defn = decl \/ (ast[decl].defn = None /\ ast[decl].canon = decl))
  BY DEF IsEntry, Declarable
<1>5. <<decl>> \in Seq(DOMAIN ast) /\ IsInjective(<<decl>>) /\ Range(<<decl>>) = {decl}
  BY <1>1, Single
<1>6. CASE ast[decl].defn = decl
  <2>1. mod' = go(mod, <<decl>>, flags, TRUE)
    BY <1>6 DEF EntryOfEntity, node
  <2>2. IsEntry(decl) /\ Defines(decl)
    BY <1>4, <1>6 DEF Defines
  <2>3. ListsGrow(<<decl>>)
    BY <1>3, <1>5, <2>1, <2>2, DefinitionsListed
  <2> QED
    BY <2>3
<1>7. CASE ast[decl].defn = None /\ ast[decl].canon = decl
  <2>1. mod' = go(mod, <<decl>>, flags, FALSE)
    BY <1>2, <1>7 DEF EntryOfEntity, node
  <2>2. IsEntry(decl) /\ Declares(decl)
    BY <1>4, <1>7 DEF Declares
  <2>3. ListsGrow(<<decl>>)
    BY <1>3, <1>5, <2>1, <2>2, DeclarationListed
  <2> QED
    BY <2>3
<1>8. CASE ast[decl].defn # decl /\ ~(ast[decl].defn = None /\ ast[decl].canon = decl)
  <2>1. mod' = mod
    BY <1>8 DEF EntryOfEntity, node
  <2>2. \A n \in ({decl} \cup Enumerators(decl)) \ Dependent(ast) : ~IsEntry(n)
    BY <1>3, <1>4, <1>8
  <2>3. ListsGrow(<<>>)
    BY <2>1, <2>2, ModuleUnchanged
  <2> QED
    BY <2>3
<1> QED
  BY <1>6, <1>7, <1>8

----------------------------------------------------------------------------
(* The actions.                                                            *)

LEMMA AgainInductive == ASSUME WInv, VisitAgain PROVE WInv'
<1>1. /\ stack # <<>> /\ decl \in visited_ /\ stack' = Tail(stack) /\ ast' = ast
      /\ templates_' = templates_ /\ visited_' = visited_ /\ mod' = mod /\ aborted' = aborted
  BY DEF VisitAgain
<1>2. Tail(stack) \in Seq(CallOf) /\ Range(stack) = {stack[1]} \cup Range(Tail(stack))
  BY <1>1, TopCall
<1>3. Range(stack)' = Range(Tail(stack))
  <2>1. Range(stack') = Range(Tail(stack))
    BY <1>1
  <2> QED
    BY <2>1
<1>4. TypeOK'
  BY <1>1, <1>2 DEF WInv, TypeOK, CallOf
<1>5. /\ Below({TU})' = Below({TU})
      /\ \A n : /\ Successors(n)' = Successors(n) /\ Enumerators(n)' = Enumerators(n)
                /\ IsEntry(n)' <=> IsEntry(n)
                /\ Declares(n)' <=> Declares(n)
                /\ Defines(n)' <=> Defines(n)
      /\ \A c : GoodCall(c)' <=> GoodCall(c)
  BY <1>1, Frozen
<1>6. Walked' = Walked
  BY <1>1, <1>5 DEF Walked
<1>7. (\A c \in Range(stack) : GoodCall(c))'
  BY <1>2, <1>3, <1>5 DEF WInv
<1>8. VisitedIsBelow'
  BY <1>1, <1>5 DEF WInv, VisitedIsBelow
<1>9. SuccessorsWalked'
  <2>1. ToWalk' = {c.decl : c \in Range(Tail(stack))}
    BY <1>3 DEF ToWalk
  <2>2. ToWalk = {decl} \cup {c.decl : c \in Range(Tail(stack))}
    BY <1>2 DEF ToWalk, decl
  <2>3. decl \in Walked
    BY <1>1 DEF Walked
  <2>4. Walked \cup ToWalk = Walked' \cup ToWalk'
    BY <1>6, <2>1, <2>2, <2>3
  <2> HIDE DEF Dependent
  <2> QED
    BY <1>1, <1>5, <2>4 DEF WInv, SuccessorsWalked
<1>10. ListsAreGood' /\ EntriesListed'
  <2>1. ListsAreGood'
    BY <1>1, <1>5, <1>6 DEF WInv, ListsAreGood, GoodList
  <2>2. EntriesListed'
    BY <1>1, <1>5, <1>6 DEF WInv, EntriesListed
  <2> QED
    BY <2>1, <2>2
<1> QED
  BY <1>1, <1>4, <1>7, <1>8, <1>9, <1>10 DEF WInv

LEMMA IgnoredInductive == ASSUME WInv, VisitIgnored PROVE WInv'
<1> DEFINE K == {"Ignored", "Unsupported"}
<1>1. Enter(K) /\ Then(<<>>) /\ mod' = mod
  BY DEF VisitIgnored
<1>2. ast[decl].kind \in K /\ K \subseteq Visitable
  BY <1>1 DEF Enter, node, Visitable, Kind
<1>3. Enumerators(decl) = {} /\ Successors(decl) = {} /\ ~IsEntry(decl)
  BY <1>2 DEF Enumerators, Successors, IsEntry, Skipped, Scope, Template
<1>4. CallsAreGood(<<>>)
  BY <1>3, NoCalls
<1>5. ListsGrow(<<>>)
  BY <1>1, <1>3, ModuleUnchanged
<1> HIDE DEF K
<1> QED
  BY <1>1, <1>2, <1>4, <1>5, VisitStep


LEMMA StaticAssertInductive == ASSUME WInv, VisitStaticAssertDecl PROVE WInv'
<1> DEFINE K == {"StaticAssert"}
<1>1. Enter(K) /\ Then(<<>>) /\ mod' = [mod EXCEPT !.asserts = Append(@, decl)]
  BY DEF VisitStaticAssertDecl
<1>2. ast[decl].kind \in K /\ K \subseteq Visitable /\ stack # <<>>
  BY <1>1 DEF Enter, node, Visitable, Kind
<1>3. Enumerators(decl) = {} /\ Successors(decl) = {} /\ ~IsEntry(decl)
  BY <1>2 DEF Enumerators, Successors, IsEntry, Skipped, Scope, Template
<1>4. CallsAreGood(<<>>)
  BY <1>3, NoCalls
<1>5. ListsGrow(<<>>)
  <2>1. mod \in ModuleOf(DOMAIN ast) /\ decl \in DOMAIN ast
    BY <1>2, TopCall DEF WInv, TypeOK
  <2>2. Append(mod.asserts, decl) \in Seq(DOMAIN ast)
    BY <2>1 DEF ModuleOf
  <2>3. /\ mod' \in ModuleOf(DOMAIN ast)
        /\ mod'.declarations = mod.declarations /\ mod'.definitions = mod.definitions
        /\ mod'.template_declarations = mod.template_declarations
        /\ mod'.template_definitions = mod.template_definitions
    BY <1>1, <2>1, <2>2 DEF ModuleOf
  <2> QED
    BY <1>3, <2>3, NothingListed
<1> HIDE DEF K
<1> QED
  BY <1>1, <1>2, <1>4, <1>5, VisitStep

LEMMA TypedefInductive == ASSUME WInv, VisitTypedefNameDecl PROVE WInv'
<1> DEFINE K == {"Typedef"}
<1>1. /\ Enter(K) /\ Then(<<>>)
      /\ mod' = IF "names_anon" \in ast[decl].attrs \/ ast[decl].canon # decl
                THEN mod ELSE go(mod, <<decl>>, flags, TRUE)
  BY DEF VisitTypedefNameDecl, node
<1>2. ast[decl].kind \in K /\ K \subseteq Visitable /\ stack # <<>>
  BY <1>1 DEF Enter, node, Visitable, Kind
<1>3. Enumerators(decl) = {} /\ Successors(decl) = {} /\ Defines(decl)
  BY <1>2 DEF Enumerators, Successors, Skipped, Scope, Template, Defines, Declarable
<1>4. CallsAreGood(<<>>)
  BY <1>3, NoCalls
<1>5. IsEntry(decl) <=> ast[decl].canon = decl /\ "names_anon" \notin ast[decl].attrs
  BY <1>2 DEF IsEntry
<1>6. \E xs : ListsGrow(xs)
  <2>1. CASE IsEntry(decl)
    <3>1. mod' = go(mod, <<decl>>, flags, TRUE)
      BY <1>1, <1>5, <2>1
    <3>2. decl \in DOMAIN ast
      BY <1>2, TopCall
    <3>3. <<decl>> \in Seq(DOMAIN ast) /\ IsInjective(<<decl>>) /\ Range(<<decl>>) = {decl}
      BY <3>2, Single
    <3>4. ListsGrow(<<decl>>)
      BY <1>2, <1>3, <2>1, <3>1, <3>3, DefinitionsListed
    <3> QED
      BY <3>4
  <2>2. CASE ~IsEntry(decl)
    <3>1. mod' = mod
      BY <1>1, <1>5, <2>2
    <3>2. ListsGrow(<<>>)
      BY <1>3, <2>2, <3>1, ModuleUnchanged
    <3> QED
      BY <3>2
  <2> QED
    BY <2>1, <2>2
<1> HIDE DEF K
<1> QED
  BY <1>1, <1>2, <1>4, <1>6, VisitStep

LEMMA TypeAliasTemplateInductive == ASSUME WInv, VisitTypeAliasTemplateDecl PROVE WInv'
<1> DEFINE K == {"TypeAliasTemplate"}
           P == Call(ast[decl].templated, set_template(flags))
           C == IF templates_ THEN P ELSE <<>>
<1>1. Enter(K) /\ Then(C) /\ mod' = mod
  BY DEF VisitTypeAliasTemplateDecl, node
<1>2. ast[decl].kind \in K /\ K \subseteq Visitable /\ stack # <<>>
  BY <1>1 DEF Enter, node, Visitable, Kind
<1>3. Enumerators(decl) = {} /\ Successors(decl) = {} /\ ~IsEntry(decl)
  BY <1>2 DEF Enumerators, Successors, IsEntry, Skipped, Scope, Template
<1>4. P \in Seq(CallOf) /\ \A c \in Range(P) : GoodCall(c)
  BY <1>2, PatternCall
<1>5. <<>> \in Seq(CallOf) /\ Range(<<>>) = {}
  BY DEF Range
<1> HIDE DEF P
<1>6. CallsAreGood(C)
  BY <1>3, <1>4, <1>5 DEF CallsAreGood
<1>7. ListsGrow(<<>>)
  BY <1>1, <1>3, ModuleUnchanged
<1> HIDE DEF K, C
<1> QED
  BY <1>1, <1>2, <1>6, <1>7, VisitStep

LEMMA TemplateInductive == ASSUME WInv, VisitTemplateDecl PROVE WInv'
<1> DEFINE K == {"ClassTemplate", "FunctionTemplate", "VarTemplate"}
           P == Call(ast[decl].templated, set_template(flags))
           Q == IF templates_ THEN P ELSE <<>>
           R == Calls(ast[decl].specs, set_specialization(flags))
           C == Q \o R
<1>1. Enter(K) /\ Then(C) /\ mod' = mod
  BY DEF VisitTemplateDecl, node
<1>2. ast[decl].kind \in K /\ K \subseteq Visitable /\ stack # <<>>
  BY <1>1 DEF Enter, node, Visitable, Kind
<1>3. Enumerators(decl) = {} /\ ~IsEntry(decl)
  BY <1>2 DEF Enumerators, IsEntry
<1>4. P \in Seq(CallOf) /\ \A c \in Range(P) : GoodCall(c)
  BY <1>2, PatternCall
<1>5. <<>> \in Seq(CallOf) /\ Range(<<>>) = {}
  BY DEF Range
<1>6. /\ R \in Seq(CallOf) /\ \A c \in Range(R) : GoodCall(c)
      /\ Successors(decl) \subseteq {c.decl : c \in Range(R)}
  BY <1>2, SpecializationCalls
<1> HIDE DEF P, R
<1>7. Q \in Seq(CallOf) /\ \A c \in Range(Q) : GoodCall(c)
  BY <1>4, <1>5
<1> HIDE DEF Q
<1>8. C \in Seq(CallOf) /\ Range(C) = Range(Q) \cup Range(R)
  BY <1>6, <1>7, Concatenation, RangeOfConcatenation
<1> HIDE DEF C
<1>9. CallsAreGood(C)
  BY <1>6, <1>7, <1>8 DEF CallsAreGood
<1>10. ListsGrow(<<>>)
  BY <1>1, <1>3, ModuleUnchanged
<1> HIDE DEF K
<1> QED
  BY <1>1, <1>2, <1>9, <1>10, VisitStep

LEMMA RecordInductive == ASSUME WInv, VisitCXXRecordDecl PROVE WInv'
<1> DEFINE K == {"Record"}
           skip == \/ "implicit" \in ast[decl].attrs /\ "lambda" \notin ast[decl].attrs
                   \/ "dependent" \in ast[decl].attrs /\ ~templates_
           C == IF skip THEN <<>> ELSE Calls(ast[decl].decls, flags)
<1>1. Enter(K) /\ Then(C) /\ mod' = IF skip THEN mod ELSE EntryOfEntity(mod)
  BY DEF VisitCXXRecordDecl, node
<1>2. ast[decl].kind \in K /\ K \subseteq Visitable /\ stack # <<>>
  BY <1>1 DEF Enter, node, Visitable, Kind
<1>3. decl \in DOMAIN ast /\ ast[decl].decls \in Seq(DOMAIN ast)
  BY <1>2, TopCall, NodeFacts DEF WInv
<1>4. Enumerators(decl) = {}
  BY <1>2 DEF Enumerators
<1>5. skip <=> Skipped(decl) \/ (decl \in Dependent(ast) /\ ~templates_)
  BY <1>2, <1>3 DEF Skipped, Dependent
<1>6. Skipped(decl) => Successors(decl) = {} /\ ~IsEntry(decl)
  BY <1>2 DEF Successors, IsEntry, Skipped, Scope, Template
<1>7. ~Skipped(decl) => Successors(decl) = Range(ast[decl].decls)
  BY <1>2 DEF Successors, Skipped, Scope, Template
<1>8. CASE skip
  <2>1. C = <<>> /\ mod' = mod
    BY <1>1, <1>8
  <2>2. CallsAreGood(<<>>)
    BY <1>5, <1>6, <1>8, NoCalls
  <2>3. ListsGrow(<<>>)
    BY <1>4, <1>5, <1>6, <1>8, <2>1, ModuleUnchanged
  <2> HIDE DEF K, C
  <2> QED
    BY <1>1, <1>2, <2>1, <2>2, <2>3, VisitStep
<1>9. CASE ~skip
  <2>1. C = Calls(ast[decl].decls, flags) /\ mod' = EntryOfEntity(mod)
    BY <1>1, <1>9
  <2>2. CallsAreGood(Calls(ast[decl].decls, flags))
    BY <1>2, <1>3, <1>5, <1>7, <1>9, FlagsPassedOn
  <2>3. ast[decl].kind \in Declarable
    BY <1>2 DEF Declarable
  <2>4. \E xs : ListsGrow(xs)
    BY <1>2, <1>5, <1>9, <2>1, <2>3, EntryListed
  <2> HIDE DEF K, C
  <2> QED
    BY <1>1, <1>2, <2>1, <2>2, <2>4, VisitStep
<1> QED
  BY <1>8, <1>9

LEMMA FunctionInductive == ASSUME WInv, VisitFunctionDecl PROVE WInv'
<1> DEFINE K == {"Function", "Method"}
           skip == \/ ast[decl].kind = "Method" /\ "deleted" \in ast[decl].attrs
                   \/ "dependent" \in ast[decl].attrs /\ ~templates_
           L == Lifted(ast[decl].decls)
           C == IF ~skip /\ ast[decl].defn = decl THEN Calls(L, flags) ELSE <<>>
<1>1. Enter(K) /\ Then(C) /\ mod' = IF skip THEN mod ELSE EntryOfEntity(mod)
  BY DEF VisitFunctionDecl, node
<1>2. ast[decl].kind \in K /\ K \subseteq Visitable /\ stack # <<>>
  BY <1>1 DEF Enter, node, Visitable, Kind
<1>3. decl \in DOMAIN ast /\ L \in Seq(DOMAIN ast)
  BY <1>2, TopCall, NodeFacts DEF WInv
<1>4. Enumerators(decl) = {}
  BY <1>2 DEF Enumerators
<1>5. skip <=> Skipped(decl) \/ (decl \in Dependent(ast) /\ ~templates_)
  BY <1>2, <1>3 DEF Skipped, Dependent
<1>6. Skipped(decl) => Successors(decl) = {} /\ ~IsEntry(decl)
  BY <1>2 DEF Successors, IsEntry, Skipped, Scope, Template
<1>7. ~Skipped(decl) => Successors(decl) = IF ast[decl].defn = decl THEN Range(L) ELSE {}
  BY <1>2 DEF Successors, Skipped, Scope, Template
<1> HIDE DEF L
<1>8. CallsAreGood(C)
  <2>1. CASE ~skip /\ ast[decl].defn = decl
    <3>1. Range(L) = Successors(decl)
      BY <1>5, <1>7, <2>1
    <3>2. CallsAreGood(Calls(L, flags))
      BY <1>2, <1>3, <3>1, FlagsPassedOn
    <3> QED
      BY <2>1, <3>2
  <2>2. CASE ~(~skip /\ ast[decl].defn = decl)
    <3>1. decl \notin Dependent(ast) => Successors(decl) = {}
      BY <1>5, <1>6, <1>7, <2>2
    <3>2. CallsAreGood(<<>>)
      BY <3>1, NoCalls
    <3> QED
      BY <2>2, <3>2
  <2> QED
    BY <2>1, <2>2
<1>9. \E xs : ListsGrow(xs)
  <2>1. CASE skip
    <3>1. mod' = mod
      BY <1>1, <2>1
    <3>2. ListsGrow(<<>>)
      BY <1>4, <1>5, <1>6, <2>1, <3>1, ModuleUnchanged
    <3> QED
      BY <3>2
  <2>2. CASE ~skip
    <3>1. mod' = EntryOfEntity(mod) /\ ast[decl].kind \in Declarable /\ ~Skipped(decl)
      BY <1>1, <1>2, <1>5, <2>2 DEF Declarable
    <3> QED
      BY <1>2, <3>1, EntryListed
  <2> QED
    BY <2>1, <2>2
<1> HIDE DEF K, C
<1> QED
  BY <1>1, <1>2, <1>8, <1>9, VisitStep


LEMMA VarInductive == ASSUME WInv, VisitVarDecl PROVE WInv'
<1> DEFINE K == {"Var"}
           e == ast[decl].defn = decl \/ (ast[decl].defn = None /\ ast[decl].canon = decl)
           t == "dependent" \in ast[decl].attrs => templates_
<1>1. Enter(K) /\ Then(<<>>) /\ mod' = IF t /\ e THEN go(mod, <<decl>>, flags, TRUE) ELSE mod
  BY DEF VisitVarDecl, node
<1>2. ast[decl].kind \in K /\ K \subseteq Visitable /\ stack # <<>>
  BY <1>1 DEF Enter, node, Visitable, Kind
<1>3. decl \in DOMAIN ast
  BY <1>2, TopCall
<1>4. Enumerators(decl) = {} /\ Successors(decl) = {} /\ Defines(decl)
  BY <1>2 DEF Enumerators, Successors, Skipped, Scope, Template, Defines, Declarable
<1>5. IsEntry(decl) <=> e
  BY <1>2 DEF IsEntry, Skipped
<1>6. decl \notin Dependent(ast) => t
  BY <1>3 DEF Dependent
<1>7. CallsAreGood(<<>>)
  BY <1>4, NoCalls
<1> HIDE DEF e, t
<1>8. \E xs : ListsGrow(xs)
  <2>1. CASE t /\ e
    <3>1. mod' = go(mod, <<decl>>, flags, TRUE)
      BY <1>1, <2>1
    <3>2. <<decl>> \in Seq(DOMAIN ast) /\ IsInjective(<<decl>>) /\ Range(<<decl>>) = {decl}
      BY <1>3, Single
    <3>3. ListsGrow(<<decl>>)
      BY <1>2, <1>4, <1>5, <2>1, <3>1, <3>2, DefinitionsListed
    <3> QED
      BY <3>3
  <2>2. CASE ~(t /\ e)
    <3>1. mod' = mod
      BY <1>1, <2>2
    <3>2. ListsGrow(<<>>)
      BY <1>4, <1>5, <1>6, <2>2, <3>1, ModuleUnchanged
    <3> QED
      BY <3>2
  <2> QED
    BY <2>1, <2>2
<1> HIDE DEF K
<1> QED
  BY <1>1, <1>2, <1>7, <1>8, VisitStep

\* The assertion on the flags of a namespace never fails.
LEMMA ScopeInductive == ASSUME WInv, VisitScopeDecl PROVE WInv'
<1> DEFINE K == {"Namespace", "LinkageSpec"}
<1>1. Enter(K) /\ mod' = mod
  BY DEF VisitScopeDecl
<1>2. ast[decl].kind \in K /\ K \subseteq Visitable /\ stack # <<>>
  BY <1>1 DEF Enter, node, Visitable, Kind
<1>3. decl \in DOMAIN ast /\ (flags # none => ast[decl].kind \notin Scope)
  BY <1>2, TopCall
<1>4. flags = none
  BY <1>2, <1>3 DEF Scope
<1>5. Then(Calls(ast[decl].decls, flags))
  BY <1>4 DEF VisitScopeDecl, node
<1>6. Enumerators(decl) = {} /\ ~IsEntry(decl) /\ Successors(decl) = Range(ast[decl].decls)
  BY <1>2 DEF Enumerators, IsEntry, Successors, Skipped, Scope, Template
<1>7. ast[decl].decls \in Seq(DOMAIN ast)
  BY <1>3, NodeFacts DEF WInv
<1>8. CallsAreGood(Calls(ast[decl].decls, flags))
  BY <1>2, <1>6, <1>7, FlagsPassedOn
<1>9. ListsGrow(<<>>)
  BY <1>1, <1>6, ModuleUnchanged
<1> HIDE DEF K
<1> QED
  BY <1>1, <1>2, <1>5, <1>8, <1>9, VisitStep

LEMMA EnumInductive == ASSUME WInv, VisitEnumDecl PROVE WInv'
<1> DEFINE K == {"Enum"}
           ds == ast[decl].decls
<1>1. /\ Enter(K) /\ Then(<<>>)
      /\ mod' = IF ast[decl].canon = decl THEN go(mod, <<decl>> \o ds, flags, TRUE) ELSE mod
  BY DEF VisitEnumDecl, node
<1>2. ast[decl].kind \in K /\ K \subseteq Visitable /\ stack # <<>>
  BY <1>1 DEF Enter, node, Visitable, Kind
<1>3. decl \in DOMAIN ast /\ ds \in Seq(DOMAIN ast)
  BY <1>2, TopCall, NodeFacts DEF WInv
<1>4. /\ Enumerators(decl) = IF ast[decl].canon = decl THEN Range(ds) ELSE {}
      /\ Successors(decl) = Enumerators(decl)
      /\ IsEntry(decl) <=> ast[decl].canon = decl
      /\ Defines(decl)
  BY <1>2 DEF Enumerators, Successors, Skipped, Scope, Template, IsEntry, Defines, Declarable
<1>5. CallsAreGood(<<>>)
  BY <1>4, NoCalls
<1>6. IsInjective(ds) /\ \A x \in Range(ds) : ast[x].kind = "EnumConstant"
  BY <1>2, <1>3, ASTFacts DEF WInv, WellFormed
<1>7. \A x \in Range(ds) : IsEntry(x) /\ Defines(x) /\ x # decl
  BY <1>2, <1>6 DEF IsEntry, Defines, Declarable
<1> HIDE DEF ds
<1>8. \E xs : ListsGrow(xs)
  <2>1. CASE ast[decl].canon = decl
    <3> DEFINE one == <<decl>>
               xs == one \o ds
    <3>1. mod' = go(mod, xs, flags, TRUE)
      BY <1>1, <2>1
    <3>2. one \in Seq(DOMAIN ast) /\ IsInjective(one) /\ Range(one) = {decl}
      BY <1>3, Single
    <3> HIDE DEF one
    <3>3. Range(one) \cap Range(ds) = {}
      BY <1>7, <3>2
    <3>4. IsInjective(xs)
      BY <1>3, <1>6, <3>2, <3>3, InjectiveConcatenation
    <3>5. xs \in Seq(DOMAIN ast) /\ Range(xs) = {decl} \cup Enumerators(decl)
      <4>1. xs \in Seq(DOMAIN ast)
        BY <1>3, <3>2, Concatenation
      <4>2. Range(xs) = Range(one) \cup Range(ds)
        BY <1>3, <3>2, RangeOfConcatenation
      <4> HIDE DEF xs
      <4> QED
        BY <1>4, <2>1, <3>2, <4>1, <4>2
    <3>6. \A n \in Range(xs) : IsEntry(n) /\ Defines(n)
      BY <1>4, <1>7, <2>1, <3>5
    <3> HIDE DEF xs
    <3>7. ListsGrow(xs)
      BY <1>2, <3>1, <3>4, <3>5, <3>6, DefinitionsListed
    <3> QED
      BY <3>7
  <2>2. CASE ast[decl].canon # decl
    <3>1. mod' = mod
      BY <1>1, <2>2
    <3>2. ListsGrow(<<>>)
      BY <1>4, <2>2, <3>1, ModuleUnchanged
    <3> QED
      BY <3>2
  <2> QED
    BY <2>1, <2>2
<1> HIDE DEF K
<1> QED
  BY <1>1, <1>2, <1>5, <1>8, VisitStep

LEMMA FriendInductive == ASSUME WInv, VisitFriendDecl PROVE WInv'
<1> DEFINE K == {"Friend"}
           x == ast[decl].friend
           C == Call(x, flags)
<1>1. Enter(K) /\ Then(C) /\ mod' = mod
  BY DEF VisitFriendDecl, node
<1>2. ast[decl].kind \in K /\ K \subseteq Visitable /\ stack # <<>>
  BY <1>1 DEF Enter, node, Visitable, Kind
<1>3. decl \in DOMAIN ast /\ flags \in Flags /\ x \in DOMAIN ast \cup {None}
  BY <1>2, TopCall, NodeFacts DEF WInv
<1>4. Enumerators(decl) = {} /\ ~IsEntry(decl) /\ Successors(decl) = {x} \ {None}
  BY <1>2 DEF Enumerators, IsEntry, Successors, Skipped, Scope, Template
<1> HIDE DEF x
<1>5. CallsAreGood(C)
  <2>1. CASE x = None
    <3>1. C = <<>>
      BY <2>1 DEF Call
    <3>2. CallsAreGood(<<>>)
      BY <1>4, <2>1, NoCalls
    <3> QED
      BY <3>1, <3>2
  <2>2. CASE x # None
    <3>1. C = Calls(<<x>>, flags)
      BY <2>2 DEF Call, Calls
    <3>2. <<x>> \in Seq(DOMAIN ast) /\ Range(<<x>>) = {x}
      BY <1>3, <2>2, Single
    <3>3. Range(<<x>>) = Successors(decl)
      BY <1>4, <2>2, <3>2
    <3>4. CallsAreGood(Calls(<<x>>, flags))
      BY <1>2, <3>2, <3>3, FlagsPassedOn
    <3> QED
      BY <3>1, <3>4
  <2> QED
    BY <2>1, <2>2
<1>6. ListsGrow(<<>>)
  BY <1>1, <1>4, ModuleUnchanged
<1> HIDE DEF K, C
<1> QED
  BY <1>1, <1>2, <1>5, <1>6, VisitStep


LEMMA InitWInv == ASSUME Init PROVE WInv
<1> DEFINE ds == ast[TU].decls
<1>1. /\ ast \in ASTs /\ templates_ \in BOOLEAN /\ stack = Calls(ds, none)
      /\ visited_ = {} /\ mod = EmptyModule /\ aborted = FALSE
  BY DEF Init
<1>2. WellFormed(ast) /\ TU \in DOMAIN ast /\ ast[TU].kind = "TranslationUnit"
  BY <1>1, ASTFacts DEF WellFormed
<1>3. ds \in Seq(DOMAIN ast) /\ Range(ds) \subseteq DOMAIN ast
  BY <1>1, <1>2, NodeFacts
<1>4. none \in Flags /\ ~none.in_template
  BY DEF none, Flags
<1>5. Successors(TU) = Range(ds)
  BY <1>2 DEF Successors, Skipped, Scope, Template
<1> HIDE DEF ds
<1>6. stack \in Seq(CallOf) /\ Range(stack) = {[decl |-> x, flags |-> none] : x \in Range(ds)}
  BY <1>1, <1>3, <1>4, CallsAre
<1>7. mod \in ModuleOf(DOMAIN ast)
  BY <1>1 DEF EmptyModule, ModuleOf
<1>8. TypeOK
  BY <1>1, <1>2, <1>6, <1>7 DEF TypeOK, CallOf
<1>9. \A c \in Range(stack) : GoodCall(c)
  <2>1. Range(ds) \subseteq Below({TU})
    BY <1>1, <1>5, BelowTU
  <2>2. ASSUME NEW x \in Range(ds) PROVE GoodCall([decl |-> x, flags |-> none])
    <3> DEFINE c == [decl |-> x, flags |-> none]
    <3>1. c.decl = x /\ c.flags = none
      OBVIOUS
    <3> HIDE DEF c
    <3>2. GoodCall(c)
      BY <1>4, <2>1, <3>1 DEF GoodCall
    <3> QED
      BY <3>2 DEF c
  <2> QED
    BY <2>2, <1>6
<1>10. ListsAreGood
  <2>1. Range(<<>>) = {} /\ IsInjective(<<>>)
    BY DEF Range, IsInjective
  <2> QED
    BY <1>1, <2>1 DEF ListsAreGood, GoodList, EmptyModule
<1>11. Walked = {}
  BY <1>1 DEF Walked
<1>12. VisitedIsBelow /\ EntriesListed
  BY <1>1, <1>11 DEF VisitedIsBelow, EntriesListed
<1>13. SuccessorsWalked
  <2>1. \A x \in Range(ds) : x \in ToWalk
    <3> TAKE x \in Range(ds)
    <3>1. [decl |-> x, flags |-> none].decl = x
      OBVIOUS
    <3> QED
      BY <3>1, <1>6 DEF ToWalk
  <2> QED
    BY <1>1, <1>5, <2>1 DEF SuccessorsWalked
<1> QED
  BY <1>1, <1>8, <1>9, <1>10, <1>12, <1>13 DEF WInv

LEMMA StutterWInv == ASSUME WInv, UNCHANGED vars PROVE WInv'
<1>1. /\ ast' = ast /\ templates_' = templates_ /\ stack' = stack
      /\ visited_' = visited_ /\ mod' = mod /\ aborted' = aborted
  BY DEF vars
<1>2. /\ Below({TU})' = Below({TU})
      /\ \A n : /\ Successors(n)' = Successors(n) /\ Enumerators(n)' = Enumerators(n)
                /\ IsEntry(n)' <=> IsEntry(n)
                /\ Declares(n)' <=> Declares(n)
                /\ Defines(n)' <=> Defines(n)
      /\ \A c : GoodCall(c)' <=> GoodCall(c)
  BY <1>1, Frozen
<1>3. Walked' = Walked /\ ToWalk' = ToWalk
  BY <1>1, <1>2 DEF Walked, ToWalk
<1>4. TypeOK' /\ (\A c \in Range(stack) : GoodCall(c))'
  BY <1>1, <1>2 DEF WInv, TypeOK
<1>5. ListsAreGood'
  BY <1>1, <1>2, <1>3 DEF WInv, ListsAreGood, GoodList
<1>6. VisitedIsBelow'
  BY <1>1, <1>2 DEF WInv, VisitedIsBelow
<1>7. SuccessorsWalked'
  BY <1>1, <1>2, <1>3 DEF WInv, SuccessorsWalked
<1>8. EntriesListed'
  BY <1>1, <1>2, <1>3 DEF WInv, EntriesListed
<1> QED
  BY <1>1, <1>4, <1>5, <1>6, <1>7, <1>8 DEF WInv

(* The invariant of the walk: nothing that can be reached is lost, and what  *)
(* is listed is an entry of something walked, listed once.                   *)
THEOREM WalkInductive == Spec => []WInv
<1>1. Init => WInv
  BY InitWInv
<1>2. WInv /\ [Next]_vars => WInv'
  <2> SUFFICES ASSUME WInv, [Next]_vars PROVE WInv'
    OBVIOUS
  <2>1. CASE UNCHANGED vars
    BY <2>1, StutterWInv
  <2>2. CASE Next
    BY <2>2, AgainInductive, IgnoredInductive, StaticAssertInductive, TypedefInductive,
       TypeAliasTemplateInductive, RecordInductive, TemplateInductive, FunctionInductive,
       VarInductive, ScopeInductive, EnumInductive, FriendInductive DEF Next
  <2> QED
    BY <2>1, <2>2
<1> QED
  BY <1>1, <1>2, PTL DEF Spec

(* BuildModule's state is well typed on every AST.                           *)
THEOREM TypeCorrect == Spec => []TypeOK
<1>1. WInv => TypeOK
  BY DEF WInv
<1> QED
  BY <1>1, WalkInductive, PTL


(* The always_assert on the flags of a namespace or a linkage specification  *)
(* never fails: neither can be reached through a template.                   *)
THEOREM NeverAborts == Spec => []~aborted
<1>1. WInv => ~aborted
  BY DEF WInv
<1> QED
  BY <1>1, WalkInductive, PTL

(* VisitTagDecl and VisitFunctionDecl list definitions as definitions and    *)
(* mere declarations as declarations.                                        *)
THEOREM RightlyListed == Spec => []RightList
<1>1. WInv => RightList
  BY DEF WInv, ListsAreGood, RightList, Declares, Defines, Declarable
<1> QED
  BY <1>1, WalkInductive, PTL

----------------------------------------------------------------------------
(* One entry per entity.                                                   *)

LEMMA WalkedAreNodes == ASSUME WInv PROVE Walked \subseteq DOMAIN ast
<1>1. ast \in ASTs /\ visited_ \subseteq DOMAIN ast
  BY DEF WInv, TypeOK
<1>2. \A n \in DOMAIN ast : Enumerators(n) \subseteq DOMAIN ast
  BY <1>1, NodeFacts DEF Enumerators
<1> QED
  BY <1>1, <1>2 DEF Walked

\* The redeclarations of an entity have one entry among them.
LEMMA EntryIsUnique ==
  ASSUME ast \in ASTs, NEW n \in DOMAIN ast, NEW m \in DOMAIN ast, IsEntry(n), IsEntry(m),
         ast[n].canon = ast[m].canon
  PROVE  n = m
<1>1. WellFormed(ast) /\ n # None /\ m # None
  BY ASTFacts DEF WellFormed
<1>2. ast[n].kind = ast[m].kind /\ ast[n].defn = ast[m].defn
  <2>1. \A x \in DOMAIN ast : /\ ast[ast[x].canon].kind = ast[x].kind
                              /\ ast[ast[x].canon].defn = ast[x].defn
    BY <1>1 DEF WellFormed
  <2> QED
    BY <2>1
<1>3. CASE ast[n].kind \in {"Record", "Function", "Method", "Var"}
  BY <1>1, <1>2, <1>3 DEF IsEntry
<1>4. CASE ast[n].kind \notin {"Record", "Function", "Method", "Var"}
  <2>1. ast[n].kind \in {"Typedef", "Enum", "EnumConstant"}
    BY <1>4 DEF IsEntry
  <2>2. ast[n].canon = n /\ ast[m].canon = m
    BY <1>1, <1>2, <2>1 DEF IsEntry, WellFormed
  <2> QED
    BY <2>2
<1> QED
  BY <1>3, <1>4

\* Declarations and definitions are told apart by getDefinition().
LEMMA OneEntryInList ==
  ASSUME WInv, NEW a \in Seq(DOMAIN ast), NEW b \in Seq(DOMAIN ast), GoodList(a), GoodList(b),
         \A n \in Range(a) : Declares(n), \A n \in Range(b) : Defines(n)
  PROVE  \A i, j \in DOMAIN (a \o b) :
           ast[(a \o b)[i]].canon = ast[(a \o b)[j]].canon => i = j
<1> DEFINE l == a \o b
<1>1. Range(a) \cap Range(b) = {}
  <2>1. None \notin DOMAIN ast
    BY ASTFacts DEF WInv, WellFormed
  <2>2. Range(a) \subseteq DOMAIN ast
    BY RangeOf
  <2> QED
    BY <2>1, <2>2 DEF Declares, Defines
<1>2. IsInjective(l)
  BY <1>1, InjectiveConcatenation DEF GoodList
<1>3. l \in Seq(DOMAIN ast) /\ Range(l) = Range(a) \cup Range(b)
  BY Concatenation, RangeOfConcatenation
<1> HIDE DEF l
<1>4. \A i \in DOMAIN l : l[i] \in DOMAIN ast /\ IsEntry(l[i])
  BY <1>3, RangeOf DEF GoodList
<1>5. ASSUME NEW i \in DOMAIN l, NEW j \in DOMAIN l, ast[l[i]].canon = ast[l[j]].canon
      PROVE  i = j
  <2>1. l[i] = l[j]
    BY <1>4, <1>5, EntryIsUnique DEF WInv
  <2> QED
    BY <1>2, <2>1 DEF IsInjective
<1> QED
  BY <1>5 DEF l

(* However many redeclarations, friends and specializations lead to an       *)
(* entity, visited_ and the choice of the definition or the first            *)
(* declaration leave one entry of it in each output.                         *)
THEOREM OneEntry == Spec => []OneEntryPerEntity
<1>1. WInv => OneEntryPerEntity
  <2> SUFFICES ASSUME WInv PROVE OneEntryPerEntity
    OBVIOUS
  <2> DEFINE a == mod.declarations           b == mod.definitions
             c == mod.template_declarations  d == mod.template_definitions
  <2>1. /\ a \in Seq(DOMAIN ast) /\ b \in Seq(DOMAIN ast)
        /\ c \in Seq(DOMAIN ast) /\ d \in Seq(DOMAIN ast)
    BY DEF WInv, TypeOK, ModuleOf
  <2>2. /\ GoodList(a) /\ GoodList(b) /\ GoodList(c) /\ GoodList(d)
        /\ \A n \in Range(a) \cup Range(c) : Declares(n)
        /\ \A n \in Range(b) \cup Range(d) : Defines(n)
    BY DEF WInv, ListsAreGood
  <2>3. ModuleList = a \o b /\ TemplateList = c \o d
    BY DEF ModuleList, TemplateList
  <2> HIDE DEF a, b, c, d
  <2>4. \A i, j \in DOMAIN (a \o b) : ast[(a \o b)[i]].canon = ast[(a \o b)[j]].canon => i = j
    BY <2>1, <2>2, OneEntryInList
  <2>5. \A i, j \in DOMAIN (c \o d) : ast[(c \o d)[i]].canon = ast[(c \o d)[j]].canon => i = j
    BY <2>1, <2>2, OneEntryInList
  <2> QED
    BY <2>3, <2>4, <2>5 DEF OneEntryPerEntity
<1> QED
  BY <1>1, WalkInductive, PTL

----------------------------------------------------------------------------
(* Nothing is lost, nothing is made up.                                    *)

LEMMA ModuleListRange ==
  ASSUME WInv
  PROVE  Range(ModuleList) = Range(mod.declarations) \cup Range(mod.definitions)
<1>1. mod.declarations \in Seq(DOMAIN ast) /\ mod.definitions \in Seq(DOMAIN ast)
  BY DEF WInv, TypeOK, ModuleOf
<1> QED
  BY <1>1, RangeOfConcatenation DEF ModuleList

\* An enumerator leads nowhere.
LEMMA EnumeratorsEnd ==
  ASSUME ast \in ASTs, NEW m \in DOMAIN ast, NEW n \in Enumerators(m)
  PROVE  /\ n \in Successors(m) /\ Successors(n) = {}
         /\ m \in Dependent(ast) => n \in Dependent(ast)
<1>1. ast[m].kind = "Enum" /\ ast[m].canon = m /\ n \in Range(ast[m].decls)
  BY DEF Enumerators
<1>2. ast[n].kind = "EnumConstant"
  BY <1>1, ASTFacts DEF WellFormed
<1>3. n \in Successors(m)
  BY <1>1 DEF Successors, Skipped, Scope, Template
<1>4. Successors(n) = {}
  BY <1>2 DEF Successors, Skipped, Scope, Template
<1> QED
  BY <1>3, <1>4, DependentClosed

\* Only what can be reached has been walked.
LEMMA WalkedIsBelow == ASSUME WInv PROVE Walked \ Dependent(ast) \subseteq Below({TU})
<1>1. ast \in ASTs /\ visited_ \subseteq DOMAIN ast
  BY DEF WInv, TypeOK
<1>2. \A n \in visited_ : n \notin Dependent(ast) => n \in Below({TU})
  BY DEF WInv, VisitedIsBelow
<1>3. ASSUME NEW m \in visited_, NEW n \in Enumerators(m), n \notin Dependent(ast)
      PROVE  n \in Below({TU})
  <2>1. n \in Successors(m) /\ m \notin Dependent(ast)
    BY <1>1, <1>3, EnumeratorsEnd
  <2>2. m \in Below({TU})
    BY <1>2, <2>1
  <2> QED
    BY <1>1, <2>1, <2>2, BelowTU
<1> HIDE DEF Dependent
<1> QED
  BY <1>2, <1>3 DEF Walked

\* In the end, all that can be reached has been walked.
LEMMA BelowIsWalked ==
  ASSUME WInv, stack = <<>>
  PROVE  Below({TU}) \ Dependent(ast) \subseteq Walked \cup {TU}
<1> DEFINE T == Walked \cup {TU} \cup Dependent(ast)
<1>1. ast \in ASTs /\ visited_ \subseteq DOMAIN ast
  BY DEF WInv, TypeOK
<1>2. ToWalk = {}
  <2>1. Range(stack) = {}
    BY DEF Range
  <2> QED
    BY <2>1 DEF ToWalk
<1>3. \A n \in (visited_ \cup {TU}) \ Dependent(ast) : Successors(n) \subseteq T
  BY <1>2 DEF WInv, SuccessorsWalked
<1>4. \A n \in Dependent(ast) : Successors(n) \subseteq T
  BY <1>1, DependentClosed
<1>5. \A m \in visited_ : \A n \in Enumerators(m) : Successors(n) = {}
  BY <1>1, EnumeratorsEnd
<1>6. \A n \in T : Successors(n) \subseteq T
  <2> HIDE DEF Dependent
  <2> SUFFICES ASSUME NEW n \in T PROVE Successors(n) \subseteq T
    OBVIOUS
  <2>1. CASE n \in Dependent(ast)
    BY <1>4, <2>1
  <2>2. CASE n \in (visited_ \cup {TU}) \ Dependent(ast)
    BY <1>3, <2>2
  <2>3. CASE n \in UNION {Enumerators(m) : m \in visited_}
    BY <1>5, <2>3
  <2> QED
    BY <2>1, <2>2, <2>3 DEF Walked
<1>7. TU \in T
  OBVIOUS
<1> HIDE DEF T
<1>8. Below({TU}) \subseteq T
  BY <1>1, <1>6, <1>7, BelowTU
<1> QED
  BY <1>8 DEF T

(* With and without --templates, the untemplated part of the module is       *)
(* exactly one entry - the definition or else the first declaration - for    *)
(* every entity that can be reached outside the patterns of templates: the   *)
(* flags and visited_ neither lose a declaration nor add one.                *)
THEOREM ModuleIsComplete == Spec => []ModuleComplete
<1>1. WInv => ModuleComplete
  <2> SUFFICES ASSUME WInv, stack = <<>>
               PROVE  Range(ModuleList) \ Dependent(ast)
                        = {n \in Below({TU}) \ Dependent(ast) : IsEntry(n)}
    BY DEF ModuleComplete, Done
  <2>1. Range(ModuleList) = Range(mod.declarations) \cup Range(mod.definitions)
    BY ModuleListRange
  <2>2. \A n \in Range(ModuleList) : n \in Walked /\ IsEntry(n)
    BY <2>1 DEF WInv, ListsAreGood, GoodList
  <2>3. Walked \ Dependent(ast) \subseteq Below({TU})
    BY WalkedIsBelow
  <2>4. Below({TU}) \ Dependent(ast) \subseteq Walked \cup {TU}
    BY BelowIsWalked
  <2>5. ~IsEntry(TU)
    <3>1. ast[TU].kind = "TranslationUnit"
      BY ASTFacts DEF WInv, WellFormed
    <3> QED
      BY <3>1 DEF IsEntry
  <2>6. \A n \in Walked \ Dependent(ast) : IsEntry(n) => n \in Range(ModuleList)
    BY <2>1 DEF WInv, EntriesListed
  <2> HIDE DEF Dependent
  <2> QED
    BY <2>2, <2>3, <2>4, <2>5, <2>6
<1> QED
  BY <1>1, WalkInductive, PTL


----------------------------------------------------------------------------
(* What is listed with the templates.                                      *)

\* The flags of a call are set only in patterns and specializations.
Flagged(c) ==
  /\ c.decl \in BelowWithPatterns({TU})
  /\ c.flags # none => c.decl \in InTemplate

TemplateEntries == Range(mod.template_declarations) \cup Range(mod.template_definitions)

TInv ==
  /\ \A c \in Range(stack) : Flagged(c)
  /\ TemplateEntries \subseteq InTemplate

PatternGraph == [n \in DOMAIN ast |-> Successors(n) \cup ({ast[n].templated} \ {None})]

LEMMA PatternsClosed ==
  ASSUME ast \in ASTs, NEW S \in SUBSET DOMAIN ast, NEW B, B = BelowWithPatterns(S)
  PROVE  /\ S \subseteq B /\ B \subseteq DOMAIN ast
         /\ \A n \in B : Successors(n) \cup ({ast[n].templated} \ {None}) \subseteq B
<1> DEFINE U == DOMAIN ast
           C == Reached(PatternGraph, S, Cardinality(U))
<1>1. B = C
  BY DEF BelowWithPatterns, PatternGraph
<1>2. IsFiniteSet(U)
  BY ASTFacts DEF WellFormed
<1>3. PatternGraph \in Graph(U)
  <2>1. \A n \in U : Successors(n) \cup ({ast[n].templated} \ {None}) \in SUBSET U
    BY SuccessorsAreNodes, NodeFacts
  <2> QED
    BY <2>1 DEF PatternGraph, Graph
<1>4. \A n \in U : PatternGraph[n] = Successors(n) \cup ({ast[n].templated} \ {None})
  BY DEF PatternGraph
<1>5. S \in SUBSET U
  OBVIOUS
<1> HIDE DEF PatternGraph, U
<1>6. C \subseteq U /\ IsClosed(PatternGraph, C)
  BY <1>2, <1>3, <1>5, ReachedClosed
<1>7. Cardinality(U) \in Nat
  BY <1>2, FS_CardinalityType
<1>8. S \subseteq C
  <2>1. IsClosed(PatternGraph, U)
    BY <1>3 DEF Graph, IsClosed
  <2> QED
    BY <1>3, <1>5, <1>7, <2>1, ReachedLeast
<1>9. \A n \in C : Successors(n) \cup ({ast[n].templated} \ {None}) \subseteq C
  BY <1>4, <1>6 DEF IsClosed
<1> HIDE DEF C
<1> QED
  BY <1>1, <1>6, <1>8, <1>9 DEF U

\* What a template gives access to, and all below it.
LEMMA InTemplateClosed ==
  ASSUME ast \in ASTs
  PROVE  /\ TU \in BelowWithPatterns({TU})
         /\ \A n \in BelowWithPatterns({TU}) :
              /\ n \in DOMAIN ast
              /\ Successors(n) \cup ({ast[n].templated} \ {None}) \subseteq BelowWithPatterns({TU})
              /\ ast[n].kind \in Template =>
                   Range(ast[n].specs) \cup ({ast[n].templated} \ {None}) \subseteq InTemplate
         /\ \A n \in InTemplate : Successors(n) \subseteq InTemplate
         /\ InTemplate \subseteq DOMAIN ast
<1> DEFINE B == BelowWithPatterns({TU})
           R == UNION {Range(ast[n].specs) \cup ({ast[n].templated} \ {None}) :
                         n \in {m \in B : ast[m].kind \in Template}}
           T == BelowWithPatterns(R)
<1>1. {TU} \in SUBSET DOMAIN ast
  BY ASTFacts DEF WellFormed
<1>2. InTemplate = T
  BY DEF InTemplate
<1>3. B = BelowWithPatterns({TU})
  OBVIOUS
<1> HIDE DEF B
<1>4. /\ {TU} \subseteq B /\ B \subseteq DOMAIN ast
      /\ \A n \in B : Successors(n) \cup ({ast[n].templated} \ {None}) \subseteq B
  <2> DEFINE U == {TU}
  <2>1. U \in SUBSET DOMAIN ast /\ B = BelowWithPatterns(U)
    BY <1>1, <1>3
  <2> HIDE DEF U
  <2>2. /\ U \subseteq B /\ B \subseteq DOMAIN ast
        /\ \A n \in B : Successors(n) \cup ({ast[n].templated} \ {None}) \subseteq B
    BY <2>1, PatternsClosed
  <2> QED
    BY <2>2 DEF U
<1>5. R \in SUBSET DOMAIN ast
  <2>1. \A n \in DOMAIN ast : Range(ast[n].specs) \cup ({ast[n].templated} \ {None}) \subseteq DOMAIN ast
    BY NodeFacts
  <2> QED
    BY <1>4, <2>1
<1>6. T = BelowWithPatterns(R)
  OBVIOUS
<1>7. \A n \in B : ast[n].kind \in Template =>
                     Range(ast[n].specs) \cup ({ast[n].templated} \ {None}) \subseteq R
  OBVIOUS
<1> HIDE DEF R, T
<1>8. /\ R \subseteq T /\ T \subseteq DOMAIN ast
      /\ \A n \in T : Successors(n) \cup ({ast[n].templated} \ {None}) \subseteq T
  BY <1>5, <1>6, PatternsClosed
<1> QED
  BY <1>2, <1>3, <1>4, <1>7, <1>8

LEMMA TemplatesFrozen ==
  ASSUME ast' = ast
  PROVE  InTemplate' = InTemplate /\ \A c : Flagged(c)' <=> Flagged(c)
<1>1. BelowWithPatterns({TU})' = BelowWithPatterns({TU})
  BY DEF BelowWithPatterns, Successors, Skipped, Lifted
<1>2. InTemplate' = InTemplate
  BY DEF InTemplate, BelowWithPatterns, Successors, Skipped, Lifted
<1> QED
  BY <1>1, <1>2 DEF Flagged


FlaggedCalls(calls) == calls \in Seq(CallOf) /\ \A c \in Range(calls) : Flagged(c)

LEMMA TopFlagged ==
  ASSUME WInv, TInv, stack # <<>>
  PROVE  decl \in BelowWithPatterns({TU}) /\ (flags # none => decl \in InTemplate)
<1>1. stack[1] \in Range(stack)
  BY TopCall
<1>2. Flagged(stack[1])
  BY <1>1 DEF TInv
<1> QED
  BY <1>2 DEF Flagged, decl, flags

LEMMA TemplateStep ==
  ASSUME WInv, TInv, stack # <<>>, ast' = ast, NEW calls, FlaggedCalls(calls),
         stack' = calls \o Tail(stack), TemplateEntries' \subseteq TemplateEntries \cup InTemplate
  PROVE  TInv'
<1>1. Tail(stack) \in Seq(CallOf) /\ Range(stack) = {stack[1]} \cup Range(Tail(stack))
  BY TopCall
<1>2. Range(stack') = Range(calls) \cup Range(Tail(stack))
  <2>1. calls \in Seq(CallOf)
    BY DEF FlaggedCalls
  <2> DEFINE t == Tail(stack)
  <2>2. t \in Seq(CallOf) /\ stack' = calls \o t
    BY <1>1
  <2> HIDE DEF t
  <2>3. Range(calls \o t) = Range(calls) \cup Range(t)
    BY <2>1, <2>2, RangeOfConcatenation
  <2> QED
    BY <2>2, <2>3 DEF t
<1>3. \A c \in Range(calls) \cup Range(Tail(stack)) : Flagged(c)
  BY <1>1 DEF FlaggedCalls, TInv
<1>4. InTemplate' = InTemplate /\ \A c : Flagged(c)' <=> Flagged(c)
  BY TemplatesFrozen
<1>5. (\A c \in Range(stack) : Flagged(c))'
  BY <1>2, <1>3, <1>4
<1>6. TemplateEntries' \subseteq InTemplate'
  BY <1>4 DEF TInv
<1> QED
  BY <1>5, <1>6 DEF TInv

LEMMA NoFlaggedCalls == FlaggedCalls(<<>>)
<1>1. <<>> \in Seq(CallOf) /\ Range(<<>>) = {}
  BY DEF Range
<1> QED
  BY <1>1 DEF FlaggedCalls

LEMMA FlaggedSuccessors ==
  ASSUME WInv, TInv, stack # <<>>, NEW ds \in Seq(DOMAIN ast), Range(ds) \subseteq Successors(decl)
  PROVE  FlaggedCalls(Calls(ds, flags))
<1>1. flags \in Flags
  BY TopCall
<1>2. decl \in BelowWithPatterns({TU}) /\ (flags # none => decl \in InTemplate)
  BY TopFlagged
<1>3. \A x \in Range(ds) : x \in BelowWithPatterns({TU}) /\ (flags # none => x \in InTemplate)
  BY <1>2, InTemplateClosed DEF WInv
<1>4. ASSUME NEW x \in Range(ds) PROVE Flagged([decl |-> x, flags |-> flags])
  <2> DEFINE c == [decl |-> x, flags |-> flags]
  <2>1. c.decl = x /\ c.flags = flags
    OBVIOUS
  <2> HIDE DEF c
  <2>2. Flagged(c)
    BY <1>3, <2>1 DEF Flagged
  <2> QED
    BY <2>2 DEF c
<1>5. /\ Calls(ds, flags) \in Seq(CallOf)
      /\ Range(Calls(ds, flags)) = {[decl |-> x, flags |-> flags] : x \in Range(ds)}
  BY <1>1, CallsAre
<1> QED
  BY <1>4, <1>5 DEF FlaggedCalls

\* The specializations and the pattern of a template.
LEMMA FlaggedTemplates ==
  ASSUME WInv, TInv, stack # <<>>, ast[decl].kind \in Template, NEW fl \in Flags,
         NEW ds \in Seq(DOMAIN ast),
         Range(ds) \subseteq Range(ast[decl].specs) \cup ({ast[decl].templated} \ {None}),
         Range(ds) \subseteq Successors(decl) \cup ({ast[decl].templated} \ {None})
  PROVE  FlaggedCalls(Calls(ds, fl))
<1>1. decl \in BelowWithPatterns({TU})
  BY TopFlagged
<1>2. \A x \in Range(ds) : x \in BelowWithPatterns({TU}) /\ x \in InTemplate
  BY <1>1, InTemplateClosed DEF WInv
<1>3. ASSUME NEW x \in Range(ds) PROVE Flagged([decl |-> x, flags |-> fl])
  <2> DEFINE c == [decl |-> x, flags |-> fl]
  <2>1. c.decl = x /\ c.flags = fl
    OBVIOUS
  <2> HIDE DEF c
  <2>2. Flagged(c)
    BY <1>2, <2>1 DEF Flagged
  <2> QED
    BY <2>2 DEF c
<1>4. /\ Calls(ds, fl) \in Seq(CallOf)
      /\ Range(Calls(ds, fl)) = {[decl |-> x, flags |-> fl] : x \in Range(ds)}
  BY CallsAre
<1> QED
  BY <1>3, <1>4 DEF FlaggedCalls

LEMMA FlaggedPattern ==
  ASSUME WInv, TInv, stack # <<>>, ast[decl].kind \in Template, NEW C,
         C = IF templates_ THEN Call(ast[decl].templated, set_template(flags)) ELSE <<>>
  PROVE  FlaggedCalls(C)
<1> DEFINE p == ast[decl].templated
<1>1. CASE templates_ /\ p # None
  <2>1. decl \in DOMAIN ast /\ set_template(flags) \in Flags
    BY TopCall DEF Flags, set_template
  <2>2. p \in DOMAIN ast
    BY <1>1, <2>1, NodeFacts DEF WInv
  <2>3. C = Calls(<<p>>, set_template(flags))
    BY <1>1 DEF Call, Calls
  <2> DEFINE ds == <<p>>
  <2>4. ds \in Seq(DOMAIN ast) /\ Range(ds) = {p}
    BY <2>2, Single
  <2> HIDE DEF ds
  <2>5. FlaggedCalls(Calls(ds, set_template(flags)))
    BY <1>1, <2>1, <2>4, FlaggedTemplates
  <2> QED
    BY <2>3, <2>5 DEF ds
<1>2. CASE ~(templates_ /\ p # None)
  <2>1. C = <<>>
    BY <1>2 DEF Call
  <2> QED
    BY <2>1, NoFlaggedCalls
<1> QED
  BY <1>1, <1>2

\* What go lists with the templates is in one.
LEMMA GoSound ==
  ASSUME WInv, TInv, stack # <<>>, NEW xs \in Seq(DOMAIN ast),
         Range(xs) \subseteq {decl} \cup Enumerators(decl),
         mod' = go(mod, xs, flags, TRUE) \/ mod' = go(mod, xs, flags, FALSE)
  PROVE  TemplateEntries' \subseteq TemplateEntries \cup InTemplate
<1>1. mod \in ModuleOf(DOMAIN ast) /\ flags \in Flags /\ decl \in DOMAIN ast /\ ast \in ASTs
  BY TopCall DEF WInv, TypeOK
<1>2. mod.template_declarations \in Seq(DOMAIN ast) /\ mod.template_definitions \in Seq(DOMAIN ast)
  BY <1>1 DEF ModuleOf
<1> DEFINE a == mod.template_declarations  a2 == mod'.template_declarations
           b == mod.template_definitions   b2 == mod'.template_definitions
<1>3. /\ Extends(a, xs, a2) /\ (flags = none => a2 = a)
      /\ Extends(b, xs, b2) /\ (flags = none => b2 = b)
  <2>1. CASE mod' = go(mod, xs, flags, TRUE)
    <3>1. /\ a2 = a /\ Extends(b, xs, b2) /\ (flags = none => b2 = b)
      BY <1>1, <2>1, GoDefines
    <3> QED
      BY <3>1 DEF Extends
  <2>2. CASE mod' = go(mod, xs, flags, FALSE)
    <3>1. /\ b2 = b /\ Extends(a, xs, a2) /\ (flags = none => a2 = a)
      BY <1>1, <2>2, GoDeclares
    <3> QED
      BY <3>1 DEF Extends
  <2> QED
    BY <2>1, <2>2
<1>4. TemplateEntries = Range(a) \cup Range(b) /\ TemplateEntries' = Range(a2) \cup Range(b2)
  BY DEF TemplateEntries
<1>5. a \in Seq(DOMAIN ast) /\ b \in Seq(DOMAIN ast)
  BY <1>2
<1> HIDE DEF a, b, a2, b2
<1>6. Range(a \o xs) = Range(a) \cup Range(xs) /\ Range(b \o xs) = Range(b) \cup Range(xs)
  BY <1>5, RangeOfConcatenation
<1>7. flags # none => Range(xs) \subseteq InTemplate
  <2>1. flags # none => decl \in InTemplate
    BY TopFlagged
  <2>2. Enumerators(decl) \subseteq Successors(decl)
    BY <1>1, EnumeratorsEnd
  <2> QED
    BY <1>1, <2>1, <2>2, InTemplateClosed
<1> QED
  BY <1>3, <1>4, <1>6, <1>7 DEF Extends

LEMMA EntrySound ==
  ASSUME WInv, TInv, stack # <<>>,
         mod' = mod \/ mod' = go(mod, <<decl>>, flags, TRUE) \/ mod' = go(mod, <<decl>>, flags, FALSE)
  PROVE  TemplateEntries' \subseteq TemplateEntries \cup InTemplate
<1>1. decl \in DOMAIN ast
  BY TopCall
<1> DEFINE xs == <<decl>>
<1>2. xs \in Seq(DOMAIN ast) /\ Range(xs) = {decl}
  BY <1>1, Single
<1>3. mod' = mod \/ mod' = go(mod, xs, flags, TRUE) \/ mod' = go(mod, xs, flags, FALSE)
  OBVIOUS
<1> HIDE DEF xs
<1>4. CASE mod' = mod
  BY <1>4 DEF TemplateEntries
<1> QED
  BY <1>2, <1>3, <1>4, GoSound


LEMMA EnterTop ==
  ASSUME NEW kinds, Enter(kinds)
  PROVE  stack # <<>> /\ ast' = ast /\ ast[decl].kind \in kinds
BY DEF Enter, node

LEMMA InitTInv == ASSUME Init PROVE TInv
<1>1. WInv
  BY InitWInv
<1>2. ast \in ASTs /\ stack = Calls(ast[TU].decls, none) /\ mod = EmptyModule
  BY DEF Init
<1>3. TU \in DOMAIN ast /\ ast[TU].kind = "TranslationUnit"
  BY <1>2, ASTFacts DEF WellFormed
<1> DEFINE ds == ast[TU].decls
<1>4. ds \in Seq(DOMAIN ast)
  BY <1>2, <1>3, NodeFacts
<1>5. Successors(TU) = Range(ds)
  BY <1>3 DEF Successors, Skipped, Scope, Template
<1> HIDE DEF ds
<1>6. none \in Flags
  BY DEF none, Flags
<1>7. Range(stack) = {[decl |-> x, flags |-> none] : x \in Range(ds)}
  BY <1>2, <1>4, <1>6, CallsAre DEF ds
<1>8. Range(ds) \subseteq BelowWithPatterns({TU})
  BY <1>2, <1>5, InTemplateClosed
<1>9. ASSUME NEW x \in Range(ds) PROVE Flagged([decl |-> x, flags |-> none])
  <2> DEFINE c == [decl |-> x, flags |-> none]
  <2>1. c.decl = x /\ c.flags = none
    OBVIOUS
  <2> HIDE DEF c
  <2>2. Flagged(c)
    BY <1>8, <2>1 DEF Flagged
  <2> QED
    BY <2>2 DEF c
<1>10. TemplateEntries = {}
  <2>1. Range(<<>>) = {}
    BY DEF Range
  <2> QED
    BY <1>2, <2>1 DEF TemplateEntries, EmptyModule
<1> QED
  BY <1>7, <1>9, <1>10 DEF TInv

LEMMA TemplatesInductive == ASSUME WInv, TInv, Next PROVE TInv'
<1>1. CASE VisitAgain
  <2>1. stack # <<>> /\ ast' = ast /\ stack' = Tail(stack) /\ mod' = mod
    BY <1>1 DEF VisitAgain
  <2>2. Tail(stack) \in Seq(CallOf)
    BY <2>1, TopCall
  <2>3. <<>> \o Tail(stack) = Tail(stack)
    BY <2>2
  <2>4. TemplateEntries' \subseteq TemplateEntries \cup InTemplate
    BY <2>1, EntrySound
  <2> QED
    BY <2>1, <2>3, <2>4, NoFlaggedCalls, TemplateStep
<1>2. CASE VisitIgnored \/ VisitTypedefNameDecl \/ VisitVarDecl
  <2>1. \E kinds : Enter(kinds)
    BY <1>2 DEF VisitIgnored, VisitTypedefNameDecl, VisitVarDecl
  <2>2. stack' = <<>> \o Tail(stack)
    BY <1>2 DEF VisitIgnored, VisitTypedefNameDecl, VisitVarDecl, Then
  <2>3. mod' = mod \/ mod' = go(mod, <<decl>>, flags, TRUE)
    BY <1>2 DEF VisitIgnored, VisitTypedefNameDecl, VisitVarDecl
  <2>4. stack # <<>> /\ ast' = ast
    BY <2>1, EnterTop
  <2>5. TemplateEntries' \subseteq TemplateEntries \cup InTemplate
    BY <2>3, <2>4, EntrySound
  <2> QED
    BY <2>2, <2>4, <2>5, NoFlaggedCalls, TemplateStep
<1>3. CASE VisitStaticAssertDecl
  <2>1. /\ Enter({"StaticAssert"}) /\ stack' = <<>> \o Tail(stack)
        /\ mod' = [mod EXCEPT !.asserts = Append(@, decl)]
    BY <1>3 DEF VisitStaticAssertDecl, Then
  <2>2. stack # <<>> /\ ast' = ast
    BY <2>1, EnterTop
  <2>3. mod \in ModuleOf(DOMAIN ast)
    BY DEF WInv, TypeOK
  <2>4. /\ mod'.template_declarations = mod.template_declarations
        /\ mod'.template_definitions = mod.template_definitions
    BY <2>1, <2>3 DEF ModuleOf
  <2>5. TemplateEntries' \subseteq TemplateEntries \cup InTemplate
    BY <2>4 DEF TemplateEntries
  <2> QED
    BY <2>1, <2>2, <2>5, NoFlaggedCalls, TemplateStep
<1>4. CASE VisitTypeAliasTemplateDecl
  <2> DEFINE C == IF templates_ THEN Call(ast[decl].templated, set_template(flags)) ELSE <<>>
  <2>1. Enter({"TypeAliasTemplate"}) /\ stack' = C \o Tail(stack) /\ mod' = mod
    BY <1>4 DEF VisitTypeAliasTemplateDecl, Then, node
  <2>2. stack # <<>> /\ ast' = ast /\ ast[decl].kind \in Template
    BY <2>1, EnterTop DEF Template
  <2>3. FlaggedCalls(C)
    BY <2>2, FlaggedPattern
  <2>4. TemplateEntries' \subseteq TemplateEntries \cup InTemplate
    BY <2>1, <2>2, EntrySound
  <2> HIDE DEF C
  <2> QED
    BY <2>1, <2>2, <2>3, <2>4, TemplateStep
<1>5. CASE VisitTemplateDecl
  <2> DEFINE K == {"ClassTemplate", "FunctionTemplate", "VarTemplate"}
             Q == IF templates_ THEN Call(ast[decl].templated, set_template(flags)) ELSE <<>>
             ds == ast[decl].specs
             R == Calls(ds, set_specialization(flags))
  <2>1. Enter(K) /\ stack' = (Q \o R) \o Tail(stack) /\ mod' = mod
    BY <1>5 DEF VisitTemplateDecl, Then, node
  <2>2. stack # <<>> /\ ast' = ast /\ ast[decl].kind \in K
    BY <2>1, EnterTop
  <2>3. ast[decl].kind \in Template
    BY <2>2 DEF Template
  <2>4. FlaggedCalls(Q)
    BY <2>2, <2>3, FlaggedPattern
  <2>5. FlaggedCalls(R)
    <3>1. decl \in DOMAIN ast /\ set_specialization(flags) \in Flags
      BY <2>2, TopCall DEF Flags, set_specialization
    <3>2. ds \in Seq(DOMAIN ast)
      BY <3>1, NodeFacts DEF WInv
    <3>3. Range(ds) \subseteq Successors(decl)
      BY <2>2 DEF Successors, Skipped, Scope, Template
    <3>4. Range(ds) \subseteq Range(ast[decl].specs)
      OBVIOUS
    <3> HIDE DEF ds
    <3> QED
      BY <2>2, <2>3, <3>1, <3>2, <3>3, <3>4, FlaggedTemplates
  <2>6. TemplateEntries' \subseteq TemplateEntries \cup InTemplate
    BY <2>1, <2>2, EntrySound
  <2> HIDE DEF Q, R
  <2>7. FlaggedCalls(Q \o R)
    <3>1. Q \in Seq(CallOf) /\ R \in Seq(CallOf)
      BY <2>4, <2>5 DEF FlaggedCalls
    <3>2. Q \o R \in Seq(CallOf) /\ Range(Q \o R) = Range(Q) \cup Range(R)
      BY <3>1, Concatenation, RangeOfConcatenation
    <3> QED
      BY <2>4, <2>5, <3>2 DEF FlaggedCalls
  <2> QED
    BY <2>1, <2>2, <2>6, <2>7, TemplateStep
<1>6. CASE VisitCXXRecordDecl
  <2> DEFINE ds == ast[decl].decls
             skip == \/ "implicit" \in ast[decl].attrs /\ "lambda" \notin ast[decl].attrs
                     \/ "dependent" \in ast[decl].attrs /\ ~templates_
             C == IF skip THEN <<>> ELSE Calls(ds, flags)
  <2>1. Enter({"Record"}) /\ stack' = C \o Tail(stack) /\ mod' = IF skip THEN mod ELSE EntryOfEntity(mod)
    BY <1>6 DEF VisitCXXRecordDecl, Then, node
  <2>2. stack # <<>> /\ ast' = ast /\ ast[decl].kind = "Record"
    BY <2>1, EnterTop
  <2>3. decl \in DOMAIN ast /\ ds \in Seq(DOMAIN ast)
    BY <2>2, TopCall, NodeFacts DEF WInv
  <2>4. ~skip => Range(ds) \subseteq Successors(decl)
    BY <2>2 DEF Successors, Skipped, Scope, Template
  <2>5. mod' = mod \/ mod' = go(mod, <<decl>>, flags, TRUE) \/ mod' = go(mod, <<decl>>, flags, FALSE)
    BY <2>1 DEF EntryOfEntity
  <2>6. TemplateEntries' \subseteq TemplateEntries \cup InTemplate
    BY <2>2, <2>5, EntrySound
  <2> HIDE DEF ds, skip
  <2>7. FlaggedCalls(C)
    <3>1. ~skip => FlaggedCalls(Calls(ds, flags))
      BY <2>2, <2>3, <2>4, FlaggedSuccessors
    <3> QED
      BY <3>1, NoFlaggedCalls
  <2> HIDE DEF C
  <2> QED
    BY <2>1, <2>2, <2>6, <2>7, TemplateStep
<1>7. CASE VisitFunctionDecl
  <2> DEFINE ds == Lifted(ast[decl].decls)
             skip == \/ ast[decl].kind = "Method" /\ "deleted" \in ast[decl].attrs
                     \/ "dependent" \in ast[decl].attrs /\ ~templates_
             lifts == ~skip /\ ast[decl].defn = decl
             C == IF lifts THEN Calls(ds, flags) ELSE <<>>
  <2>1. /\ Enter({"Function", "Method"}) /\ stack' = C \o Tail(stack)
        /\ mod' = IF skip THEN mod ELSE EntryOfEntity(mod)
    BY <1>7 DEF VisitFunctionDecl, Then, node
  <2>2. stack # <<>> /\ ast' = ast /\ ast[decl].kind \in {"Function", "Method"}
    BY <2>1, EnterTop
  <2>3. decl \in DOMAIN ast /\ ds \in Seq(DOMAIN ast)
    BY <2>2, TopCall, NodeFacts DEF WInv
  <2>4. lifts => Range(ds) \subseteq Successors(decl)
    BY <2>2 DEF Successors, Skipped, Scope, Template
  <2>5. mod' = mod \/ mod' = go(mod, <<decl>>, flags, TRUE) \/ mod' = go(mod, <<decl>>, flags, FALSE)
    BY <2>1 DEF EntryOfEntity
  <2>6. TemplateEntries' \subseteq TemplateEntries \cup InTemplate
    BY <2>2, <2>5, EntrySound
  <2> HIDE DEF ds, lifts
  <2>7. FlaggedCalls(C)
    <3>1. lifts => FlaggedCalls(Calls(ds, flags))
      BY <2>2, <2>3, <2>4, FlaggedSuccessors
    <3> QED
      BY <3>1, NoFlaggedCalls
  <2> HIDE DEF C
  <2> QED
    BY <2>1, <2>2, <2>6, <2>7, TemplateStep
<1>8. CASE VisitScopeDecl
  <2> DEFINE ds == ast[decl].decls
  <2>1. Enter({"Namespace", "LinkageSpec"}) /\ mod' = mod
    BY <1>8 DEF VisitScopeDecl
  <2>2. stack # <<>> /\ ast' = ast /\ ast[decl].kind \in {"Namespace", "LinkageSpec"}
    BY <2>1, EnterTop
  <2>3. flags = none /\ decl \in DOMAIN ast
    BY <2>2, TopCall DEF Scope
  <2>4. stack' = Calls(ds, flags) \o Tail(stack)
    BY <1>8, <2>3 DEF VisitScopeDecl, Then, node
  <2>5. ds \in Seq(DOMAIN ast) /\ Range(ds) \subseteq Successors(decl)
    BY <2>2, <2>3, NodeFacts DEF WInv, Successors, Skipped, Scope, Template
  <2> HIDE DEF ds
  <2>6. FlaggedCalls(Calls(ds, flags))
    BY <2>2, <2>5, FlaggedSuccessors
  <2>7. TemplateEntries' \subseteq TemplateEntries \cup InTemplate
    BY <2>1, <2>2, EntrySound
  <2> QED
    BY <2>2, <2>4, <2>6, <2>7, TemplateStep
<1>9. CASE VisitEnumDecl
  <2> DEFINE one == <<decl>>
             ds == ast[decl].decls
             xs == one \o ds
  <2>1. /\ Enter({"Enum"}) /\ stack' = <<>> \o Tail(stack)
        /\ mod' = IF ast[decl].canon = decl THEN go(mod, xs, flags, TRUE) ELSE mod
    BY <1>9 DEF VisitEnumDecl, Then, node
  <2>2. stack # <<>> /\ ast' = ast /\ ast[decl].kind = "Enum"
    BY <2>1, EnterTop
  <2>3. decl \in DOMAIN ast /\ ds \in Seq(DOMAIN ast)
    BY <2>2, TopCall, NodeFacts DEF WInv
  <2>4. one \in Seq(DOMAIN ast) /\ Range(one) = {decl}
    BY <2>3, Single
  <2>5. ast[decl].canon = decl => Range(ds) = Enumerators(decl)
    BY <2>2 DEF Enumerators
  <2> HIDE DEF one, ds
  <2>6. xs \in Seq(DOMAIN ast) /\ Range(xs) = {decl} \cup Range(ds)
    <3>1. xs \in Seq(DOMAIN ast)
      BY <2>3, <2>4, Concatenation
    <3>2. Range(xs) = Range(one) \cup Range(ds)
      BY <2>3, <2>4, RangeOfConcatenation
    <3> QED
      BY <2>4, <3>1, <3>2
  <2> HIDE DEF xs
  <2>7. TemplateEntries' \subseteq TemplateEntries \cup InTemplate
    <3>1. CASE ast[decl].canon = decl
      BY <2>1, <2>2, <2>5, <2>6, <3>1, GoSound
    <3>2. CASE ast[decl].canon # decl
      BY <2>1, <2>2, <3>2, EntrySound
    <3> QED
      BY <3>1, <3>2
  <2> QED
    BY <2>1, <2>2, <2>7, NoFlaggedCalls, TemplateStep
<1>10. CASE VisitFriendDecl
  <2> DEFINE x == ast[decl].friend
             C == Call(x, flags)
  <2>1. Enter({"Friend"}) /\ stack' = C \o Tail(stack) /\ mod' = mod
    BY <1>10 DEF VisitFriendDecl, Then, node
  <2>2. stack # <<>> /\ ast' = ast /\ ast[decl].kind = "Friend"
    BY <2>1, EnterTop
  <2>3. decl \in DOMAIN ast /\ x \in DOMAIN ast \cup {None}
    BY <2>2, TopCall, NodeFacts DEF WInv
  <2>4. Successors(decl) = {x} \ {None}
    BY <2>2 DEF Successors, Skipped, Scope, Template
  <2> HIDE DEF x
  <2>5. FlaggedCalls(C)
    <3>1. CASE x = None
      BY <3>1, NoFlaggedCalls DEF Call
    <3>2. CASE x # None
      <4> DEFINE ds == <<x>>
      <4>1. C = Calls(ds, flags)
        BY <3>2 DEF Call, Calls
      <4>2. ds \in Seq(DOMAIN ast) /\ Range(ds) = {x}
        BY <2>3, <3>2, Single
      <4> HIDE DEF ds
      <4>3. FlaggedCalls(Calls(ds, flags))
        BY <2>2, <2>4, <3>2, <4>2, FlaggedSuccessors
      <4> QED
        BY <4>1, <4>3
    <3> QED
      BY <3>1, <3>2
  <2>6. TemplateEntries' \subseteq TemplateEntries \cup InTemplate
    BY <2>1, <2>2, EntrySound
  <2> HIDE DEF C
  <2> QED
    BY <2>1, <2>2, <2>5, <2>6, TemplateStep
<1> QED
  BY <1>1, <1>2, <1>3, <1>4, <1>5, <1>6, <1>7, <1>8, <1>9, <1>10 DEF Next

\* Each call is flagged as its declaration is.
LEMMA FlaggedInductive == ASSUME WInv, TInv, [Next]_vars PROVE TInv'
<1>1. CASE UNCHANGED vars
  <2>1. ast' = ast /\ stack' = stack /\ mod' = mod
    BY <1>1 DEF vars
  <2>2. InTemplate' = InTemplate /\ \A c : Flagged(c)' <=> Flagged(c)
    BY <2>1, TemplatesFrozen
  <2> QED
    BY <2>1, <2>2 DEF TInv, TemplateEntries
<1>2. CASE Next
  BY <1>2, TemplatesInductive
<1> QED
  BY <1>1, <1>2

LEMMA TemplateListRange == ASSUME WInv PROVE Range(TemplateList) = TemplateEntries
<1>1. mod.template_declarations \in Seq(DOMAIN ast) /\ mod.template_definitions \in Seq(DOMAIN ast)
  BY DEF WInv, TypeOK, ModuleOf
<1> QED
  BY <1>1, RangeOfConcatenation DEF TemplateList, TemplateEntries

(* set_template and set_specialization change the flags of the calls below a *)
(* template only: what is listed with the templates is in one.               *)
THEOREM TemplatesAreSound == Spec => []TemplatesSound
<1>1. Init => TInv
  BY InitTInv
<1>2. WInv /\ TInv /\ [Next]_vars => TInv'
  BY FlaggedInductive
<1>3. WInv /\ TInv => TemplatesSound
  BY TemplateListRange DEF TemplatesSound, TInv
<1> QED
  BY <1>1, <1>2, <1>3, WalkInductive, PTL DEF Spec


----------------------------------------------------------------------------
(* With --templates, all that is in a template is listed with the          *)
(* templates, if the text is in source order.                              *)

\* What a declaration gives access to, the pattern of a template included.
Gives(n) == Successors(n) \cup ({ast[n].templated} \ {None})

\* What is in a template and has been walked.
Handled ==
  (visited_ \cap InTemplate) \cup UNION {Enumerators(n) : n \in visited_ \cap InTemplate}

\* What will be visited with flags.
Marked == {c.decl : c \in {d \in Range(stack) : d.flags # none}}

\* What a walked declaration gives access to has been walked or will be; what
\* is in a template, with the flags that say so.
Covered ==
  \A n \in visited_ \cup {TU} : \A x \in Gives(n) :
    /\ x \in Walked \cup ToWalk
    /\ n \in InTemplate \/ ast[n].kind \in Template => x \in Handled \cup Marked

HandledListed == \A n \in Handled : IsEntry(n) => n \in TemplateEntries

\* The calls without flags are the last of the stack and in source order.
Sorted(s, begin, end) ==
  \A i, j \in 1 .. Len(s) :
    i < j /\ s[i].flags = none => s[j].flags = none /\ end[s[i].decl] < begin[s[j].decl]

Outside == Below({TU}) \ InTemplate

PlainCall(c, begin) ==
  c.flags = none =>
    /\ c.decl \in Below({TU})
    /\ c.decl \in InTemplate => \E g \in Outside : Follows(c.decl, g, begin)

OInv(begin, end) ==
  /\ begin \in [DOMAIN ast -> Nat] /\ end \in [DOMAIN ast -> Nat]
  /\ SourceOrder(begin, end, InTemplate, Outside)
  /\ Sorted(stack, begin, end)
  /\ \A c \in Range(stack) : PlainCall(c, begin)
  /\ Covered
  /\ HandledListed

CInv == templates_ => \E begin, end : OInv(begin, end)

\* Only a template has a pattern; an enumerator gives access to nothing.
LEMMA GivesIs ==
  ASSUME ast \in ASTs, NEW n \in DOMAIN ast
  PROVE  /\ Gives(n) \subseteq DOMAIN ast
         /\ ast[n].kind \notin Template => Gives(n) = Successors(n)
         /\ ast[n].kind \in Template =>
              Range(ast[n].specs) \cup ({ast[n].templated} \ {None}) \subseteq Gives(n)
         /\ ast[n].kind = "EnumConstant" => Gives(n) = {}
<1>1. /\ ast[n].kind \notin Template => ast[n].templated = None
      /\ ast[n].kind \notin Template \ {"TypeAliasTemplate"} => ast[n].specs = <<>>
  BY ASTFacts DEF WellFormed
<1>2. Gives(n) \subseteq DOMAIN ast
  BY NodeFacts, SuccessorsAreNodes DEF Gives
<1>3. ast[n].kind \in Template => Range(ast[n].specs) \subseteq Successors(n)
  <2>1. CASE ast[n].kind = "TypeAliasTemplate"
    <3>1. ast[n].specs = <<>>
      BY <1>1, <2>1
    <3>2. Range(<<>>) = {}
      BY DEF Range
    <3> QED BY <3>1, <3>2
  <2>2. CASE ast[n].kind \in Template \ {"TypeAliasTemplate"}
    BY <2>2 DEF Successors, Skipped, Scope, Template
  <2> QED BY <2>1, <2>2
<1>4. ast[n].kind = "EnumConstant" => Successors(n) = {} /\ ast[n].kind \notin Template
  BY DEF Successors, Skipped, Scope, Template
<1> QED
  BY <1>1, <1>2, <1>3, <1>4 DEF Gives

\* The closure with patterns is the least one.
LEMMA PatternsLeast ==
  ASSUME ast \in ASTs, NEW S \in SUBSET DOMAIN ast, NEW T, S \subseteq T,
         \A n \in T \cap DOMAIN ast : Gives(n) \subseteq T
  PROVE  BelowWithPatterns(S) \subseteq T
<1> DEFINE U == DOMAIN ast
           W == T \cap U
<1>1. IsFiniteSet(U)
  BY ASTFacts DEF WellFormed
<1>2. Cardinality(U) \in Nat
  BY <1>1, FS_CardinalityType
<1>3. BelowWithPatterns(S) = Reached(PatternGraph, S, Cardinality(U))
  BY DEF BelowWithPatterns, PatternGraph
<1>4. \A n \in U : PatternGraph[n] = Gives(n) /\ Gives(n) \subseteq U
  BY GivesIs DEF PatternGraph, Gives
<1>5. IsClosed(PatternGraph, W)
  <2> SUFFICES ASSUME NEW n \in W PROVE PatternGraph[n] \subseteq W
    BY DEF IsClosed
  <2> QED BY <1>4
<1>6. S \subseteq W
  OBVIOUS
<1> HIDE DEF U, W, PatternGraph
<1>7. Reached(PatternGraph, S, Cardinality(U)) \subseteq W
  BY <1>2, <1>5, <1>6, ReachedLeast
<1> QED
  BY <1>3, <1>7 DEF W

LEMMA InTemplateLeast ==
  ASSUME ast \in ASTs, NEW T,
         \A n \in BelowWithPatterns({TU}) : ast[n].kind \in Template =>
            Range(ast[n].specs) \cup ({ast[n].templated} \ {None}) \subseteq T,
         \A n \in T \cap DOMAIN ast : Gives(n) \subseteq T
  PROVE  InTemplate \subseteq T
<1> DEFINE R == UNION {Range(ast[n].specs) \cup ({ast[n].templated} \ {None}) :
                         n \in {m \in BelowWithPatterns({TU}) : ast[m].kind \in Template}}
<1>1. InTemplate = BelowWithPatterns(R)
  BY DEF InTemplate
<1>2. R \subseteq T
  OBVIOUS
<1>3. R \in SUBSET DOMAIN ast
  <2>1. \A n \in BelowWithPatterns({TU}) : n \in DOMAIN ast
    BY InTemplateClosed
  <2>2. \A n \in DOMAIN ast : Range(ast[n].specs) \cup ({ast[n].templated} \ {None}) \subseteq DOMAIN ast
    BY NodeFacts
  <2> QED BY <2>1, <2>2
<1> HIDE DEF R
<1> QED
  BY <1>1, <1>2, <1>3, PatternsLeast

\* No scope is in a template.
LEMMA ScopesOutside ==
  ASSUME ast \in ASTs
  PROVE  TU \in Outside
<1> DEFINE T == {n \in DOMAIN ast : ast[n].kind \notin Scope}
<1>1. \A n \in DOMAIN ast :
        /\ \A c \in Range(ast[n].decls) : ast[c].kind \in Scope => ast[n].kind \in Scope
        /\ \A c \in Range(ast[n].specs) \cup ({ast[n].templated, ast[n].friend} \ {None}) :
             ast[c].kind \notin Scope
  BY ASTFacts DEF WellFormed
<1>2. ASSUME NEW n \in T PROVE Gives(n) \subseteq T
  <2>1. n \in DOMAIN ast /\ ast[n].kind \notin Scope
    OBVIOUS
  <2>2. Gives(n) \subseteq DOMAIN ast
    BY <2>1, GivesIs
  <2>3. Range(Lifted(ast[n].decls)) \subseteq Range(ast[n].decls)
    BY <2>1, NodeFacts
  <2>4. \A c \in Successors(n) : ast[c].kind \notin Scope
    BY <1>1, <2>1, <2>3 DEF Successors
  <2>5. \A c \in {ast[n].templated} \ {None} : ast[c].kind \notin Scope
    BY <1>1, <2>1
  <2> QED
    BY <2>2, <2>4, <2>5 DEF Gives
<1>3. \A n \in BelowWithPatterns({TU}) : n \in DOMAIN ast
  BY InTemplateClosed
<1>4. \A n \in DOMAIN ast :
        Range(ast[n].specs) \cup ({ast[n].templated} \ {None}) \subseteq T
  BY <1>1, NodeFacts
<1> HIDE DEF T
<1>5. InTemplate \subseteq T
  BY <1>2, <1>3, <1>4, InTemplateLeast
<1>6. ast[TU].kind \in Scope
  BY ASTFacts DEF WellFormed, Scope
<1>7. TU \in Below({TU})
  BY BelowTU
<1> QED
  BY <1>5, <1>6, <1>7 DEF T, Outside

\* What has been walked are declarations; an enumerator gives access to nothing.
LEMMA WalkedNodes ==
  ASSUME WInv
  PROVE  /\ visited_ \subseteq DOMAIN ast /\ Handled \subseteq Walked /\ Walked \subseteq DOMAIN ast
         /\ \A n \in Walked : n \in visited_ \/ ast[n].kind = "EnumConstant"
         /\ \A n \in Handled : n \in visited_ \cap InTemplate \/ ast[n].kind = "EnumConstant"
<1>1. ast \in ASTs /\ visited_ \subseteq DOMAIN ast
  BY DEF WInv, TypeOK
<1>2. WellFormed(ast)
  BY <1>1, ASTFacts
<1>3. \A n \in DOMAIN ast : \A x \in Enumerators(n) : ast[x].kind = "EnumConstant"
  BY <1>2 DEF WellFormed, Enumerators
<1>4. Walked \subseteq DOMAIN ast
  BY WalkedAreNodes
<1> QED
  BY <1>1, <1>3, <1>4 DEF Handled, Walked

\* What has been walked in templates is closed once no flagged call is left.
LEMMA HandledClosed ==
  ASSUME WInv, Covered, Marked = {}
  PROVE  /\ \A n \in Handled : Gives(n) \subseteq Handled
         /\ \A n \in visited_ : ast[n].kind \in Template => Gives(n) \subseteq Handled
<1>1. ast \in ASTs
  BY DEF WInv
<1>2. \A n \in visited_ \cap InTemplate : Gives(n) \subseteq Handled
  BY DEF Covered
<1>3. \A n \in visited_ : ast[n].kind \in Template => Gives(n) \subseteq Handled
  BY DEF Covered
<1>4. \A n \in Handled : ast[n].kind = "EnumConstant" => Gives(n) = {}
  BY <1>1, WalkedNodes, GivesIs
<1> QED
  BY <1>2, <1>3, <1>4, WalkedNodes

\* In front of a call without flags, what precedes it outside templates has
\* been walked.
LEMMA EarlierIsWalked ==
  ASSUME WInv, TInv, NEW begin, NEW end, OInv(begin, end), stack # <<>>, flags = none,
         NEW g \in Outside, begin[g] < begin[decl]
  PROVE  g \in Walked \cup {TU}
<1> DEFINE Later == {x \in Outside : \E c \in Range(stack) : c.flags = none /\ begin[c.decl] <= begin[x]}
           T == Walked \cup {TU} \cup InTemplate \cup Later
<1>1. ast \in ASTs /\ begin \in [DOMAIN ast -> Nat] /\ end \in [DOMAIN ast -> Nat]
  BY DEF WInv, OInv
<1>2. stack \in Seq(CallOf) /\ Len(stack) \in Nat \ {0} /\ decl \in DOMAIN ast
  <2>1. stack \in Seq(CallOf)
    BY DEF WInv, TypeOK, CallOf
  <2> QED BY <2>1, TailOf, TopCall
<1>3. Outside \subseteq DOMAIN ast /\ \A n \in Outside : Successors(n) \subseteq Outside \cup InTemplate
  BY <1>1, BelowTU DEF Outside
<1>4. SourceOrder(begin, end, InTemplate, Outside)
  BY DEF OInv
<1>5. \A n \in DOMAIN ast : begin[n] \in Nat /\ end[n] \in Nat /\ begin[n] <= end[n]
  BY <1>1, <1>4 DEF SourceOrder
<1>6. ASSUME NEW c \in Range(stack), c.flags = none
      PROVE  c.decl \in DOMAIN ast /\ begin[decl] <= begin[c.decl]
  <2>1. PICK i \in 1 .. Len(stack) : c = stack[i]
    BY <1>2, <1>6 DEF Range
  <2>2. c \in CallOf
    BY <1>2, <2>1
  <2>3. c.decl \in DOMAIN ast
    BY <2>2 DEF CallOf
  <2>4. CASE i = 1
    BY <1>5, <2>1, <2>3, <2>4 DEF decl
  <2>5. CASE i # 1
    <3>1. 1 \in 1 .. Len(stack) /\ 1 < i
      BY <1>2, <2>5
    <3>2. end[decl] < begin[c.decl]
      BY <2>1, <3>1 DEF OInv, Sorted, decl, flags
    <3> QED BY <1>2, <1>5, <2>3, <3>2
  <2> QED BY <2>4, <2>5
<1>7. ASSUME NEW n \in visited_ \cup {TU}, NEW x \in Successors(n) PROVE x \in T
  <2>1. x \in Gives(n)
    BY DEF Gives
  <2>2. x \in Walked \cup ToWalk
    BY <2>1 DEF OInv, Covered
  <2>3. CASE x \in ToWalk
    <3>1. PICK c \in Range(stack) : x = c.decl
      BY <2>3 DEF ToWalk
    <3>2. CASE c.flags # none
      BY <3>1, <3>2 DEF TInv, Flagged
    <3>3. CASE c.flags = none
      <4>1. x \in Below({TU})
        BY <3>1, <3>3 DEF OInv, PlainCall
      <4>2. begin[c.decl] <= begin[x]
        BY <1>5, <1>6, <3>1, <3>3
      <4> QED BY <3>1, <3>3, <4>1, <4>2 DEF Outside
    <3> QED BY <3>2, <3>3
  <2> QED BY <2>2, <2>3
<1>8. ASSUME NEW n \in Later, NEW x \in Successors(n) PROVE x \in T
  <2>1. PICK c \in Range(stack) : c.flags = none /\ begin[c.decl] <= begin[n]
    OBVIOUS
  <2>2. n \in Outside /\ n \in DOMAIN ast /\ x \in DOMAIN ast
    BY <1>1, <1>3, SuccessorsAreNodes
  <2>3. CASE ast[n].kind \in Template
    <3>1. n \in BelowWithPatterns({TU})
      <4>1. \A m \in BelowWithPatterns({TU}) \cap DOMAIN ast :
               Successors(m) \subseteq BelowWithPatterns({TU})
        BY <1>1, InTemplateClosed
      <4>2. TU \in BelowWithPatterns({TU})
        BY <1>1, InTemplateClosed
      <4>3. Below({TU}) \subseteq BelowWithPatterns({TU})
        BY <1>1, <4>1, <4>2, BelowTU
      <4> QED BY <2>2, <4>3 DEF Outside
    <3>2. Range(ast[n].specs) \subseteq InTemplate
      BY <1>1, <2>3, <3>1, InTemplateClosed
    <3>3. Successors(n) \subseteq Range(ast[n].specs)
      BY <2>3 DEF Successors, Skipped, Scope, Template
    <3> QED BY <3>2, <3>3
  <2>4. CASE ast[n].kind \notin Template
    <3>1. begin[n] <= begin[x]
      BY <1>4, <2>2, <2>4 DEF SourceOrder
    <3>2. c.decl \in DOMAIN ast
      BY <1>6, <2>1
    <3>3. begin[c.decl] <= begin[x]
      BY <1>5, <2>1, <2>2, <3>1, <3>2
    <3>4. x \in Outside \cup InTemplate
      BY <1>3, <2>2
    <3> QED BY <2>1, <3>3, <3>4
  <2> QED BY <2>3, <2>4
<1>9. \A n \in InTemplate : Successors(n) \subseteq InTemplate
  BY <1>1, InTemplateClosed
<1>10. ASSUME NEW n \in T \cap DOMAIN ast PROVE Successors(n) \subseteq T
  <2>1. CASE n \in visited_ \cup {TU}
    BY <1>7, <2>1
  <2>2. CASE ast[n].kind = "EnumConstant"
    BY <2>2 DEF Successors, Skipped, Scope, Template
  <2>3. CASE n \in InTemplate
    BY <1>9, <2>3
  <2>4. CASE n \in Later
    BY <1>8, <2>4
  <2> QED BY <2>1, <2>2, <2>3, <2>4, WalkedNodes
<1>11. TU \in T
  OBVIOUS
<1> HIDE DEF T
<1>12. Below({TU}) \subseteq T
  BY <1>1, <1>10, <1>11, BelowTU
<1>13. g \notin Later
  BY <1>2, <1>3, <1>5, <1>6
<1> QED
  BY <1>12, <1>13 DEF T, Outside

\* Without flags, the walk comes to what is in a template only after it has
\* been visited from the template.
LEMMA MetInTemplate ==
  ASSUME WInv, TInv, NEW begin, NEW end, OInv(begin, end), stack # <<>>, flags = none,
         decl \in InTemplate, ast[decl].kind # "EnumConstant"
  PROVE  decl \in visited_
<1>1. ast \in ASTs
  BY DEF WInv
<1>2. stack \in Seq(CallOf) /\ Len(stack) \in Nat \ {0}
  <2>1. stack \in Seq(CallOf)
    BY DEF WInv, TypeOK, CallOf
  <2> QED BY <2>1, TailOf
<1>3. stack[1] \in Range(stack)
  BY TopCall
<1>4. PICK g \in Outside : Follows(decl, g, begin)
  BY <1>3 DEF OInv, PlainCall, decl, flags
<1>5. g \in Walked \cup {TU}
  BY <1>4, EarlierIsWalked DEF Follows
<1>6. ast[g].kind \in Template /\ ast[TU].kind \notin Template
  BY <1>1, <1>4, ASTFacts DEF Follows, WellFormed, Template
<1>7. g \in visited_
  BY <1>5, <1>6, WalkedNodes DEF Template
<1>8. Marked = {}
  <2> SUFFICES ASSUME NEW c \in Range(stack) PROVE c.flags = none
    BY DEF Marked
  <2>1. PICK i \in 1 .. Len(stack) : c = stack[i]
    BY <1>2 DEF Range
  <2>2. CASE i = 1
    BY <2>1, <2>2 DEF flags
  <2>3. CASE i # 1
    <3>1. 1 \in 1 .. Len(stack) /\ 1 < i
      BY <1>2, <2>3
    <3> QED BY <2>1, <3>1 DEF OInv, Sorted, flags
  <2> QED BY <2>2, <2>3
<1> DEFINE S == Range(ast[g].specs) \cup ({ast[g].templated} \ {None})
<1>9. Covered
  BY DEF OInv
<1>10. g \in DOMAIN ast /\ S \in SUBSET DOMAIN ast
  BY <1>1, <1>7, WalkedNodes, NodeFacts
<1>11. S \subseteq Handled
  BY <1>1, <1>6, <1>7, <1>8, <1>9, <1>10, GivesIs, HandledClosed
<1>12. \A n \in Handled \cap DOMAIN ast : Gives(n) \subseteq Handled
  BY <1>8, <1>9, HandledClosed
<1>13. decl \in BelowWithPatterns(S)
  BY <1>4 DEF Follows
<1> HIDE DEF S
<1>14. decl \in Handled
  BY <1>1, <1>10, <1>11, <1>12, <1>13, PatternsLeast
<1> QED
  BY <1>14, WalkedNodes

----------------------------------------------------------------------------
(* One call of Visit: flags and order.                                     *)

LEMMA SortedTail ==
  ASSUME NEW S, NEW s \in Seq(S), s # <<>>, NEW begin, NEW end, Sorted(s, begin, end)
  PROVE  /\ Sorted(Tail(s), begin, end)
         /\ s[1].flags = none =>
              \A c \in Range(Tail(s)) : c.flags = none /\ end[s[1].decl] < begin[c.decl]
<1> DEFINE t == Tail(s)
<1>1. /\ t \in Seq(S) /\ Len(t) = Len(s) - 1 /\ Len(s) \in Nat \ {0}
      /\ \A i \in 1 .. Len(s) - 1 : t[i] = s[i + 1]
  BY TailOf
<1> HIDE DEF t
<1>2. \A i \in 1 .. Len(t) : i + 1 \in 1 .. Len(s) /\ 1 < i + 1 /\ t[i] = s[i + 1]
  BY <1>1
<1>3. Sorted(t, begin, end)
  <2> SUFFICES ASSUME NEW i \in 1 .. Len(t), NEW j \in 1 .. Len(t), i < j, t[i].flags = none
               PROVE  t[j].flags = none /\ end[t[i].decl] < begin[t[j].decl]
    BY DEF Sorted
  <2>1. i + 1 < j + 1
    BY <1>1
  <2>2. /\ i + 1 \in 1 .. Len(s) /\ t[i] = s[i + 1]
        /\ j + 1 \in 1 .. Len(s) /\ t[j] = s[j + 1]
    BY <1>2
  <2>3. s[i + 1].flags = none
    BY <2>2
  <2>4. s[j + 1].flags = none /\ end[s[i + 1].decl] < begin[s[j + 1].decl]
    BY <2>1, <2>2, <2>3 DEF Sorted
  <2> QED BY <2>2, <2>4
<1>4. ASSUME s[1].flags = none, NEW c \in Range(t)
      PROVE  c.flags = none /\ end[s[1].decl] < begin[c.decl]
  <2>1. PICK i \in 1 .. Len(t) : c = t[i]
    BY <1>1, <1>4 DEF Range
  <2>2. 1 \in 1 .. Len(s)
    BY <1>1
  <2> QED BY <1>2, <1>4, <2>1, <2>2 DEF Sorted
<1> QED
  BY <1>3, <1>4 DEF t

LEMMA SortedConcatenation ==
  ASSUME NEW S, NEW s \in Seq(S), NEW t \in Seq(S), NEW begin, NEW end,
         Sorted(s, begin, end), Sorted(t, begin, end),
         \A c \in Range(s), d \in Range(t) :
           c.flags = none => d.flags = none /\ end[c.decl] < begin[d.decl]
  PROVE  Sorted(s \o t, begin, end)
<1> DEFINE u == s \o t
<1>1. /\ Len(u) = Len(s) + Len(t) /\ Len(s) \in Nat /\ Len(t) \in Nat
      /\ \A i \in 1 .. Len(s) : u[i] = s[i]
      /\ \A i \in 1 .. Len(t) : u[i + Len(s)] = t[i]
  BY Concatenation
<1>2. /\ \A i \in 1 .. Len(s) : s[i] \in Range(s)
      /\ \A i \in 1 .. Len(t) : t[i] \in Range(t)
  BY RangeOf
<1> HIDE DEF u
<1>3. \A i \in 1 .. Len(u) : \/ i \in 1 .. Len(s) /\ u[i] = s[i]
                             \/ /\ i > Len(s) /\ i - Len(s) \in 1 .. Len(t)
                                /\ u[i] = t[i - Len(s)]
  <2> SUFFICES ASSUME NEW i \in 1 .. Len(u), i \notin 1 .. Len(s)
               PROVE  i > Len(s) /\ i - Len(s) \in 1 .. Len(t) /\ u[i] = t[i - Len(s)]
    BY <1>1
  <2>1. i > Len(s) /\ i - Len(s) \in 1 .. Len(t) /\ (i - Len(s)) + Len(s) = i
    BY <1>1
  <2> QED BY <1>1, <2>1
<1> SUFFICES ASSUME NEW i \in 1 .. Len(u), NEW j \in 1 .. Len(u), i < j, u[i].flags = none
             PROVE  u[j].flags = none /\ end[u[i].decl] < begin[u[j].decl]
  BY DEF Sorted, u
<1>4. CASE i \in 1 .. Len(s) /\ j \in 1 .. Len(s)
  BY <1>1, <1>4 DEF Sorted
<1>5. CASE i \in 1 .. Len(s) /\ j \notin 1 .. Len(s)
  <2>1. u[i] \in Range(s) /\ u[j] \in Range(t)
    BY <1>1, <1>2, <1>3, <1>5
  <2> QED BY <2>1
<1>6. CASE i \notin 1 .. Len(s)
  <2>1. j \notin 1 .. Len(s)
    BY <1>1, <1>6
  <2>2. /\ i - Len(s) \in 1 .. Len(t) /\ u[i] = t[i - Len(s)]
        /\ j - Len(s) \in 1 .. Len(t) /\ u[j] = t[j - Len(s)]
    BY <1>3, <1>6, <2>1
  <2>3. i - Len(s) < j - Len(s)
    BY <1>1
  <2> QED BY <2>2, <2>3 DEF Sorted
<1> QED
  BY <1>4, <1>5, <1>6

\* The calls that a declaration makes: all that it gives access to, with
\* flags if it has some or is a template, otherwise without and in order.
Visits(calls, begin, end) ==
  /\ calls \in Seq(CallOf)
  /\ Gives(decl) \subseteq Enumerators(decl) \cup {c.decl : c \in Range(calls)}
  /\ flags # none \/ ast[decl].kind \in Template => \A c \in Range(calls) : c.flags # none
  /\ flags = none /\ ast[decl].kind \notin Template =>
       /\ Sorted(calls, begin, end)
       /\ \A c \in Range(calls) : c.flags = none /\ c.decl \in Successors(decl)

\* What a call with flags lists, it lists with the templates.
ListsInTemplates ==
  /\ TemplateEntries \subseteq TemplateEntries'
  /\ flags # none =>
       \A n \in {decl} \cup Enumerators(decl) : IsEntry(n) => n \in TemplateEntries'

\* A declaration that is visited without flags is outside templates.
LEMMA EnteredOutside ==
  ASSUME WInv, TInv, NEW begin, NEW end, OInv(begin, end), Enter(Visitable)
  PROVE  (flags = none => decl \in Outside) /\ (flags # none => decl \in InTemplate)
<1>1. stack # <<>> /\ decl \notin visited_ /\ ast[decl].kind # "EnumConstant"
  BY DEF Enter, node, Visitable
<1>2. flags # none => decl \in InTemplate
  BY <1>1, TopFlagged
<1>3. ASSUME flags = none PROVE decl \in Outside
  <2>1. stack[1] \in Range(stack)
    BY <1>1, TopCall
  <2>2. decl \in Below({TU})
    BY <1>3, <2>1 DEF OInv, PlainCall, decl, flags
  <2>3. decl \notin InTemplate
    BY <1>1, <1>3, MetInTemplate
  <2> QED BY <2>2, <2>3 DEF Outside
<1> QED
  BY <1>2, <1>3

LEMMA SortedStep ==
  ASSUME WInv, TInv, NEW begin, NEW end, OInv(begin, end), Enter(Visitable),
         NEW calls, Visits(calls, begin, end), stack' = calls \o Tail(stack)
  PROVE  Sorted(stack', begin, end) /\ \A c \in Range(stack') : PlainCall(c, begin)
<1> DEFINE t == Tail(stack)
<1>1. stack # <<>>
  BY DEF Enter
<1>2. stack \in Seq(CallOf) /\ t \in Seq(CallOf) /\ Range(stack) = {stack[1]} \cup Range(t)
  BY <1>1, TopCall DEF WInv, TypeOK, CallOf
<1>3. /\ Sorted(t, begin, end)
      /\ flags = none => \A c \in Range(t) : c.flags = none /\ end[decl] < begin[c.decl]
  BY <1>1, <1>2, SortedTail DEF OInv, flags, decl
<1>4. calls \in Seq(CallOf)
  BY DEF Visits
<1>5. \A c \in Range(t) : PlainCall(c, begin)
  BY <1>2 DEF OInv
<1>6. Range(t) \subseteq CallOf /\ Range(calls) \subseteq CallOf
  BY <1>2, <1>4, RangeOf
<1> HIDE DEF t
<1>7. stack' = calls \o t /\ Range(stack') = Range(calls) \cup Range(t)
  <2>1. stack' = calls \o t
    BY DEF t
  <2>2. Range(calls \o t) = Range(calls) \cup Range(t)
    BY <1>2, <1>4, RangeOfConcatenation
  <2> QED BY <2>1, <2>2
<1>8. CASE flags # none \/ ast[decl].kind \in Template
  <2>1. \A c \in Range(calls) : c.flags # none
    BY <1>8 DEF Visits
  <2>2. Sorted(calls, begin, end)
    <3>1. \A i \in 1 .. Len(calls) : calls[i] \in Range(calls)
      BY <1>4, RangeOf
    <3> QED BY <2>1, <3>1 DEF Sorted
  <2>3. Sorted(calls \o t, begin, end)
    BY <1>2, <1>3, <1>4, <2>1, <2>2, SortedConcatenation
  <2>4. \A c \in Range(calls) : PlainCall(c, begin)
    BY <2>1 DEF PlainCall
  <2> QED BY <1>5, <1>7, <2>3, <2>4
<1>9. CASE flags = none /\ ast[decl].kind \notin Template
  <2>1. /\ Sorted(calls, begin, end)
        /\ \A c \in Range(calls) : c.flags = none /\ c.decl \in Successors(decl)
    BY <1>9 DEF Visits
  <2>2. decl \in Outside
    BY <1>9, EnteredOutside
  <2>3. SourceOrder(begin, end, InTemplate, Outside)
    BY DEF OInv
  <2>4. \A x \in Successors(decl) :
          /\ end[x] <= end[decl]
          /\ x \in InTemplate => \E g \in Outside : Follows(x, g, begin)
    BY <1>9, <2>2, <2>3 DEF SourceOrder
  <2>5. \A x \in Successors(decl) : x \in Below({TU})
    BY <2>2, BelowTU DEF WInv, Outside
  <2>6. \A c \in Range(calls) : PlainCall(c, begin)
    BY <2>1, <2>4, <2>5 DEF PlainCall
  <2>7. ASSUME NEW c \in Range(calls), NEW d \in Range(t)
        PROVE  d.flags = none /\ end[c.decl] < begin[d.decl]
    <3>1. d.flags = none /\ end[decl] < begin[d.decl]
      BY <1>3, <1>9
    <3>2. end[c.decl] <= end[decl]
      BY <2>1, <2>4
    <3>3. end[c.decl] \in Nat /\ end[decl] \in Nat /\ begin[d.decl] \in Nat
      <4>1. c.decl \in DOMAIN ast /\ d.decl \in DOMAIN ast
        BY <1>6 DEF CallOf
      <4>2. decl \in DOMAIN ast
        BY <1>1, TopCall
      <4>3. begin \in [DOMAIN ast -> Nat] /\ end \in [DOMAIN ast -> Nat]
        BY DEF OInv
      <4> QED BY <4>1, <4>2, <4>3
    <3> QED BY <3>1, <3>2, <3>3
  <2>8. Sorted(calls \o t, begin, end)
    BY <1>2, <1>3, <1>4, <2>1, <2>7, SortedConcatenation
  <2> QED BY <1>5, <1>7, <2>6, <2>8
<1> QED
  BY <1>8, <1>9

LEMMA OrderFrozen ==
  ASSUME ast' = ast
  PROVE  /\ InTemplate' = InTemplate /\ Outside' = Outside
         /\ \A n : Gives(n)' = Gives(n)
         /\ \A c, begin : PlainCall(c, begin)' <=> PlainCall(c, begin)
         /\ \A begin, end : SourceOrder(begin, end, InTemplate, Outside)'
                              <=> SourceOrder(begin, end, InTemplate, Outside)
<1>1. InTemplate' = InTemplate
  BY TemplatesFrozen
<1>2. Below({TU})' = Below({TU}) /\ \A n : Successors(n)' = Successors(n)
  BY Frozen
<1>3. Outside' = Outside
  BY <1>1, <1>2 DEF Outside
<1>4. \A n : Gives(n)' = Gives(n)
  BY <1>2 DEF Gives
<1>5. \A c, g, begin : Follows(c, g, begin)' <=> Follows(c, g, begin)
  BY DEF Follows, BelowWithPatterns, Successors, Skipped, Lifted
<1>6. \A c, begin : PlainCall(c, begin)' <=> PlainCall(c, begin)
  BY <1>1, <1>2, <1>3, <1>5 DEF PlainCall
<1>7. \A begin, end : SourceOrder(begin, end, InTemplate, Outside)'
                        <=> SourceOrder(begin, end, InTemplate, Outside)
  BY <1>1, <1>2, <1>3, <1>5 DEF SourceOrder
<1> QED
  BY <1>1, <1>3, <1>4, <1>6, <1>7

\* A call is made: what it marked is walked.
LEMMA CoveredStep ==
  ASSUME WInv, TInv, NEW begin, NEW end, OInv(begin, end), Enter(Visitable),
         NEW calls, Visits(calls, begin, end), stack' = calls \o Tail(stack)
  PROVE  /\ Covered'
         /\ Handled' = Handled \cup
              (IF decl \in InTemplate THEN {decl} \cup Enumerators(decl) ELSE {})
<1> DEFINE t == Tail(stack)
           added == IF decl \in InTemplate THEN {decl} \cup Enumerators(decl) ELSE {}
<1>1. stack # <<>> /\ ast' = ast /\ visited_' = visited_ \cup {decl}
  BY DEF Enter
<1>2. t \in Seq(CallOf) /\ Range(stack) = {stack[1]} \cup Range(t)
  BY <1>1, TopCall
<1>3. calls \in Seq(CallOf)
  BY DEF Visits
<1>4. stack' = calls \o t
  OBVIOUS
<1> HIDE DEF t
<1>5. Range(stack') = Range(calls) \cup Range(t)
  <2>1. Range(calls \o t) = Range(calls) \cup Range(t)
    BY <1>2, <1>3, RangeOfConcatenation
  <2> QED BY <1>4, <2>1
<1>6. /\ InTemplate' = InTemplate /\ \A n : Gives(n)' = Gives(n)
      /\ \A n : Enumerators(n)' = Enumerators(n)
  BY <1>1, OrderFrozen, Frozen
<1>7. Handled' = Handled \cup added
  BY <1>1, <1>6 DEF Handled
<1>8. Walked' = Walked \cup {decl} \cup Enumerators(decl)
  BY WalkedGrows
<1>9. Walked \cup ToWalk \subseteq Walked' \cup ToWalk'
  <2>1. ToWalk' = {c.decl : c \in Range(calls) \cup Range(t)}
    BY <1>5 DEF ToWalk
  <2>2. ToWalk = {decl} \cup {c.decl : c \in Range(t)}
    BY <1>2 DEF ToWalk, decl
  <2> QED BY <1>8, <2>1, <2>2
<1>10. Marked' = {c.decl : c \in {d \in Range(calls) \cup Range(t) : d.flags # none}}
  BY <1>5 DEF Marked
<1>11. flags # none => decl \in InTemplate
  BY EnteredOutside
<1>12. Handled \cup Marked \subseteq Handled' \cup Marked'
  <2> SUFFICES ASSUME NEW c \in Range(stack), c.flags # none
               PROVE  c.decl \in Handled' \cup Marked'
    BY <1>7 DEF Marked
  <2>1. CASE c = stack[1]
    BY <1>7, <1>11, <2>1 DEF decl, flags
  <2>2. CASE c \in Range(t)
    BY <1>10, <2>2
  <2> QED BY <1>2, <2>1, <2>2
<1>13. ASSUME NEW x \in Gives(decl) PROVE x \in Walked' \cup ToWalk'
  <2>1. x \in Enumerators(decl) \cup {c.decl : c \in Range(calls)}
    BY DEF Visits
  <2> QED BY <1>5, <1>8, <2>1 DEF ToWalk
<1>14. ASSUME NEW x \in Gives(decl), decl \in InTemplate \/ ast[decl].kind \in Template
       PROVE  x \in Handled' \cup Marked'
  <2>1. CASE x \in Enumerators(decl)
    <3>1. ast[decl].kind \notin Template
      BY <2>1 DEF Enumerators, Template
    <3> QED BY <1>7, <1>14, <2>1, <3>1
  <2>2. CASE x \notin Enumerators(decl)
    <3>1. PICK c \in Range(calls) : x = c.decl
      BY <2>2 DEF Visits
    <3>2. flags # none \/ ast[decl].kind \in Template
      BY <1>14, EnteredOutside DEF Outside
    <3>3. c.flags # none
      BY <3>2 DEF Visits
    <3> QED BY <1>10, <3>1, <3>3
  <2> QED BY <2>1, <2>2
<1>15. ASSUME NEW n \in visited_ \cup {decl} \cup {TU}, NEW x \in Gives(n)
       PROVE  /\ x \in Walked' \cup ToWalk'
              /\ n \in InTemplate \/ ast[n].kind \in Template => x \in Handled' \cup Marked'
  <2>1. CASE n = decl
    BY <1>13, <1>14, <2>1
  <2>2. CASE n \in visited_ \cup {TU}
    <3>1. /\ x \in Walked \cup ToWalk
          /\ n \in InTemplate \/ ast[n].kind \in Template => x \in Handled \cup Marked
      BY <2>2 DEF OInv, Covered
    <3> QED BY <1>9, <1>12, <3>1
  <2> QED BY <2>1, <2>2
<1>16. Covered'
  BY <1>1, <1>6, <1>15 DEF Covered
<1> QED
  BY <1>7, <1>16

LEMMA OrderStep ==
  ASSUME WInv, TInv, NEW begin, NEW end, OInv(begin, end), Enter(Visitable),
         NEW calls, Visits(calls, begin, end), stack' = calls \o Tail(stack), ListsInTemplates
  PROVE  OInv(begin, end)'
<1>1. ast' = ast
  BY DEF Enter
<1>2. Covered' /\ Handled' = Handled \cup
        (IF decl \in InTemplate THEN {decl} \cup Enumerators(decl) ELSE {})
  BY CoveredStep
<1>3. Sorted(stack', begin, end) /\ \A c \in Range(stack') : PlainCall(c, begin)
  BY SortedStep
<1>4. HandledListed'
  <2>1. \A n : IsEntry(n)' <=> IsEntry(n)
    BY <1>1, Frozen
  <2>2. \A n \in Handled : IsEntry(n) => n \in TemplateEntries'
    BY DEF OInv, HandledListed, ListsInTemplates
  <2>3. decl \in InTemplate => \A n \in {decl} \cup Enumerators(decl) : IsEntry(n) => n \in TemplateEntries'
    BY EnteredOutside DEF Outside, ListsInTemplates
  <2> QED BY <1>2, <2>1, <2>2, <2>3 DEF HandledListed
<1>5. /\ \A c : PlainCall(c, begin)' <=> PlainCall(c, begin)
      /\ SourceOrder(begin, end, InTemplate, Outside)' <=> SourceOrder(begin, end, InTemplate, Outside)
  BY <1>1, OrderFrozen
<1>6. Sorted(stack, begin, end)'
  BY <1>3 DEF Sorted
<1>7. (\A c \in Range(stack) : PlainCall(c, begin))'
  BY <1>3, <1>5
<1> QED
  BY <1>1, <1>2, <1>4, <1>5, <1>6, <1>7 DEF OInv

----------------------------------------------------------------------------
(* What a call with flags lists.                                           *)

LEMMA GoComplete ==
  ASSUME WInv, stack # <<>>, NEW xs \in Seq(DOMAIN ast),
         mod' = go(mod, xs, flags, TRUE) \/ mod' = go(mod, xs, flags, FALSE)
  PROVE  /\ TemplateEntries \subseteq TemplateEntries'
         /\ flags # none => Range(xs) \subseteq TemplateEntries'
<1>1. mod \in ModuleOf(DOMAIN ast) /\ flags \in Flags
  BY TopCall DEF WInv, TypeOK
<1> DEFINE a == mod.template_declarations  a2 == mod'.template_declarations
           b == mod.template_definitions   b2 == mod'.template_definitions
<1>2. a \in Seq(DOMAIN ast) /\ b \in Seq(DOMAIN ast)
  BY <1>1 DEF ModuleOf
<1>3. /\ a2 = a \/ a2 = a \o xs
      /\ b2 = b \/ b2 = b \o xs
      /\ flags # none => a2 = a \o xs \/ b2 = b \o xs
  <2>1. CASE mod' = go(mod, xs, flags, TRUE)
    BY <1>1, <2>1, GoDefines DEF Extends
  <2>2. CASE mod' = go(mod, xs, flags, FALSE)
    BY <1>1, <2>2, GoDeclares DEF Extends
  <2> QED
    BY <2>1, <2>2
<1>4. TemplateEntries = Range(a) \cup Range(b) /\ TemplateEntries' = Range(a2) \cup Range(b2)
  BY DEF TemplateEntries
<1> HIDE DEF a, b, a2, b2
<1>5. Range(a \o xs) = Range(a) \cup Range(xs) /\ Range(b \o xs) = Range(b) \cup Range(xs)
  BY <1>2, RangeOfConcatenation
<1> QED
  BY <1>3, <1>4, <1>5

LEMMA NothingToList ==
  ASSUME mod' = mod, \A n \in {decl} \cup Enumerators(decl) : ~IsEntry(n)
  PROVE  ListsInTemplates
BY DEF ListsInTemplates, TemplateEntries

LEMMA OneToList ==
  ASSUME WInv, stack # <<>>, Enumerators(decl) = {},
         mod' = go(mod, <<decl>>, flags, TRUE) \/ mod' = go(mod, <<decl>>, flags, FALSE)
  PROVE  ListsInTemplates
<1> DEFINE xs == <<decl>>
<1>1. xs \in Seq(DOMAIN ast) /\ Range(xs) = {decl}
  BY TopCall, Single
<1>2. mod' = go(mod, xs, flags, TRUE) \/ mod' = go(mod, xs, flags, FALSE)
  OBVIOUS
<1> HIDE DEF xs
<1>3. TemplateEntries \subseteq TemplateEntries' /\ (flags # none => Range(xs) \subseteq TemplateEntries')
  BY <1>1, <1>2, GoComplete
<1> QED
  BY <1>1, <1>3 DEF ListsInTemplates

\* VisitTagDecl and VisitFunctionDecl.
LEMMA EntityToList ==
  ASSUME WInv, stack # <<>>, ast[decl].kind \in Declarable, mod' = EntryOfEntity(mod)
  PROVE  ListsInTemplates
<1>1. Enumerators(decl) = {}
  BY DEF Enumerators, Declarable
<1>2. CASE ast[decl].defn = decl \/ (ast[decl].defn = None /\ ast[decl].canon = decl)
  <2>1. mod' = go(mod, <<decl>>, flags, TRUE) \/ mod' = go(mod, <<decl>>, flags, FALSE)
    BY <1>2 DEF EntryOfEntity, node
  <2> QED BY <1>1, <2>1, OneToList
<1>3. CASE ~(ast[decl].defn = decl \/ (ast[decl].defn = None /\ ast[decl].canon = decl))
  <2>1. mod' = mod
    BY <1>3 DEF EntryOfEntity, node
  <2>2. ~IsEntry(decl)
    BY <1>3 DEF IsEntry, Declarable
  <2> QED BY <1>1, <2>1, <2>2, NothingToList
<1> QED
  BY <1>2, <1>3

----------------------------------------------------------------------------
(* What a call calls.                                                      *)

LEMMA VisitsNothing ==
  ASSUME WInv, stack # <<>>, NEW begin, NEW end, ast[decl].kind \notin Template,
         Successors(decl) \subseteq Enumerators(decl)
  PROVE  Visits(<<>>, begin, end)
<1>1. Gives(decl) = Successors(decl)
  BY TopCall, GivesIs DEF WInv
<1>2. <<>> \in Seq(CallOf) /\ Range(<<>>) = {} /\ Len(<<>>) = 0
  BY DEF Range
<1>3. Sorted(<<>>, begin, end)
  BY <1>2 DEF Sorted
<1> QED
  BY <1>1, <1>2, <1>3 DEF Visits

\* Declarations in source order are visited with the flags of the context.
LEMMA VisitsInOrder ==
  ASSUME WInv, stack # <<>>, NEW begin, NEW end, ast[decl].kind \notin Template,
         NEW ds \in Seq(DOMAIN ast), Range(ds) = Successors(decl),
         flags = none => \A i, j \in 1 .. Len(ds) : i < j => end[ds[i]] < begin[ds[j]]
  PROVE  Visits(Calls(ds, flags), begin, end)
<1> DEFINE C == Calls(ds, flags)
<1>1. flags \in Flags /\ decl \in DOMAIN ast
  BY TopCall
<1>2. C \in Seq(CallOf) /\ Range(C) = {[decl |-> x, flags |-> flags] : x \in Range(ds)}
  BY <1>1, CallsAre
<1>3. Gives(decl) = Successors(decl)
  BY <1>1, GivesIs DEF WInv
<1>4. /\ Len(C) = Len(ds)
      /\ \A i \in 1 .. Len(ds) : C[i].decl = ds[i] /\ C[i].flags = flags
  BY DEF Calls
<1> HIDE DEF C
<1>5. \A c \in Range(C) : c.flags = flags /\ c.decl \in Successors(decl)
  <2> SUFFICES ASSUME NEW c \in Range(C) PROVE c.flags = flags /\ c.decl \in Successors(decl)
    OBVIOUS
  <2>1. PICK x \in Range(ds) : c = [decl |-> x, flags |-> flags]
    BY <1>2
  <2> QED BY <2>1
<1>6. \A x \in Range(ds) : x \in {c.decl : c \in Range(C)}
  <2> TAKE x \in Range(ds)
  <2>1. [decl |-> x, flags |-> flags].decl = x
    OBVIOUS
  <2> QED BY <1>2, <2>1
<1>7. flags = none => Sorted(C, begin, end)
  BY <1>4 DEF Sorted
<1>8. Visits(C, begin, end)
  BY <1>2, <1>3, <1>5, <1>6, <1>7 DEF Visits
<1> QED
  BY <1>8 DEF C

\* The declarations of a context outside templates are in source order.
LEMMA DeclsInOrder ==
  ASSUME WInv, TInv, NEW begin, NEW end, OInv(begin, end), Enter(Visitable),
         ast[decl].kind \notin Template
  PROVE  flags = none =>
           \A i, j \in 1 .. Len(ast[decl].decls) :
             i < j => end[ast[decl].decls[i]] < begin[ast[decl].decls[j]]
<1>1. stack # <<>>
  BY DEF Enter
<1>2. DOMAIN ast[decl].decls = 1 .. Len(ast[decl].decls)
  BY <1>1, TopCall, NodeFacts, RangeOf DEF WInv
<1>3. flags = none => decl \in Outside
  BY EnteredOutside
<1> QED
  BY <1>2, <1>3 DEF OInv, SourceOrder

LEMMA LiftedInOrder ==
  ASSUME WInv, TInv, NEW begin, NEW end, OInv(begin, end), Enter(Visitable),
         ast[decl].kind \notin Template, NEW ds, ds = Lifted(ast[decl].decls), flags = none
  PROVE  \A i, j \in 1 .. Len(ds) : i < j => end[ds[i]] < begin[ds[j]]
<1> DEFINE all == ast[decl].decls
           T == {x \in DOMAIN ast : ~(ast[x].kind = "Var" /\ "local" \in ast[x].attrs)}
<1>1. stack # <<>>
  BY DEF Enter
<1>2. all \in Seq(DOMAIN ast)
  BY <1>1, TopCall, NodeFacts DEF WInv
<1>3. ds = Among(all, T)
  BY DEF Lifted
<1>4. \A i, j \in 1 .. Len(all) : i < j => end[all[i]] < begin[all[j]]
  BY DeclsInOrder
<1> HIDE DEF all, T
<1>5. KeepsOrder(ds, all)
  BY <1>2, <1>3, AmongInOrder
<1>6. ASSUME NEW i \in 1 .. Len(ds), NEW j \in 1 .. Len(ds), i < j
      PROVE  end[ds[i]] < begin[ds[j]]
  <2>1. PICK l \in 1 .. Len(all), m \in 1 .. Len(all) :
               l < m /\ ds[i] = all[l] /\ ds[j] = all[m]
    BY <1>5, <1>6 DEF KeepsOrder
  <2> QED
    BY <1>4, <2>1
<1> QED
  BY <1>6

LEMMA FlagsSet ==
  ASSUME NEW f \in Flags
  PROVE  /\ set_template(f) \in Flags /\ set_template(f) # none
         /\ set_specialization(f) \in Flags /\ set_specialization(f) # none
<1>1. set_template(f).in_template = TRUE /\ set_specialization(f).in_specialization = TRUE
  BY DEF Flags, set_template, set_specialization
<1>2. none.in_template = FALSE /\ none.in_specialization = FALSE
  BY DEF none
<1>3. set_template(f) \in Flags /\ set_specialization(f) \in Flags
  BY DEF Flags, set_template, set_specialization
<1>4. set_template(f) # none
  BY <1>1, <1>2
<1>5. set_specialization(f) # none
  BY <1>1, <1>2
<1> QED
  BY <1>3, <1>4, <1>5

\* The pattern of a template is visited with a flag.
LEMMA PatternVisited ==
  ASSUME WInv, stack # <<>>, NEW C, C = Call(ast[decl].templated, set_template(flags))
  PROVE  /\ C \in Seq(CallOf) /\ \A c \in Range(C) : c.flags # none
         /\ {ast[decl].templated} \ {None} \subseteq {c.decl : c \in Range(C)}
<1> DEFINE p == ast[decl].templated
           fl == set_template(flags)
           c == [decl |-> p, flags |-> fl]
<1>1. C \in Seq(CallOf)
  BY PatternCall
<1>2. CASE p = None
  <2>1. C = <<>> /\ Range(<<>>) = {}
    BY <1>2 DEF Call, Range
  <2> QED BY <1>1, <1>2, <2>1
<1>3. CASE p # None
  <2>1. C = <<c>> /\ c.decl = p /\ c.flags = fl
    BY <1>3 DEF Call
  <2>2. fl # none
    BY TopCall, FlagsSet
  <2> HIDE DEF c, p, fl
  <2>3. Range(<<c>>) = {c}
    BY Single
  <2>4. Range(C) = {c}
    BY <2>1, <2>3
  <2> QED BY <1>1, <2>1, <2>2, <2>4 DEF p
<1> QED
  BY <1>2, <1>3

\* So are the specializations.
LEMMA SpecializationsVisited ==
  ASSUME WInv, stack # <<>>, NEW C, C = Calls(ast[decl].specs, set_specialization(flags))
  PROVE  /\ C \in Seq(CallOf) /\ \A c \in Range(C) : c.flags # none
         /\ Range(ast[decl].specs) \subseteq {c.decl : c \in Range(C)}
<1> DEFINE ds == ast[decl].specs
           fl == set_specialization(flags)
<1>1. decl \in DOMAIN ast /\ fl \in Flags /\ fl # none
  BY TopCall, FlagsSet
<1>2. ds \in Seq(DOMAIN ast) /\ C = Calls(ds, fl)
  BY <1>1, NodeFacts DEF WInv
<1> HIDE DEF ds, fl
<1>3. C \in Seq(CallOf) /\ Range(C) = {[decl |-> x, flags |-> fl] : x \in Range(ds)}
  BY <1>1, <1>2, CallsAre
<1>4. \A c \in Range(C) : c.flags # none
  <2> SUFFICES ASSUME NEW c \in Range(C) PROVE c.flags # none
    OBVIOUS
  <2>1. PICK x \in Range(ds) : c = [decl |-> x, flags |-> fl]
    BY <1>3
  <2>2. c.flags = fl
    BY <2>1
  <2> QED BY <1>1, <2>2
<1>5. \A x \in Range(ds) : x \in {c.decl : c \in Range(C)}
  <2> TAKE x \in Range(ds)
  <2>1. [decl |-> x, flags |-> fl].decl = x
    OBVIOUS
  <2> QED BY <1>3, <2>1
<1> QED
  BY <1>3, <1>4, <1>5 DEF ds

LEMMA VisitsTemplate ==
  ASSUME WInv, stack # <<>>, NEW begin, NEW end, ast[decl].kind \in Template, NEW C,
         C \in Seq(CallOf), \A c \in Range(C) : c.flags # none,
         Successors(decl) \cup ({ast[decl].templated} \ {None}) \subseteq {c.decl : c \in Range(C)}
  PROVE  Visits(C, begin, end)
BY DEF Visits, Gives

----------------------------------------------------------------------------
(* The actions.                                                            *)

LEMMA OrderAgain ==
  ASSUME WInv, TInv, NEW begin, NEW end, OInv(begin, end), VisitAgain
  PROVE  OInv(begin, end)'
<1> DEFINE t == Tail(stack)
<1>1. /\ stack # <<>> /\ decl \in visited_ /\ stack' = t
      /\ ast' = ast /\ visited_' = visited_ /\ mod' = mod
  BY DEF VisitAgain
<1>2. stack \in Seq(CallOf) /\ t \in Seq(CallOf) /\ Range(stack) = {stack[1]} \cup Range(t)
  BY <1>1, TopCall DEF WInv, TypeOK, CallOf
<1>3. Sorted(t, begin, end)
  BY <1>1, <1>2, SortedTail DEF OInv
<1> HIDE DEF t
<1>4. /\ InTemplate' = InTemplate /\ \A n : Gives(n)' = Gives(n)
      /\ \A n : Enumerators(n)' = Enumerators(n)
      /\ \A n : IsEntry(n)' <=> IsEntry(n)
      /\ \A c : PlainCall(c, begin)' <=> PlainCall(c, begin)
      /\ SourceOrder(begin, end, InTemplate, Outside)' <=> SourceOrder(begin, end, InTemplate, Outside)
  BY <1>1, OrderFrozen, Frozen
<1>5. Walked' = Walked /\ Handled' = Handled /\ TemplateEntries' = TemplateEntries
  BY <1>1, <1>4 DEF Walked, Handled, TemplateEntries
<1>6. Walked \cup ToWalk \subseteq Walked' \cup ToWalk'
  <2>1. ToWalk = {decl} \cup {c.decl : c \in Range(t)} /\ ToWalk' = {c.decl : c \in Range(t)}
    BY <1>1, <1>2 DEF ToWalk, decl
  <2> QED BY <1>1, <1>5, <2>1 DEF Walked
<1>7. Handled \cup Marked \subseteq Handled' \cup Marked'
  <2>1. Marked' = {c.decl : c \in {d \in Range(t) : d.flags # none}}
    BY <1>1 DEF Marked
  <2> SUFFICES ASSUME NEW c \in Range(stack), c.flags # none
               PROVE  c.decl \in Handled' \cup Marked'
    BY <1>5 DEF Marked
  <2>2. CASE c = stack[1]
    <3>1. decl \in InTemplate
      BY <1>1, <2>2, TopFlagged DEF flags
    <3> QED BY <1>1, <1>5, <2>2, <3>1 DEF Handled, decl
  <2>3. CASE c \in Range(t)
    BY <2>1, <2>3
  <2> QED BY <1>2, <2>2, <2>3
<1>8. Covered'
  BY <1>1, <1>4, <1>6, <1>7 DEF OInv, Covered
<1>9. HandledListed'
  BY <1>4, <1>5 DEF OInv, HandledListed
<1>10. Sorted(stack, begin, end)'
  BY <1>1, <1>3 DEF Sorted
<1>11. (\A c \in Range(stack) : PlainCall(c, begin))'
  BY <1>1, <1>2, <1>4 DEF OInv
<1> QED
  BY <1>1, <1>4, <1>8, <1>9, <1>10, <1>11 DEF OInv

LEMMA OrderInductive ==
  ASSUME WInv, TInv, templates_ = TRUE, NEW begin, NEW end, OInv(begin, end), Next
  PROVE  OInv(begin, end)'
<1>1. CASE VisitAgain
  BY <1>1, OrderAgain
<1>2. ASSUME NEW kinds, Enter(kinds), kinds \subseteq Visitable
      PROVE  /\ Enter(Visitable) /\ stack # <<>> /\ ast[decl].kind \in kinds
             /\ decl \in DOMAIN ast /\ ast \in ASTs
  BY <1>2, TopCall DEF Enter, node, WInv
<1>3. CASE VisitIgnored
  <2>1. Enter({"Ignored", "Unsupported"}) /\ stack' = <<>> \o Tail(stack) /\ mod' = mod
    BY <1>3 DEF VisitIgnored, Then
  <2>2. Enter(Visitable) /\ stack # <<>> /\ ast[decl].kind \in {"Ignored", "Unsupported"}
    BY <1>2, <2>1 DEF Visitable, Kind
  <2>3. ast[decl].kind \notin Template /\ Successors(decl) = {} /\ Enumerators(decl) = {} /\ ~IsEntry(decl)
    BY <2>2 DEF Successors, Skipped, Scope, Template, Enumerators, IsEntry
  <2> QED BY <2>1, <2>2, <2>3, VisitsNothing, NothingToList, OrderStep
<1>4. CASE VisitStaticAssertDecl
  <2>1. /\ Enter({"StaticAssert"}) /\ stack' = <<>> \o Tail(stack)
        /\ mod' = [mod EXCEPT !.asserts = Append(@, decl)]
    BY <1>4 DEF VisitStaticAssertDecl, Then
  <2>2. Enter(Visitable) /\ stack # <<>> /\ ast[decl].kind = "StaticAssert"
    BY <1>2, <2>1 DEF Visitable, Kind
  <2>3. ast[decl].kind \notin Template /\ Successors(decl) = {} /\ Enumerators(decl) = {} /\ ~IsEntry(decl)
    BY <2>2 DEF Successors, Skipped, Scope, Template, Enumerators, IsEntry
  <2>4. mod \in ModuleOf(DOMAIN ast)
    BY DEF WInv, TypeOK
  <2>5. /\ mod'.template_declarations = mod.template_declarations
        /\ mod'.template_definitions = mod.template_definitions
    BY <2>1, <2>4 DEF ModuleOf
  <2>6. ListsInTemplates
    BY <2>3, <2>5 DEF ListsInTemplates, TemplateEntries
  <2> QED BY <2>1, <2>2, <2>3, <2>6, VisitsNothing, OrderStep
<1>5. CASE VisitTypedefNameDecl
  <2>1. /\ Enter({"Typedef"}) /\ stack' = <<>> \o Tail(stack)
        /\ mod' = IF "names_anon" \in ast[decl].attrs \/ ast[decl].canon # decl
                  THEN mod ELSE go(mod, <<decl>>, flags, TRUE)
    BY <1>5 DEF VisitTypedefNameDecl, Then, node
  <2>2. Enter(Visitable) /\ stack # <<>> /\ ast[decl].kind = "Typedef"
    BY <1>2, <2>1 DEF Visitable, Kind
  <2>3. ast[decl].kind \notin Template /\ Successors(decl) = {} /\ Enumerators(decl) = {}
    BY <2>2 DEF Successors, Skipped, Scope, Template, Enumerators
  <2>4. IsEntry(decl) <=> ~("names_anon" \in ast[decl].attrs \/ ast[decl].canon # decl)
    BY <2>2 DEF IsEntry
  <2>5. ListsInTemplates
    <3>1. CASE IsEntry(decl)
      BY <2>1, <2>2, <2>3, <2>4, <3>1, OneToList
    <3>2. CASE ~IsEntry(decl)
      BY <2>1, <2>3, <2>4, <3>2, NothingToList
    <3> QED BY <3>1, <3>2
  <2> QED BY <2>1, <2>2, <2>3, <2>5, VisitsNothing, OrderStep
<1>6. CASE VisitVarDecl
  <2>1. /\ Enter({"Var"}) /\ stack' = <<>> \o Tail(stack)
        /\ mod' = IF ast[decl].defn = decl \/ (ast[decl].defn = None /\ ast[decl].canon = decl)
                  THEN go(mod, <<decl>>, flags, TRUE) ELSE mod
    BY <1>6 DEF VisitVarDecl, Then, node
  <2>2. Enter(Visitable) /\ stack # <<>> /\ ast[decl].kind = "Var"
    BY <1>2, <2>1 DEF Visitable, Kind
  <2>3. ast[decl].kind \notin Template /\ Successors(decl) = {} /\ Enumerators(decl) = {}
    BY <2>2 DEF Successors, Skipped, Scope, Template, Enumerators
  <2>4. IsEntry(decl) => ast[decl].defn = decl \/ (ast[decl].defn = None /\ ast[decl].canon = decl)
    BY <2>2 DEF IsEntry
  <2>5. ListsInTemplates
    <3>1. CASE mod' = go(mod, <<decl>>, flags, TRUE)
      BY <2>2, <2>3, <3>1, OneToList
    <3>2. CASE mod' = mod /\ ~IsEntry(decl)
      BY <2>3, <3>2, NothingToList
    <3> QED BY <2>1, <2>4, <3>1, <3>2
  <2> QED BY <2>1, <2>2, <2>3, <2>5, VisitsNothing, OrderStep
<1>7. CASE VisitTypeAliasTemplateDecl
  <2> DEFINE C == Call(ast[decl].templated, set_template(flags))
  <2>1. Enter({"TypeAliasTemplate"}) /\ stack' = C \o Tail(stack) /\ mod' = mod
    BY <1>7 DEF VisitTypeAliasTemplateDecl, Then, node
  <2>2. Enter(Visitable) /\ stack # <<>> /\ ast[decl].kind = "TypeAliasTemplate"
    BY <1>2, <2>1 DEF Visitable, Kind
  <2>3. ast[decl].kind \in Template /\ Successors(decl) = {} /\ Enumerators(decl) = {} /\ ~IsEntry(decl)
    BY <2>2 DEF Successors, Skipped, Scope, Template, Enumerators, IsEntry
  <2>4. /\ C \in Seq(CallOf) /\ \A c \in Range(C) : c.flags # none
        /\ {ast[decl].templated} \ {None} \subseteq {c.decl : c \in Range(C)}
    BY <2>2, PatternVisited
  <2> HIDE DEF C
  <2>5. Visits(C, begin, end)
    BY <2>2, <2>3, <2>4, VisitsTemplate
  <2> QED BY <2>1, <2>2, <2>3, <2>5, NothingToList, OrderStep
<1>8. CASE VisitTemplateDecl
  <2> DEFINE K == {"ClassTemplate", "FunctionTemplate", "VarTemplate"}
             Q == Call(ast[decl].templated, set_template(flags))
             R == Calls(ast[decl].specs, set_specialization(flags))
  <2>1. Enter(K) /\ stack' = (Q \o R) \o Tail(stack) /\ mod' = mod
    BY <1>8 DEF VisitTemplateDecl, Then, node
  <2>2. Enter(Visitable) /\ stack # <<>> /\ ast[decl].kind \in K
    BY <1>2, <2>1 DEF Visitable, Kind
  <2>3. /\ ast[decl].kind \in Template /\ Successors(decl) = Range(ast[decl].specs)
        /\ Enumerators(decl) = {} /\ ~IsEntry(decl)
    BY <2>2 DEF Successors, Skipped, Scope, Template, Enumerators, IsEntry
  <2>4. /\ Q \in Seq(CallOf) /\ \A c \in Range(Q) : c.flags # none
        /\ {ast[decl].templated} \ {None} \subseteq {c.decl : c \in Range(Q)}
    BY <2>2, PatternVisited
  <2>5. /\ R \in Seq(CallOf) /\ \A c \in Range(R) : c.flags # none
        /\ Range(ast[decl].specs) \subseteq {c.decl : c \in Range(R)}
    BY <2>2, SpecializationsVisited
  <2> HIDE DEF Q, R, K
  <2>6. Q \o R \in Seq(CallOf) /\ Range(Q \o R) = Range(Q) \cup Range(R)
    BY <2>4, <2>5, Concatenation, RangeOfConcatenation
  <2>7. Visits(Q \o R, begin, end)
    <3>1. \A c \in Range(Q \o R) : c.flags # none
      BY <2>4, <2>5, <2>6
    <3>2. Successors(decl) \cup ({ast[decl].templated} \ {None}) \subseteq {c.decl : c \in Range(Q \o R)}
      BY <2>3, <2>4, <2>5, <2>6
    <3> QED BY <2>2, <2>3, <2>6, <3>1, <3>2, VisitsTemplate
  <2> QED BY <2>1, <2>2, <2>3, <2>7, NothingToList, OrderStep
<1>9. CASE VisitCXXRecordDecl
  <2> DEFINE ds == ast[decl].decls
             skip == "implicit" \in ast[decl].attrs /\ "lambda" \notin ast[decl].attrs
             C == IF skip THEN <<>> ELSE Calls(ds, flags)
  <2>1. /\ Enter({"Record"}) /\ stack' = C \o Tail(stack)
        /\ mod' = IF skip THEN mod ELSE EntryOfEntity(mod)
    BY <1>9 DEF VisitCXXRecordDecl, Then, node
  <2>2. /\ Enter(Visitable) /\ stack # <<>> /\ ast[decl].kind = "Record"
        /\ decl \in DOMAIN ast /\ ast \in ASTs
    BY <1>2, <2>1 DEF Visitable, Kind
  <2>3. /\ ast[decl].kind \notin Template /\ ast[decl].kind \in Declarable /\ Enumerators(decl) = {}
        /\ skip => Successors(decl) = {} /\ ~IsEntry(decl)
        /\ ~skip => Successors(decl) = Range(ds)
    BY <2>2 DEF Successors, Skipped, Scope, Template, Enumerators, IsEntry, Declarable
  <2>4. ds \in Seq(DOMAIN ast)
    BY <2>2, NodeFacts
  <2>5. flags = none => \A i, j \in 1 .. Len(ds) : i < j => end[ds[i]] < begin[ds[j]]
    BY <2>2, <2>3, DeclsInOrder
  <2> HIDE DEF ds, skip
  <2>6. Visits(C, begin, end)
    <3>1. CASE skip
      BY <2>2, <2>3, <3>1, VisitsNothing
    <3>2. CASE ~skip
      BY <2>2, <2>3, <2>4, <2>5, <3>2, VisitsInOrder
    <3> QED BY <3>1, <3>2
  <2>7. ListsInTemplates
    <3>1. CASE skip
      BY <2>1, <2>3, <3>1, NothingToList
    <3>2. CASE ~skip
      BY <2>1, <2>2, <2>3, <3>2, EntityToList
    <3> QED BY <3>1, <3>2
  <2> HIDE DEF C
  <2> QED BY <2>1, <2>2, <2>6, <2>7, OrderStep
<1>10. CASE VisitFunctionDecl
  <2> DEFINE ds == Lifted(ast[decl].decls)
             skip == ast[decl].kind = "Method" /\ "deleted" \in ast[decl].attrs
             lifts == ~skip /\ ast[decl].defn = decl
             C == IF lifts THEN Calls(ds, flags) ELSE <<>>
  <2>1. /\ Enter({"Function", "Method"}) /\ stack' = C \o Tail(stack)
        /\ mod' = IF skip THEN mod ELSE EntryOfEntity(mod)
    BY <1>10 DEF VisitFunctionDecl, Then, node
  <2>2. /\ Enter(Visitable) /\ stack # <<>> /\ ast[decl].kind \in {"Function", "Method"}
        /\ decl \in DOMAIN ast /\ ast \in ASTs
    BY <1>2, <2>1 DEF Visitable, Kind
  <2>3. /\ ast[decl].kind \notin Template /\ ast[decl].kind \in Declarable /\ Enumerators(decl) = {}
        /\ skip => ~IsEntry(decl)
        /\ ~lifts => Successors(decl) = {}
        /\ lifts => Successors(decl) = Range(ds)
    BY <2>2 DEF Successors, Skipped, Scope, Template, Enumerators, IsEntry, Declarable
  <2>4. ds \in Seq(DOMAIN ast)
    BY <2>2, NodeFacts
  <2>5. flags = none => \A i, j \in 1 .. Len(ds) : i < j => end[ds[i]] < begin[ds[j]]
    BY <2>2, <2>3, LiftedInOrder
  <2> HIDE DEF ds, skip, lifts
  <2>6. Visits(C, begin, end)
    <3>1. CASE ~lifts
      BY <2>2, <2>3, <3>1, VisitsNothing
    <3>2. CASE lifts
      BY <2>2, <2>3, <2>4, <2>5, <3>2, VisitsInOrder
    <3> QED BY <3>1, <3>2
  <2>7. ListsInTemplates
    <3>1. CASE skip
      BY <2>1, <2>3, <3>1, NothingToList
    <3>2. CASE ~skip
      BY <2>1, <2>2, <2>3, <3>2, EntityToList
    <3> QED BY <3>1, <3>2
  <2> HIDE DEF C
  <2> QED BY <2>1, <2>2, <2>6, <2>7, OrderStep
<1>11. CASE VisitScopeDecl
  <2> DEFINE ds == ast[decl].decls
             K == {"Namespace", "LinkageSpec"}
  <2>1. Enter(K) /\ mod' = mod
    BY <1>11 DEF VisitScopeDecl
  <2>2. /\ Enter(Visitable) /\ stack # <<>> /\ ast[decl].kind \in K
        /\ decl \in DOMAIN ast /\ ast \in ASTs
    BY <1>2, <2>1 DEF Visitable, Kind
  <2>3. flags = none
    BY <2>2, TopCall DEF Scope
  <2>4. stack' = Calls(ds, flags) \o Tail(stack)
    BY <1>11, <2>3 DEF VisitScopeDecl, Then, node
  <2>5. /\ ast[decl].kind \notin Template /\ Enumerators(decl) = {} /\ ~IsEntry(decl)
        /\ Successors(decl) = Range(ds)
    BY <2>2 DEF Successors, Skipped, Scope, Template, Enumerators, IsEntry
  <2>6. ds \in Seq(DOMAIN ast)
    BY <2>2, NodeFacts
  <2>7. flags = none => \A i, j \in 1 .. Len(ds) : i < j => end[ds[i]] < begin[ds[j]]
    BY <2>2, <2>5, DeclsInOrder
  <2> HIDE DEF ds, K
  <2>8. Visits(Calls(ds, flags), begin, end)
    BY <2>2, <2>5, <2>6, <2>7, VisitsInOrder
  <2> QED BY <2>1, <2>2, <2>4, <2>5, <2>8, NothingToList, OrderStep
<1>12. CASE VisitEnumDecl
  <2> DEFINE one == <<decl>>
             ds == ast[decl].decls
             xs == one \o ds
  <2>1. /\ Enter({"Enum"}) /\ stack' = <<>> \o Tail(stack)
        /\ mod' = IF ast[decl].canon = decl THEN go(mod, xs, flags, TRUE) ELSE mod
    BY <1>12 DEF VisitEnumDecl, Then, node
  <2>2. /\ Enter(Visitable) /\ stack # <<>> /\ ast[decl].kind = "Enum"
        /\ decl \in DOMAIN ast /\ ast \in ASTs
    BY <1>2, <2>1 DEF Visitable, Kind
  <2>3. /\ ast[decl].kind \notin Template /\ Successors(decl) \subseteq Enumerators(decl)
        /\ ast[decl].canon = decl => Enumerators(decl) = Range(ds)
        /\ ast[decl].canon # decl => Enumerators(decl) = {} /\ ~IsEntry(decl)
    BY <2>2 DEF Successors, Skipped, Scope, Template, Enumerators, IsEntry
  <2>4. one \in Seq(DOMAIN ast) /\ Range(one) = {decl} /\ ds \in Seq(DOMAIN ast)
    BY <2>2, Single, NodeFacts
  <2> HIDE DEF one, ds
  <2>5. xs \in Seq(DOMAIN ast) /\ Range(xs) = Range(one) \cup Range(ds)
    BY <2>4, Concatenation, RangeOfConcatenation
  <2> HIDE DEF xs
  <2>6. ListsInTemplates
    <3>1. CASE ast[decl].canon = decl
      <4>1. mod' = go(mod, xs, flags, TRUE)
        BY <2>1, <3>1
      <4>2. /\ TemplateEntries \subseteq TemplateEntries'
            /\ flags # none => Range(xs) \subseteq TemplateEntries'
        BY <2>2, <2>5, <4>1, GoComplete
      <4> QED BY <2>3, <2>4, <2>5, <3>1, <4>2 DEF ListsInTemplates
    <3>2. CASE ast[decl].canon # decl
      BY <2>1, <2>3, <3>2, NothingToList
    <3> QED BY <3>1, <3>2
  <2> QED BY <2>1, <2>2, <2>3, <2>6, VisitsNothing, OrderStep
<1>13. CASE VisitFriendDecl
  <2> DEFINE x == ast[decl].friend
             C == Call(x, flags)
  <2>1. Enter({"Friend"}) /\ stack' = C \o Tail(stack) /\ mod' = mod
    BY <1>13 DEF VisitFriendDecl, Then, node
  <2>2. /\ Enter(Visitable) /\ stack # <<>> /\ ast[decl].kind = "Friend"
        /\ decl \in DOMAIN ast /\ ast \in ASTs
    BY <1>2, <2>1 DEF Visitable, Kind
  <2>3. /\ ast[decl].kind \notin Template /\ Enumerators(decl) = {} /\ ~IsEntry(decl)
        /\ Successors(decl) = {x} \ {None}
    BY <2>2 DEF Successors, Skipped, Scope, Template, Enumerators, IsEntry
  <2>4. x \in DOMAIN ast \cup {None}
    BY <2>2, NodeFacts
  <2> HIDE DEF x
  <2>5. Visits(C, begin, end)
    <3>1. CASE x = None
      <4>1. C = <<>> /\ Successors(decl) = {}
        BY <2>3, <3>1 DEF Call
      <4> QED BY <2>2, <2>3, <4>1, VisitsNothing
    <3>2. CASE x # None
      <4> DEFINE ds == <<x>>
      <4>1. C = Calls(ds, flags)
        BY <3>2 DEF Call, Calls
      <4>2. ds \in Seq(DOMAIN ast) /\ Range(ds) = {x} /\ Len(ds) = 1
        BY <2>4, <3>2, Single
      <4> HIDE DEF ds
      <4>3. \A i, j \in 1 .. Len(ds) : i < j => end[ds[i]] < begin[ds[j]]
        BY <4>2
      <4>4. Range(ds) = Successors(decl)
        BY <2>3, <3>2, <4>2
      <4>5. Visits(Calls(ds, flags), begin, end)
        BY <2>2, <2>3, <4>2, <4>3, <4>4, VisitsInOrder
      <4> QED BY <4>1, <4>5
    <3> QED BY <3>1, <3>2
  <2> HIDE DEF C
  <2> QED BY <2>1, <2>2, <2>3, <2>5, NothingToList, OrderStep
<1> QED
  BY <1>1, <1>3, <1>4, <1>5, <1>6, <1>7, <1>8, <1>9, <1>10, <1>11, <1>12, <1>13 DEF Next

LEMMA InitOrder ==
  ASSUME Init, NEW begin \in [DOMAIN ast -> Nat], NEW end \in [DOMAIN ast -> Nat],
         SourceOrder(begin, end, InTemplate, Below({TU}) \ InTemplate)
  PROVE  OInv(begin, end)
<1> DEFINE ds == ast[TU].decls
<1>1. ast \in ASTs /\ stack = Calls(ds, none) /\ visited_ = {}
  BY DEF Init
<1>2. TU \in DOMAIN ast /\ ast[TU].kind = "TranslationUnit"
  BY <1>1, ASTFacts DEF WellFormed
<1>3. Successors(TU) = Range(ds) /\ ast[TU].kind \notin Template
  BY <1>2 DEF Successors, Skipped, Scope, Template
<1>4. ds \in Seq(DOMAIN ast) /\ DOMAIN ds = 1 .. Len(ds)
  BY <1>1, <1>2, NodeFacts
<1>5. none \in Flags
  BY DEF none, Flags
<1>6. TU \in Outside
  BY <1>1, ScopesOutside
<1>7. SourceOrder(begin, end, InTemplate, Outside)
  BY DEF Outside
<1>8. /\ \A i, j \in 1 .. Len(ds) : i < j => end[ds[i]] < begin[ds[j]]
      /\ \A c \in Successors(TU) \cap InTemplate : \E g \in Outside : Follows(c, g, begin)
  BY <1>3, <1>4, <1>6, <1>7 DEF SourceOrder
<1>9. Range(ds) \subseteq Below({TU})
  BY <1>1, <1>3, BelowTU
<1> HIDE DEF ds
<1>10. /\ Len(stack) = Len(ds)
       /\ \A i \in 1 .. Len(ds) : stack[i].decl = ds[i] /\ stack[i].flags = none
  BY <1>1 DEF Calls
<1>11. Range(stack) = {[decl |-> x, flags |-> none] : x \in Range(ds)}
  BY <1>1, <1>4, <1>5, CallsAre
<1>12. Sorted(stack, begin, end)
  BY <1>8, <1>10 DEF Sorted
<1>13. ASSUME NEW c \in Range(stack) PROVE PlainCall(c, begin)
  <2>1. PICK x \in Range(ds) : c = [decl |-> x, flags |-> none]
    BY <1>11
  <2>2. c.decl = x
    BY <2>1
  <2> QED
    BY <1>3, <1>8, <1>9, <2>2 DEF PlainCall
<1>14. Range(ds) \subseteq ToWalk
  <2> SUFFICES ASSUME NEW x \in Range(ds) PROVE x \in ToWalk
    OBVIOUS
  <2>1. [decl |-> x, flags |-> none] \in Range(stack)
    BY <1>11
  <2>2. [decl |-> x, flags |-> none].decl = x
    OBVIOUS
  <2> QED
    BY <2>1, <2>2 DEF ToWalk
<1>15. Gives(TU) = Successors(TU)
  BY <1>1, <1>2, <1>3, GivesIs
<1>16. Covered
  BY <1>1, <1>3, <1>6, <1>14, <1>15 DEF Covered, Outside
<1>17. Handled = {}
  BY <1>1 DEF Handled
<1>18. HandledListed
  BY <1>17 DEF HandledListed
<1> QED
  BY <1>7, <1>12, <1>13, <1>16, <1>18 DEF OInv

LEMMA StutterOrder ==
  ASSUME UNCHANGED vars, NEW begin, NEW end, OInv(begin, end)
  PROVE  OInv(begin, end)'
<1>1. ast' = ast /\ stack' = stack /\ visited_' = visited_ /\ mod' = mod
  BY DEF vars
<1>2. /\ InTemplate' = InTemplate /\ \A n : Gives(n)' = Gives(n)
      /\ \A n : Enumerators(n)' = Enumerators(n)
      /\ \A n : IsEntry(n)' <=> IsEntry(n)
      /\ \A c : PlainCall(c, begin)' <=> PlainCall(c, begin)
      /\ SourceOrder(begin, end, InTemplate, Outside)' <=> SourceOrder(begin, end, InTemplate, Outside)
  BY <1>1, OrderFrozen, Frozen
<1>3. /\ Walked' = Walked /\ Handled' = Handled /\ TemplateEntries' = TemplateEntries
      /\ ToWalk' = ToWalk /\ Marked' = Marked
  BY <1>1, <1>2 DEF Walked, Handled, TemplateEntries, ToWalk, Marked
<1>4. Covered'
  BY <1>1, <1>2, <1>3 DEF OInv, Covered
<1>5. HandledListed'
  BY <1>2, <1>3 DEF OInv, HandledListed
<1>6. Sorted(stack, begin, end)'
  BY <1>1 DEF OInv, Sorted
<1> QED
  BY <1>1, <1>2, <1>4, <1>5, <1>6 DEF OInv

LEMMA TemplatesStay ==
  ASSUME [Next]_vars
  PROVE  templates_' = templates_
<1>1. ASSUME NEW kinds, Enter(kinds) PROVE templates_' = templates_
  BY <1>1 DEF Enter
<1>2. VisitAgain => templates_' = templates_
  BY DEF VisitAgain
<1>3. UNCHANGED vars => templates_' = templates_
  BY DEF vars
<1> QED
  BY <1>1, <1>2, <1>3 DEF Next, VisitIgnored, VisitStaticAssertDecl, VisitTypedefNameDecl,
     VisitTypeAliasTemplateDecl, VisitTemplateDecl, VisitCXXRecordDecl, VisitFunctionDecl,
     VisitVarDecl, VisitScopeDecl, VisitEnumDecl, VisitFriendDecl

LEMMA CompleteInductive == ASSUME WInv, TInv, CInv, [Next]_vars PROVE CInv'
<1> SUFFICES ASSUME templates_' PROVE \E begin, end : OInv(begin, end)'
  BY DEF CInv
<1>1. templates_ = TRUE
  <2>1. templates_ \in BOOLEAN
    BY DEF WInv, TypeOK
  <2>2. templates_' = templates_
    BY TemplatesStay
  <2> QED
    BY <2>1, <2>2
<1>2. PICK begin, end : OInv(begin, end)
  BY <1>1 DEF CInv
<1>3. CASE Next
  BY <1>1, <1>2, <1>3, OrderInductive
<1>4. CASE UNCHANGED vars
  BY <1>2, <1>4, StutterOrder
<1> QED
  BY <1>3, <1>4

\* Once all calls are made, what is in a template has been walked there.
LEMMA AllHandled ==
  ASSUME WInv, NEW begin, NEW end, OInv(begin, end), stack = <<>>
  PROVE  InTemplate \subseteq Handled
<1>1. ast \in ASTs
  BY DEF WInv
<1>2. ToWalk = {} /\ Marked = {}
  <2>1. Range(stack) = {}
    BY DEF Range
  <2> QED
    BY <2>1 DEF ToWalk, Marked
<1>3. Covered
  BY DEF OInv
<1>4. /\ visited_ \subseteq DOMAIN ast /\ Handled \subseteq Walked /\ Walked \subseteq DOMAIN ast
      /\ \A n \in Walked : n \in visited_ \/ ast[n].kind = "EnumConstant"
  BY WalkedNodes
<1>5. TU \in DOMAIN ast /\ ast[TU].kind = "TranslationUnit"
  BY <1>1, ASTFacts DEF WellFormed
<1> DEFINE W == Walked \cup {TU}
<1>6. \A n \in W : Gives(n) \subseteq W
  <2> SUFFICES ASSUME NEW n \in W PROVE Gives(n) \subseteq W
    OBVIOUS
  <2>1. CASE n \in visited_ \cup {TU}
    BY <1>2, <1>3, <2>1 DEF Covered
  <2>2. CASE n \in Walked /\ ast[n].kind = "EnumConstant"
    BY <1>1, <1>4, <2>2, GivesIs
  <2> QED
    BY <1>4, <2>1, <2>2
<1> DEFINE S == {TU}
<1>7. S \in SUBSET DOMAIN ast /\ S \subseteq W
  BY <1>5
<1>8. BelowWithPatterns(S) \subseteq W
  <2> HIDE DEF S, W
  <2> QED
    BY <1>1, <1>6, <1>7, PatternsLeast
<1>9. /\ \A n \in Handled : Gives(n) \subseteq Handled
      /\ \A n \in visited_ : ast[n].kind \in Template => Gives(n) \subseteq Handled
  BY <1>2, <1>3, HandledClosed
<1>10. ASSUME NEW n \in BelowWithPatterns({TU}), ast[n].kind \in Template
       PROVE  Range(ast[n].specs) \cup ({ast[n].templated} \ {None}) \subseteq Handled
  <2>1. n \in W
    BY <1>8
  <2>2. n # TU /\ ast[n].kind # "EnumConstant"
    BY <1>5, <1>10 DEF Template
  <2>3. n \in visited_ /\ n \in DOMAIN ast
    BY <1>4, <2>1, <2>2
  <2>4. Range(ast[n].specs) \cup ({ast[n].templated} \ {None}) \subseteq Gives(n)
    BY <1>1, <1>10, <2>3, GivesIs
  <2> QED
    BY <1>9, <1>10, <2>3, <2>4
<1> QED
  BY <1>1, <1>9, <1>10, InTemplateLeast

(* With --templates everything in a template is listed with the templates if *)
(* the text outside templates is in source order: visitDecl marks a          *)
(* declaration visited at the first call, whatever its flags, and a call     *)
(* without flags that meets a declaration of a template comes after the ones *)
(* that reach it through the template, with flags.                           *)
THEOREM TemplatesAreComplete == Spec /\ InSourceOrder => []TemplatesComplete
<1>1. Init => TInv
  BY InitTInv
<1>2. WInv /\ TInv /\ [Next]_vars => TInv'
  BY FlaggedInductive
<1>3. Init /\ InSourceOrder => CInv
  <2> SUFFICES ASSUME Init, InSourceOrder PROVE \E begin, end : OInv(begin, end)
    BY DEF CInv
  <2>1. PICK begin \in [DOMAIN ast -> Nat], end \in [DOMAIN ast -> Nat] :
               SourceOrder(begin, end, InTemplate, Below({TU}) \ InTemplate)
    BY DEF InSourceOrder
  <2>2. OInv(begin, end)
    BY <2>1, InitOrder
  <2> QED
    BY <2>2
<1>4. WInv /\ TInv /\ CInv /\ [Next]_vars => CInv'
  BY CompleteInductive
<1>5. WInv /\ CInv => TemplatesComplete
  <2> SUFFICES ASSUME WInv, CInv, stack = <<>>, templates_
               PROVE  {n \in InTemplate : IsEntry(n)} \subseteq Range(TemplateList)
    BY DEF TemplatesComplete, Done
  <2>1. PICK begin, end : OInv(begin, end)
    BY DEF CInv
  <2>2. InTemplate \subseteq Handled
    BY <2>1, AllHandled
  <2>3. \A n \in Handled : IsEntry(n) => n \in TemplateEntries
    BY <2>1 DEF OInv, HandledListed
  <2>4. Range(TemplateList) = TemplateEntries
    BY TemplateListRange
  <2> QED
    BY <2>2, <2>3, <2>4
<1> QED
  BY <1>1, <1>2, <1>3, <1>4, <1>5, WalkInductive, PTL DEF Spec
=============================================================================
