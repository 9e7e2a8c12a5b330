------------------------------ MODULE PrePrint ------------------------------
(***************************************************************************)
(* The sharing pass of toCoqModule.  Before the module is printed,         *)
(* PrePrint (PrePrint.cpp) walks the listed declarations, gives the types  *)
(* and names it meets numbers and prints each as a Coq definition,         *)
(*   Definition t<num> : type := ...    Definition n<num> : name := ...    *)
(* and from then on the printers print t<num> or n<num> for it.  Coq reads *)
(* the file from top to bottom, so the file is only well formed if what a  *)
(* definition refers to is defined above it.                               *)
(*                                                                         *)
(* The recursion of the visitor is the stack of calls still to be made.    *)
(* Types, names, statements and declarations are clang's (external): an    *)
(* item is a record with its sort, its kind and the parts the code reads.  *)
(* parts is the sequence of the items that are below it:                   *)
(*   type   Record, Enum      getDecl(), and the declaration printed       *)
(*          Function          the return type, then the parameter types    *)
(*          VariableArray     the element type, then the size expression   *)
(*          otherwise         the types below it                           *)
(*   name   what its name mentions: its scope, parameter types, arguments  *)
(*   stmt   its operands, in the order in which they are visited           *)
(*   decl   what its declaration mentions                                  *)
(***************************************************************************)
EXTENDS Integers, Sequences, Functions, Closure

CONSTANTS
  item,     \* the items: a function from their identities to records
  depth,    \* how deep an item is: more than the depth of its parts
  MaxDepth, \* the deepest
  Modules   \* what build_module returns

Item == DOMAIN item

TypeKind == {"Builtin", "Record", "Enum", "Reference", "Pointer", "Array",
             "VariableArray", "Decayed", "Function", "Elaborated", "Subst", "Other"}

VARIABLES
  mod,        \* the Module printed and whether it is shared (never change)
  todo,       \* declarations still to be pre-printed
  stack,      \* the calls still to be made, the next one first
  next_,      \* the counters of the two NameCaches
  entries_,   \* the entries of the two NameCaches
  defs,       \* the definitions printed
  list,       \* the declarations printed after them
  aborted     \* an always_assert failed

vars == <<mod, todo, stack, next_, entries_, defs, list, aborted>>

----------------------------------------------------------------------------
(* Cache.                                                                  *)

PREFIX(x) == IF item[x].sort = "type" THEN "t" ELSE "n"

\* Mutants: the counter is not advanced, or runs down.
fresh_same(x) == next_[PREFIX(x)]
fresh_down(x) == next_[PREFIX(x)] - 1

fresh(x) == next_[PREFIX(x)] + 1

lookup(x) == x \in DOMAIN entries_

\* What is printed for an item that has an entry.
reference(x) == [prefix |-> PREFIX(x), num |-> entries_[x], of |-> x]

store(x, num) ==
  entries_' = [y \in DOMAIN entries_ \cup {x} |-> IF y = x THEN num ELSE entries_[y]]

----------------------------------------------------------------------------
(* Printing: PrintType, structured::printName and the printers above them. *)

\* What can be printed inside x where x is not printed as a reference: of an
\* expression its type and the declaration it names, besides its operands.
prints(x) ==
  IF item[x].kind \in {"Record", "Enum"} /\ item[x].sort = "type"
  THEN {item[x].parts[2]}
  ELSE Range(item[x].parts)
       \cup IF item[x].sort = "stmt" THEN Range(item[x].type) \cup Range(item[x].named) ELSE {}

\* What is printed for the items xs: printing stops at the items in entries.
Printed(xs, entries) ==
  Reached([y \in Item |-> IF y \in entries THEN {} ELSE prints(y)], xs, MaxDepth)

\* The references in the text printed for x, which has no entry.
References(x) ==
  {reference(y) : y \in Printed(prints(x), DOMAIN entries_) \cap DOMAIN entries_}

----------------------------------------------------------------------------
(* The visitor.                                                            *)

\* The Visit methods for types return true: the type gets an entry.
Cached(x) ==
  \/ item[x].sort = "name"
  \/ /\ item[x].sort = "type"
     /\ item[x].kind \in {"Record", "Enum", "Reference", "Pointer", "Array", "Function"}

\* What the Visit method for a type visits, in order.
VisitType(x) ==
  LET parts == item[x].parts
  IN  CASE item[x].kind \in {"Record", "Enum"} -> <<parts[1]>>
        [] item[x].kind = "Function" -> Append(Tail(parts), parts[1])
        [] item[x].kind = "VariableArray" -> <<parts[2]>>
        [] item[x].kind \in {"Builtin", "Other"} -> <<>>
        [] OTHER -> parts

\* An expression's type is visited first; a cast's again after its operand.
VisitStmt(x) ==
  LET s     == item[x]
      type  == s.type                  \* <<>> for a statement
      named == s.named                 \* the declaration named, or <<>>
  IN  type \o
      CASE s.kind \in {"DeclRef", "MemberCall", "Construct"} ->
             (IF s.local THEN <<>> ELSE named) \o s.parts
        [] s.kind = "Cast" -> s.parts \o type
        [] s.kind = "Other" -> <<>>
        [] OTHER -> s.parts

VisitDecl(x) ==
  LET d == item[x]
  IN  CASE d.kind = "Var" -> d.types
        [] d.kind = "Function" -> d.types \o <<d.name>> \o d.body
        [] d.kind = "Constructor" -> d.inits \o d.types \o <<d.name>> \o d.body
        [] d.kind = "Record" -> <<d.name>> \o d.types
        [] OTHER -> <<>>

visits(x) ==
  CASE item[x].sort = "type" -> VisitType(x)
    [] item[x].sort = "stmt" -> VisitStmt(x)
    [] item[x].sort = "decl" -> VisitDecl(x)
    [] OTHER -> <<>>

Visit(x)  == [call |-> "Visit", of |-> x]
Define(x) == [call |-> "Define", of |-> x]

Visits(xs) == [i \in DOMAIN xs |-> Visit(xs[i])]

top == stack[1]

\* The lambda preprint of toCoqModule, called for the next declaration.
preprint ==
  /\ stack = <<>> /\ todo # <<>> /\ ~aborted
  /\ stack' = <<Visit(todo[1])>>
  /\ todo' = Tail(todo)
  /\ UNCHANGED <<mod, next_, entries_, defs, list, aborted>>

\* Nothing to do for an item that has an entry.
VisitCached ==
  /\ stack # <<>> /\ top.call = "Visit" /\ lookup(top.of)
  /\ stack' = Tail(stack)
  /\ UNCHANGED <<mod, todo, next_, entries_, defs, list, aborted>>

\* Mutants: the cache is not looked up; an item is defined before its parts.
VisitNew_always ==
  /\ stack # <<>> /\ top.call = "Visit"
  /\ stack' = Visits(visits(top.of))
                \o (IF Cached(top.of) THEN <<Define(top.of)>> ELSE <<>>)
                \o Tail(stack)
  /\ UNCHANGED <<mod, todo, next_, entries_, defs, list, aborted>>
VisitNew_define_first ==
  /\ stack # <<>> /\ top.call = "Visit" /\ ~lookup(top.of)
  /\ stack' = (IF Cached(top.of) THEN <<Define(top.of)>> ELSE <<>>)
                \o Visits(visits(top.of)) \o Tail(stack)
  /\ UNCHANGED <<mod, todo, next_, entries_, defs, list, aborted>>

\* What is below an item first, then its definition.
VisitNew ==
  /\ stack # <<>> /\ top.call = "Visit" /\ ~lookup(top.of)
  /\ stack' = Visits(visits(top.of))
                \o (IF Cached(top.of) THEN <<Define(top.of)>> ELSE <<>>)
                \o Tail(stack)
  /\ UNCHANGED <<mod, todo, next_, entries_, defs, list, aborted>>

\* Mutant: the entry is stored before the definition is printed.
DefineItem_store_first ==
  /\ stack # <<>> /\ top.call = "Define"
  /\ LET x == top.of
         r == [prefix |-> PREFIX(x), num |-> fresh(x), of |-> x]
     IN  /\ next_' = [next_ EXCEPT ![PREFIX(x)] = fresh(x)]
         /\ defs' = Append(defs, [prefix |-> PREFIX(x), num |-> fresh(x), of |-> x,
                                  refs |-> {r}])
         /\ store(x, fresh(x))
  /\ stack' = Tail(stack)
  /\ UNCHANGED <<mod, todo, list, aborted>>

\* fresh, type_printer_ or name_printer_, and then store.
DefineItem ==
  /\ stack # <<>> /\ top.call = "Define"
  /\ LET x == top.of
     IN  /\ next_' = [next_ EXCEPT ![PREFIX(x)] = fresh(x)]
         /\ defs' = Append(defs, [prefix |-> PREFIX(x), num |-> fresh(x), of |-> x,
                                  refs |-> References(x)])
         /\ IF lookup(x)
            THEN aborted' = TRUE /\ stack' = <<>> /\ UNCHANGED entries_
            ELSE store(x, fresh(x)) /\ stack' = Tail(stack) /\ UNCHANGED aborted
  /\ UNCHANGED <<mod, todo, list>>

\* The next declaration of the module: its declarations, then its
\* definitions, then its asserts.
Listed == mod.declarations \o mod.definitions \o mod.asserts

\* Mutant: the last declaration is left out.
printDecl_but_last ==
  /\ stack = <<>> /\ todo = <<>> /\ ~aborted
  /\ Len(list) + 1 < Len(Listed)
  /\ LET x == Listed[Len(list) + 1]
     IN  list' = Append(list, [of |-> x, refs |-> References(x)])
  /\ UNCHANGED <<mod, todo, stack, next_, entries_, defs, aborted>>

printDecl ==
  /\ stack = <<>> /\ todo = <<>> /\ ~aborted
  /\ Len(list) < Len(Listed)
  /\ LET x == Listed[Len(list) + 1]
     IN  list' = Append(list, [of |-> x, refs |-> References(x)])
  /\ UNCHANGED <<mod, todo, stack, next_, entries_, defs, aborted>>

\* Mutant: only the definitions are pre-printed.
Init_definitions ==
  /\ mod \in Modules
  /\ todo = IF mod.sharing THEN mod.definitions ELSE <<>>
  /\ stack = <<>>
  /\ next_ = [p \in {"t", "n"} |-> 1]
  /\ entries_ = [x \in {} |-> 0]
  /\ defs = <<>>
  /\ list = <<>>
  /\ aborted = FALSE

Init ==
  /\ mod \in Modules
  /\ todo = IF mod.sharing THEN mod.declarations \o mod.definitions ELSE <<>>
  /\ stack = <<>>
  /\ next_ = [p \in {"t", "n"} |-> 1]
  /\ entries_ = [x \in {} |-> 0]
  /\ defs = <<>>
  /\ list = <<>>
  /\ aborted = FALSE

Next == preprint \/ VisitCached \/ VisitNew \/ DefineItem \/ printDecl

Spec == Init /\ [][Next]_vars /\ WF_vars(Next)

----------------------------------------------------------------------------
(* The items that clang builds: every item after what is below it.         *)

ASSUME ItemAssumption ==
  \A x \in Item : visits(x) \in Seq(Item) /\ prints(x) \subseteq Item

ASSUME DepthAssumption ==
  /\ MaxDepth \in Nat
  /\ \A x \in Item : depth[x] \in 0 .. MaxDepth
  /\ \A x \in Item : \A y \in Range(visits(x)) \cup prints(x) : depth[y] < depth[x]

ASSUME ModulesAssumption ==
  \A m \in Modules :
    /\ m.sharing \in BOOLEAN
    /\ {m.declarations, m.definitions, m.asserts} \subseteq Seq(Item)

----------------------------------------------------------------------------
(* Properties.                                                             *)

Reference == [prefix : {"t", "n"}, num : Nat, of : Item]

Done == stack = <<>> /\ todo = <<>> /\ Len(list) = Len(Listed)

(* Type invariant of the pass. *)
TypeOK ==
  /\ todo \in Seq(Item)
  /\ stack \in Seq([call : {"Visit", "Define"}, of : Item])
  /\ next_ \in [{"t", "n"} -> Nat]
  /\ DOMAIN entries_ \subseteq Item
  /\ entries_ \in [DOMAIN entries_ -> Nat]
  /\ defs \in Seq([prefix : {"t", "n"}, num : Nat, of : Item, refs : SUBSET Reference])
  /\ list \in Seq([of : Item, refs : SUBSET Reference])
  /\ aborted \in BOOLEAN

ResolvesIn(r, n) ==
  \E j \in 1 .. n : /\ defs[j].prefix = r.prefix /\ defs[j].num = r.num
                    /\ defs[j].of = r.of

(* Coq accepts the file and reads back what was meant: every t<num> or       *)
(* n<num> printed in a definition is defined by a line above it, for the     *)
(* very item it stands for; those in the module are all defined.             *)
Resolves ==
  /\ \A k \in DOMAIN defs : \A r \in defs[k].refs : ResolvesIn(r, k - 1)
  /\ \A k \in DOMAIN list : \A r \in list[k].refs : ResolvesIn(r, Len(defs))

(* No identifier is defined twice and no item gets two definitions, although *)
(* types are reached on many paths and numbered after what is below them.    *)
DistinctDefinitions ==
  \A i, j \in DOMAIN defs :
    \/ defs[i].of = defs[j].of
    \/ defs[i].prefix = defs[j].prefix /\ defs[i].num = defs[j].num
    => i = j

(* NameCache::store never finds an entry (its always_assert holds): while    *)
(* the parts of a type are visited, the type itself gets no entry.           *)
NeverAborts == ~aborted

\* What the visitor visits in S or below it.
VisitedBelow(S) == Reached([y \in Item |-> Range(visits(y))], S, MaxDepth)

(* What the visitor meets below a type or name and defines is referred to in *)
(* the definition of that type or name wherever it is printed there, and     *)
(* never printed again: it has its definition by then.                       *)
PartsAreShared ==
  \A k \in DOMAIN defs :
    LET x      == defs[k].of
        shared == {r.of : r \in defs[k].refs}
    IN  {y \in VisitedBelow(Range(visits(x))) : Cached(y)} \cap Printed(prints(x), shared)
          \subseteq shared

(* At the end, exactly the types and names that are visited are defined;     *)
(* with --no-sharing nothing is defined or referred to.                     *)
AllShared ==
  Done => {defs[k].of : k \in DOMAIN defs} =
            IF mod.sharing
            THEN {x \in VisitedBelow(Range(mod.declarations \o mod.definitions)) : Cached(x)}
            ELSE {}

(* The pass ends and the whole module is printed.                            *)
Terminates == <>Done
=============================================================================
