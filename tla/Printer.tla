------------------------------ MODULE Printer ------------------------------
(***************************************************************************)
(* The printers at work.  A visitor's calls are the top of a stack of work *)
(* and the Formatter lays out the text; the text is read by Coq as it is   *)
(* printed, and has to be a term of the expected sort: the printers, each  *)
(* of which prints its own parentheses, spaces and separators, implement   *)
(* the reader of module CoqReader.                                         *)
(*                                                                         *)
(* A node of the AST is represented by the choice among the texts of the   *)
(* visitor, at every place, independently: every AST of the bounded depth  *)
(* is covered.                                                             *)
(***************************************************************************)
EXTENDS PrintStmt, PrintType, PrintName, PrintExpr, PrintDecl, Integers, FiniteSets, TLC, CoqSyntax

CONSTANTS
    Roots,      \* what is printed: names of printers
    Nesting,    \* how deep printers call each other before only leaves remain
    Irregular   \* which of the texts that are no terms are printed

ASSUME RootsAssumption == Roots # {}
ASSUME NestingAssumption == Nesting \in Nat
ASSUME IrregularAssumption ==
    Irregular \subseteq {"case", "wordless", "declname", "nontype", "uett", "member", "pseudo",
                         "dunsupported"}

VARIABLES
    work,      \* items still to be printed, the next one first
    fmt,       \* Formatter: depth, spaces and blank
    outcome,   \* "printing", "aborted" by an assertion, or "died"
    mode,      \* CoqPrinter::templates_: "temp" or "cpp"
    token,     \* the token printed last
    stack      \* what Coq still expects

pvars == <<work, fmt, outcome, mode, token, stack>>

Coq == INSTANCE CoqReader WITH gap <- fmt.blank \/ fmt.spaces > 0

Table(m) ==
    StmtProductions @@ TypeProductions(m) @@ NameProductions @@ ExprProductions(m)
    @@ DeclProductions(m)

\* The texts of Table that Coq does not accept, with the printers and the
\* kinds of file that they belong to.
Expressions == {"Expr", "Condition"}
IrregularText ==
    [case |-> [of |-> {"SwitchBody"}, modes |-> Modes,
               texts |-> VisitCaseStmt("Stmt") \cup VisitDefaultStmt("Stmt")],
     wordless |-> [of |-> {"Type"}, modes |-> {"temp"}, texts |-> {Undeduced, Dependent}],
     declname |-> [of |-> {"decl_name"}, modes |-> Modes,
                   texts |-> printDeclarationNameDefault],
     nontype |-> [of |-> Expressions, modes |-> {"cpp"}, texts |-> NonTypeArgDefault],
     uett |-> [of |-> Expressions, modes |-> Modes, texts |-> UnaryExprOrTypeTraitDefault],
     member |-> [of |-> Expressions, modes |-> {"cpp"},
                 texts |-> VisitCXXDependentScopeMemberExpr],
     pseudo |-> [of |-> Expressions, modes |-> Modes, texts |-> VisitCXXPseudoDestructorExpr],
     dunsupported |-> [of |-> {"Decl"}, modes |-> {"temp"}, texts |-> Dunsupported]]

\* Those of printer p among the irregular texts is.
IrregularOf(is, m, p) ==
    UNION {IrregularText[i].texts :
             i \in {j \in is : p \in IrregularText[j].of /\ m \in IrregularText[j].modes}}

\* The texts of printer p: those of Table without the irregular ones that are
\* not to occur.
Productions ==
    [m \in Modes |->
        [p \in DOMAIN Table(m) |->
            Table(m)[p] \ IrregularOf(DOMAIN IrregularText \ Irregular, m, p)]]

Calls == {"call", "opt", "list", "many", "filter"}

\* The texts that call no other printer, if there are any.
Leaves ==
    [m \in Modes |-> [p \in DOMAIN Productions[m] |->
        LET flat == {t \in Productions[m][p] : \A i \in DOMAIN t : t[i].k \notin Calls}
        IN  IF flat \subseteq {<<>>} THEN Productions[m][p] ELSE flat]]

\* The texts of an item that stands for a call, and the nesting below it.
Texts(it) ==
    CASE it.k = "call" -> IF it.n = 0 THEN Leaves[mode][it.v] ELSE Productions[mode][it.v]
      [] it.k = "opt" -> optional(it.v)
      [] it.k = "list" -> list_range(it.v)
      [] it.k = "filter" -> list_range_filter(it.v)
      [] it.k = "many" -> loop(it.v)
Below(it) == IF it.k = "call" /\ it.n > 0 THEN it.n - 1 ELSE it.n

\* printStmt, printExpr and printType compare the indentation before and after.
Checked == {"Stmt", "Body", "Expr", "Condition", "Type"}
CheckDepth(it) ==
    IF it.k = "call" /\ it.v \in Checked
    THEN <<[k |-> "depth", v |-> "", n |-> fmt.depth]>> ELSE <<>>

\* Formatter::nobreak and what follows it: t is written and read by Coq.  A
\* token that Coq does not accept leaves it expecting what no token is.
Write(t, depth) ==
    /\ fmt' = [depth |-> depth, spaces |-> 0, blank |-> FALSE]
    /\ token' = t
    /\ LET next == IF stack = <<>> THEN {} ELSE Coq!After(mode, Head(stack), t)
       IN  IF next # {} /\ (fmt.blank \/ fmt.spaces > 0 \/ ~Coq!Glued(token, t))
           THEN \E fs \in next : stack' = fs \o Tail(stack)
           ELSE stack' = <<<<"tok", "refused">>>>
    /\ UNCHANGED outcome

Silent == UNCHANGED <<outcome, token, stack>>

\* The sort of term that a root stands for.
SortOf(r) ==
    CASE r = "Module" -> L("Decl") [] r = "Body" -> S("Stmt") [] OTHER -> S(r)

Init ==
    /\ mode \in Modes
    /\ \E r \in Roots : /\ r \in DOMAIN Productions[mode]
                        /\ work = <<[k |-> "call", v |-> r, n |-> Nesting]>>
                        /\ stack = <<<<"atom">> \o SortOf(r)>>
    /\ fmt = [depth |-> 0, spaces |-> 0, blank |-> TRUE]
    /\ outcome = "printing"
    /\ token = ""

\* The next item is of kind k; it is taken from the stack.
Top(k) == outcome = "printing" /\ work # <<>> /\ Head(work).k = k
Pop == work' = Tail(work) /\ UNCHANGED mode

output == Top("tok") /\ Pop /\ Write(Head(work).v, fmt.depth)
put_lparen == Top("lparen") /\ Pop /\ Write("(", fmt.depth + 2)
put_nbsp == Top("nbsp") /\ Pop /\ fmt' = [fmt EXCEPT !.spaces = 1] /\ Silent
put_line == Top("line") /\ Pop /\ fmt' = [fmt EXCEPT !.spaces = 0, !.blank = TRUE] /\ Silent

\* Mutant: the indentation is not taken back.
put_rparen_indented ==
    /\ Top("rparen")
    /\ Pop
    /\ IF fmt.depth >= 2 THEN Write(")", fmt.depth)
       ELSE outcome' = "aborted" /\ UNCHANGED <<fmt, token, stack>>

\* outdent asserts that there is an indentation to take back; the spaces in
\* front of the parenthesis are dropped.
put_rparen ==
    /\ Top("rparen")
    /\ Pop
    /\ IF fmt.depth >= 2 THEN Write(")", fmt.depth - 2)
       ELSE outcome' = "aborted" /\ UNCHANGED <<fmt, token, stack>>

visit ==
    /\ outcome = "printing" /\ work # <<>> /\ Head(work).k \in Calls
    /\ LET it == Head(work)
       IN  \E t \in Texts(it) :
             work' = [i \in DOMAIN t |-> [t[i] EXCEPT !.n = Below(it)]]
                     \o CheckDepth(it) \o Tail(work)
    /\ UNCHANGED <<fmt, mode>>
    /\ Silent

check_depth ==
    /\ Top("depth")
    /\ Pop
    /\ outcome' = IF Head(work).n = fmt.depth THEN outcome ELSE "aborted"
    /\ UNCHANGED <<fmt, token, stack>>

die ==
    /\ Top("die")
    /\ Pop
    /\ outcome' = "died"
    /\ UNCHANGED <<fmt, token, stack>>           \* flush writes no token

Next ==
    \/ output \/ put_lparen \/ put_rparen \/ put_nbsp \/ put_line
    \/ visit \/ check_depth \/ die

Spec == Init /\ [][Next]_pvars

(***************************************************************************)
(* Properties.                                                             *)
(***************************************************************************)

\* Every prefix of what the visitors of PrintStmt.cpp, PrintExpr.cpp,
\* PrintType.cpp, PrintName.cpp and PrintDecl.cpp print is the beginning of a
\* term that Coq accepts there: each constructor gets its arguments, of the
\* right sorts and number, the parentheses match, and no two words run
\* together, whatever the surrounding printer printed before.
TextIsCoq == Coq!Spec

\* The term is finished when the printer returns.
Complete == work = <<>> /\ outcome = "printing" => stack = <<>>

\* The parentheses that lparen has opened and rparen has not closed before the
\* i-th item of the text t.
Opened(t, i) ==
    Cardinality({j \in 1 .. i - 1 : t[j].k = "lparen"})
    - Cardinality({j \in 1 .. i - 1 : t[j].k = "rparen"})

\* t closes with rparen what it opened with lparen, and nothing else; and the
\* printers that it calls exist.
IsBalanced(t) ==
    /\ Opened(t, Len(t) + 1) = 0
    /\ \A i \in 1 .. Len(t) : Opened(t, i) >= IF t[i].k = "rparen" THEN 1 ELSE 0

Calling(t, ps) ==
    /\ t \in Seq([k : STRING, v : STRING, n : Nat])
    /\ \A i \in 1 .. Len(t) : t[i].k # "depth" /\ (t[i].k \in Calls => t[i].v \in ps)

\* Every visitor, and every method of CoqPrinter that takes a printer, opens
\* and closes the same constructors on each of its paths, those of the
\* irregular texts included.  (The one path that does not, the default of
\* VisitAtomicExpr's switch over clang's atomic operations, is never taken.)
TextsAreBalanced ==
    \A m \in Modes : \A p \in DOMAIN Table(m) :
        \A t \in UNION {Table(m)[p], optional(p), list_range_filter(p), loop(p)} :
            IsBalanced(t) /\ Calling(t, DOMAIN Table(m))

\* The assertions on the indentation hold: that of Formatter::outdent and
\* those at the end of printStmt, printExpr and printType.  The indentation
\* follows lparen and rparen only, so a visitor that closes with a bare
\* parenthesis what it opened with lparen prints a good text and aborts.
NeverAborts == outcome # "aborted"
=============================================================================
