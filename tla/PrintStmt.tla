----------------------------- MODULE PrintStmt -----------------------------
(***************************************************************************)
(* PrintStmt.cpp and PrintLocalDecl.cpp: the texts of statements and of    *)
(* the declarations among them.                                            *)
(*                                                                         *)
(* "Stmt" is a statement in a position where one term is expected,         *)
(* "BodyStmt" one directly inside a compound statement, where every text   *)
(* is followed by a cons: there a case label may print a term of its own   *)
(* in front of the statement it labels.                                    *)
(***************************************************************************)
EXTENDS CoqPrinter

VisitDeclStmt == {Ctor("Sdecl", ListOf(Many("LocalDecl")))}

VisitWhileStmt ==
    {App("Swhile", <<Opt("CondVar"), Call("Expr"), Call("Stmt")>>)}

VisitForStmt ==
    {App("Sfor", <<Opt("Stmt"), Opt("Expr"), Opt("Expr"), Call("Stmt")>>)}

VisitCXXForRangeStmt ==
    {App("Sforeach", <<Call("Stmt"), Call("Stmt"), Call("Stmt"), Opt("Stmt"),
                       Opt("Expr"), Opt("Expr"), Call("Stmt"), Call("Stmt")>>)}

VisitDoStmt == {App("Sdo", <<Call("Stmt"), Call("Expr")>>)}
VisitBreakStmt == {Tok("Sbreak")}
VisitContinueStmt == {Tok("Scontinue")}

Else == {Call("Stmt"), Tok("Sskip")}

VisitIfStmt ==
    {App("Sif_consteval", <<Call("Stmt"), e>>) : e \in Else}
    \cup {App("Sif", <<Opt("CondVar"), Call("Expr"), Call("Stmt"), e>>) : e \in Else}

\* The label is one element of the surrounding list, the statement the next.
VisitCaseStmt(sub) ==
    {Ctor("Scase", b) \o cons \o Call(sub) :
        b \in {App("Range", <<Num, Num>>), App("Exact", <<Num>>)}}
VisitDefaultStmt(sub) == {Tok("Sdefault") \o cons \o Call(sub)}

\* Nothing is printed between the three parts: a condition begins a new line
\* and ends with a parenthesis.
VisitSwitchStmt == {Ctor("Sswitch", Opt("CondVar") \o Call("Condition") \o Call("SwitchBody"))}

VisitExprStmt == {App("Sexpr", <<Call("Expr")>>)}
VisitReturnStmt == {App("Sreturn_val", <<Call("Expr")>>), Tok("Sreturn_void")}
VisitCompoundStmt == {Ctor("Sseq", ListOf(Many("BodyStmtCons")))}
VisitNullStmt == {Tok("Sskip")}

VisitGCCAsmStmt ==
    {Ctor("Sasm", Str \o nbsp \o Bool \o nbsp \o ListOf(Many("AsmArg"))
                  \o ListOf(Many("AsmArg")) \o ListOf(Many("StrCons")))}
AsmArg == {Tuple2(Str, Call("Expr")) \o cons}

VisitAttributedStmt == {Ctor("Sattr", ListOf(Many("StrCons")) \o Call("Stmt"))}
VisitLabelStmt == {App("Slabeled", <<Str, Call("Stmt")>>)}
VisitGotoStmt == {App("Sgoto", <<Str>>)}
VisitCXXTryStmt == {App("Sunsupported", <<Str>>)}
VisitStmt == {Die}                     \* every other statement

printStmt ==
    VisitDeclStmt \cup VisitWhileStmt \cup VisitForStmt \cup VisitCXXForRangeStmt
    \cup VisitDoStmt \cup VisitBreakStmt \cup VisitContinueStmt \cup VisitIfStmt
    \cup VisitSwitchStmt \cup VisitExprStmt \cup VisitReturnStmt
    \cup VisitCompoundStmt \cup VisitNullStmt \cup VisitGCCAsmStmt
    \cup VisitAttributedStmt \cup VisitLabelStmt \cup VisitGotoStmt
    \cup VisitCXXTryStmt \cup VisitStmt

(***************************************************************************)
(* Local declarations.  A declaration that prints nothing (extern, a type, *)
(* a static assertion...) is answered false, and no cons follows it.       *)
(***************************************************************************)
VisitVarDecl ==
    {App("Dinit", <<Bool, Call("name"), Call("type"), Opt("Expr")>>),
     App("Dvar", <<Str, Call("type"), Opt("Expr")>>)}

VisitDecompositionDecl ==
    {Ctor("Ddecompose",
          Call("Expr") \o nbsp \o Raw(Tok("localname.anon") \o nbsp \o Num)
          \o nbsp \o List("Binding"))}
Binding == {App(c, <<Str, Call("type"), Call("Expr")>>) : c \in {"Bvar", "Bbind"}}

SilentDecl == {<<>>}    \* VisitTypeDecl, VisitStaticAssertDecl, VisitDecl

printLocalDecl ==
    {d \o cons : d \in VisitVarDecl \cup VisitDecompositionDecl} \cup SilentDecl

StmtProductions ==
    [Stmt |-> printStmt,
     Body |-> VisitCompoundStmt \cup VisitCXXTryStmt,      \* of a function
     \* a label here prints two elements, and there is no list: see Irregular
     SwitchBody |-> {Call("Stmt")} \cup VisitCaseStmt("Stmt") \cup VisitDefaultStmt("Stmt"),
     BodyStmtCons |-> {s \o cons : s \in {Call("BodyStmt")}},
     BodyStmt |-> {Call("Stmt")} \cup VisitCaseStmt("BodyStmt")
                  \cup VisitDefaultStmt("BodyStmt"),
     AsmArg |-> AsmArg, StrCons |-> {Str \o cons},
     LocalDecl |-> printLocalDecl, VarDecl |-> VisitVarDecl \cup VisitDecompositionDecl,
     CondVar |-> VisitVarDecl, Binding |-> Binding]
=============================================================================
