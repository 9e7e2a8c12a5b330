----------------------------- MODULE PrintExpr -----------------------------
(***************************************************************************)
(* PrintExpr.cpp: the texts of expressions.  "decltype" is printDeclType,  *)
(* the type of an expression with its value category.  Words that a switch *)
(* chooses among are represented by one of them: Ecstyle_cast stands for   *)
(* the explicit casts, Epreinc for the increments, Cbitcast and Cl2r for   *)
(* the casts with and without a type, Esizeof for the three traits.        *)
(***************************************************************************)
EXTENDS CoqPrinter

printOverloadableOperator ==
    {ICtor(c, Bool) : c \in {"OONew", "OODelete"}} \cup {Tok("Op0"), Die}

\* Evar of an anonymous name, a parameter or a variable; Eglobal of a name.
printValueDeclExpr ==
    {IApp("Evar", <<n, Call("type")>>) :
        n \in {Raw(Tok("localname.anon") \o nbsp \o Num), Call("localname"), Str}}
    \cup {IApp("Eglobal", <<Call("name"), Call("type")>>)}

PrintDependentName ==
    {Ctor("Ndependent", App("Tresult_member", <<Call("type"), Call("unresolved_name")>>)),
     Call("unresolved_name"), Raw(Tok("Nunsupported") \o nbsp \o Str),
     App("Nunsupported", <<Str>>)}

printDeclType == {ICtor(c, Call("type")) : c \in {"Tref", "Trv_ref"}} \cup {Call("type")}

\* done: what ends the text of an expression.
DoneT == nbsp \o Call("type") \o end_ctor
DoneDT == Call("decltype") \o end_ctor
DoneV == nbsp \o Tok("ValCat") \o end_ctor
\* Where a templates file may leave the type open.
DoneO(m) == (IF m = "temp" THEN nbsp \o Call("type_option") ELSE nbsp \o Call("type"))
            \o end_ctor

unsupported_expr == {ictor("Eunsupported") \o Str \o nbsp \o DoneDT}

VisitStmtExpr == {App("Estmt", <<Call("Stmt"), Call("type")>>)}
VisitCXXRewrittenBinaryOperator == {Call("Expr")}
VisitGNUNullExpr == {ictor("Egnu_null") \o DoneT}

VisitDependentScopeDeclRefExpr(m) ==
    IF m = "temp" THEN {ICtor("Eunresolved_global", Call("unresolved_name"))}
    ELSE unsupported_expr
VisitUnresolvedLookupExpr(m) == VisitDependentScopeDeclRefExpr(m)

printBinaryOperator == {Tok("BinOp0"), Raw(Tok("Bunsupported") \o nbsp \o Str)}

VisitBinaryOperator(m) ==
    {App(c, <<Call("Expr"), Call("Expr")>>) : c \in {"Ecomma", "Eseqand"}}
    \cup {c \o Call("Expr") \o nbsp \o Call("Expr") \o DoneO(m) :
            c \in {ctor("Eassign"), ctor("Eassign_op") \o Tok("BinOp0") \o nbsp}
                  \cup {ctor("Ebinop") \o o \o nbsp : o \in printBinaryOperator}}

printUnaryOperator == {Tok("UnOp0"), Raw(Tok("Uunsupported") \o nbsp \o Str)}

VisitUnaryOperator(m) ==
    {Ctor("Eextension", Call("Expr")), Ctor("Eaddrof", Call("Expr")),
     App("Eglobal_member", <<Call("name"), Call("type")>>)}
    \cup {c \o Call("Expr") \o DoneO(m) :
            c \in {ctor("Ederef"), ctor("Epreinc")}
                  \cup {ctor("Eunop") \o o \o nbsp : o \in printUnaryOperator}}

\* The text of an argument that is neither a number nor an expression has no
\* type: see Irregular.
NonTypeArgDefault == {Ctor("Eunsupported", Str)}
printNonTypeTemplateParam ==
    {ICtor("Eparam", Str), App("Eint", <<Num, Call("type")>>), Call("Expr"), Die}
    \cup NonTypeArgDefault

VisitDeclRefExpr(m) ==
    {App("Ecapture_var", <<Tok("qualifiers"), Call("name"), Str, Call("type")>>),
     ctor("Eunevaluated_var") \o Str \o DoneT,
     IApp("Eenum_const", <<Call("name"), Str>>),
     ictor("Eenum_const_at") \o Call("name") \o nbsp \o Str \o nbsp \o DoneT,
     Call("value_decl"), Die}
    \cup IF m = "temp" THEN {ICtor("Eparam", Str)} ELSE printNonTypeTemplateParam

VisitCallExpr ==
    {App("Eunresolved_call", <<Call("dependent_name"), List("Expr")>>),
     App("Epseudo_destructor", <<Bool, Call("type"), Call("Expr")>>),
     Ctor("Ecall", Call("Expr") \o line \o List("Expr"))}

VisitCXXOperatorCallExpr ==
    {App("Eoperator_member_call",
         <<Call("OverloadableOperator"), Call("name"), Tok("dispatch"), Call("type"),
           Call("Expr"), List("Expr")>>),
     App("Eoperator_call",
         <<Call("OverloadableOperator"), Call("name"), Call("type"), List("Expr")>>),
     Die}

printCast ==
    {ICtor("Cbitcast", Call("decltype")), Tok("Cl2r"),
     ctor("Cderived2base") \o List("Type") \o nbsp \o DoneDT,
     ictor("Cunsupported") \o Str \o nbsp \o DoneDT}

VisitExplicitCastExpr ==
    unsupported_expr
    \cup {App("Ecstyle_cast", <<Call("Cast"), Call("type"), Call("Expr")>>)}

VisitImplicitCastExpr ==
    {IApp("Ebuiltin", <<Call("name"), Call("type")>>),
     App("Ecast", <<Call("Cast"), Call("Expr")>>)}

VisitIntegerLiteral == {ictor("Eint") \o Num \o DoneT}
VisitCharacterLiteral == {ictor("Echar") \o Num \o DoneT}
print_string_type == nbsp \o Call("Type")
VisitSourceLocExpr ==
    {Ctor("Esource_loc", Str \o nbsp \o e) :
        e \in {ctor("Eint") \o Num \o nbsp \o DoneT, Call("Expr")}}
VisitStringLiteral ==
    {ICtor("Estring", ListOf(Many("NumCons")) \o print_string_type)}
VisitPredefinedExpr ==
    {Ctor("Estring", Ctor("BS.string_to_bytes", Str) \o print_string_type)}
VisitCXXBoolLiteralExpr == {Raw(Tok("Ebool") \o nbsp \o Bool)}
VisitFloatingLiteral == {ctor("Eunsupported") \o nbsp \o Str \o DoneT}

VisitMemberExpr ==
    {App("Emember", <<Bool, Call("Expr"), f>>) :
        f \in {IApp("Field", <<Call("field_name"), Bool, Call("type")>>),
               ICtor("Enum", Call("name")),
               IApp("Static", <<Call("name"), Call("type")>>), Die}}

\* In both kinds of file, with the boolean that only a templates file takes:
\* see Irregular.
VisitCXXDependentScopeMemberExpr ==
    {App("Eunresolved_member", <<Bool, Call("Expr"), Call("unresolved_name")>>)}

VisitArraySubscriptExpr(m) ==
    {ctor("Esubscript") \o Call("Expr") \o nbsp \o Call("Expr") \o DoneO(m)}

VisitCXXConstructExpr ==
    {ctor("Econstructor") \o Call("name") \o nbsp \o List("Expr") \o DoneT}
AnonVar == {IApp("Evar", <<Raw(Tok("localname.anon") \o nbsp \o Num), Call("type")>>)}
VisitCXXInheritedCtorInitExpr ==
    {ctor("Econstructor") \o Call("name") \o nbsp \o List("AnonVar") \o DoneT}

VisitCXXMemberCallExpr ==
    {App("Emember_call",
         <<Bool,
           Ctor("inl", lparen \o Call("name") \o Tok(",") \o nbsp \o Tok("dispatch")
                       \o Tok(",") \o nbsp \o Call("type") \o rparen),
           Call("Expr"), List("Expr")>>),
     App("Emember_call", <<Bool, Ctor("inr", Call("Expr")), Call("Expr"), List("Expr")>>)}

VisitCXXDefaultArgExpr == {Ctor("Eimplicit", Call("Expr"))}

\* Nothing stands between the last operand and its type: see Enull.
VisitConditionalOperator ==
    {ctor("Eif") \o Spaced(<<Call("Expr"), Call("Expr"), Call("Expr")>>) \o DoneDT}
VisitBinaryConditionalOperator ==
    {ctor("Eif2") \o Spaced(<<Num, Call("Expr"), Call("Expr"), Call("Expr"), Call("Expr")>>)
     \o DoneDT}

VisitParenExpr == {Call("Expr")}       \* VisitConstantExpr too

VisitParenListExpr(m) ==
    IF m = "temp" THEN {App("Eunresolved_parenlist", <<Call("type_option"), List("Expr")>>)}
    ELSE unsupported_expr

VisitInitListExpr ==
    {Call("Expr"),
     ctor("Einitlist_union") \o Call("field_name") \o nbsp \o Opt("Expr") \o DoneT,
     ctor("Einitlist") \o List("Expr") \o nbsp \o Opt("Expr") \o DoneT}

VisitCXXThisExpr ==
    {IApp("Ecapture_this", <<Tok("qualifiers"), Call("name"), Call("type")>>),
     ictor("Ethis") \o DoneT}

\* Mutant: the space behind the word is left out.
VisitCXXNullPtrLiteralExprNoSpace == {Tok("Enull")}
\* Its visitor prints the only expression that is a bare word, and what ends
\* an expression with Done::DT begins without a space.
VisitCXXNullPtrLiteralExpr == {Tok("Enull") \o nbsp}

do_arg == {ICtor("inl", Call("type")), ICtor("inr", Call("Expr"))}
\* Any other trait: the literal printed here ends with a parenthesis (see
\* Irregular).
UnaryExprOrTypeTraitDefault == {ctor("Eunsupported") \o Str \o Tok(")") \o nbsp \o DoneT}
VisitUnaryExprOrTypeTraitExpr ==
    {ictor("Esizeof") \o a \o DoneT : a \in do_arg} \cup UnaryExprOrTypeTraitDefault

VisitOffsetOfExpr ==
    unsupported_expr
    \cup {ctor("Eoffsetof") \o Call("Type") \o nbsp \o Str \o nbsp \o DoneT}

VisitSubstNonTypeTemplateParmExpr == {Call("Expr")}

printOptionalExpr == Opt("Expr")
VisitCXXNewExpr ==
    unsupported_expr
    \cup {App("Enew", <<Tuple2(Call("name"), Call("type")), List("Expr"), f, Call("type"),
                        printOptionalExpr, printOptionalExpr>>) :
            f \in {Tok("new_form.NonAllocating"),
                   Ctor("new_form.Allocating", Bool \o nbsp)}}

VisitCXXDeleteExpr ==
    {App("Edelete", <<Bool, f, Call("Expr"), Call("type")>>) :
        f \in {Tuple2(Call("name"), Call("type")), Die}}

VisitExprWithCleanups == {Ctor("Eandclean", Call("Expr"))}
VisitMaterializeTemporaryExpr ==
    unsupported_expr \cup {ctor("Ematerialize_temp") \o Call("Expr") \o DoneV}
VisitCXXBindTemporaryExpr == {Call("Expr")}
VisitOpaqueValueExpr == {ctor("Eopaque_ref") \o Num \o DoneDT}
\* The default of its switch, which would leave Eatomic open, is never taken:
\* the cases are made from the list that defines clang's AtomicOp.
VisitAtomicExpr ==
    {ctor("Eatomic") \o Tok("AtomicOp") \o nbsp \o ListOf(Many("ExprCons")) \o DoneT}
VisitCXXDefaultInitExpr == {Ctor("Edefault_init_expr", Call("Expr"))}
VisitVAArgExpr == {ctor("Eva_arg") \o Call("Expr") \o DoneT}
VisitLambdaExpr == {App("Elambda", <<Call("name"), List("Expr")>>)}
VisitImplicitValueInitExpr == {ctor("Eimplicit_init") \o DoneT}

\* Only reached when the callee of the call stands in parentheses, and then
\* without the boolean of Epseudo_destructor: see Irregular.
VisitCXXPseudoDestructorExpr == {App("Epseudo_destructor", <<Call("type"), Call("Expr")>>)}

VisitCXXNoexceptExpr == {Ctor("Ebool", Bool)}
VisitTypeTraitExpr == VisitCXXNoexceptExpr
VisitConceptSpecializationExpr ==
    {App("Econcept_specialization", <<Call("unresolved_name"), o>>) :
        o \in {ICtor("Some", Bool), none}}
VisitCXXScalarValueInitExpr == {Ctor("Eimplicit_init", Call("type"))}
VisitArrayInitLoopExpr ==
    {ctor("Earrayloop_init") \o Num \o nbsp \o Call("Expr")
     \o Spaced(<<Num, Num, Call("Expr")>>) \o DoneT}
VisitArrayInitIndexExpr == {ctor("Earrayloop_index") \o Num \o nbsp \o DoneT}

printExpr(m) ==
    unsupported_expr \cup VisitStmtExpr \cup VisitCXXRewrittenBinaryOperator
    \cup VisitGNUNullExpr \cup VisitDependentScopeDeclRefExpr(m)
    \cup VisitUnresolvedLookupExpr(m) \cup VisitBinaryOperator(m)
    \cup VisitUnaryOperator(m) \cup VisitDeclRefExpr(m) \cup VisitCallExpr
    \cup VisitCXXOperatorCallExpr \cup VisitExplicitCastExpr \cup VisitImplicitCastExpr
    \cup VisitIntegerLiteral \cup VisitCharacterLiteral \cup VisitSourceLocExpr
    \cup VisitStringLiteral \cup VisitPredefinedExpr \cup VisitCXXBoolLiteralExpr
    \cup VisitFloatingLiteral \cup VisitMemberExpr \cup VisitCXXDependentScopeMemberExpr
    \cup VisitArraySubscriptExpr(m) \cup VisitCXXConstructExpr
    \cup VisitCXXInheritedCtorInitExpr \cup VisitCXXMemberCallExpr
    \cup VisitCXXDefaultArgExpr \cup VisitConditionalOperator
    \cup VisitBinaryConditionalOperator \cup VisitParenExpr \cup VisitParenListExpr(m)
    \cup VisitInitListExpr \cup VisitCXXThisExpr \cup VisitCXXNullPtrLiteralExpr
    \cup VisitUnaryExprOrTypeTraitExpr \cup VisitOffsetOfExpr
    \cup VisitSubstNonTypeTemplateParmExpr \cup VisitCXXNewExpr \cup VisitCXXDeleteExpr
    \cup VisitExprWithCleanups \cup VisitMaterializeTemporaryExpr
    \cup VisitCXXBindTemporaryExpr \cup VisitOpaqueValueExpr \cup VisitAtomicExpr
    \cup VisitCXXDefaultInitExpr \cup VisitVAArgExpr \cup VisitLambdaExpr
    \cup VisitImplicitValueInitExpr \cup VisitCXXPseudoDestructorExpr \cup VisitCXXNoexceptExpr \cup VisitTypeTraitExpr
    \cup VisitConceptSpecializationExpr \cup VisitCXXScalarValueInitExpr
    \cup VisitArrayInitLoopExpr \cup VisitArrayInitIndexExpr

ExprProductions(m) ==
    [Expr |-> printExpr(m),
     \* what a switch tests is a number, in parentheses or not: never a null pointer
     Condition |-> {IF t = Call("Expr") THEN Call("Condition") ELSE t :
                       t \in printExpr(m) \ VisitCXXNullPtrLiteralExpr},
     value_decl |-> printValueDeclExpr, decltype |-> printDeclType, Cast |-> printCast,
     OverloadableOperator |-> printOverloadableOperator,
     dependent_name |-> PrintDependentName, AnonVar |-> AnonVar,
     NumCons |-> {Num \o cons}, ExprCons |-> {Call("Expr") \o cons}]
=============================================================================
