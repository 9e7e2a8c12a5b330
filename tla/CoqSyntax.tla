----------------------------- MODULE CoqSyntax -----------------------------
(***************************************************************************)
(* The Coq vocabulary of a generated file: which words may be applied to   *)
(* which arguments where a term of a given sort is expected.  One table    *)
(* per inductive type of BRiCk's syntax, extended with the derived         *)
(* constructors of parser.v (concrete output) or mparser.v (templates      *)
(* output), which is what the header of a generated file imports.          *)
(*                                                                         *)
(* A sort is a sequence of words: <<"Expr">>, <<"list", "Expr">>.  A type  *)
(* of enumerated constants (operators, layouts, calling conventions...)    *)
(* has one constant of its own name: the printers choose among them with   *)
(* exhaustive switches and no property tells them apart.                   *)
(***************************************************************************)
EXTENDS Sequences, TLC

S(s) == <<s>>
L(s) == <<"list", s>>
O(s) == <<"option", s>>

Modes == {"cpp", "temp"}          \* lang.cpp and lang.temp

\* Literals: strings (ident, bs and PrimString.string) and numbers (N and Z).
Literals == [ident |-> "str", localname |-> "str", N |-> "num"]

\* Enumerated types, each with one constant.
Enums == {"bool", "ValCat", "AtomicOp", "dispatch", "qualifiers", "cc", "arity",
          "quals", "layout", "lang", "kind"}

\* Sorts whose terms are tuples, with the sorts of the components.
Tuples ==
    [asmArg |-> <<S("ident"), S("Expr")>>,
     param |-> <<S("localname"), S("type")>>,
     override |-> <<S("name"), S("name")>>,
     nameType |-> <<S("name"), S("type")>>,
     method |-> <<S("name"), S("dispatch"), S("type")>>,
     anonPath |-> <<S("atomic"), S("class")>>,
     ctorBody |-> <<L("Initializer"), S("Stmt")>>]

NameSig ==
    [Ninst |-> <<S("name"), L("temp_arg")>>, Nglobal |-> <<S("atomic")>>,
     Nlocal |-> <<S("atomic")>>, Ndependent |-> <<S("type")>>,
     Nscoped |-> <<S("name"), S("atomic")>>, Nunsupported |-> <<S("ident")>>,
     nref |-> <<>>]

AtomicSig ==
    [Nid |-> <<S("ident")>>, Nanon |-> <<S("N")>>, Nanonymous |-> <<>>,
     Nfunction |-> <<S("quals"), S("function_name"), L("type")>>,
     Nby_first_decl |-> <<S("ident")>>, Nrecord_by_field |-> <<S("ident")>>,
     Nenum_by_enumerator |-> <<S("ident")>>,
     Nunsupported_atomic |-> <<S("ident")>>]
    @@ ("field_name.Id" :> <<S("ident")>>)
    @@ ("field_name.Anon" :> <<S("N")>>)
    @@ ("field_name.CaptureVar" :> <<S("ident")>>)

FunctionNameSig ==
    [Nf |-> <<S("ident")>>, Nctor |-> <<>>, Ndtor |-> <<>>,
     Nop |-> <<S("OverloadableOperator")>>, Nop_conv |-> <<S("type")>>,
     Nop_lit |-> <<S("ident")>>, Nunsupported_function |-> <<S("ident")>>]

TempArgSig ==
    [Atype |-> <<S("type")>>, Avalue |-> <<S("Expr")>>,
     Apack_expansion |-> <<L("temp_arg")>>, Atemplate |-> <<S("name")>>,
     Aunsupported |-> <<S("ident")>>]

TypeSig ==
    [Tparam |-> <<S("ident")>>, Tresult_member |-> <<S("type"), S("name")>>,
     Tptr |-> <<S("type")>>, Tref |-> <<S("type")>>, Trv_ref |-> <<S("type")>>,
     Tvoid |-> <<>>, Tbuiltin |-> <<>>, Tarray |-> <<S("type"), S("N")>>,
     Tincomplete_array |-> <<S("type")>>,
     Tvariable_array |-> <<S("type"), S("Expr")>>,
     Tnamed |-> <<S("name")>>, Tenum |-> <<S("name")>>,
     Tmember_pointer |-> <<S("type"), S("type")>>,
     Tarch |-> <<O("N"), S("ident")>>,
     Tdecltype |-> <<S("Expr")>>, Texprtype |-> <<S("Expr")>>,
     Tunsupported |-> <<S("ident")>>,
     Tfunction |-> <<S("kind"), S("cc"), S("arity"), S("type"), L("type")>>,
     Tdecay_type |-> <<S("type"), S("type")>>,
     Qconst |-> <<S("type")>>, Qvolatile |-> <<S("type")>>,
     Qconst_volatile |-> <<S("type")>>, tref |-> <<>>]
    @@ ("@Tunderlying" :> <<S("type"), S("type")>>)
    @@ ("@Tunary_xform" :> <<S("ident"), S("type"), S("type")>>)

ExprSig ==
    [Eparam |-> <<S("ident")>>, Eunresolved_global |-> <<S("name")>>,
     Eunresolved_call |-> <<S("name"), L("Expr")>>,
     Eunresolved_parenlist |-> <<O("type"), L("Expr")>>,
     Evar |-> <<S("localname"), S("type")>>,
     Eenum_const |-> <<S("name"), S("ident")>>,
     Eenum_const_at |-> <<S("name"), S("ident"), S("type")>>,
     Eglobal |-> <<S("name"), S("type")>>,
     Eglobal_member |-> <<S("name"), S("type")>>,
     Echar |-> <<S("N"), S("type")>>, Estring |-> <<L("N"), S("type")>>,
     Eint |-> <<S("N"), S("type")>>, Ebool |-> <<S("bool")>>,
     Eunop |-> <<S("UnOp"), S("Expr"), S("type")>>,
     Ebinop |-> <<S("BinOp"), S("Expr"), S("Expr"), S("type")>>,
     Ederef |-> <<S("Expr"), S("type")>>, Eaddrof |-> <<S("Expr")>>,
     Eassign |-> <<S("Expr"), S("Expr"), S("type")>>,
     Eassign_op |-> <<S("BinOp"), S("Expr"), S("Expr"), S("type")>>,
     Epreinc |-> <<S("Expr"), S("type")>>,
     Eseqand |-> <<S("Expr"), S("Expr")>>, Ecomma |-> <<S("Expr"), S("Expr")>>,
     Ecall |-> <<S("Expr"), L("Expr")>>,
     Ecstyle_cast |-> <<S("Cast"), S("type"), S("Expr")>>,
     Ecast |-> <<S("Cast"), S("Expr")>>,
     Emember |-> <<S("bool"), S("Expr"), S("member_type")>>,
     Emember_call |-> <<S("bool"), S("MethodRef"), S("Expr"), L("Expr")>>,
     Eoperator_call |-> <<S("OverloadableOperator"), S("name"), S("type"),
                          L("Expr")>>,
     Eoperator_member_call |-> <<S("OverloadableOperator"), S("name"),
                                 S("dispatch"), S("type"), S("Expr"), L("Expr")>>,
     Esubscript |-> <<S("Expr"), S("Expr"), S("type")>>,
     Esizeof |-> <<S("TypeOrExpr"), S("type")>>,
     Eoffsetof |-> <<S("type"), S("ident"), S("type")>>,
     Econstructor |-> <<S("name"), L("Expr"), S("type")>>,
     Elambda |-> <<S("name"), L("Expr")>>, Eimplicit |-> <<S("Expr")>>,
     Eimplicit_init |-> <<S("type")>>,
     Eif |-> <<S("Expr"), S("Expr"), S("Expr"), S("type")>>,
     Eif2 |-> <<S("N"), S("Expr"), S("Expr"), S("Expr"), S("Expr"), S("type")>>,
     Ethis |-> <<S("type")>>, Enull |-> <<>>, Egnu_null |-> <<S("type")>>,
     Einitlist |-> <<L("Expr"), O("Expr"), S("type")>>,
     Einitlist_union |-> <<S("atomic"), O("Expr"), S("type")>>,
     Enew |-> <<S("nameType"), L("Expr"), S("new_form"), S("type"), O("Expr"),
                O("Expr")>>,
     Edelete |-> <<S("bool"), S("nameType"), S("Expr"), S("type")>>,
     Eandclean |-> <<S("Expr")>>, Eextension |-> <<S("Expr")>>,
     Edefault_init_expr |-> <<S("Expr")>>,
     Ematerialize_temp |-> <<S("Expr"), S("ValCat")>>,
     Eatomic |-> <<S("AtomicOp"), L("Expr"), S("type")>>,
     Estmt |-> <<S("Stmt"), S("type")>>, Eva_arg |-> <<S("Expr"), S("type")>>,
     Epseudo_destructor |-> <<S("bool"), S("type"), S("Expr")>>,
     Earrayloop_init |-> <<S("N"), S("Expr"), S("N"), S("N"), S("Expr"),
                           S("type")>>,
     Earrayloop_index |-> <<S("N"), S("type")>>,
     Eopaque_ref |-> <<S("N"), S("type")>>,
     Eunsupported |-> <<S("ident"), S("type")>>,
     Ebuiltin |-> <<S("name"), S("type")>>,
     Esource_loc |-> <<S("ident"), S("Expr")>>,
     Eunevaluated_var |-> <<S("ident"), S("type")>>,
     Ecapture_var |-> <<S("qualifiers"), S("name"), S("ident"), S("type")>>,
     Ecapture_this |-> <<S("qualifiers"), S("name"), S("type")>>,
     Econcept_specialization |-> <<S("name"), O("bool")>>]

StmtSig ==
    [Sseq |-> <<L("Stmt")>>, Sdecl |-> <<L("VarDecl")>>,
     Sif |-> <<O("VarDecl"), S("Expr"), S("Stmt"), S("Stmt")>>,
     Sif_consteval |-> <<S("Stmt"), S("Stmt")>>,
     Swhile |-> <<O("VarDecl"), S("Expr"), S("Stmt")>>,
     Sfor |-> <<O("Stmt"), O("Expr"), O("Expr"), S("Stmt")>>,
     Sforeach |-> <<S("Stmt"), S("Stmt"), S("Stmt"), O("Stmt"), O("Expr"),
                    O("Expr"), S("Stmt"), S("Stmt")>>,
     Sdo |-> <<S("Stmt"), S("Expr")>>,
     Sswitch |-> <<O("VarDecl"), S("Expr"), S("Stmt")>>,
     Scase |-> <<S("SwitchBranch")>>, Sdefault |-> <<>>,
     Sbreak |-> <<>>, Scontinue |-> <<>>, Sskip |-> <<>>,
     Sreturn_void |-> <<>>, Sreturn_val |-> <<S("Expr")>>,
     Sexpr |-> <<S("Expr")>>, Sattr |-> <<L("ident"), S("Stmt")>>,
     Sasm |-> <<S("ident"), S("bool"), L("asmArg"), L("asmArg"), L("ident")>>,
     Slabeled |-> <<S("ident"), S("Stmt")>>, Sgoto |-> <<S("ident")>>,
     Sunsupported |-> <<S("ident")>>]

\* Cbitcast stands for the casts that carry a type, Cl2r for those that do not.
CastSig ==
    [Cbitcast |-> <<S("type")>>, Cl2r |-> <<>>,
     Cderived2base |-> <<L("type"), S("type")>>,
     Cunsupported |-> <<S("ident"), S("type")>>]

\* Terms that stand under an expression, a statement or a name.
PartSig ==
    [VarDecl |-> [Dvar |-> <<S("localname"), S("type"), O("Expr")>>,
                  Dinit |-> <<S("bool"), S("name"), S("type"), O("Expr")>>,
                  Ddecompose |-> <<S("Expr"), S("localname"), L("Binding")>>],
     Binding |-> [Bvar |-> <<S("localname"), S("type"), S("Expr")>>,
                  Bbind |-> <<S("localname"), S("type"), S("Expr")>>],
     SwitchBranch |-> [Exact |-> <<S("N")>>, Range |-> <<S("N"), S("N")>>],
     localname |-> ("localname.anon" :> <<S("N")>>),
     member_type |-> [Field |-> <<S("atomic"), S("bool"), S("type")>>,
                      Enum |-> <<S("name")>>,
                      Static |-> <<S("name"), S("type")>>],
     MethodRef |-> [inl |-> <<S("method")>>, inr |-> <<S("Expr")>>],
     TypeOrExpr |-> [inl |-> <<S("type")>>, inr |-> <<S("Expr")>>],
     NorZ |-> [inl |-> <<S("N")>>, inr |-> <<S("N")>>],
     new_form |-> ("new_form.NonAllocating" :> <<>>)
                  @@ ("new_form.Allocating" :> <<S("bool")>>),
     OverloadableOperator |-> [Op0 |-> <<>>, OONew |-> <<S("bool")>>,
                               OODelete |-> <<S("bool")>>],
     BinOp |-> [BinOp0 |-> <<>>, Bunsupported |-> <<S("ident")>>],
     UnOp |-> [UnOp0 |-> <<>>, Uunsupported |-> <<S("ident")>>],
     temp_param |-> [Ptype |-> <<S("ident")>>,
                     Pvalue |-> <<S("ident"), S("type")>>,
                     Punsupported |-> <<S("ident")>>]]

\* The parts of a top-level declaration.
BodySig ==
    [Member |-> ("@mkMember" :> <<S("lang"), S("atomic"), S("type"), S("bool"),
                                  O("Expr"), S("LayoutInfo")>>),
     LayoutInfo |-> [Build_LayoutInfo |-> <<S("N")>>],
     Base |-> [mkBase |-> <<S("class"), S("LayoutInfo")>>],
     Virtual |-> [pure_virt |-> <<S("name")>>, impl_virt |-> <<S("name")>>],
     Struct |-> [Build_Struct |->
                   <<L("Base"), L("Member"), L("Virtual"), L("override"),
                     S("name"), S("bool"), O("name"), S("layout"), S("N"),
                     S("N")>>],
     Union |-> [Build_Union |-> <<L("Member"), S("name"), S("bool"), O("name"),
                                  S("N"), S("N")>>],
     Func |-> [Build_Func |-> <<S("type"), L("param"), S("cc"), S("arity"),
                                O("FunctionBody")>>],
     BuiltinFn |-> [BuiltinFn0 |-> <<>>, Bin_unknown |-> <<S("ident")>>],
     FunctionBody |-> [Impl |-> <<S("Stmt")>>, Builtin |-> <<S("BuiltinFn")>>],
     Method |-> [Build_Method |-> <<S("type"), S("class"), S("qualifiers"),
                                    L("param"), S("cc"), S("arity"),
                                    O("StmtOrDefault")>>],
     StmtOrDefault |-> [UserDefined |-> <<S("Stmt")>>, Defaulted |-> <<>>],
     Ctor |-> [Build_Ctor |-> <<S("class"), L("param"), S("cc"), S("arity"),
                                O("InitsOrDefault")>>],
     InitsOrDefault |-> [UserDefined |-> <<S("ctorBody")>>, Defaulted |-> <<>>],
     Dtor |-> [Build_Dtor |-> <<S("class"), S("cc"), O("StmtOrDefault")>>],
     Initializer |-> [Build_Initializer |-> <<S("InitPath"), S("Expr")>>],
     InitPath |-> ("@InitBase" :> <<S("lang"), S("class")>>)
                  @@ ("@InitField" :> <<S("lang"), S("atomic")>>)
                  @@ ("@InitIndirect" :> <<S("lang"), L("anonPath"),
                                           S("atomic")>>)
                  @@ ("InitThis" :> <<>>),
     global_init |-> ("global_init.Init" :> <<S("Expr")>>)
                     @@ ("global_init.Extern" :> <<>>)]

\* parser.v
DeclSig ==
    [Dvariable |-> <<S("name"), S("type"), S("global_init")>>,
     Dfunction |-> <<S("name"), S("Func")>>,
     Dmethod |-> <<S("name"), S("bool"), S("Method")>>,
     Dconstructor |-> <<S("name"), S("Ctor")>>,
     Ddestructor |-> <<S("name"), S("Dtor")>>,
     Dtype |-> <<S("name")>>, Dunsupported |-> <<S("name"), S("ident")>>,
     Dstruct |-> <<S("name"), O("Struct")>>,
     Dunion |-> <<S("name"), O("Union")>>,
     Denum |-> <<S("name"), S("type"), L("ident")>>,
     Denum_constant |-> <<S("name"), S("name"), S("type"), S("NorZ"), O("Expr")>>,
     Dtypedef |-> <<S("name"), S("type")>>,
     Dstatic_assert |-> <<O("ident"), S("Expr")>>]

\* mparser/tu.v: the parameters of the template come first, Dunsupported is
\* not there, Dinstantiation is.
MDeclSig ==
    [Dinstantiation |-> <<S("name"), S("name"), L("temp_arg")>>,
     Dstatic_assert |-> DeclSig.Dstatic_assert]
    @@ [d \in DOMAIN DeclSig \ {"Dunsupported"} |->
            <<L("temp_param")>> \o DeclSig[d]]

\* mparser/expr.v: operators whose result type may still be unknown, and the
\* arrow flag of an unresolved member.
MExprSig ==
    [Eassign |-> <<S("Expr"), S("Expr"), O("type")>>,
     Eassign_op |-> <<S("BinOp"), S("Expr"), S("Expr"), O("type")>>,
     Ebinop |-> <<S("BinOp"), S("Expr"), S("Expr"), O("type")>>,
     Esubscript |-> <<S("Expr"), S("Expr"), O("type")>>,
     Eunop |-> <<S("UnOp"), S("Expr"), O("type")>>,
     Epreinc |-> <<S("Expr"), O("type")>>, Ederef |-> <<S("Expr"), O("type")>>,
     Eunresolved_member |-> <<S("bool"), S("Expr"), S("name")>>]

SharedSig ==
    [name |-> NameSig, atomic |-> AtomicSig, function_name |-> FunctionNameSig,
     temp_arg |-> TempArgSig, type |-> TypeSig, Stmt |-> StmtSig,
     Cast |-> CastSig]
    @@ PartSig @@ BodySig @@ [s \in Enums |-> (s :> <<>>)]
    @@ [s \in DOMAIN Literals |-> <<>>]

\* What may head a term of each sort, per kind of generated file.  A class is
\* a name in a concrete file and a type in a templates file (classname').
Signature ==
    [cpp |-> [Expr |-> ExprSig, Decl |-> DeclSig, class |-> NameSig] @@ SharedSig,
     temp |-> [Expr |-> MExprSig @@ ExprSig, Decl |-> MDeclSig,
               class |-> TypeSig] @@ SharedSig]

\* A function of lists: it heads a list of numbers.
ListHeads == ("BS.string_to_bytes" :> <<S("ident")>>)

Words == DOMAIN ListHeads \cup UNION {UNION {DOMAIN Signature[m][s] : s \in DOMAIN Signature[m]} :
                m \in Modes}
=============================================================================
