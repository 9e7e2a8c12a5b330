----------------------------- MODULE PrintType -----------------------------
(***************************************************************************)
(* PrintType.cpp: the texts of types.  "Type" is printType, "type" is      *)
(* printQualType.  A type that the module shares is printed as a reference *)
(* to its abbreviation, a bare word.  m is the kind of file: "cpp", or     *)
(* "temp" when templates are printed.                                      *)
(***************************************************************************)
EXTENDS CoqPrinter

unsupported_type == {ICtor("Tunsupported", Str)}
Sugar == {Call("type")}                \* printed as the type it stands for

VisitAttributedType == Sugar
VisitDependentSizedArrayType == {App("Tvariable_array", <<Call("type"), Call("Expr")>>)}
VisitDependentNameType == Sugar \cup {Ctor("Tnamed", Call("unresolved_name"))}

VisitUnaryTransformType ==
    unsupported_type
    \cup {IApp("@Tunderlying", <<Call("type"), Call("type")>>),
          IApp("@Tunary_xform", <<Str, Call("type"), Call("type")>>)}

\* Words that no module of the Coq side defines: see Irregular.
Undeduced == Tok("Tauto")
Dependent == Tok("Tdependent")

\* In a templates file an undeduced auto is printed as Tauto.
VisitAutoType(m) == Sugar \cup IF m = "temp" THEN {Undeduced} ELSE unsupported_type
VisitDeducedType == Sugar \cup unsupported_type

\* The parameter of a partial specialization is printed in both kinds of file,
\* that of a template ends a concrete one by an assertion.
printTypeTemplateParam == {Call("type"), ICtor("Tparam", Str), Die}
VisitTemplateTypeParmType == printTypeTemplateParam

VisitEnumType == {ICtor("Tenum", Call("name"))}
VisitRecordType == {ICtor("Tnamed", Call("name"))}
VisitParenType == Sugar

\* Tbuiltin stands for the words of the builtin types.  A dependent builtin
\* is printed as Tdependent in a templates file.
VisitBuiltinType(m) ==
    {Tok("Tbuiltin"),
     lparen \o Tok("Tarch") \o nbsp \o none \o nbsp \o Str \o rparen}
    \cup unsupported_type
    \cup IF m = "temp" THEN {Dependent} ELSE {}

VisitLValueReferenceType == {ICtor("Tref", Call("type"))}
VisitRValueReferenceType == {ICtor("Trv_ref", Call("type"))}
VisitPointerType == {ICtor("Tptr", Call("type"))}
VisitTypedefType == Sugar              \* PRINT_ALIAS is false

VisitFunctionProtoType ==
    {App("Tfunction", <<Tok("kind"), Call("cc"), Tok("arity"), Call("type"),
                        List("Type")>>)}
printCallingConv == {Tok("cc"), Die}

VisitElaboratedType == Sugar
VisitConstantArrayType == {IApp("Tarray", <<Call("type"), Num>>)}
VisitSubstTemplateTypeParmType == Sugar
VisitIncompleteArrayType == {ICtor("Tincomplete_array", Call("type"))}
VisitVariableArrayType == {IApp("Tvariable_array", <<Call("type"), Call("Expr")>>)}
VisitDecayedType == {IApp("Tdecay_type", <<Call("type"), Call("type")>>)}

VisitTemplateSpecializationType ==
    Sugar \cup unsupported_type
    \cup {nbsp \o ICtor("Tnamed", IApp("Ninst", <<Call("name"), List("temp_arg")>>))}

VisitDecltypeType(m) ==
    Sugar \cup IF m = "temp"
               THEN {ICtor(c, Call("Expr")) : c \in {"Texprtype", "Tdecltype"}}
               ELSE unsupported_type
VisitTypeOfExprType(m) == Sugar \cup IF m = "temp" THEN {} ELSE unsupported_type

VisitInjectedClassNameType(m) ==
    IF m = "temp" THEN {nbsp \o ICtor("Tnamed", Call("name") \o nbsp)} \cup unsupported_type
    ELSE {Die}
VisitMemberPointerType == {IApp("Tmember_pointer", <<Call("Type"), Call("type")>>)}
VisitMacroQualifiedType == Sugar
VisitUsingType == Sugar

\* PrintType::Visit: a shared type is a reference.
printType(m) ==
    ({Tok("tref")} \cup VisitAttributedType \cup VisitDependentSizedArrayType
     \cup VisitDependentNameType \cup VisitUnaryTransformType \cup VisitAutoType(m)
     \cup VisitDeducedType \cup VisitTemplateTypeParmType \cup VisitEnumType
     \cup VisitRecordType \cup VisitParenType \cup VisitBuiltinType(m)
     \cup VisitLValueReferenceType \cup VisitRValueReferenceType \cup VisitPointerType
     \cup VisitTypedefType \cup VisitFunctionProtoType \cup VisitElaboratedType
     \cup VisitConstantArrayType \cup VisitSubstTemplateTypeParmType
     \cup VisitIncompleteArrayType \cup VisitVariableArrayType \cup VisitDecayedType
     \cup VisitTemplateSpecializationType \cup VisitDecltypeType(m)
     \cup VisitTypeOfExprType(m) \cup VisitInjectedClassNameType(m)
     \cup VisitMemberPointerType \cup VisitMacroQualifiedType \cup VisitUsingType)

printQualType ==
    {ICtor(q, Call("Type")) : q \in {"Qconst", "Qvolatile", "Qconst_volatile"}}
    \cup {Call("Type")}

\* None when the type is null or dependent.
printQualTypeOption == optional("type")

TypeProductions(m) ==
    [Type |-> printType(m), type |-> printQualType, cc |-> printCallingConv,
     type_option |-> printQualTypeOption]
=============================================================================
