----------------------------- MODULE PrintDecl -----------------------------
(***************************************************************************)
(* PrintDecl.cpp: the texts of top-level declarations.  A declaration that *)
(* is answered false prints nothing, and the caller prints no cons for it. *)
(* m is the kind of file: in a templates file ("temp") every declaration   *)
(* carries the template parameters in scope and classes are types, and a   *)
(* specialization is printed as Dinstantiation.                            *)
(***************************************************************************)
EXTENDS CoqPrinter

getCallingConv == Call("cc")           \* dies when the type is no function type
printVariadic == Tok("arity")
printQualifier == Tok("qualifiers")
lang == Tok("lang")                    \* lang.cpp or lang.temp

printSpecialization ==
    {Ctor("Dinstantiation", nbsp \o Call("name") \o nbsp \o nbsp \o Call("name") \o nbsp
                            \o Call("temp_args"))}

\* DeclPrinter::print, for the constructor c and the texts of the body: the
\* name comment prints nothing.
DeclPrinter(m, c, bodies) ==
    IF m = "temp"
    THEN printSpecialization
         \cup {Ctor(c, nbsp \o Call("temp_params") \o nbsp \o Call("name") \o nbsp \o b) :
                  b \in bodies}
    ELSE {Ctor(c, nbsp \o Call("name") \o nbsp \o b) : b \in bodies}

\* A class with a virtual base, a bit field or an invalid field.  This is
\* tested before the question whether the file holds templates, where no such
\* declaration exists: see Irregular.
Dunsupported == {Ctor("Dunsupported", Call("name") \o nbsp \o Str)}

Dtype(m) == DeclPrinter(m, "Dtype", {<<>>})
Dtypedef(m) == DeclPrinter(m, "Dtypedef", {Call("type")})

(***************************************************************************)
(* Classes and unions.                                                     *)
(***************************************************************************)
printClassName(m) == {Call(IF m = "temp" THEN "Type" ELSE "name")}

printLayoutInfo == Ctor("Build_LayoutInfo", Num)

\* The field of a lambda that captures a variable or this; a member that is
\* an anonymous class is called by the name of that class.
printAnonymousFieldName ==
    {Ctor("field_name.CaptureVar", Str), Call("atomic"), ICtor("field_name.Id", Str)}
printFieldName == {ICtor("field_name.Id", Str)} \cup printAnonymousFieldName

printFieldInitializer == Opt("Expr")

\* The element of the list printed by printFields.
printFields ==
    {g \o Spaced(<<lang, Call("field_name"), Call("type"), Bool, printFieldInitializer,
                   printLayoutInfo>>) \o end_ctor :
        g \in {ctor("@mkMember"), ictor("@mkMember")}}

\* Dies of a virtual base and, where classes are named, of a base that is no
\* class.
printStructBases == {App("mkBase", <<Call("class"), printLayoutInfo>>), Die}
printStructVirtuals == {ICtor(c, Call("name")) : c \in {"pure_virt", "impl_virt"}}
printStructOverrides == {Tuple2(Call("name"), Call("name")) \o cons}
printDeleteName == Opt("name")
printTriviallyDestructible == Bool
printLayoutType == Tok("layout")
printSizeAlign == Num \o nbsp \o Num

printStruct ==
    {none,
     some(Ctor("Build_Struct",
          List("Base") \o line \o List("Member") \o nbsp \o Filter("Virtual") \o nbsp
          \o ListOf(Many("Override")) \o nbsp \o Call("dtor_name") \o nbsp
          \o printTriviallyDestructible \o nbsp \o printDeleteName \o line
          \o printLayoutType \o nbsp \o printSizeAlign))}

printUnion ==
    {none,
     some(Ctor("Build_Union",
          List("Member") \o nbsp \o Call("dtor_name") \o nbsp
          \o printTriviallyDestructible \o nbsp \o printDeleteName \o line
          \o printSizeAlign))}

(***************************************************************************)
(* Functions.                                                              *)
(***************************************************************************)
printBuiltin == {Tok("BuiltinFn0"), Ctor("Bin_unknown", Str)}
printFunctionParams == {Tuple2(Call("localname"), Call("type"))}

printFunction ==
    {Ctor("Build_Func",
          Call("type") \o line \o List("Param") \o nbsp \o getCallingConv \o nbsp
          \o printVariadic \o line \o b) :
        b \in {ICtor("Some", ICtor("Impl", Call("Body"))),
               ICtor("Some", ICtor("Builtin", Call("BuiltinFn"))), none}}

Defaulted == Raw(Tok("Some") \o nbsp \o Tok("Defaulted"))
FunctionBody == {some(Ctor("UserDefined", Call("Body"))), Defaulted, none}

printMethod ==
    {Bool \o nbsp
     \o App("Build_Method", <<Call("type"), Call("class"), printQualifier, List("Param"),
                              getCallingConv, printVariadic, b>>) :
        b \in FunctionBody}

\* The chain stops at the first field with a name; there is one.
printIndirectFieldChain == {Tuple2(Call("field_name"), Call("class")) \o cons}

printInitPath ==
    {ICtor("@InitField", nbsp \o lang \o nbsp \o Call("field_name")),
     ICtor("@InitBase", nbsp \o lang \o nbsp \o Call("class")),
     ICtor("@InitIndirect", nbsp \o lang \o nbsp \o ListOf(Many("FieldChain")) \o nbsp
                            \o ICtor("field_name.Id", Str)),
     Tok("InitThis")}

printInitializer ==
    {Ctor("Build_Initializer", p \o line \o Call("Expr")) : p \in printInitPath}
printInitializerList == List("Initializer")

\* A constructor without a body is not printed as defaulted.
printConstructor ==
    {App("Build_Ctor", <<Call("class"), List("Param"), getCallingConv, printVariadic, b>>) :
        b \in {none,
               some(Ctor("UserDefined", Tuple2(printInitializerList, Call("Body"))))}}

printDestructor ==
    {App("Build_Dtor", <<Call("class"), getCallingConv, b>>) : b \in FunctionBody}

(***************************************************************************)
(* Variables, enumerations and static assertions.  global_init.Extern      *)
(* stands for the four ways to have no initializer.                        *)
(***************************************************************************)
printVar ==
    {Call("type") \o nbsp \o i :
        i \in {Tok("global_init.Extern"), Ctor("global_init.Init", Call("Expr"))}}

printEnum == {Call("type") \o nbsp \o List("Enumerator")}

\* EnumConst::UVal::print: a character is a natural number.
UVal == {Raw(Tok("inr") \o nbsp \o Num), Raw(Tok("inl") \o nbsp \o Num)}
printEnumConst ==
    {Call("name") \o nbsp \o Call("type") \o nbsp \o u \o nbsp \o Opt("Expr") : u \in UVal}

VisitStaticAssertDecl ==
    {Ctor("Dstatic_assert", Opt("Message") \o nbsp \o Call("Expr"))}

VisitTypes(m) ==
    Dtype(m) \cup DeclPrinter(m, "Dstruct", printStruct)
    \cup DeclPrinter(m, "Dunion", printUnion)

\* Enumeration constants of a template are unsupported.
VisitEnumConstantDecl(m) ==
    IF m = "temp" THEN {} ELSE DeclPrinter(m, "Denum_constant", printEnumConst)

\* PrintDecl's visitors that answer true.
printDecl(m) ==
    VisitTypes(m) \cup Dtypedef(m) \cup VisitStaticAssertDecl
    \cup DeclPrinter(m, "Dvariable", printVar) \cup DeclPrinter(m, "Dfunction", printFunction)
    \cup DeclPrinter(m, "Dmethod", printMethod)
    \cup DeclPrinter(m, "Dconstructor", printConstructor)
    \cup DeclPrinter(m, "Ddestructor", printDestructor)
    \cup DeclPrinter(m, "Denum", printEnum) \cup VisitEnumConstantDecl(m)
    \cup Dunsupported

\* ToCoqConsumer's printDecl, called between begin_list and end_list.
Module == {ListOf(Many("DeclCons"))}

DeclProductions(m) ==
    [Decl |-> printDecl(m), DeclCons |-> {Call("Decl") \o cons, <<>>}, Module |-> Module,
     class |-> printClassName(m), field_name |-> printFieldName, Member |-> printFields,
     Base |-> printStructBases, Virtual |-> printStructVirtuals,
     Override |-> printStructOverrides, BuiltinFn |-> printBuiltin,
     Param |-> printFunctionParams, FieldChain |-> printIndirectFieldChain,
     Initializer |-> printInitializer, Enumerator |-> {Str}, Message |-> {Str}]
=============================================================================
