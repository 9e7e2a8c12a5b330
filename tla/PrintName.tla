----------------------------- MODULE PrintName -----------------------------
(***************************************************************************)
(* PrintName.cpp: the texts of names, of their components, of template     *)
(* parameters and arguments, and of names that clang could not resolve.    *)
(* Which component a declaration gets is the subject of module Names.      *)
(***************************************************************************)
EXTENDS CoqPrinter

printTemplateParameter(as_arg) ==
    {ICtor(IF as_arg THEN "Aunsupported" ELSE "Punsupported", Str)}
    \cup IF as_arg
         THEN {ICtor("Atype", ICtor("Tparam", Str)), ICtor("Avalue", ICtor("Eparam", Str))}
         ELSE {ICtor("Ptype", Str), IApp("Pvalue", <<Str, Call("type")>>)}

\* One list of the parameters of every enclosing template, nil when there is
\* none.
printTemplateParameters ==
    {Tok("nil"), ListOf(Call("temp_param") \o cons \o Many("TempParamCons"))}

printTemplateArgument ==
    {ICtor("Atype", Call("type")), ICtor("Avalue", Call("Expr")),
     ICtor("Avalue", IApp("Eint", <<Num, Call("type")>>)),
     ICtor("Avalue", Tok("Enull")), ICtor("Avalue", Call("value_decl")),
     ICtor("Apack_expansion", List("temp_arg")), ICtor("Atemplate", Call("name")),
     ICtor("Aunsupported", Str)}

printTemplateArgumentList == List("temp_arg")
printTemplateArguments ==
    {Tok("nil"), ListOf(Call("temp_arg") \o cons \o Many("TempArgCons"))}

printFunctionQualifiers == Tok("quals")

\* Mutant: the parentheses of an identifier are printed by hand, and not closed.
printFunctionNameOpen == {Tok("(") \o Tok("Nf") \o nbsp \o Str, Tok("Nctor")}

printFunctionName ==
    {ICtor("Nf", Str), Tok("Nctor"), Tok("Ndtor"), ICtor("Nop", Call("OverloadableOperator")),
     ICtor("Nop_conv", Call("type")), ICtor("Nop_lit", Str \o nbsp),
     ICtor("Nunsupported_function", Str)}

printFunctionParamTypes == List("type")

printAtomicName ==
    {ICtor("Nid", Str), ICtor("Nanon", Num), ICtor("Nunsupported_atomic", Str),
     ICtor("Nby_first_decl", Str), ICtor("Nrecord_by_field", Str),
     ICtor("Nenum_by_enumerator", Str), Tok("Nanonymous"),
     IApp("Nfunction", <<printFunctionQualifiers, Call("function_name"),
                         printFunctionParamTypes>>)}

\* structured::printName: a shared name is a reference; the name of a template
\* carries its parameters, that of a specialization its arguments.
StructuredName ==
    {ICtor("Nglobal", Call("atomic")),
     IApp("Nscoped", <<Call("name"), Call("atomic")>>)}
TemplateParam == {ICtor("Atype", ICtor("Tparam", Str))}
printName ==
    {Tok("nref")} \cup StructuredName
    \cup {App("Ninst", <<n, List("TemplateParam")>>) : n \in StructuredName}
    \cup {IApp("Ninst", <<n, printTemplateArgumentList>>) : n \in StructuredName}

printDtorName ==
    {IApp("Nscoped", <<Call("name"),
        IApp("Nfunction", <<Tok("quals"), Tok("Ndtor"), Tok("nil")>>)>>)}

printUnsupportedName == {ICtor("Nunsupported", Str)}
printUnqualifiedName == Str

\* A name that is not an identifier (an operator, a destructor...) becomes an
\* unsupported NAME where a component is expected: see Irregular.
printDeclarationNameDefault == {Raw(Tok("Nunsupported") \o nbsp \o Str)}
printDeclarationName == {ICtor("Nid", Str)} \cup printDeclarationNameDefault

printNestedName ==
    {Call("name"), ICtor("Ndependent", Call("Type")),
     ICtor("Nglobal", ICtor("Nid", Str)),
     IApp("Nscoped", <<Call("nested_name"), ICtor("Nid", Str)>>)}
    \cup printUnsupportedName

printUnresolvedName ==
    {ICtor(c, Call("decl_name")) : c \in {"Nlocal", "Nglobal"}}
    \cup {IApp("Nscoped", <<Call("nested_name"), Call("decl_name")>>)}

printUnresolvedNameArgs ==
    printUnresolvedName
    \cup {IApp("Ninst", <<u, printTemplateArgumentList>>) : u \in printUnresolvedName}

\* ClangPrinter::printParamName: an unnamed parameter is called by position.
printParamName == {Str, Raw(Tok("localname.anon") \o nbsp \o Num), Die}

NameProductions ==
    [name |-> printName, atomic |-> printAtomicName, function_name |-> printFunctionName,
     temp_arg |-> printTemplateArgument \cup printTemplateParameter(TRUE),
     temp_param |-> printTemplateParameter(FALSE),
     TempParamCons |-> {Call("temp_param") \o cons},
     TempArgCons |-> {Call("temp_arg") \o cons},
     temp_params |-> printTemplateParameters, temp_args |-> printTemplateArguments,
     TemplateParam |-> TemplateParam, dtor_name |-> printDtorName,
     nested_name |-> printNestedName, decl_name |-> printDeclarationName,
     unresolved_name |-> printUnresolvedNameArgs, localname |-> printParamName]
=============================================================================
