--------------------------- MODULE ModuleBuilder ---------------------------
(***************************************************************************)
(* build_module of ModuleBuilder.cpp: the visitor that walks clang's AST   *)
(* of one translation unit and decides which declarations cpp2v prints, in *)
(* which list.  A declaration is walked at most once (visited_), so what   *)
(* happens to it is decided by the first path that reaches it: the flags   *)
(* in_template and in_specialization of that path choose the lists.        *)
(*                                                                         *)
(* The recursion of the visitor is the stack of the Visit calls still to   *)
(* be made; every method does its own work before the calls it makes.      *)
(*                                                                         *)
(* The AST is clang's (external).  A declaration is a record:              *)
(*   kind       the visitor method that handles it                         *)
(*   decls      decls() of a context, enumerators() of an enum             *)
(*   canon      getCanonicalDecl(): the first declaration of the entity    *)
(*   defn       getDefinition() of the entity, or None                     *)
(*   templated  getTemplatedDecl() of a template, or None                  *)
(*   specs      specializations() of a template (one list per template,    *)
(*              shared by its redeclarations)                              *)
(*   friend     getFriendDecl() of a friend declaration, or None           *)
(*   attrs      what the visitor asks of it                                *)
(***************************************************************************)
EXTENDS Naturals, Sequences, FiniteSets, Functions, Closure

CONSTANTS
  None,     \* the null pointer
  TU,       \* the TranslationUnitDecl
  ASTs      \* the ASTs to walk

Kind == {"TranslationUnit", "Namespace", "LinkageSpec", "Record", "Function",
         "Method", "Var", "Enum", "EnumConstant", "Typedef", "StaticAssert",
         "ClassTemplate", "FunctionTemplate", "VarTemplate", "TypeAliasTemplate",
         "Friend", "Ignored", "Unsupported"}

Attr == {"dependent",     \* isDependentContext() or isTemplated()
         "implicit", "lambda", "deleted",
         "local",         \* neither isStaticLocal() nor hasExternalStorage()
         "names_anon"}    \* getAnonDeclWithTypedefName(true)

Scope    == {"TranslationUnit", "Namespace", "LinkageSpec"}
Template == {"ClassTemplate", "FunctionTemplate", "VarTemplate", "TypeAliasTemplate"}

VARIABLES
  ast,          \* the AST walked (never changes)
  templates_,   \* --templates or --name-test was given (never changes)
  stack,        \* the Visit calls still to be made, the next one first
  visited_,
  mod,          \* the Module: four lists of declarations and one of asserts
  aborted       \* an always_assert failed

vars == <<ast, templates_, stack, visited_, mod, aborted>>

----------------------------------------------------------------------------
(* Module.                                                                 *)

Flags == [in_template : BOOLEAN, in_specialization : BOOLEAN]

none == [in_template |-> FALSE, in_specialization |-> FALSE]

set_template(f)       == [f EXCEPT !.in_template = TRUE]
set_specialization(f) == [f EXCEPT !.in_specialization = TRUE]

ModuleOf(S) ==
  [declarations : Seq(S), definitions : Seq(S),
   template_declarations : Seq(S), template_definitions : Seq(S), asserts : Seq(S)]

EmptyModule ==
  [declarations |-> <<>>, definitions |-> <<>>,
   template_declarations |-> <<>>, template_definitions |-> <<>>,
   asserts |-> <<>>]

\* Mutant: what is in a specialization is only listed with the templates.
add_decl_exclusive(m, list, tlist, xs, f) ==
  IF f = none THEN [m EXCEPT ![list] = @ \o xs] ELSE [m EXCEPT ![tlist] = @ \o xs]

\* Mutant: a declaration is listed with the templates whatever its flags.
add_decl_both(m, list, tlist, xs, f) ==
  [m EXCEPT ![list]  = IF f.in_template THEN @ ELSE @ \o xs, ![tlist] = @ \o xs]

\* Called for each declaration of xs in turn.
add_decl(m, list, tlist, xs, f) ==
  [m EXCEPT ![list]  = IF f.in_template THEN @ ELSE @ \o xs,
            ![tlist] = IF f.in_template \/ f.in_specialization THEN @ \o xs ELSE @]

\* The filter toCoqModule passes includes every definition.
go(m, xs, f, definition) ==
  IF definition
  THEN add_decl(m, "definitions", "template_definitions", xs, f)
  ELSE add_decl(m, "declarations", "template_declarations", xs, f)

----------------------------------------------------------------------------
(* The visitor.                                                            *)

decl  == stack[1].decl
flags == stack[1].flags
node  == ast[decl]

Calls(ds, fl) == [i \in DOMAIN ds |-> [decl |-> ds[i], flags |-> fl]]

Call(x, fl) == IF x = None THEN <<>> ELSE <<[decl |-> x, flags |-> fl]>>

\* The first call of Visit for a declaration of this kind.
Enter(kinds) ==
  /\ stack # <<>>
  /\ decl \notin visited_
  /\ node.kind \in kinds
  /\ visited_' = visited_ \cup {decl}
  /\ UNCHANGED <<ast, templates_>>

Then(calls) == stack' = calls \o Tail(stack) /\ UNCHANGED aborted

VisitAgain ==
  /\ stack # <<>>
  /\ decl \in visited_
  /\ stack' = Tail(stack)
  /\ UNCHANGED <<ast, templates_, visited_, mod, aborted>>

\* IGNORE, VisitDecl and VisitTypeDecl (the last two also warn).
VisitIgnored == Enter({"Ignored", "Unsupported"}) /\ Then(<<>>) /\ UNCHANGED mod

VisitStaticAssertDecl ==
  /\ Enter({"StaticAssert"})
  /\ mod' = [mod EXCEPT !.asserts = Append(@, decl)]
  /\ Then(<<>>)

VisitTypedefNameDecl ==
  /\ Enter({"Typedef"})
  /\ mod' = IF "names_anon" \in node.attrs \/ node.canon # decl
            THEN mod ELSE go(mod, <<decl>>, flags, TRUE)
  /\ Then(<<>>)

VisitTypeAliasTemplateDecl ==
  /\ Enter({"TypeAliasTemplate"})
  /\ Then(IF templates_ THEN Call(node.templated, set_template(flags)) ELSE <<>>)
  /\ UNCHANGED mod

\* Mutants: the first declaration is listed next to a definition, or as a
\* definition.
EntryOfEntity_both(m) ==
  IF node.defn = decl THEN go(m, <<decl>>, flags, TRUE)
  ELSE IF node.canon = decl THEN go(m, <<decl>>, flags, FALSE) ELSE m
EntryOfEntity_as_definition(m) ==
  IF node.defn = decl \/ (node.defn = None /\ node.canon = decl)
  THEN go(m, <<decl>>, flags, TRUE) ELSE m

\* VisitTagDecl, VisitFunctionDecl: the definition if there is one, otherwise
\* the first declaration.
EntryOfEntity(m) ==
  IF node.defn = decl THEN go(m, <<decl>>, flags, TRUE)
  ELSE IF node.defn = None /\ node.canon = decl THEN go(m, <<decl>>, flags, FALSE)
  ELSE m

\* Mutant: the members of a class are visited without the flags of the class.
VisitCXXRecordDecl_no_flags ==
  LET skip == \/ "implicit" \in node.attrs /\ "lambda" \notin node.attrs
              \/ "dependent" \in node.attrs /\ ~templates_
  IN  /\ Enter({"Record"})
      /\ mod' = IF skip THEN mod ELSE EntryOfEntity(mod)
      /\ Then(IF skip THEN <<>> ELSE Calls(node.decls, none))

VisitCXXRecordDecl ==
  LET skip == \/ "implicit" \in node.attrs /\ "lambda" \notin node.attrs
              \/ "dependent" \in node.attrs /\ ~templates_
  IN  /\ Enter({"Record"})
      /\ mod' = IF skip THEN mod ELSE EntryOfEntity(mod)
      /\ Then(IF skip THEN <<>> ELSE Calls(node.decls, flags))

\* Mutant: set_specialization changes the flags of the caller as well.
VisitTemplateDecl_leak ==
  /\ Enter({"ClassTemplate", "FunctionTemplate", "VarTemplate"})
  /\ stack' = (IF templates_ THEN Call(node.templated, set_template(flags)) ELSE <<>>)
              \o Calls(node.specs, set_specialization(flags))
              \o [i \in DOMAIN Tail(stack) |->
                    [Tail(stack)[i] EXCEPT !.flags = set_specialization(@)]]
  /\ UNCHANGED <<mod, aborted>>

\* ClassTemplate, FunctionTemplate and VarTemplate.
VisitTemplateDecl ==
  /\ Enter({"ClassTemplate", "FunctionTemplate", "VarTemplate"})
  /\ Then((IF templates_ THEN Call(node.templated, set_template(flags)) ELSE <<>>)
          \o Calls(node.specs, set_specialization(flags)))
  /\ UNCHANGED mod

\* The declarations of a body that are lifted out of it.
Lifted(ds) ==
  Among(ds, {x \in DOMAIN ast : ~(ast[x].kind = "Var" /\ "local" \in ast[x].attrs)})

VisitFunctionDecl ==
  LET skip == \/ node.kind = "Method" /\ "deleted" \in node.attrs
              \/ "dependent" \in node.attrs /\ ~templates_
  IN  /\ Enter({"Function", "Method"})
      /\ mod' = IF skip THEN mod ELSE EntryOfEntity(mod)
      /\ Then(IF ~skip /\ node.defn = decl THEN Calls(Lifted(node.decls), flags) ELSE <<>>)

\* A variable without a definition is listed with the definitions as well.
VisitVarDecl ==
  /\ Enter({"Var"})
  /\ mod' = IF /\ "dependent" \in node.attrs => templates_
               /\ node.defn = decl \/ (node.defn = None /\ node.canon = decl)
            THEN go(mod, <<decl>>, flags, TRUE) ELSE mod
  /\ Then(<<>>)

\* VisitNamespaceDecl and VisitLinkageSpecDecl.
VisitScopeDecl ==
  /\ Enter({"Namespace", "LinkageSpec"})
  /\ IF flags = none
     THEN Then(Calls(node.decls, flags))
     ELSE aborted' = TRUE /\ stack' = <<>>
  /\ UNCHANGED mod

\* The enumerators are added without a call of Visit (they are in no other
\* decls(), so VisitEnumConstantDecl is never called).
VisitEnumDecl ==
  /\ Enter({"Enum"})
  /\ mod' = IF node.canon = decl THEN go(mod, <<decl>> \o node.decls, flags, TRUE) ELSE mod
  /\ Then(<<>>)

\* Mutant: a friend declaration of a type is not told apart.
VisitFriendDecl_no_check ==
  /\ Enter({"Friend"})
  /\ Then(<<[decl |-> node.friend, flags |-> flags]>>)
  /\ UNCHANGED mod

VisitFriendDecl ==
  /\ Enter({"Friend"})
  /\ Then(Call(node.friend, flags))
  /\ UNCHANGED mod

\* build_module calls VisitTranslationUnitDecl itself, with empty flags.
Init ==
  /\ ast \in ASTs
  /\ templates_ \in BOOLEAN
  /\ stack = Calls(ast[TU].decls, none)
  /\ visited_ = {}
  /\ mod = EmptyModule
  /\ aborted = FALSE

Next ==
  \/ VisitAgain \/ VisitIgnored \/ VisitStaticAssertDecl
  \/ VisitTypedefNameDecl \/ VisitTypeAliasTemplateDecl
  \/ VisitCXXRecordDecl \/ VisitTemplateDecl \/ VisitFunctionDecl
  \/ VisitVarDecl \/ VisitScopeDecl
  \/ VisitEnumDecl \/ VisitFriendDecl

Spec == Init /\ [][Next]_vars /\ WF_vars(Next)

----------------------------------------------------------------------------
(* The ASTs that clang builds.                                             *)

Dependent(a) == {n \in DOMAIN a : "dependent" \in a[n].attrs}

WellFormed(a) ==
  /\ IsFiniteSet(DOMAIN a) /\ None \notin DOMAIN a
  /\ TU \in DOMAIN a /\ a[TU].kind = "TranslationUnit"
  /\ \A n \in DOMAIN a :
       /\ a[n].kind \in Kind /\ a[n].attrs \subseteq Attr
       /\ a[n].decls \in Seq(DOMAIN a) /\ a[n].specs \in Seq(DOMAIN a)
       /\ {a[n].defn, a[n].templated, a[n].friend} \subseteq DOMAIN a \cup {None}
       \* one entity: one kind, canonical declaration, definition and specialization list
       /\ a[n].canon \in DOMAIN a /\ a[a[n].canon].canon = a[n].canon
       /\ a[a[n].canon].kind = a[n].kind
       /\ a[a[n].canon].defn = a[n].defn /\ a[a[n].canon].specs = a[n].specs
       /\ a[n].defn # None => a[a[n].defn].canon = a[n].canon
       \* scopes are not in classes, functions or templates
       /\ \A c \in Range(a[n].decls) : a[c].kind \in Scope => a[n].kind \in Scope
       /\ \A c \in Range(a[n].specs) \cup ({a[n].templated, a[n].friend} \ {None}) :
            a[c].kind \notin Scope
       \* only templates have patterns and specializations
       /\ a[n].kind \notin Template => a[n].templated = None
       /\ a[n].kind \notin Template \ {"TypeAliasTemplate"} => a[n].specs = <<>>
       \* what is declared in a pattern is dependent and not linked to what is not
       /\ a[n].templated \in Dependent(a) \cup {None}
       /\ n \in Dependent(a) =>
            /\ Range(a[n].decls) \cup {a[n].canon} \subseteq Dependent(a)
            /\ {a[n].defn, a[n].friend} \subseteq Dependent(a) \cup {None}
            /\ a[n].specs = <<>>
       \* elsewhere only an out-of-line member of a template or a partial
       \* specialization is
       /\ n \notin Dependent(a) =>
            /\ Range(a[n].specs) \cap Dependent(a) = {}
            /\ a[n].friend \notin Dependent(a)
            /\ \A c \in Range(a[n].decls) \cap Dependent(a) :
                 /\ a[n].kind \in {"TranslationUnit", "Namespace"}
                 /\ \/ a[c].kind = "Ignored"
                    \/ a[c].kind \in {"Method", "Var", "Record"} /\ a[c].canon # c
       \* an enumerator is declared once, in one enumeration
       /\ a[n].kind = "EnumConstant" => a[n].canon = n
       /\ a[n].kind = "Enum" =>
            /\ IsInjective(a[n].decls)
            /\ \A c \in Range(a[n].decls) : a[c].kind = "EnumConstant"
            /\ \A m \in DOMAIN a :
                 a[m].kind = "Enum" /\ Range(a[n].decls) \cap Range(a[m].decls) # {}
                   => a[m].canon = a[n].canon

ASSUME ASTAssumption == \A a \in ASTs : WellFormed(a)

----------------------------------------------------------------------------
(* Properties.                                                             *)

Done == stack = <<>> /\ ~aborted

ModuleList   == mod.declarations \o mod.definitions
TemplateList == mod.template_declarations \o mod.template_definitions

\* A declaration that is walked past, whatever the flags.
Skipped(n) ==
  \/ ast[n].kind = "Record" /\ "implicit" \in ast[n].attrs /\ "lambda" \notin ast[n].attrs
  \/ ast[n].kind = "Method" /\ "deleted" \in ast[n].attrs

\* What a declaration gives access to, apart from the pattern of a template.
Successors(n) ==
  CASE Skipped(n) -> {}
    [] ~Skipped(n) /\ ast[n].kind \in Scope \cup {"Record"} -> Range(ast[n].decls)
    [] ~Skipped(n) /\ ast[n].kind \in {"Function", "Method"} ->
         IF ast[n].defn = n THEN Range(Lifted(ast[n].decls)) ELSE {}
    [] ast[n].kind = "Enum" -> IF ast[n].canon = n THEN Range(ast[n].decls) ELSE {}
    [] ast[n].kind \in Template \ {"TypeAliasTemplate"} -> Range(ast[n].specs)
    [] ast[n].kind = "Friend" -> {ast[n].friend} \ {None}
    [] OTHER -> {}

\* Everything in S and below it ...
Below(S) == Reached([n \in DOMAIN ast |-> Successors(n)], S, Cardinality(DOMAIN ast))

\* ... and with the patterns of templates.
BelowWithPatterns(S) ==
  Reached([n \in DOMAIN ast |-> Successors(n) \cup ({ast[n].templated} \ {None})],
          S, Cardinality(DOMAIN ast))

\* The declaration that stands for its entity in the output.
IsEntry(n) ==
  CASE ast[n].kind \in {"Record", "Function", "Method", "Var"} ->
         /\ ast[n].defn = n \/ (ast[n].defn = None /\ ast[n].canon = n)
         /\ ~Skipped(n)
    [] ast[n].kind = "Typedef" -> ast[n].canon = n /\ "names_anon" \notin ast[n].attrs
    [] ast[n].kind = "Enum" -> ast[n].canon = n
    [] OTHER -> ast[n].kind = "EnumConstant"

\* What is in a pattern or in a specialization.
InTemplate ==
  BelowWithPatterns(UNION {Range(ast[n].specs) \cup ({ast[n].templated} \ {None}) :
                             n \in {m \in BelowWithPatterns({TU}) : ast[m].kind \in Template}})

\* An explicit specialization, or what else is inside a template and in a
\* context outside, comes after the outermost template it belongs to.
Follows(c, g, begin) ==
  /\ ast[g].kind \in Template /\ begin[g] < begin[c]
  /\ c \in BelowWithPatterns(Range(ast[g].specs) \cup ({ast[g].templated} \ {None}))

\* The text outside templates is in source order: what a declaration holds is
\* between its begin and its end, and the declarations of a context follow
\* each other.
SourceOrder(begin, end, inside, outside) ==
  /\ \A n \in DOMAIN ast : begin[n] <= end[n]
  /\ \A n \in outside : ast[n].kind \notin Template =>
       /\ \A c \in Successors(n) : begin[n] <= begin[c] /\ end[c] <= end[n]
       /\ \A i, j \in DOMAIN ast[n].decls :
            i < j => end[ast[n].decls[i]] < begin[ast[n].decls[j]]
       /\ \A c \in Successors(n) \cap inside : \E g \in outside : Follows(c, g, begin)

InSourceOrder ==
  \E begin, end \in [DOMAIN ast -> Nat] :
    SourceOrder(begin, end, InTemplate, Below({TU}) \ InTemplate)

(* Type invariant of BuildModule. *)
TypeOK ==
  /\ TU \in DOMAIN ast
  /\ templates_ \in BOOLEAN
  /\ stack \in Seq([decl : DOMAIN ast, flags : Flags])
  /\ visited_ \subseteq DOMAIN ast
  /\ mod \in ModuleOf(DOMAIN ast)
  /\ aborted \in BOOLEAN

(* An entity is listed at most once per output, whatever the number of its   *)
(* redeclarations and of the paths (contexts, friends, specializations) that *)
(* lead to them.                                                             *)
OneEntryPerEntity ==
  \A l \in {ModuleList, TemplateList} :
    \A i, j \in DOMAIN l : ast[l[i]].canon = ast[l[j]].canon => i = j

(* The module does not depend on --templates: with and without it, its       *)
(* untemplated entries are the definition, or else the first declaration, of *)
(* every entity that can be reached outside the patterns of templates.       *)
ModuleComplete ==
  Done =>
    Range(ModuleList) \ Dependent(ast) = {n \in Below({TU}) \ Dependent(ast) : IsEntry(n)}

(* A definition is listed as a definition and a mere declaration as a        *)
(* declaration, except that variables are always listed with definitions.    *)
RightList ==
  /\ \A n \in Range(mod.definitions) \cup Range(mod.template_definitions) :
       ast[n].kind \in {"Record", "Function", "Method"} => ast[n].defn = n
  /\ \A n \in Range(mod.declarations) \cup Range(mod.template_declarations) :
       ast[n].defn = None

(* Only what is in a pattern or in a specialization is listed with the       *)
(* templates: the flags of a path are not carried to declarations outside.   *)
TemplatesSound == Done => Range(TemplateList) \subseteq InTemplate

(* With --templates all of it is: whatever path reaches a declaration first, *)
(* the flags are not lost on the way.                                        *)
TemplatesComplete ==
  Done /\ templates_ => {n \in InTemplate : IsEntry(n)} \subseteq Range(TemplateList)

(* The walk ends on ASTs with cycles (a class template that befriends itself)*)
(* and no always_assert on the flags of a namespace fails.                   *)
Terminates == <>Done

(* "Set context ... and emit (ctor name body) if decl is neither a template  *)
(* nor a specialization" (PrintDecl.cpp): the module holds no templated      *)
(* declaration.                                                              *)
ModuleUntemplated == Range(ModuleList) \cap Dependent(ast) = {}
=============================================================================
