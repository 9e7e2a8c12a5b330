# A TLA+ model of cpp2v

`cpp2v` (`src/rocq-bluerock-cpp2v`) reads a C++ translation unit with clang and
prints a Coq file; `parser.v` of BRiCk (`src/rocq-bluerock-brick`) evaluates that
file to a `translation_unit`, on which proofs about the program rest.  What makes
the tool correct is that nothing of the program is lost, duplicated or changed on
the way and that Coq accepts the file.  The modules here model that way.

## Inventory

| Part | State | Operations | Hard behaviour |
|---|---|---|---|
| Elaboration (`Elaborate.cpp`) | clang's AST, a visited set per callback | callbacks of the parser that declare and define implicit members and instantiate templates | order of the callbacks, completeness of a class at that time |
| Module builder (`ModuleBuilder.cpp`) | `visited_`, five lists | one `Visit...` method per kind of declaration | a declaration is walked once, with the flags of the first path; redeclarations; cycles through friends |
| Sharing pass (`PrePrint.cpp`, `PrePrint.hpp`) | two caches with counters | visitors for types, statements, declarations; `fresh`, `store`, `lookup`, `reference` | definitions must precede their uses in the file; the entry is made after the parts are visited |
| Output driver (`ToCoq.cpp`, `cpp2v.cpp`) | four output files | pass, list, notations, templates, names | a file that cannot be opened, a `die()` in the middle |
| Printers (`Print*.cpp`, `ClangPrinter`, `CoqPrinter`) | declaration context, opaque names | one visitor per kind of node, each of which prints its own parentheses, spaces and separators | two kinds of output with different constructors; paths that few ASTs take |
| Formatter (`Formatter.cpp`) | pending spaces, blank line, indentation | `nbsp`, `line`, `lparen`, `rparen`, output | what separates two words depends on who printed last; assertions on the indentation |
| Names (`PrintName.cpp`) | none | the path of atomic names of a declaration | what has no identifier: typedefs, the next declaration, first fields, numbers |
| Comment scanner, filters, notations | cursor in the comments | scan, select, print | |
| Fold of the file (`parser.v`) | three tables, duplicates | `_symbols`, `_types`, `_aliases`, `_skip`, check | several declarations of one name, in any order |
| Inclusion order (`sub_module.v`) | none | `GlobDecl_le`, `ObjValue_le` | must be an order for the fold to be right |
| `mparser` | two tables | the same for templates | last declaration wins |
| `br` setup tool, logger library, SWI-Prolog bindings, Ltac2 and Elpi extensions, rocq-tools | | | outside the translation |

The parts meet as follows.  clang parses and calls Elaborate; at the end
`ToCoqConsumer::HandleTranslationUnit` calls `toCoqModule`, which runs
`build_module` over the AST and hands the `Module` to the printers;
unless `--no-sharing` is given the sharing pass runs first and fills the cache the printers consult.  Coq then
folds the printed list.  `ModuleBuilder.cpp` relies on the fold for a case it
cannot handle itself: "clang does not link all definitions together ... we fix this
within Coq by de-duplicating the definition".

Everything is sequential.  What is hard is order: of redeclarations, of paths
through a cyclic AST, of clang's callbacks, of definitions in the file, of declarations
in the fold; and that a hundred visitors agree with each other and with Coq's grammar
on every AST, which tests meet one AST at a time.

## Modules

| Module | Models |
|---|---|
| `SubModule` | the values names are bound to and the order `GlobDecl_le`, `ObjValue_le` on them |
| `TranslationUnit` | the fold of `parser.v`, one step per declaration, and `check_translation_unit` |
| `ModuleBuilder` | `BuildModule`, one step per call of `Visit` |
| `Driver` | the run of the program over its sources: the four output files, open failures, `die()`, the exit code |
| `PrePrint` | the sharing pass and the printing of the list after it |
| `Elaborate` | the callbacks that make clang declare and define implicit members |
| `Names` | the names of declarations, while clang parses the translation unit |
| `CoqSyntax` | the constructors of BRiCk's syntax with the sorts of their arguments, in concrete and in templates files |
| `CoqReader` | abstract: Coq reading a term of an expected sort, token by token |
| `CoqPrinter` | the vocabulary of the printers: constructors, lists, tuples, optional values |
| `PrintStmt`, `PrintExpr`, `PrintType`, `PrintName`, `PrintDecl` | the texts of every visitor of the file of that name (`PrintStmt` also local declarations, `PrintExpr` also the template arguments of `ClangPrinter`) |
| `Printer` | composes them: the stack of calls, the Formatter, and the refinement of `CoqReader` |
| `Closure` | what can be reached in a graph, for the properties of the two walks and the visit of `Elaborate` |
| `TranslationUnitProofs`, `ModuleBuilderProofs`, `PrePrintProofs`, `DriverProofs`, `ElaborateProofs`, `NamesProofs`, `PrinterProofs` | proofs about the module of that name (`TranslationUnitProofs` also about `SubModule`) |
| `ClosureProofs` | lemmas about `Closure` and about sequences |
| `MCTranslationUnit`, `MCModuleBuilder`, `MCPrePrint`, `MCDriver`, `MCElaborate`, `MCNames`, `MCPrinter` | instances for TLC |

*Recursion.*  `BuildModule` and `PrePrint` are recursive visitors.  In the models
the recursion is a stack of calls that are still to be made: a step takes the first
one, does what the method does before its calls and puts the calls in front.  Both
visitors do their own work before the calls, except that `PrePrint` makes the entry
of a type after its parts, which is a call `Define` of its own.

*Printing.*  A visitor is the set of the item sequences it can print, one for each
way through its conditions: `Tok`, `nbsp`, `line`, `lparen`, `rparen` go to the
Formatter, `Call("Expr")` is a call of another printer, `List`, `Opt`, `Many` and
`Filter` are the list and option printers of `CoqPrinter`.  `Printer` executes a
text: `visit` replaces a call by any text of the printer that is called, the other
actions are the Formatter's operations.  A choice is made anew for every node, so a
behaviour prints one AST and all ASTs of the bounded depth are covered.
`CoqReader` is the specification of that: a machine that keeps a stack of the sorts
it still expects and takes a token only where Coq would.  `Printer` refines it
(`TextIsCoq`): its `token` and `stack` are the reader's, and the reader's `gap` is
what the Formatter has pending (`fmt.blank \/ fmt.spaces > 0`).  A token that the
reader does not take leads `Printer` to a stack that no step of the reader gives.

*Elaboration.*  `Complete` is the closing brace of a class, or the instantiation of a
specialization, with `HandleTagDeclDefinition`; `HandleTopLevelDecl` is the end of a
top-level declaration, the only recursive visit of members (`WithFriends`: it goes on
to the specializations of befriended templates); `LookUp` and `Use` are what clang does
by itself in between.

*Names.*  `Declare` and `Close` grow a translation unit in source order; the naming
functions are operators on the declarations so far.

*What is external.*  clang's AST.  `ModuleBuilder` describes a declaration by the
answers the visitor asks for (`getCanonicalDecl`, `getDefinition`, `decls`,
`specializations`, `getTemplatedDecl`, `getFriendDecl`, a few attributes), and
`WellFormed` says what clang guarantees: redeclarations share their canonical
declaration, definition and specializations; declarations in a pattern are
dependent, and outside only members of templates defined out of line and partial
specializations are; namespaces are not in classes, functions or templates; an
enumerator belongs to one enumeration.  `PrePrint` describes a type, name, statement or declaration by its kind
and its parts and assumes that parts are shallower (`DepthAssumption`): clang
builds a type or an expression after its parts.

*What is abstracted.*  In `SubModule` bodies, expressions and messages are opaque
values; the fields that `ObjValue_le` compares by equality are one field, `sig`; a
type is a scalar or class type under qualifiers.  In `PrePrint` the text printed for
an item is the set of references in it.  `dups` is a set: the order of the list is
only shown to the user.  Comments, tracing and warnings are left out.  In `Driver` a file is described
by the source and the output it was last opened for and whether that was finished;
whether a path can be opened does not change during the run; `ClangTool` is external
(it goes on after a rejected or skipped source and returns 1 or 2).

In the printers a string literal, a number and each type of enumerated constants
(operators, casts without arguments, calling conventions, layouts) is one word: the
code chooses among them with switches, and the constants take no arguments.  A
number in front of a word (`0Tint`) is lexed by Coq as two tokens; that is assumed,
and `VisitOpaqueValueExpr` relies on it.  Whether a declaration is a template, an
instantiation or neither is a free choice; which of the visitors of a class hierarchy
of nodes is called is clang's.  Escaping in string literals, comments and locations
are left out.  `PRINT_ALIAS` is false (`include/config.hpp`).  In `Elaborate` the
members are the six special ones and C++11 or later is assumed; a class is not
dependent, since `elab` ignores dependent ones.

## Runs

`translation_unit` (131862 states).  Every list of at most three declarations from
two pools of about twenty: variables with every initialiser, functions with
parameters that differ in name, qualifiers or type, members, types, enumerators,
typedefs, two names.  Three declarations are what a violation of order independence
needs: two that conflict and one between them that is comparable with both.  It
shows that nothing is lost (`NothingLost`) or invented (`NothingInvented`), that the
reported duplicates are exactly the names with irreconcilable declarations although
a declaration is only compared with the current entry (`DupsExact`), what the
verdict means (`Verdict`), and that no step forgets (`TablesGrow`).

`module` (95490 states).  One entity of each kind with up to three
declarations; the definition is any of them or missing; a declaration is in the
translation unit, a namespace, an `extern "C"` block, a friend declaration or a
function body.  More declarations add nothing: the visitor only distinguishes the
first, the definition and the others.  And a class template with any subset of ten
features (a forward declaration, explicit and partial specializations, friends that
are functions or the template itself, a member template, out-of-line members,
static asserts, a function template, alias and variable templates).  Both with and
without `--templates`.  An entity gets one entry (`OneEntryPerEntity`), in the right
list (`RightList`); the untemplated part of the module is complete and the same with
and without `--templates` (`ModuleComplete`); the template list holds nothing that is
not in a pattern or a specialization (`TemplatesSound`) and with `--templates` all of
that (`TemplatesComplete`); the walk ends and no `always_assert` fails (`Terminates`).
`MCSpec` is `Spec` with an assertion in the initial states: the ASTs of the run are in
source order (`SourceOrder`), the hypothesis under which `TemplatesComplete` is proved.
`Text` writes the text of an AST down, which gives each declaration its begin and end.

`module_out_of_line` finds a violation: with `--templates` the out-of-line
definition of a member of a class template goes to the untemplated module and not
to the template list.  `TemplatesComplete` does not exclude it, because such a
definition is lexically outside the pattern.

`preprint` (12538 states).  35 items (13 kinds of types, names that mention types,
expressions that call functions, members and constructors) and every order of up to
two declarations and three definitions, with and without `--no-sharing`.  Every
reference resolves to a definition above it (`Resolves`), definitions are distinct,
`store` never aborts, a type's definition refers to its parts instead of printing
them again (`PartsAreShared`), and exactly what is visited is defined (`AllShared`).

`driver` (45918 states up to symmetry of the paths).  Every command line with two
paths for the four options and up to three sources, each accepted, rejected or
skipped, with `die()` at any point.  Two paths are enough for options that share
one and for one that cannot be opened; the third source distinguishes the last
source from the one before it.  Exit code 0 means that a named file is the finished
output of the last source unless stderr reports it (`SuccessMeansWritten`); only
`die()` leaves an unfinished file (`TornOnlyByDeath`); nothing is written for a
rejected source (`OnlyTranslationsWritten`); an output on disk is never newer than
the outputs before it (`EarlierOutputsFresh`).

`elaborate` (84108 states).  A class with a nested class and a specialization whose
template is in a namespace and a friend of the class; each class declares nothing, a copy constructor, or a
defaulted copy assignment while C++ deletes its default constructor; clang completes,
instantiates, looks up and uses in any order, with and without `--no-elaborate`.  When
the module is built the classes of the source have their members and bodies
(`ClassesElaborated`); so have, after the step that closes their template's top-level
declaration, the specializations that are complete then (`InTime`); `--no-elaborate`
forces nothing (`NoElaborateIsQuiet`).  `Touched` bounds the members that the program
uses to the two that depend on each other.

`elaborate_deprecated` finds a violation: the copy operations of a class with a
user-declared destructor are generated although they are deprecated.

`names` (729826 states up to symmetry of the identifiers).  Every translation unit of
up to four declarations with two identifiers: namespaces (named, unnamed, reopened),
linkage specifications, classes, enumerations, values, other declarations.  Four are
needed for two unnamed entities in two blocks of one context; two identifiers for
entities that are different and others that share a name.  Entities have distinct
names (`DistinctNames`), a header's names do not depend on what is included before
it (`HeaderNames`), and what follows a declaration does not rename it unless it is an
unnamed tag at the end (`NamesSettle`).  The exceptions, which the code has, are in
the properties: unsupported unnamed global classes, classes with the same first field
name in one scope, unnamed entities numbered in two blocks of a namespace, and what
has no name in a global linkage specification, which is numbered across headers.

`names_first_decl` finds a violation: `by_first_decl` looks at the next declaration
only, `core.v` promises the first one of the type.

`printer` (468444 states).  Every printer as the root, in both kinds of files, with
every text of every visitor two calls deep and then texts without calls, lists of up
to two elements.  Depth two is what the properties need: whether a text is accepted
depends on the text itself, on what the caller printed in front of it and on what it
prints behind it.  Each text is a term of the expected sort (`TextIsCoq`), it is
finished when the printer returns (`Complete`), and no assertion on the indentation
fails (`NeverAborts`).  `MCPrinter` also has TLC evaluate `TextsAreBalanced`, which is
about the tables themselves: each text, of the irregular ones too, closes the
constructors that it opens.

`printer_case` finds a violation: a case label that is itself the body of a switch is
printed as two list elements where a statement is expected.

`printer_templates` finds a violation: a class template with virtual bases or bit
fields is printed as `Dunsupported` in the templates file, which has no such
declaration.

The texts of `Irregular` are in the tables of the printers, as the code prints them,
and are excluded from `printer`: these two and six more that Coq does not accept, listed
under the known limits below.  So `Complete` and `TextIsCoq` are about all texts but
those eight; `TextsAreBalanced` is about them too.

Deadlock is not checked in these runs: the fold, the walk, the pass, the program, the
translation unit and the printers end.

*Fairness.*  `ModuleBuilder` and `PrePrint` assume weak fairness of `Next`: each is
one sequential computation, which goes on as long as it has a step.

*Mutants.*  Every property has a mutated definition next to the one it replaces
(marked "Mutant") under which TLC finds the property violated.

## Proofs

`TranslationUnitProofs` begins with the relations of `SubModule`: both are reflexive
and transitive, and, which the fold needs beyond an order, two values that are both
comparable with a third that is above one of them stay comparable
(`GlobDecl_ler_join`, `ObjValue_ler_join`).  Then it proves all properties of
`TranslationUnit` for every set of names, bodies and expressions and every finite
list.  The inductive invariant `IInv`
is the conjunction of the properties with `CheckedAtEnd`: `DupsExact` alone is not
inductive, since the fold sees only the current entry; that the entry is one of the
folded declarations (`NothingInvented`) and above all the others (`NothingLost`)
makes the comparison with it decide the comparison with all.  Assumptions:
`NoneAssumption`, `InputsAssumption`.

`ClosureProofs` is the common ground of the next two.  What a walk should have done is
a closure, `Reached(succ, S, n)`, computed by a recursive function.  The provers cannot
use an induction theorem that takes an operator, so induction is stated for a set
(`SetInduction`, from the well-foundedness of `<` on the naturals), and the set that a
proof needs is defined in it.  A recursive function equals its definition only if a
function with that equation exists: `WalkExists` and `WalksAgree` give that for
`Reached`, `FilterExists` for `Among`.  What the walks use is that `Reached` contains
`S` and lies in every closed set around it (`ReachedLeast`), and that it is closed:
after as many steps as the graph has nodes (`ReachedClosed`, the walk of a graph with
cycles), or as its longest path (`ReachedClosedByRank`, types and their parts).

`ModuleBuilderProofs` proves all invariants of `ModuleBuilder`, for every AST
that keeps clang's guarantees (`WellFormed`), cycles included, and that no
`always_assert` fails.  The invariant `WInv` has five parts beside types.  A call on
the stack with a flag is never one of a namespace or linkage specification, one with
the flag of a pattern is dependent, and what is not dependent can be reached
(`GoodCall`).  What is listed has been visited, stands for its entity, and is in each
list once, in the one that its definition demands (`ListsAreGood`).  What is visited
outside patterns can be reached (`VisitedIsBelow`), and what a visited declaration
calls is visited or on the stack (`SuccessorsWalked`), so that at the end, when the
stack is empty, visited and reachable are the same: `ModuleComplete` is then
`EntriesListed`, that a visited entry has been listed.  `OneEntryPerEntity` follows
since two declarations of an entity cannot both stand for it.  `TemplatesSound` needs
a second invariant, `TInv`: a flag is set only on calls inside patterns and
specializations, which are closed under calls.

`TemplatesComplete` is the hardest: `visited_` admits only the first call for a
declaration, and an explicit specialization has two, one from its template with flags
and one from the context it is written in without.  That the first one wins depends on
the order of the whole walk.  `OInv(begin, end)` describes it, for positions in the text
that put the declarations outside templates in source order: on the stack the calls with
flags precede those without, and those without are in source order (`Sorted`); what a
visited declaration gives access to is visited or on the stack, and with flags if it is
in a template (`Covered`); a call without flags for a declaration in a template comes
after the outermost template it belongs to (`PlainCall`).  So when such a call is made, the
template has been visited (`EarlierIsWalked`), no call with flags is left, all that the
template gives access to is walked, and the call finds its declaration visited
(`MetInTemplate`).  The hypothesis `InSourceOrder` is about clang's AST: a context's
declarations follow each other, what a declaration holds is inside it, and a
specialization is declared after its template.  Without it the theorem fails, since the
code has no other protection.  Assumption: `ASTAssumption`.

`PrePrintProofs` proves all safety properties of `PrePrint` for every set of items and
every module.  For `TypeOK`, `Resolves`, `DistinctDefinitions` and `NeverAborts` the
invariant adds that the entries are the definitions printed (`EntriesAreDefs`) and
that an item whose definition is pending has no entry and waits for shallower items
only (`PendingIsDeeper`): it is what excludes that the item gets an entry while its
parts are visited.  `PartsAreShared` and `AllShared` need `SInv`: everything below
an item that has an entry has one (`EntriesComplete`); everything below a pending item
has one or is called before the item is defined (`PendingComplete`, about the order of the stack); what the module
reaches is defined or will be by what is on the stack (`RootsCovered`); and nothing
else is (`OnlyVisited`).  Assumptions: `ItemAssumption`, `DepthAssumption`,
`ModulesAssumption`.

`PrinterProofs` proves `NeverAborts` for every depth of nesting, every root and both
kinds of files, where the run has depth two.  The theorem has one hypothesis,
`TextsAreBalanced`: that each text of the table closes what it opens.  It is a fact
about finitely many texts, with no nesting in it, that TLC evaluates in full (it is an
assumption of `MCPrinter`, whose `Irregular` and `Nesting` do not occur in it); the
table is built with folds that the provers cannot unfold.  The invariant `PInv` says
that the remaining work runs from the current indentation to some other without
falling below zero, `Runs`, with the indentation at every item as its witness; a call is
replaced by a balanced text, which can be put into a run at any depth (`RunsStep`,
`RunsConcatenation`, `BalancedRuns`).  The checks at the end of `printStmt`, `printExpr` and `printType`
are items of the work, so `PInv` says that they will hold, too.

`DriverProofs` proves all properties of `Driver` for every set of paths and number
of sources.  The invariant adds who wrote a file (`Provenance`), that no file is
ahead of the program (`NotAhead`) and what the current source and the one before it
have written (`Progress`): `SuccessMeansWritten` is about the last source, and when
`ClangTool` returns, that is the one before `src`.  Assumption: `DriverAssumption`.

`ElaborateProofs` proves all properties of `Elaborate` that hold, for every set of
classes, any nesting and any source.  `ClassesElaborated` is about the end; the
invariant says when a class got its members: the classes whose top-level declaration
is closed are elaborated and stay so (`ClosedAreDone`), a complete class has at least
what its source declares (`MembersOfSource`, needed because what the elaborator gives a
body depends on what is declared), and the end comes after all of them are closed.
Assumptions: those of `Elaborate` on `Class` (finite), `Home`, `Nested`,
`Specialization`, `Befriended`, `Written`, `Touched`.

`NamesProofs` proves all properties of `Names` that hold, for every set of identifiers,
any number of declarations and any nesting.  The names, the contexts around a
declaration and its ancestors are recursive functions over the declarations, each of
which refers to an earlier one; `ParentRecursion` gives once and for all that such a
function exists and satisfies its equation (`ChainIs`, `AncIs`, `AroundIs`, `NameIs`).
The invariant `NInv` has these parts.  `Stack`: the contexts being parsed are declared,
innermost first.  `Enclosing`: all that was declared since one of them was opened is
inside it.  `Nested`: hence a context around a declaration is around all that is
between them, so that the text after a declaration of the translation unit refers to
no context before it.  `Scoped`: what a scope's declarations introduce (unscoped
enumerators and the members of transparent contexts are introduced in the scope
around) is never introduced by two entities.

* `NamesStay`: the name of a declaration is computed from what precedes it and, for a
  tag without a name, from the declaration that follows it; each operator in it has
  the same value after one more declaration (the lemmas ending in `Grown`).
* `NamesAreDistinct`: equal names of different entities fork somewhere (`NamesFork`, by
  strong induction on the contexts): there are contexts of both that are different
  entities of one scope with equal atomic names.  `Scoped` excludes it for identifiers,
  the count of the anonymous declarations before (`Counted`) for numbers in one block,
  and the rest is what `Excused` states.
* `HeadersAgree`: `File` shifts all indices of the text after a declaration (`Cut`, by
  `Nested`), and each operator commutes with the shift, except numbers that are counted
  in the translation unit itself.

Assumptions: `IdentAssumption`, `MaxDeclsAssumption`.

Only model-checked:

* `Complete` and `TextIsCoq`: the reader takes token after token of the table's texts,
  and the table and `CoqSyntax` are built with operators that the provers do not unfold;
  TLC evaluates them.
* `Terminates` of both walks, which needs fairness.

## Known limits of the code, not stated as properties

* A path that cannot be opened does not change the exit code: with exit code 0 the
  file may still be that of an earlier run.
* An entity that is only declared by a friend declaration of a type
  (`friend struct F;`) is in no `decls()` and gets no entry.
* The out-of-line definition of a member of an explicit specialization is visited
  with empty flags, so it is in the module but not in the template list.
* A typedef that is printed twice (two unlinked redeclarations) is a duplicate for
  `_aliases`, even if the types are equal.
* With `--templates` a `static_assert` of a class template's pattern is listed in the
  untemplated module: `VisitStaticAssertDecl` ignores its flags.
* A specialization that is instantiated after its template's top-level declaration was
  closed only meets `HandleTagDeclDefinition`: its implicit members are declared and
  get no bodies unless the program uses them.  Classes local to functions are not
  elaborated.
* Texts that Coq does not accept (`Irregular` in `Printer`): besides the two that the
  runs show, `Tauto` and `Tdependent`, which `mparser` does not define (`wordless`);
  `Nunsupported` where an atomic name is expected (`declname`); `Eunsupported` without
  its type for template arguments (`nontype`); a quote and a parenthesis in the wrong
  order in `VisitUnaryExprOrTypeTraitExpr` (`uett`); the arguments of
  `VisitCXXPseudoDestructorExpr` (`pseudo`); `Eunresolved_member` in a concrete file
  (`member`): `VisitCXXDependentScopeMemberExpr` does not look at the kind of file and
  prints a boolean, a base and a name, `core.v` takes no boolean.  A concrete file gets
  dependent expressions with `--templates`, from the `static_assert`s and out-of-line
  members of patterns above.
* Such a member that mentions its class or a parameter of its template ends the
  concrete file by an assertion instead (`VisitInjectedClassNameType`,
  `printTypeTemplateParam`).  In the printers this is `Die`.
* The default of the switch in `VisitAtomicExpr` returns with `Eatomic` open.  It is
  not in the model: the cases and clang's enumeration come from one list.
* Initializers of `if` and `switch` (C++17) are not printed.
* A constructor or method named in an expression is given a definition before its
  parameter types are visited; its name is then printed without sharing them.

## Plan

1. The composition of the module builder, the printed list and the fold (a list of a
   module without unlinked redeclarations is always accepted), and the fold of
   `mparser`.
2. Numbers of opaque values (`OpaqueNames.hpp`), which are one numeral in the printers,
   and names of declarations in functions.

## Not modelled

The theories of BRiCk beyond the syntax (Coq checks them); `SpecWriter.cpp` and the
comment scanner (no code path of cpp2v calls them); filters (only the one that
includes everything is used); locations, logging and tracing (diagnostics); the
visitors copied from LLVM; `Derror` and `Eerror` nodes, which occur only when clang
has reported errors; build scripts, documentation, `br`, the logger library and the
SWI-Prolog bindings, which are outside the translation.
