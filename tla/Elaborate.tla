----------------------------- MODULE Elaborate -----------------------------
(***************************************************************************)
(* Elaborate.cpp: while clang parses, its callbacks make it declare and    *)
(* define the special members that C++ leaves implicit, so that the module *)
(* builder finds them.  Whether a member gets there depends on the order   *)
(* of the callbacks: a class is completed (HandleTagDeclDefinition) before *)
(* the top-level declaration around it is finished (HandleTopLevelDecl),   *)
(* and a class template specialization is added to its template while it   *)
(* is still incomplete and completed whenever its definition is needed,    *)
(* before or after the template's own top-level declaration.               *)
(*                                                                         *)
(* A class here is not dependent: elab leaves dependent ones alone.  Local *)
(* classes of functions are not visited and not modelled.  The flags of    *)
(* the visitor are left out: they are only read by the assertions that     *)
(* they are empty in namespaces, linkage specifications and the            *)
(* translation unit, and only set inside templates, which hold none.       *)
(***************************************************************************)
EXTENDS FiniteSets, Closure

CONSTANTS
    Class,        \* classes, nested classes and class template specializations
    TopDecl,      \* top-level declarations: classes, templates and namespaces
    Home,         \* the top-level declaration around a class or its template
    Nested,       \* the classes nested in a class, at any depth
    Specialization, \* the classes that are implicit instantiations
    Befriended,   \* the specializations of the templates that a class befriends
    Written,      \* the special members a class may declare in its source
    Touched       \* the special members that the program looks up or uses (bound)

Special == {"ctor", "copy", "copyAssign", "move", "moveAssign", "dtor"}

\* user: declared in the source; dflt: those of them that are "= default";
\* deleted: those that are deleted, in the source or by the rules of C++.
Sources == [user : SUBSET Special, dflt : SUBSET Special, deleted : SUBSET Special]

ASSUME ClassAssumption == IsFiniteSet(Class)
ASSUME HomeAssumption == Home \in [Class -> TopDecl]
ASSUME NestedAssumption ==
    /\ Nested \in [Class -> SUBSET Class]
    /\ \A c \in Class : \A d \in Nested[c] : Home[d] = Home[c]
ASSUME SpecializationAssumption == Specialization \subseteq Class
ASSUME BefriendedAssumption == Befriended \in [Class -> SUBSET Specialization]
ASSUME WrittenAssumption ==
    /\ Written \subseteq Sources
    /\ \A w \in Written : w.dflt \subseteq w.user
ASSUME TouchedAssumption == Touched \subseteq Special

VARIABLES
    elaborate_,   \* the option: FALSE under --no-elaborate
    src,          \* what the source of each class says
    exists,       \* the classes that clang has made a declaration for
    complete,     \* the classes with a definition
    closed,       \* the top-level declarations that are finished
    declared,     \* the special members of each class that are declared
    body,         \* those that have a body
    forced,       \* what the elaborator declared or gave a body
    ended         \* HandleTranslationUnit is called

evars == <<elaborate_, src, exists, complete, closed, declared, body, forced, ended>>

(***************************************************************************)
(* Clang: which implicit members a class still needs.                      *)
(***************************************************************************)
Needs(u, d) ==
    {m \in Special \ d :
        /\ m = "ctor" => u \cap {"ctor", "copy", "move"} = {}
        /\ m = "move" => u \cap {"copy", "copyAssign", "moveAssign", "dtor"} = {}
        /\ m = "moveAssign" => u \cap {"copy", "copyAssign", "move", "dtor"} = {}}

\* Not the copy operation whose counterpart the source declares: it is
\* deprecated.
GenerateUndeprecatedImplicitMembers(u, d) ==
    {m \in Needs(u, d) : /\ m = "copy" => "copyAssign" \notin u
                         /\ m = "copyAssign" => "copy" \notin u}

\* VisitCXXConstructorDecl, VisitCXXDestructorDecl and VisitCXXMethodDecl give
\* a body to what is defaulted, implicitly or in the source, and not deleted.
Definable(s, d) == {m \in d : m \notin s.deleted /\ (m \in s.user => m \in s.dflt)}

\* Elaborate::Visit of the classes cs, which may be incomplete; full of the
\* ones that are complete.  Only a recursive visit reaches the members.
Visit(cs, full, rec, dcl, bdy) ==
    LET d == [c \in Class |->
                IF c \in cs \cap full
                THEN dcl[c] \cup GenerateUndeprecatedImplicitMembers(src[c].user, dcl[c])
                ELSE dcl[c]]
        b == [c \in Class |-> IF c \in cs /\ rec THEN bdy[c] \cup Definable(src[c], d[c])
                              ELSE bdy[c]]
    IN  /\ declared' = d
        /\ body' = b
        /\ forced' = forced
              \cup {f \in Class \X Special \X {"declared"} : f[2] \in d[f[1]] \ dcl[f[1]]}
              \cup {f \in Class \X Special \X {"body"} : f[2] \in b[f[1]] \ bdy[f[1]]}

\* What clang knows of class c at its closing brace.
WithMembers(c) == [declared EXCEPT ![c] = @ \cup src[c].user]
WithBodies(c) ==
    [body EXCEPT ![c] = @ \cup (src[c].user \ (src[c].dflt \cup src[c].deleted))]

Init ==
    /\ elaborate_ \in BOOLEAN
    /\ src \in [Class -> Written]
    /\ exists = Class \ Specialization
    /\ complete = {} /\ closed = {} /\ forced = {} /\ ended = FALSE
    /\ declared = [c \in Class |-> {}]
    /\ body = [c \in Class |-> {}]

(***************************************************************************)
(* The callbacks.                                                          *)
(***************************************************************************)

\* Mutant: the option is not looked at.
HandleTagDeclDefinitionAlways(c) ==
    Visit({c}, complete \cup {c}, FALSE, WithMembers(c), WithBodies(c))

HandleTagDeclDefinition(c) ==
    IF elaborate_
    THEN Visit({c}, complete \cup {c}, FALSE, WithMembers(c), WithBodies(c))
    ELSE declared' = WithMembers(c) /\ body' = WithBodies(c) /\ UNCHANGED forced

\* The definition of class c ends, or specialization c is instantiated.
Complete(c) ==
    /\ ~ended /\ c \in exists \ complete
    /\ Nested[c] \subseteq complete
    /\ c \in Specialization \/ Home[c] \notin closed
    /\ complete' = complete \cup {c}
    /\ HandleTagDeclDefinition(c)
    /\ UNCHANGED <<elaborate_, src, exists, closed, ended>>

\* The specialization is added without a definition.  This callback does not
\* look at the option.
AddedCXXTemplateSpecialization(c) ==
    /\ ~ended /\ c \in Specialization \ exists
    /\ exists' = exists \cup {c}
    /\ Visit({c}, complete, TRUE, declared, body)
    /\ UNCHANGED <<elaborate_, src, complete, closed, ended>>

\* Mutant: the nested classes are not visited.
elab_topNotNested(t) ==
    Visit({c \in exists : Home[c] = t /\ \A d \in Class : c \notin Nested[d]}, complete, TRUE,
          declared, body)

\* Mutant: VisitClassTemplateDecl is missing.
elab_topNoTemplates(t) ==
    Visit({c \in exists \ Specialization : Home[c] = t}, complete, TRUE, declared, body)

\* VisitFriendDecl: the visit of a class goes on to the specializations of the
\* templates it befriends, and in them.  (That a befriended special member is
\* visited, and gets the body that Use gives it, is left out.)
WithFriends(cs) ==
    Reached([c \in Class |->
                IF c \in complete THEN (Befriended[c] \cup Nested[c]) \cap exists ELSE {}],
            cs, Cardinality(Class))

\* elab(d, true): namespaces, nested classes and the specializations of a
\* template are descended into.
elab_top(t) ==
    Visit(WithFriends({c \in exists : Home[c] = t}), complete, TRUE, declared, body)

HandleTopLevelDecl(t) ==
    /\ ~ended /\ t \notin closed
    /\ \A c \in Class \ Specialization : Home[c] = t => c \in complete
    /\ closed' = closed \cup {t}
    /\ IF elaborate_ THEN elab_top(t) ELSE UNCHANGED <<declared, body, forced>>
    /\ UNCHANGED <<elaborate_, src, exists, complete, ended>>

\* A defaulted member of a specialization is used.  HandleInlineFunctionDefinition
\* visits a function that has its body already, to no effect.
HandleCXXImplicitFunctionInstantiation(c, m) ==
    /\ ~ended /\ c \in Specialization \cap complete
    /\ m \in Definable(src[c], declared[c] \cap src[c].user) \ body[c]
    /\ elaborate_
    /\ body' = [body EXCEPT ![c] = @ \cup {m}]
    /\ forced' = forced \cup {<<c, m, "body">>}
    /\ UNCHANGED <<elaborate_, src, exists, complete, closed, declared, ended>>

\* Clang itself declares an implicit member when it looks for it by name...
LookUp(c, m) ==
    /\ ~ended /\ c \in complete
    /\ m \in Needs(src[c].user, declared[c])
    /\ declared' = [declared EXCEPT ![c] = @ \cup {m}]
    /\ UNCHANGED <<elaborate_, src, exists, complete, closed, body, forced, ended>>

\* ...and defines it when the program uses it.
Use(c, m) ==
    /\ ~ended /\ c \in complete
    /\ m \in Definable(src[c], declared[c]) \ body[c]
    /\ body' = [body EXCEPT ![c] = @ \cup {m}]
    /\ UNCHANGED <<elaborate_, src, exists, complete, closed, declared, forced, ended>>

HandleTranslationUnit ==
    /\ ~ended /\ closed = TopDecl
    /\ ended' = TRUE
    /\ UNCHANGED <<elaborate_, src, exists, complete, closed, declared, body, forced>>

Next ==
    \/ \E c \in Class : Complete(c)
    \/ \E c \in Class : AddedCXXTemplateSpecialization(c)
    \/ \E t \in TopDecl : HandleTopLevelDecl(t)
    \/ \E c \in Class, m \in Touched : HandleCXXImplicitFunctionInstantiation(c, m)
    \/ \E c \in Class, m \in Touched : LookUp(c, m)
    \/ \E c \in Class, m \in Touched : Use(c, m)
    \/ HandleTranslationUnit

Spec == Init /\ [][Next]_evars

(***************************************************************************)
(* Properties.                                                             *)
(***************************************************************************)

\* The special members that the elaborator is there for: the implicit ones
\* that are not deprecated and the ones defaulted in the source.
Wanted(c) ==
    GenerateUndeprecatedImplicitMembers(src[c].user, src[c].user) \cup src[c].dflt
Elaborated(c) ==
    Wanted(c) \subseteq declared[c] /\ Wanted(c) \ src[c].deleted \subseteq body[c]

\* When the module is built, every class of the source, nested or not, has
\* its special members, with their bodies, in whatever order clang completed
\* the classes and whatever it had declared or defined by itself before.
ClassesElaborated ==
    ended /\ elaborate_ => \A c \in Class \ Specialization : Elaborated(c)

\* A specialization that was completed before the top-level declaration of
\* its template was finished (inside a namespace, say) has them too: this is
\* what VisitClassTemplateDecl is for.
InTime ==
    [][\A c \in Specialization \cap complete :
          elaborate_ /\ Home[c] \in closed' \ closed => (Elaborated(c))']_evars

\* Under --no-elaborate nothing is declared or defined but by clang itself,
\* although AddedCXXTemplateSpecialization does not look at the option.
NoElaborateIsQuiet == ~elaborate_ => forced = {}

\* FromClang.cpp: the elaborator "does not generate deprecated members".  In
\* C++ an implicit copy operation is deprecated when the other one, or the
\* destructor, is declared by the user.
NoDeprecatedForced ==
    \A c \in Class :
        /\ <<c, "copy", "declared">> \in forced => src[c].user \cap {"copyAssign", "dtor"} = {}
        /\ <<c, "copyAssign", "declared">> \in forced => src[c].user \cap {"copy", "dtor"} = {}
=============================================================================
