-------------------------------- MODULE Names --------------------------------
(***************************************************************************)
(* PrintName.cpp: the names that a generated file gives to the             *)
(* declarations of a translation unit.  A name is the path of atomic names *)
(* from the translation unit down; linkage specifications are left out of  *)
(* the path.  What has no identifier is named by its typedef, by the       *)
(* declaration that follows it, by its first field or enumerator, or by    *)
(* its position.  Names join the modules of headers and source files, so   *)
(* they have to be distinct and not depend on what a file includes.        *)
(*                                                                         *)
(* The translation unit grows as clang parses it.  Functions and their     *)
(* local declarations are not modelled here.                               *)
(***************************************************************************)
EXTENDS Integers, Sequences, FiniteSetsExt

CONSTANTS
    Ident,      \* identifiers
    MaxDecls    \* how many declarations (bound)

ASSUME IdentAssumption == "" \notin Ident
ASSUME MaxDeclsAssumption == MaxDecls \in Nat

VARIABLES
    decls,      \* the declarations of the translation unit, in source order
    open        \* the contexts being parsed, the innermost first

nvars == <<decls, open>>

\* A declaration is a record.  kind: Kinds; ctx: its DeclContext, 0 for the
\* translation unit; id: its identifier, if any; tdef: the typedef that names
\* an unnamed tag (getTypedefNameForAnonDecl); key: the first named field or
\* enumerator of an unnamed tag; of: the tag that is the type of a value.  A
\* lambda is an unnamed record; "other" are the declarations that have no
\* identifier and are not named themselves (static_assert, access specifiers).
Kinds == {"namespace", "linkage", "record", "enum", "value", "other"}
Contexts == {"namespace", "linkage", "record"}
Tags == {"record", "enum"}

(***************************************************************************)
(* The naming functions, over the declarations ds.                         *)
(***************************************************************************)

\* classifyContext: only linkage specifications are ignorable here.
Kind(ds, c) == IF c = 0 THEN "translation unit" ELSE ds[c].kind
isIgnorableContext(ds, c) == Kind(ds, c) = "linkage"

\* The first context of each declaration that is not ignorable.
getNonIgnorableAncestor(ds) ==
    LET anc[i \in DOMAIN ds] ==
            IF isIgnorableContext(ds, ds[i].ctx) THEN anc[ds[i].ctx] ELSE ds[i].ctx
    IN  anc

isAnonymous(d) == d.kind = "linkage" \/ d.id = ""

\* Each of the first n declarations with those that it is in; up gives the
\* next one, 0 if there is none.
Chain(up, n) ==
    LET chain[i \in 0..n] == IF i = 0 THEN {} ELSE {i} \cup chain[up[i]] IN chain

\* d is i or (in a context that is in) a context of i.
Inside(ds, d, i) == d \in Chain([j \in DOMAIN ds |-> ds[j].ctx], Len(ds))[i]

\* Mutant: counts in the immediate context although it is left out of names.
getAnonymousIndexInContext(ds, i) ==
    Cardinality({j \in 1 .. i - 1 : ds[j].ctx = ds[i].ctx /\ isAnonymous(ds[j])})

\* Mutant: counts the later anonymous declarations.
getAnonymousIndexFromEnd(ds, i) ==
    Cardinality({j \in i + 1 .. Len(ds) :
        getNonIgnorableAncestor(ds)[j] = getNonIgnorableAncestor(ds)[i] /\ isAnonymous(ds[j])})

\* Mutant: counts from the beginning of the translation unit.
getAnonymousIndexInUnit(ds, i) == Cardinality({j \in 1 .. i - 1 : isAnonymous(ds[j])})

\* The walk through the ancestor's declarations stops at i; an ignorable
\* context is counted after its declarations.
getAnonymousIndex(ds, i) ==
    Cardinality({j \in 1 .. i - 1 :
        /\ getNonIgnorableAncestor(ds)[j] = getNonIgnorableAncestor(ds)[i]
        /\ isAnonymous(ds[j]) /\ ~Inside(ds, j, i)})

\* getNextDeclInContext, 0 if there is none.
Following(ds, i) ==
    LET after == {j \in DOMAIN ds : j > i /\ ds[j].ctx = ds[i].ctx}
    IN  IF after = {} THEN 0 ELSE Min(after)

\* Only the next declaration counts: the loop ends at the first value, and at
\* the first other declaration too because every context is in a translation
\* unit.
by_first_decl(ds, i) ==
    LET n == Following(ds, i)
    IN  n # 0 /\ ds[n].kind = "value" /\ ds[n].of = i /\ ds[n].id # ""

Atom(c, s, n) == [ctor |-> c, str |-> s, num |-> n]

printAtomicName(ds, i) ==
    LET d == ds[i]
        tag == d.kind \in Tags
    IN  CASE d.id # "" -> Atom("Nid", d.id, 0)
          [] d.id = "" /\ tag /\ d.tdef # "" -> Atom("Nid", d.tdef, 0)
          [] d.id = "" /\ tag /\ d.tdef = "" /\ by_first_decl(ds, i) ->
                Atom("Nby_first_decl", ds[Following(ds, i)].id, 0)
          [] OTHER ->
                CASE d.kind = "record" /\ d.ctx = 0 -> Atom("Nunsupported_atomic", "record", 0)
                  [] d.kind = "record" /\ d.ctx # 0 /\ d.key # "" ->
                        Atom("Nrecord_by_field", d.key, 0)
                  [] d.kind = "enum" /\ d.key # "" -> Atom("Nenum_by_enumerator", d.key, 0)
                  [] d.kind = "enum" /\ d.key = "" /\ d.ctx = 0 ->
                        Atom("Nunsupported_atomic", "enum", 0)
                  [] d.kind = "namespace" -> Atom("Nanonymous", "", 0)
                  [] OTHER -> Atom("Nanon", "", getAnonymousIndex(ds, i))

\* Nglobal and Nscoped: the path of atomic names of every declaration.
printName(ds) ==
    LET anc == getNonIgnorableAncestor(ds)
        name[i \in 0..Len(ds)] ==
            IF i = 0 THEN <<>> ELSE Append(name[anc[i]], printAtomicName(ds, i))
    IN  name

(***************************************************************************)
(* C++: the scopes of a translation unit.                                  *)
(***************************************************************************)

\* The entity that a declaration declares, given by its first declaration:
\* namespaces are reopened, and so are unnamed ones.
Entity(ds) ==
    LET anc == getNonIgnorableAncestor(ds)
        ent[i \in 0..Len(ds)] ==
            IF i = 0 \/ ds[i].kind # "namespace" THEN i
            ELSE Min({j \in 1..i : /\ ds[j].kind = "namespace" /\ ds[j].id = ds[i].id
                                   /\ ent[anc[j]] = ent[anc[i]]})
    IN  ent

Sort(d) == IF d.kind \in Tags THEN "type" ELSE d.kind

\* The names that d declares in its scope.  A class or an enumeration may
\* share its name with a value, a typedef or a namespace may not; the
\* enumerators of an unnamed enumeration are in the scope around it.
Introduces(d) ==
    ({"type", "value"} \X {d.tdef})
    \cup (IF d.kind = "namespace" THEN {"type", "value"} ELSE {Sort(d)}) \X {d.id}
    \cup (IF d.kind = "enum" THEN {"value"} ELSE {}) \X {d.key}

\* The last declaration declares nothing that another entity of its scope is.
Legal(ds) ==
    LET anc == getNonIgnorableAncestor(ds)
        ent == Entity(ds)
        n == Len(ds)
    IN  \A i \in 1 .. n - 1 :
          /\ ent[i] # ent[n]
          /\ ent[anc[i]] = ent[anc[n]]
          => \A x \in Introduces(ds[i]) \cap Introduces(ds[n]) : x[2] = ""

(***************************************************************************)
(* Parsing.                                                                *)
(***************************************************************************)

Init == decls = <<>> /\ open = <<0>>

\* A tag without a name may have a typedef name or else a first member that
\* is looked at; values may have a tag of their context as type; only fields
\* may lack an identifier.
Candidates(ds, c) ==
    {d \in [kind : Kinds, ctx : {c}, id : Ident \cup {""},
            tdef : Ident \cup {""}, key : Ident \cup {""},
            of : {0} \cup {j \in DOMAIN ds : ds[j].kind \in Tags /\ ds[j].ctx = c}] :
        /\ d.kind \in {"linkage", "other"} => d.id = ""
        /\ d.tdef # "" \/ d.key # "" => d.kind \in Tags /\ d.id = ""
        /\ d.tdef = "" \/ d.key = ""
        /\ d.of # 0 => d.kind = "value"
        /\ d.kind = "value" /\ d.id = "" => Kind(ds, c) = "record"
        /\ d.kind \in {"namespace", "linkage"} => Kind(ds, c) # "record"}

Declare ==
    /\ Len(decls) < MaxDecls
    /\ \E d \in Candidates(decls, Head(open)) :
         /\ Legal(Append(decls, d))
         /\ decls' = Append(decls, d)
         /\ open' = IF d.kind \in Contexts THEN <<Len(decls) + 1>> \o open ELSE open

Close == Len(open) > 1 /\ open' = Tail(open) /\ UNCHANGED decls

Next == Declare \/ Close

Spec == Init /\ [][Next]_nvars

(***************************************************************************)
(* Properties.                                                             *)
(***************************************************************************)

Named(ds) == {i \in DOMAIN ds : ds[i].kind \in Tags \cup {"value"}}

\* The last components of the paths of i and j that declare different
\* entities while the contexts around them are the same one.
Excused(ds, i, j) ==
    LET e == Entity(ds)
        anc == getNonIgnorableAncestor(ds)
        paths == Chain(anc, Len(ds))
    IN  \E a \in paths[i], b \in paths[j] :
          LET x == printAtomicName(ds, a)
          IN  /\ e[a] # e[b] /\ e[anc[a]] = e[anc[b]]
              /\ x = printAtomicName(ds, b)
              /\ \/ x.ctor \in {"Nunsupported_atomic", "Nrecord_by_field"}
                 \/ x.ctor = "Nanon" /\ anc[a] # anc[b]

\* Two entities have different names, whatever the nesting of named and
\* unnamed namespaces, linkage specifications and classes, unless they are, or
\* are in, unnamed classes that are unsupported, have the same first field, or
\* are numbered in different blocks of a reopened namespace.  A type and a
\* value may have one name: they are in different tables (Sort).
DistinctNames ==
    \A i, j \in Named(decls) :
        /\ i # j /\ Sort(decls[i]) = Sort(decls[j])
        /\ printName(decls)[i] = printName(decls)[j]
        => Excused(decls, i, j)

\* The part of ds after the first k declarations, as a file of its own.
File(ds, k) ==
    LET shift(n) == IF n > k THEN n - k ELSE 0
    IN  [i \in 1 .. Len(ds) - k |->
            [ds[k + i] EXCEPT !.ctx = shift(@), !.of = shift(@)]]

\* A header gets the same names on its own and after other headers: the
\* numbers are counted within a namespace block or a class, except for what
\* has no name inside a global linkage specification.
HeaderNames ==
    \A k \in {n \in 0 .. Len(decls) - 1 : decls[n + 1].ctx = 0} :
        LET whole == printName(decls)
            file == printName(File(decls, k))
        IN  \A i \in Named(decls) :
              i > k /\ whole[i][1].ctor # "Nanon" => whole[i] = file[i - k]

Settled(ds, i) ==
    \A a \in DOMAIN ds : Inside(ds, a, i) /\ ds[a].kind \in Tags => Following(ds, a) # 0

\* What follows changes no name but that of a tag without a name, or what is
\* in one, that ends the text so far: the next declaration may be its first.
NamesSettle ==
    [][\A i \in Named(decls) :
          Settled(decls, i) => printName(decls')[i] = printName(decls)[i]]_nvars

\* core.v: an unnamed type is called by "the first named declaration of the
\* type" in its scope.
FirstNamedDecl ==
    \A i \in DOMAIN decls :
        LET uses == {j \in DOMAIN decls : /\ decls[j].ctx = decls[i].ctx
                                          /\ decls[j].of = i /\ decls[j].id # ""}
        IN  decls[i].kind \in Tags /\ decls[i].id = "" /\ decls[i].tdef = "" /\ uses # {}
            => printAtomicName(decls, i) = Atom("Nby_first_decl", decls[Min(uses)].id, 0)
=============================================================================
