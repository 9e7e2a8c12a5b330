-------------------------- MODULE TranslationUnit --------------------------
(***************************************************************************)
(* Evaluation of the file that cpp2v writes: parser.v folds the list of    *)
(* declarations into a symbol, a type and an alias table, merging two      *)
(* entries of one name when one has all the information of the other and   *)
(* recording the name as a duplicate when neither has.                     *)
(* check_translation_unit then accepts the tables or throws                *)
(* DuplicateSymbols.  cpp2v relies on the merge: it may emit several       *)
(* redeclarations of one entity ("fix this within Coq by de-duplicating"). *)
(***************************************************************************)
EXTENDS SubModule

CONSTANTS
  Name,     \* names of C++ entities
  Inputs    \* the lists of declarations the fold is run on

VARIABLES
  input,    \* the list of declarations (never changes)
  pos,      \* how many of them have been folded
  symbols, types, aliases,  \* the tables: partial functions on Name
  dups,     \* the names that could not be merged (list name; its order is
            \* only printed, so a set)
  result    \* what check_translation_unit returned

vars == <<input, pos, symbols, types, aliases, dups, result>>

----------------------------------------------------------------------------
(* The declarations of the generated file.                                 *)

Entry(table, n, v) == [table |-> table, name |-> n, value |-> v]

Dvariable(n, t, i)        == Entry("symbols", n, Ovar(t, i))
Dfunction(n, s, r, ps, b) == Entry("symbols", n, Ocall("Ofunction", s, r, ps, b))
\* A static method is entered as a function; a defaulted body is lost.
Dmethod(n, static, s, r, ps, b, defaulted) ==
  Entry("symbols", n,
        IF static THEN Ocall("Ofunction", s, r, ps, IF defaulted THEN None ELSE b)
                  ELSE Ocall("Omethod", s, r, ps, b))
Dconstructor(n, s, r, ps, b) == Entry("symbols", n, Ocall("Oconstructor", s, r, ps, b))
Ddestructor(n, s, r, b)   == Entry("symbols", n, Ocall("Odestructor", s, r, <<>>, b))
Dtype(n)                  == Entry("types", n, Gtype)
Dunsupported(n, m)        == Entry("types", n, Gunsupported(m))
Dstruct(n, s)             == Entry("types", n, IF s = None THEN Gtype ELSE Gstruct(s))
Dunion(n, u)              == Entry("types", n, IF u = None THEN Gtype ELSE Gunion(u))
Denum(n, t, cs)           == Entry("types", n, Genum(t, cs))
Denum_constant(n, t, e)   == Entry("types", n, Gconstant(t, e))
Dtypedef(n, t)            == Entry("aliases", n, t)
Dstatic_assert            == [table |-> "skip"]

Decl ==
       [table : {"symbols"}, name : Name, value : ObjValue]
  \cup [table : {"types"}, name : Name, value : GlobDecl]
  \cup [table : {"aliases"}, name : Name, value : Type]
  \cup {Dstatic_assert}

ASSUME InputsAssumption == Inputs \subseteq Seq(Decl)

----------------------------------------------------------------------------
(* The fold.                                                               *)

EmptyTable == [n \in {} |-> None]

Insert(n, v, t) == [x \in DOMAIN t \cup {n} |-> IF x = n THEN v ELSE t[x]]

IsTable(t, X) == DOMAIN t \subseteq Name /\ t \in [DOMAIN t -> X]

\* Mutants: the wrong one of two values is kept, the body of one is kept with
\* the parameters of the other, the values are compared in one order only.
MergeObjValue_swapped(v, old) == IF ObjValue_le(v, old) THEN v ELSE old
MergeObjValue_mixed(v, old) ==
  IF ~ObjValue_le(v, old) THEN v
  ELSE IF v.tag \in Callable THEN [old EXCEPT !.params = v.params] ELSE old
MergeGlobDecl_one_order(v, old) == IF GlobDecl_le(v, old) THEN old ELSE None

\* merge_obj_value v v' and merge_glob_decl v v' with v the new and v' the old
\* value: the old one stays when both have the same information.
MergeObjValue(v, old) == IF ObjValue_le(v, old) THEN old ELSE v
MergeGlobDecl(v, old) == IF GlobDecl_le(v, old) THEN old ELSE v

ObjCompatible(v, w)  == ObjValue_le(v, w) \/ ObjValue_le(w, v)
GlobCompatible(v, w) == GlobDecl_le(v, w) \/ GlobDecl_le(w, v)

_symbols(n, v) ==
  /\ \/ /\ n \notin DOMAIN symbols
        /\ symbols' = Insert(n, v, symbols)
        /\ UNCHANGED dups
     \/ /\ n \in DOMAIN symbols
        /\ ObjCompatible(v, symbols[n])
        /\ symbols' = Insert(n, MergeObjValue(v, symbols[n]), symbols)
        /\ UNCHANGED dups
     \/ /\ n \in DOMAIN symbols
        /\ ~ObjCompatible(v, symbols[n])
        /\ dups' = dups \cup {n}
        /\ UNCHANGED symbols
  /\ UNCHANGED <<types, aliases>>

\* Mutant: of two values that cannot be merged, the last one is kept.
types_last_wins(n, v) ==
  /\ types' = Insert(n, IF n \in DOMAIN types /\ GlobCompatible(v, types[n])
                        THEN MergeGlobDecl(v, types[n]) ELSE v, types)
  /\ dups' = IF n \in DOMAIN types /\ ~GlobCompatible(v, types[n])
             THEN dups \cup {n} ELSE dups
  /\ UNCHANGED <<symbols, aliases>>

_types(n, v) ==
  /\ \/ /\ n \notin DOMAIN types
        /\ types' = Insert(n, v, types)
        /\ UNCHANGED dups
     \/ /\ n \in DOMAIN types
        /\ GlobCompatible(v, types[n])
        /\ types' = Insert(n, MergeGlobDecl(v, types[n]), types)
        /\ UNCHANGED dups
     \/ /\ n \in DOMAIN types
        /\ ~GlobCompatible(v, types[n])
        /\ dups' = dups \cup {n}
        /\ UNCHANGED types
  /\ UNCHANGED <<symbols, aliases>>

\* A second alias of one name is a duplicate even if it is the same type.
_aliases(n, v) ==
  /\ \/ /\ n \notin DOMAIN aliases
        /\ aliases' = Insert(n, v, aliases)
        /\ UNCHANGED dups
     \/ /\ n \in DOMAIN aliases
        /\ dups' = dups \cup {n}
        /\ UNCHANGED aliases
  /\ UNCHANGED <<symbols, types>>

_skip == UNCHANGED <<symbols, types, aliases, dups>>

Fold(d) ==
  \/ d.table = "symbols" /\ _symbols(d.name, d.value)
  \/ d.table = "types"   /\ _types(d.name, d.value)
  \/ d.table = "aliases" /\ _aliases(d.name, d.value)
  \/ d.table = "skip"    /\ _skip

decls ==
  /\ result = "pending"
  /\ pos < Len(input)
  /\ Fold(input[pos + 1])
  /\ pos' = pos + 1
  /\ UNCHANGED <<input, result>>

\* Mutant: the duplicates are not looked at.
check_accepts_all ==
  /\ result = "pending"
  /\ pos = Len(input)
  /\ result' = "translation_unit"
  /\ UNCHANGED <<input, pos, symbols, types, aliases, dups>>

check_translation_unit ==
  /\ result = "pending"
  /\ pos = Len(input)
  /\ result' = IF dups = {} THEN "translation_unit" ELSE "DuplicateSymbols"
  /\ UNCHANGED <<input, pos, symbols, types, aliases, dups>>

Init ==
  /\ input \in Inputs
  /\ pos = 0
  /\ symbols = EmptyTable /\ types = EmptyTable /\ aliases = EmptyTable
  /\ dups = {}
  /\ result = "pending"

Next == decls \/ check_translation_unit

Spec == Init /\ [][Next]_vars

----------------------------------------------------------------------------
(* Properties.                                                             *)

Folded == {i \in 1 .. pos : input[i].table # "skip"}

\* Entry i of the input has all its information in tables s, t and a.
Included(d, s, t, a) ==
  \/ d.table = "symbols" /\ d.name \in DOMAIN s /\ ObjValue_le(d.value, s[d.name])
  \/ d.table = "types" /\ d.name \in DOMAIN t /\ GlobDecl_le(d.value, t[d.name])
  \/ d.table = "aliases" /\ d.name \in DOMAIN a /\ a[d.name] = d.value

\* Two declarations of one name in one table that cannot be merged.
Conflict(d, e) ==
  /\ d.table = e.table
  /\ d.name = e.name
  /\ \/ d.table = "symbols" /\ ~ObjCompatible(d.value, e.value)
     \/ d.table = "types" /\ ~GlobCompatible(d.value, e.value)
     \/ d.table = "aliases"

(* Type invariant of the fold of parser.v. *)
TypeOK ==
  /\ input \in Inputs
  /\ pos \in 0 .. Len(input)
  /\ IsTable(symbols, ObjValue)
  /\ IsTable(types, GlobDecl)
  /\ IsTable(aliases, Type)
  /\ dups \subseteq Name
  /\ result \in {"pending", "translation_unit", "DuplicateSymbols"}

(* No declaration is lost by merging: whatever the order of the list, every  *)
(* folded declaration whose name is not reported as a duplicate has all its  *)
(* information in the tables (_symbols, _types, _aliases), up to the orders  *)
(* that the fold merges with: GlobDecl_le does not compare the enumerators   *)
(* of two enumerations.                                                      *)
NothingLost ==
  \A i \in Folded :
    input[i].name \notin dups => Included(input[i], symbols, types, aliases)

(* Merging invents nothing: every entry of a table is one of the folded      *)
(* declarations of that name, so the tables are a least upper bound.         *)
NothingInvented ==
  /\ \A n \in DOMAIN symbols :
       \E i \in Folded : input[i] = Entry("symbols", n, symbols[n])
  /\ \A n \in DOMAIN types :
       \E i \in Folded : input[i] = Entry("types", n, types[n])
  /\ \A n \in DOMAIN aliases :
       \E i \in Folded : input[i] = Entry("aliases", n, aliases[n])

(* DuplicateSymbols is exact and does not depend on the order of the list: a *)
(* name is reported exactly when two of its folded declarations cannot be    *)
(* merged with each other, although the fold only ever compares a            *)
(* declaration with the current entry.                                       *)
DupsExact ==
  dups = {n \in Name :
            \E i, j \in Folded :
              i < j /\ input[i].name = n /\ Conflict(input[i], input[j])}

(* An accepted translation unit includes every declaration of the list, and  *)
(* a list without conflicting declarations is accepted                       *)
(* (check_translation_unit).                                                 *)
Verdict ==
  /\ result = "translation_unit" =>
       \A i \in 1 .. Len(input) :
         \/ input[i].table = "skip"
         \/ Included(input[i], symbols, types, aliases)
  /\ result = "DuplicateSymbols" =>
       \E i, j \in 1 .. Len(input) : 
         i < j /\ input[i].table # "skip" /\ input[j].table # "skip"
               /\ Conflict(input[i], input[j])

(* A step never forgets: an entry is only ever replaced by one with at least *)
(* its information (sub_module between consecutive tables), and a name once  *)
(* reported stays reported.                                                  *)
TablesGrow ==
  [][/\ \A n \in DOMAIN symbols :
          n \in DOMAIN symbols' /\ ObjValue_le(symbols[n], symbols'[n])
     /\ \A n \in DOMAIN types :
          n \in DOMAIN types' /\ GlobDecl_le(types[n], types'[n])
     /\ \A n \in DOMAIN aliases :
          n \in DOMAIN aliases' /\ aliases[n] = aliases'[n]
     /\ dups \subseteq dups']_vars
=============================================================================
