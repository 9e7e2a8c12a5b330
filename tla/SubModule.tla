----------------------------- MODULE SubModule -----------------------------
(***************************************************************************)
(* The values a translation unit binds names to, and the order "has        *)
(* compatible (but possibly less) information than" on them:               *)
(* GlobDecl_le and ObjValue_le of semantics/sub_module.v.  The tables that *)
(* the generated Coq file fills (module TranslationUnit) merge two entries *)
(* of one name with this order.                                            *)
(***************************************************************************)
EXTENDS Naturals, Sequences

CONSTANTS
  Base,     \* unqualified types that qualifiers apply to (scalars and classes)
  Ident,    \* parameter names
  Expr,     \* initialiser expressions
  Code,     \* bodies of functions, structs and unions, and messages
  Sig,      \* calling convention, arity, class and this-qualifier together
  None      \* Coq's None

ASSUME NoneAssumption == None \notin Expr \cup Code

----------------------------------------------------------------------------
(* Types.  Tqualified nests: a type is a base under a list of qualifiers.  *)

Qualifier == {"const", "volatile"}

Type == [base : Base, quals : Seq(SUBSET Qualifier)]

\* normalize_type merges adjacent Tqualified and drops an empty one.
normalize_type(t) ==
  LET merged == UNION {t.quals[i] : i \in 1 .. Len(t.quals)}
  IN  [base |-> t.base, quals |-> IF merged = {} THEN <<>> ELSE <<merged>>]

drop_qualifiers(t) == [base |-> t.base, quals |-> <<>>]

drop_norm(t) == drop_qualifiers(normalize_type(t))

----------------------------------------------------------------------------
(* Types and enumerators: GlobDecl.                                        *)

Gtype            == [tag |-> "Gtype"]
Gunion(u)        == [tag |-> "Gunion",  body |-> u]
Gstruct(s)       == [tag |-> "Gstruct", body |-> s]
Genum(t, cs)     == [tag |-> "Genum", ty |-> t, consts |-> cs]
Gconstant(t, e)  == [tag |-> "Gconstant", ty |-> t, init |-> e]
Gtypedef(t)      == [tag |-> "Gtypedef", ty |-> t]
Gunsupported(m)  == [tag |-> "Gunsupported", msg |-> m]

GlobDecl ==
       {Gtype}
  \cup [tag : {"Gunion", "Gstruct"}, body : Code]
  \cup [tag : {"Genum"}, ty : Type, consts : Code]
  \cup [tag : {"Gconstant"}, ty : Type, init : Expr \cup {None}]
  \cup [tag : {"Gtypedef"}, ty : Type]
  \cup [tag : {"Gunsupported"}, msg : Code]

\* The enumerator names of a Genum are not compared.
GlobDecl_le(a, b) ==
  \/ /\ a.tag = "Gtype"
     /\ b.tag \in {"Gtype", "Genum", "Gunion", "Gstruct", "Gunsupported"}
  \/ /\ a.tag = b.tag
     /\ \/ a.tag \in {"Gunion", "Gstruct"} /\ a.body = b.body
        \/ a.tag \in {"Genum", "Gtypedef"} /\ a.ty = b.ty
        \/ /\ a.tag = "Gconstant"
           /\ a.ty = b.ty
           /\ a.init \in {None, b.init}
        \/ a.tag = "Gunsupported" /\ a.msg = b.msg

----------------------------------------------------------------------------
(* Variables and functions: ObjValue.                                      *)

Init_(e)     == [kind |-> "Init", expr |-> e]
ImplicitInit == [kind |-> "ImplicitInit", expr |-> None]
NoInit       == [kind |-> "NoInit", expr |-> None]
Delayed      == [kind |-> "Delayed", expr |-> None]
Extern       == [kind |-> "Extern", expr |-> None]

global_init ==
  {Init_(e) : e \in Expr} \cup {ImplicitInit, NoInit, Delayed, Extern}

Params == Seq([name : Ident, ty : Type])

Ovar(t, i) == [tag |-> "Ovar", ty |-> t, init |-> i]

\* Ofunction, Omethod, Oconstructor and Odestructor differ in the fields that
\* are compared by equality (gathered in sig); a constructor or destructor
\* always has the same ret, a destructor the same params.
Callable == {"Ofunction", "Omethod", "Oconstructor", "Odestructor"}

Ocall(tag, sig, ret, params, body) ==
  [tag |-> tag, sig |-> sig, ret |-> ret, params |-> params, body |-> body]

ObjValue ==
       [tag : {"Ovar"}, ty : Type, init : global_init]
  \cup [tag : Callable, sig : Sig, ret : Type, params : Params,
        body : Code \cup {None}]

\* Mutant: an initialiser and an implicit one are interchangeable.
init_le_symmetric(i, j) ==
  \/ i = Extern
  \/ {i.kind, j.kind} \subseteq {"ImplicitInit", "Init"} /\ i.kind # j.kind
  \/ i = j

init_le(i, j) ==
  \/ i = Extern
  \/ i.kind = "ImplicitInit" /\ j.kind = "Init"
  \/ i = j

erased(params) == [i \in DOMAIN params |-> drop_norm(params[i].ty)]

ObjValue_le(a, b) ==
  /\ a.tag = b.tag
  /\ \/ /\ a.tag = "Ovar"
        /\ a.ty = b.ty
        /\ init_le(a.init, b.init)
     \/ /\ a.tag \in Callable
        /\ a.sig = b.sig
        /\ normalize_type(a.ret) = normalize_type(b.ret)
        /\ \/ a.body = None /\ erased(a.params) = erased(b.params)
           \/ a.body # None /\ a.params = b.params /\ a.body = b.body
=============================================================================
