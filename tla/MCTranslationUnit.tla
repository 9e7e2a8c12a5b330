------------------------- MODULE MCTranslationUnit -------------------------
(***************************************************************************)
(* Lists of up to MaxDecls declarations over two names.  Name "n" gets     *)
(* declarations of every kind, with every initialiser, equal and different *)
(* bodies, parameters that differ in name, qualifiers or type; name "m" a  *)
(* few, to check that names do not disturb each other.                     *)
(***************************************************************************)
EXTENDS TranslationUnit

CONSTANTS e1, e2, b1, b2, MaxDecls

MCBase  == {"int", "char"}
MCIdent == {"p", "q"}
MCExpr  == {e1, e2}
MCCode  == {b1, b2}
MCSig   == {"free", "S::"}
MCName  == {"n", "m"}

int         == [base |-> "int", quals |-> <<>>]
const_int   == [base |-> "int", quals |-> <<{"const"}>>]
nested_int  == [base |-> "int", quals |-> <<{}, {"const"}>>]
char        == [base |-> "char", quals |-> <<>>]

P(x, t) == <<[name |-> x, ty |-> t]>>

Variables ==
  {Dvariable("n", int, i) :
     i \in {Init_(e1), Init_(e2), ImplicitInit, NoInit, Delayed, Extern}}
  \cup {Dvariable("n", const_int, Extern)}

Functions ==
  {Dfunction("n", "free", int, ps, None) :
     ps \in {<<>>, P("p", int), P("q", const_int), P("p", char)}}
  \cup {Dfunction("n", "free", int, P("p", nested_int), b1),
        Dfunction("n", "free", int, P("q", nested_int), b1),
        Dfunction("n", "free", int, P("p", nested_int), b2),
        Dfunction("n", "free", const_int, P("p", int), None),
        Dfunction("n", "free", nested_int, P("p", int), b1)}

Members ==
  {Dmethod("n", static, "S::", int, <<>>, b, FALSE) :
     static \in BOOLEAN, b \in {None, b1}}
  \cup {Dmethod("n", TRUE, "S::", int, <<>>, b1, TRUE)}
  \cup {Dconstructor("n", "S::", int, <<>>, b) : b \in {None, b1}}
  \cup {Ddestructor("n", "S::", int, b) : b \in {None, b1, b2}}

Types ==
  {Dtype("n"), Dunsupported("n", b1), Dstruct("n", None), Dstruct("n", b1),
   Dstruct("n", b2), Dunion("n", b1), Denum("n", int, b1), Denum("n", int, b2),
   Denum("n", char, b1), Denum_constant("n", int, e1), Denum_constant("n", int, e2)}

Others ==
  {Dtypedef("n", int), Dtypedef("n", char), Dstatic_assert,
   Dtype("m"), Dstruct("m", b1), Dvariable("m", int, Extern),
   Dvariable("m", int, NoInit), Dtypedef("m", int)}

Lists(S) == UNION {[1 .. k -> S] : k \in 0 .. MaxDecls}

MCInputs ==
  Lists(Variables \cup Functions \cup Members \cup {Dtypedef("n", int), Dstruct("m", b1)})
  \cup Lists(Types \cup Others)
=============================================================================
