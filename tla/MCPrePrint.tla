---------------------------- MODULE MCPrePrint ----------------------------
(***************************************************************************)
(* The items of                                                            *)
(*   struct S { TD *a; S *b; void m(S &); S(S[1]); };  typedef S *TD;      *)
(*   enum E : int;  enum E : int { };                                      *)
(*   v, a pointer to S *[n];   S *f(S *, E, int) { ... }                   *)
(* with a body of f that calls f, m and the constructor, in modules that   *)
(* list some of the declarations, in every order.                          *)
(***************************************************************************)
EXTENDS PrePrint, TLC

CONSTANTS MaxListed

Ty(kind, parts) == [sort |-> "type", kind |-> kind, parts |-> parts]
Na(parts)       == [sort |-> "name", kind |-> "Name", parts |-> parts]
St(kind, type, named, local, parts) ==
  [sort |-> "stmt", kind |-> kind, type |-> type, named |-> named, local |-> local,
   parts |-> parts]
De(kind, name, types, inits, body, parts) ==
  [sort |-> "decl", kind |-> kind, name |-> name, types |-> types, inits |-> inits,
   body |-> body, parts |-> parts]

MCitem ==
     "int"  :> Ty("Builtin", <<>>)
  @@ "S"    :> Ty("Record", <<"nS", "nS">>)
  @@ "E"    :> Ty("Enum", <<"nE2", "nE">>)
  @@ "eS"   :> Ty("Elaborated", <<"S">>)
  @@ "pS"   :> Ty("Pointer", <<"eS">>)
  @@ "rS"   :> Ty("Reference", <<"eS">>)
  @@ "TD"   :> Ty("Other", <<"pS">>)
  @@ "pTD"  :> Ty("Pointer", <<"TD">>)
  @@ "arr"  :> Ty("Array", <<"S">>)
  @@ "dec"  :> Ty("Decayed", <<"arr", "pS">>)
  @@ "vla"  :> Ty("VariableArray", <<"pS", "n">>)
  @@ "pvla" :> Ty("Pointer", <<"vla">>)
  @@ "sub"  :> Ty("Subst", <<"rS">>)
  @@ "fty"  :> Ty("Function", <<"pS", "pS", "E", "int">>)
  @@ "nS"   :> Na(<<>>)
  @@ "nE"   :> Na(<<>>)
  @@ "nE2"  :> Na(<<>>)
  @@ "nf"   :> Na(<<"pS", "E", "int">>)
  @@ "nm"   :> Na(<<"nS", "sub">>)
  @@ "nc"   :> Na(<<"nS", "dec">>)
  @@ "n"    :> St("DeclRef", <<"int">>, <<>>, TRUE, <<>>)
  @@ "f"    :> St("DeclRef", <<"fty">>, <<"nf">>, FALSE, <<>>)
  @@ "cast" :> St("Cast", <<"rS">>, <<>>, FALSE, <<"n">>)
  @@ "call" :> St("Call", <<"pS">>, <<>>, FALSE, <<"f", "cast">>)
  @@ "mem"  :> St("MemberCall", <<"arr">>, <<"nm">>, FALSE, <<"call">>)
  @@ "cons" :> St("Construct", <<"S">>, <<"nc">>, FALSE, <<"n">>)
  @@ "sexp" :> St("Other", <<"E">>, <<>>, FALSE, <<"cons">>)
  @@ "body" :> St("Compound", <<>>, <<>>, FALSE, <<"mem", "sexp">>)
  @@ "dS"   :> De("Record", "nS", <<"pTD", "pS">>, <<>>, <<>>, <<"nS", "pTD", "pS">>)
  @@ "dE"   :> De("Other", "nE", <<>>, <<>>, <<>>, <<"nE", "int">>)
  @@ "dv"   :> De("Var", "nS", <<"pvla">>, <<>>, <<>>, <<"pvla">>)
  @@ "df"   :> De("Function", "nf", <<"pS", "E", "int">>, <<>>, <<"body">>,
                  <<"nf", "pS", "E", "int", "body">>)
  @@ "dm"   :> De("Function", "nm", <<"sub">>, <<>>, <<>>, <<"nm", "sub">>)
  @@ "dc"   :> De("Constructor", "nc", <<"dec">>, <<"cons">>, <<>>, <<"nc", "dec", "cons">>)
  @@ "sa"   :> De("Other", "nS", <<>>, <<>>, <<>>, <<"cons">>)

\* The depth of an item, computed from its parts.
Deepest(S) == CHOOSE d \in S : \A e \in S : e <= d

MCdepth ==
  LET Below(x) == Range(visits(x)) \cup prints(x)
      Depth[x \in Item] == IF Below(x) = {} THEN 0
                           ELSE Deepest({Depth[y] + 1 : y \in Below(x)})
  IN  Depth

Lists(S) == {s \in UNION {[1 .. n -> S] : n \in 0 .. MaxListed} :
               \A i, j \in DOMAIN s : s[i] = s[j] => i = j}

MCModules ==
  {[sharing |-> b, declarations |-> ds, definitions |-> es, asserts |-> <<"sa">>] :
     b \in BOOLEAN, ds \in Lists({"dE", "dm"}), es \in Lists({"dS", "dv", "df", "dc"})}
=============================================================================
