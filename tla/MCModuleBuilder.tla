-------------------------- MODULE MCModuleBuilder --------------------------
(***************************************************************************)
(* Two families of ASTs.                                                   *)
(*                                                                         *)
(* Redeclared: one entity of each kind declared once to three times, its   *)
(* definition first, last, in between or missing, its declarations in the  *)
(* translation unit, a namespace, an extern "C" block, a friend            *)
(* declaration or the body of a function.                                  *)
(*                                                                         *)
(* Templated: a class template G, with any subset of the features below.   *)
(***************************************************************************)
EXTENDS ModuleBuilder, FiniteSetsExt, TLC

CONSTANTS Features, MaxDecls

\* A declaration of its own, then its variations.
D(id, kind) ==
  [kind |-> kind, decls |-> <<>>, canon |-> id, defn |-> None, templated |-> None,
   specs |-> <<>>, friend |-> None, attrs |-> {}]
Context(id, kind, ds)  == [D(id, kind) EXCEPT !.decls = ds]
Defined(id, kind, ds)  == [D(id, kind) EXCEPT !.decls = ds, !.defn = id]
Pattern(node_)         == [node_ EXCEPT !.attrs = @ \cup {"dependent"}]
FriendOf(id, f)        == [D(id, "Friend") EXCEPT !.friend = f]
Injected(id)           == [D(id, "Record") EXCEPT !.attrs = {"implicit"}]
TemplateOf(id, kind, first, pattern, specs) ==
  [D(id, kind) EXCEPT !.canon = first, !.templated = pattern, !.specs = specs]

----------------------------------------------------------------------------
(* Redeclarations of one entity: places[i] holds declaration i.            *)

Place == {"tu", "ns", "extern_c", "friend", "body"}

Placeable(kind) ==
  CASE kind = "Function" -> Place
    [] kind = "Var" -> Place \ {"friend"}
    [] OTHER -> {"tu", "ns"}

E(i) == <<"e1", "e2", "e3">>[i]

Redeclared(kind, places, defn) ==
  LET n == Len(places)
      In(p) == SelectSeq([i \in 1 .. n |-> E(i)],
                         LAMBDA x : \E i \in 1 .. n : E(i) = x /\ places[i] = p)
      declared == [x \in {E(i) : i \in 1 .. n} |->
                     [D(x, kind) EXCEPT
                        !.canon = "e1",
                        !.defn = IF defn = 0 THEN None ELSE E(defn),
                        !.decls = IF kind = "Enum" /\ x = "e1" THEN <<"c">> ELSE <<>>]]
      friends == In("friend")
  IN  declared
      @@ (TU :> Context(TU, "TranslationUnit",
                        <<"x", "xc">> \o In("tu") \o <<"a", "f", "delf", "ns", "use">>))
      @@ ("ns" :> Context("ns", "Namespace", In("ns") \o <<"sa">>))
      @@ ("xc" :> Context("xc", "LinkageSpec", In("extern_c")))
      @@ ("f" :> Defined("f", "Function", <<"p", "l">> \o In("body")))
      @@ ("p" :> [Defined("p", "Var", <<>>) EXCEPT !.attrs = {"local"}])
      @@ ("l" :> Defined("l", "Record", <<>>))
      @@ ("a" :> Defined("a", "Record",
                         <<"ai", "del", "fr0">> \o
                         SelectSeq(<<"fr1", "fr2", "fr3">>,
                           LAMBDA x : \E i \in 1 .. n :
                             x = <<"fr1", "fr2", "fr3">>[i] /\ E(i) \in Range(friends))))
      @@ [x \in {<<"fr1", "fr2", "fr3">>[i] : i \in 1 .. n} |->
            FriendOf(x, CHOOSE e \in {E(i) : i \in 1 .. n} :
                          \E i \in 1 .. n : e = E(i) /\ x = <<"fr1", "fr2", "fr3">>[i])]
      @@ ("fr0" :> FriendOf("fr0", None))
      @@ ("ai" :> Injected("ai"))
      @@ ("del" :> [Defined("del", "Method", <<>>) EXCEPT !.attrs = {"deleted"}])
      @@ ("delf" :> [Defined("delf", "Function", <<>>) EXCEPT !.attrs = {"deleted"}])
      @@ ("x" :> [D("x", "Typedef") EXCEPT !.attrs = {"names_anon"}])
      @@ ("c" :> D("c", "EnumConstant"))
      @@ ("sa" :> D("sa", "StaticAssert"))
      @@ ("use" :> D("use", "Ignored"))

RedeclaredASTs ==
  UNION {{Redeclared(kind, places, defn) :
            places \in [1 .. n -> Placeable(kind)], defn \in 0 .. n}
           : kind \in {"Record", "Function", "Var", "Enum", "Typedef"}, n \in 1 .. MaxDecls}

----------------------------------------------------------------------------
(* template<class T> struct G { void m(); ... };  with G<int> implicitly   *)
(* instantiated and, with the features,                                    *)
(*   fwd       G is declared before                                        *)
(*   expl      an explicit specialization G<char>, also in the TU's decls  *)
(*   befriend  G befriends the template G; an ordinary class does as well  *)
(*   friendfn  G declares a friend function, defined in the class          *)
(*   sassert   G contains a static_assert                                  *)
(*   member    G contains a member template, with a specialization in      *)
(*             G<int>                                                      *)
(*   outofline m is defined outside the class                              *)
(*   partial   a partial specialization                                    *)
(*   function  a function template with a static local and a local class   *)
(*   alias     an alias template and a variable template                   *)

Templated(F) ==
  LET If(f, s) == IF f \in F THEN s ELSE <<>>
      specs == <<"s">> \o If("expl", <<"sx">>)
      first == IF "fwd" \in F THEN "g0" ELSE "g"
      firstp == IF "fwd" \in F THEN "p0" ELSE "p"
      mdef  == IF "outofline" \in F THEN "pm2" ELSE "pm"
  IN     (TU :> Context(TU, "TranslationUnit",
                 If("fwd", <<"g0">>) \o <<"a", "g">> \o If("partial", <<"part">>)
                 \o If("expl", <<"sx">>) \o If("outofline", <<"pm2">> \o If("expl", <<"xm2">>))
                 \o If("function", <<"ft">>) \o If("alias", <<"at", "vt">>) \o <<"ns">>))
      @@ ("ns" :> Context("ns", "Namespace", <<"h">>))
      @@ ("h"  :> D("h", "Function"))
      @@ ("g0" :> TemplateOf("g0", "ClassTemplate", "g0", "p0", specs))
      @@ ("g"  :> TemplateOf("g", "ClassTemplate", first, "p", specs))
      @@ ("p0" :> Pattern([D("p0", "Record") EXCEPT !.canon = firstp, !.defn = "p"]))
      @@ ("p"  :> Pattern([Defined("p", "Record",
                    <<"pi", "pm", "pe">> \o If("sassert", <<"psa">>)
                    \o If("friendfn", <<"pfr">>) \o If("befriend", <<"pgf">>)
                    \o If("member", <<"pt">>))
                  EXCEPT !.canon = firstp]))
      @@ ("pi" :> Pattern(Injected("pi")))
      @@ ("pm" :> Pattern([D("pm", "Method") EXCEPT !.defn = mdef]))
      @@ ("pm2" :> Pattern([D("pm2", "Method") EXCEPT !.canon = "pm", !.defn = mdef]))
      @@ ("pe" :> Pattern(Context("pe", "Enum", <<"pc">>)))
      @@ ("pc" :> Pattern(D("pc", "EnumConstant")))
      @@ ("psa" :> Pattern(D("psa", "StaticAssert")))
      @@ ("pfr" :> Pattern(FriendOf("pfr", "pff")))
      @@ ("pff" :> Pattern(Defined("pff", "Function", <<>>)))
      @@ ("pgf" :> Pattern(FriendOf("pgf", "gd")))
      @@ ("gd" :> Pattern(TemplateOf("gd", "ClassTemplate", "gd", "pd", <<>>)))
      @@ ("pd" :> Pattern(D("pd", "Record")))
      @@ ("pt" :> Pattern(TemplateOf("pt", "FunctionTemplate", "pt", "ptp", <<>>)))
      @@ ("ptp" :> Pattern(Defined("ptp", "Method", <<>>)))
      \* G<int>
      @@ ("s"  :> Defined("s", "Record",
                    <<"si", "sm", "se">> \o If("sassert", <<"ssa">>)
                    \o If("friendfn", <<"sfr">>) \o If("befriend", <<"sgf">>)
                    \o If("member", <<"st">>)))
      @@ ("si" :> Injected("si"))
      @@ ("sm" :> Defined("sm", "Method", <<>>))
      @@ ("se" :> Context("se", "Enum", <<"sc">>))
      @@ ("sc" :> D("sc", "EnumConstant"))
      @@ ("ssa" :> D("ssa", "StaticAssert"))
      @@ ("sfr" :> FriendOf("sfr", "sff"))
      @@ ("sff" :> Defined("sff", "Function", <<>>))
      @@ ("sgf" :> FriendOf("sgf", "gs"))
      @@ ("gs" :> TemplateOf("gs", "ClassTemplate", first, "pgs", specs))
      @@ ("pgs" :> Pattern([D("pgs", "Record") EXCEPT !.canon = firstp,
                                                      !.defn = "p"]))
      @@ ("st" :> TemplateOf("st", "FunctionTemplate", "st", "stp", <<"sts">>))
      @@ ("stp" :> Pattern(Defined("stp", "Method", <<>>)))
      @@ ("sts" :> Defined("sts", "Method", <<"lv">>))
      @@ ("lv" :> Defined("lv", "Var", <<>>))
      \* G<char>, explicitly specialized
      @@ ("sx" :> Defined("sx", "Record", <<"xm">>))
      @@ ("xm" :> [D("xm", "Method") EXCEPT
                     !.defn = IF "outofline" \in F THEN "xm2" ELSE None])
      @@ ("xm2" :> [D("xm2", "Method") EXCEPT
                     !.canon = "xm", !.defn = IF "outofline" \in F THEN "xm2" ELSE None])
      @@ ("part" :> Pattern(D("part", "Ignored")))
      \* an ordinary class
      @@ ("a"  :> Defined("a", "Record", <<"am">> \o If("befriend", <<"agf">>)))
      @@ ("am" :> D("am", "Method"))
      @@ ("agf" :> FriendOf("agf", "ga"))
      @@ ("ga" :> TemplateOf("ga", "ClassTemplate", first, "pga", specs))
      @@ ("pga" :> Pattern([D("pga", "Record") EXCEPT !.canon = firstp,
                                                      !.defn = "p"]))
      \* template<class T> void ft() { static int v; struct L {}; }
      @@ ("ft" :> TemplateOf("ft", "FunctionTemplate", "ft", "fp", <<"fs">>))
      @@ ("fp" :> Pattern(Defined("fp", "Function", <<"fpv", "fpl">>)))
      @@ ("fpv" :> Pattern(Defined("fpv", "Var", <<>>)))
      @@ ("fpl" :> Pattern(Defined("fpl", "Record", <<>>)))
      @@ ("fs" :> Defined("fs", "Function", <<"fsp", "fsv", "fsl">>))
      @@ ("fsp" :> [Defined("fsp", "Var", <<>>) EXCEPT !.attrs = {"local"}])
      @@ ("fsv" :> Defined("fsv", "Var", <<>>))
      @@ ("fsl" :> Defined("fsl", "Record", <<>>))
      @@ ("at" :> TemplateOf("at", "TypeAliasTemplate", "at", "atp", <<>>))
      @@ ("atp" :> Pattern(D("atp", "Typedef")))
      @@ ("vt" :> TemplateOf("vt", "VarTemplate", "vt", "vtp", <<"vts">>))
      @@ ("vtp" :> Pattern(Defined("vtp", "Var", <<>>)))
      @@ ("vts" :> Defined("vts", "Var", <<>>))

TemplatedASTs == {Templated(F) : F \in SUBSET Features}

AllASTs == RedeclaredASTs \cup TemplatedASTs

----------------------------------------------------------------------------
(* Text(n) is the text of a declaration: its own begin and end and, between*)
(* them, the text of what it holds.  It shows that these ASTs are in source*)
(* order.                                                                  *)

RECURSIVE Text(_)
Text(n) ==
  LET held == IF ast[n].friend # None THEN <<ast[n].friend>> ELSE ast[n].decls
      T[i \in 0 .. Len(held)] == IF i = 0 THEN <<>> ELSE T[i - 1] \o Text(held[i])
  IN  <<n>> \o T[Len(held)] \o <<n>>

ASTInSourceOrder ==
  \E text \in {Text(TU)}, inside \in {InTemplate} :
    LET at(n) == IF n \in Range(text) THEN {i \in DOMAIN text : text[i] = n} ELSE {0}
    IN  \E begin \in {[n \in DOMAIN ast |-> Min(at(n))]}, end \in {[n \in DOMAIN ast |-> Max(at(n))]},
           outside \in {Below({TU}) \ inside} :
          SourceOrder(begin, end, inside, outside)

MCInit == Init /\ (templates_ => Assert(ASTInSourceOrder, "an AST that is not in source order"))

MCSpec == MCInit /\ [][Next]_vars /\ WF_vars(Next)
=============================================================================
