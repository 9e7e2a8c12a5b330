----------------------- MODULE TranslationUnitProofs -----------------------
(***************************************************************************)
(* The fold of parser.v, for every list of declarations.  NothingLost,     *)
(* NothingInvented and DupsExact support each other: that a conflict is    *)
(* found although the fold only compares with the current entry needs that *)
(* the entry is above everything folded so far (NothingLost) and that two  *)
(* values below a third are comparable (the join lemmas); that a reported  *)
(* name really has two conflicting declarations needs that the entry is    *)
(* one of them (NothingInvented).                                          *)
(***************************************************************************)
EXTENDS TranslationUnit, TLAPS

----------------------------------------------------------------------------
(* GlobDecl_le and ObjValue_le are preorders in which two values below a   *)
(* third one are comparable.  sub_module.v proves the last fact            *)
(* (GlobDecl_ler_join) for types only.                                     *)

(* The order on types and enumerators is reflexive. *)
LEMMA GlobDecl_le_refl == \A a \in GlobDecl : GlobDecl_le(a, a)
BY DEF GlobDecl, GlobDecl_le, Gtype

(* The order on types and enumerators is transitive. *)
LEMMA GlobDecl_le_trans ==
  \A a, b, c \in GlobDecl :
    GlobDecl_le(a, b) /\ GlobDecl_le(b, c) => GlobDecl_le(a, c)
BY DEF GlobDecl, GlobDecl_le, Gtype

(* Two types that both have less information than a third are comparable:   *)
(* GlobDecl_ler_join of sub_module.v.                                       *)
LEMMA GlobDecl_ler_join ==
  \A a, b, c \in GlobDecl :
    GlobDecl_le(a, c) /\ GlobDecl_le(b, c) => GlobDecl_le(a, b) \/ GlobDecl_le(b, a)
BY DEF GlobDecl, GlobDecl_le, Gtype

(* The order on initialisers is a preorder with the same join property. *)
LEMMA init_le_order ==
  \A i, j, k \in global_init :
    /\ init_le(i, i)
    /\ init_le(i, j) /\ init_le(j, k) => init_le(i, k)
    /\ init_le(i, k) /\ init_le(j, k) => init_le(i, j) \/ init_le(j, i)
BY DEF init_le, global_init, Init_, ImplicitInit, NoInit, Delayed, Extern

(* The order on variables and functions is reflexive. *)
LEMMA ObjValue_le_refl == \A a \in ObjValue : ObjValue_le(a, a)
BY init_le_order DEF ObjValue, ObjValue_le

(* A value is a variable or a callable, and says so in its tag. *)
LEMMA ObjValueCases ==
  \A a \in ObjValue :
    \/ a.tag = "Ovar" /\ a.tag \notin Callable /\ a.init \in global_init
    \/ a.tag # "Ovar" /\ a.tag \in Callable
BY DEF ObjValue, Callable

(* The order on variables and functions is transitive. *)
LEMMA ObjValue_le_trans ==
  \A a, b, c \in ObjValue :
    ObjValue_le(a, b) /\ ObjValue_le(b, c) => ObjValue_le(a, c)
<1> SUFFICES ASSUME NEW a \in ObjValue, NEW b \in ObjValue, NEW c \in ObjValue,
                    ObjValue_le(a, b), ObjValue_le(b, c)
             PROVE  ObjValue_le(a, c)
  OBVIOUS
<1>1. a.tag = b.tag /\ b.tag = c.tag
  BY DEF ObjValue_le
<1>2. CASE a.tag = "Ovar"
  <2>1. /\ a.init \in global_init /\ b.init \in global_init /\ c.init \in global_init
        /\ a.tag \notin Callable
    BY <1>1, <1>2, ObjValueCases
  <2>2. init_le(a.init, b.init) /\ init_le(b.init, c.init) /\ a.ty = b.ty /\ b.ty = c.ty
    BY <1>1, <1>2, <2>1 DEF ObjValue_le
  <2>3. init_le(a.init, c.init)
    BY <2>1, <2>2, init_le_order
  <2> QED
    BY <1>1, <1>2, <2>2, <2>3 DEF ObjValue_le
<1>3. CASE a.tag # "Ovar"
  BY <1>1, <1>3 DEF ObjValue_le
<1> QED
  BY <1>2, <1>3

(* Two variables or functions that both have less information than a third  *)
(* are comparable.                                                          *)
LEMMA ObjValue_ler_join ==
  \A a, b, c \in ObjValue :
    ObjValue_le(a, c) /\ ObjValue_le(b, c) => ObjValue_le(a, b) \/ ObjValue_le(b, a)
<1> SUFFICES ASSUME NEW a \in ObjValue, NEW b \in ObjValue, NEW c \in ObjValue,
                    ObjValue_le(a, c), ObjValue_le(b, c)
             PROVE  ObjValue_le(a, b) \/ ObjValue_le(b, a)
  OBVIOUS
<1>1. a.tag = c.tag /\ b.tag = c.tag
  BY DEF ObjValue_le
<1>2. CASE a.tag = "Ovar"
  <2>1. /\ a.init \in global_init /\ b.init \in global_init /\ c.init \in global_init
        /\ a.tag \notin Callable
    BY <1>1, <1>2, ObjValueCases
  <2>2. init_le(a.init, c.init) /\ init_le(b.init, c.init) /\ a.ty = c.ty /\ b.ty = c.ty
    BY <1>1, <1>2, <2>1 DEF ObjValue_le
  <2>3. init_le(a.init, b.init) \/ init_le(b.init, a.init)
    BY <2>1, <2>2, init_le_order
  <2> QED
    BY <1>1, <1>2, <2>2, <2>3 DEF ObjValue_le
<1>3. CASE a.tag # "Ovar"
  BY <1>1, <1>3 DEF ObjValue_le
<1> QED
  BY <1>2, <1>3

----------------------------------------------------------------------------
(* The fold.                                                               *)

(* check_translation_unit runs once, after the whole list. *)
CheckedAtEnd ==
  result # "pending" =>
    /\ pos = Len(input)
    /\ (result = "translation_unit") <=> (dups = {})

IInv == TypeOK /\ NothingLost /\ NothingInvented /\ DupsExact /\ CheckedAtEnd

----------------------------------------------------------------------------
(* A declaration names its table, and its value is one of that table. *)
LEMMA DeclCases ==
  \A d \in Decl :
    \/ d.table = "symbols" /\ d.name \in Name /\ d.value \in ObjValue
       /\ d = Entry("symbols", d.name, d.value)
    \/ d.table = "types" /\ d.name \in Name /\ d.value \in GlobDecl
       /\ d = Entry("types", d.name, d.value)
    \/ d.table = "aliases" /\ d.name \in Name /\ d.value \in Type
       /\ d = Entry("aliases", d.name, d.value)
    \/ d.table = "skip"
BY DEF Decl, Dstatic_assert, Entry

(* The elements of the input list are declarations. *)
LEMMA InputDecl == TypeOK => \A i \in 1 .. Len(input) : input[i] \in Decl
BY InputsAssumption DEF TypeOK

(* The empty tables are well typed and nothing has been folded. *)
LEMMA InitIInv == Init => IInv
<1> SUFFICES ASSUME Init PROVE IInv
  OBVIOUS
<1>1. Len(input) \in Nat
  BY InputsAssumption DEF Init
<1>2. pos = 0 /\ DOMAIN symbols = {} /\ DOMAIN types = {} /\ DOMAIN aliases = {}
  BY DEF Init, EmptyTable
<1>3. TypeOK
  BY <1>1, <1>2 DEF Init, TypeOK, IsTable, EmptyTable
<1>4. Folded = {}
  BY <1>2 DEF Folded
<1> QED
  BY <1>2, <1>3, <1>4 DEF IInv, NothingLost, NothingInvented, DupsExact, CheckedAtEnd, Init

(* What one declaration of the symbol table does. *)
LEMMA SymbolsStep ==
  ASSUME IsTable(symbols, ObjValue), NEW n \in Name, NEW v \in ObjValue, _symbols(n, v)
  PROVE  /\ IsTable(symbols', ObjValue)
         /\ UNCHANGED <<types, aliases>>
         /\ n \in DOMAIN symbols'
         /\ \A m \in DOMAIN symbols :
              m \in DOMAIN symbols' /\ ObjValue_le(symbols[m], symbols'[m])
         /\ \A m \in DOMAIN symbols' :
              \/ m \in DOMAIN symbols /\ symbols'[m] = symbols[m]
              \/ m = n /\ symbols'[m] = v
         /\ \/ dups' = dups /\ ObjValue_le(v, symbols'[n])
            \/ /\ dups' = dups \cup {n}
               /\ n \in DOMAIN symbols
               /\ ~ObjCompatible(v, symbols[n])
<1> USE DEF _symbols
<1>0. \A m \in DOMAIN symbols : symbols[m] \in ObjValue /\ m \in Name
  BY DEF IsTable
<1>1. CASE n \notin DOMAIN symbols
  BY <1>0, <1>1, ObjValue_le_refl DEF Insert, IsTable
<1>2. CASE n \in DOMAIN symbols /\ ObjCompatible(v, symbols[n])
  <2> DEFINE w == MergeObjValue(v, symbols[n])
  <2>1. /\ w \in ObjValue /\ w \in {v, symbols[n]}
        /\ ObjValue_le(v, w) /\ ObjValue_le(symbols[n], w)
    BY <1>0, <1>2, ObjValue_le_refl DEF MergeObjValue, ObjCompatible
  <2>2. symbols' = Insert(n, w, symbols) /\ dups' = dups
    BY <1>2
  <2> HIDE DEF w
  <2> QED
    BY <1>0, <1>2, <2>1, <2>2, ObjValue_le_refl DEF Insert, IsTable
<1>3. CASE n \in DOMAIN symbols /\ ~ObjCompatible(v, symbols[n])
  BY <1>0, <1>3, ObjValue_le_refl
<1> QED
  BY <1>1, <1>2, <1>3

(* What one declaration of the type table does. *)
LEMMA TypesStep ==
  ASSUME IsTable(types, GlobDecl), NEW n \in Name, NEW v \in GlobDecl, _types(n, v)
  PROVE  /\ IsTable(types', GlobDecl)
         /\ UNCHANGED <<symbols, aliases>>
         /\ n \in DOMAIN types'
         /\ \A m \in DOMAIN types :
              m \in DOMAIN types' /\ GlobDecl_le(types[m], types'[m])
         /\ \A m \in DOMAIN types' :
              \/ m \in DOMAIN types /\ types'[m] = types[m]
              \/ m = n /\ types'[m] = v
         /\ \/ dups' = dups /\ GlobDecl_le(v, types'[n])
            \/ /\ dups' = dups \cup {n}
               /\ n \in DOMAIN types
               /\ ~GlobCompatible(v, types[n])
<1> USE DEF _types
<1>0. \A m \in DOMAIN types : types[m] \in GlobDecl /\ m \in Name
  BY DEF IsTable
<1>1. CASE n \notin DOMAIN types
  BY <1>0, <1>1, GlobDecl_le_refl DEF Insert, IsTable
<1>2. CASE n \in DOMAIN types /\ GlobCompatible(v, types[n])
  <2> DEFINE w == MergeGlobDecl(v, types[n])
  <2>1. /\ w \in GlobDecl /\ w \in {v, types[n]}
        /\ GlobDecl_le(v, w) /\ GlobDecl_le(types[n], w)
    BY <1>0, <1>2, GlobDecl_le_refl DEF MergeGlobDecl, GlobCompatible
  <2>2. types' = Insert(n, w, types) /\ dups' = dups
    BY <1>2
  <2> HIDE DEF w
  <2> QED
    BY <1>0, <1>2, <2>1, <2>2, GlobDecl_le_refl DEF Insert, IsTable
<1>3. CASE n \in DOMAIN types /\ ~GlobCompatible(v, types[n])
  BY <1>0, <1>3, GlobDecl_le_refl
<1> QED
  BY <1>1, <1>2, <1>3

(* What one declaration of the alias table does. *)
LEMMA AliasesStep ==
  ASSUME IsTable(aliases, Type), NEW n \in Name, NEW v \in Type, _aliases(n, v)
  PROVE  /\ IsTable(aliases', Type)
         /\ UNCHANGED <<symbols, types>>
         /\ \A m \in DOMAIN aliases :
              m \in DOMAIN aliases' /\ aliases'[m] = aliases[m]
         /\ \A m \in DOMAIN aliases' :
              \/ m \in DOMAIN aliases /\ aliases'[m] = aliases[m]
              \/ m = n /\ aliases'[m] = v
         /\ \/ /\ dups' = dups
               /\ n \in DOMAIN aliases' /\ n \notin DOMAIN aliases /\ aliases'[n] = v
            \/ dups' = dups \cup {n} /\ n \in DOMAIN aliases
<1> USE DEF _aliases
<1>1. CASE n \notin DOMAIN aliases
  BY <1>1 DEF Insert, IsTable
<1>2. CASE n \in DOMAIN aliases
  BY <1>2
<1> QED
  BY <1>1, <1>2

----------------------------------------------------------------------------
(* One step of the fold keeps the invariant. *)
LEMMA DeclsIInv == IInv /\ decls => IInv'
<1> SUFFICES ASSUME IInv, decls PROVE IInv'
  OBVIOUS
<1> DEFINE d == input[pos + 1]
<1>1. /\ TypeOK /\ pos \in Nat /\ Len(input) \in Nat /\ pos + 1 \in 1 .. Len(input)
      /\ pos' = pos + 1 /\ input' = input /\ result' = result /\ result = "pending"
  BY InputsAssumption DEF IInv, TypeOK, decls
<1>2. \A i \in 1 .. Len(input) : input[i] \in Decl
  BY <1>1, InputDecl
<1>3. d \in Decl /\ Fold(d)
  BY <1>1, <1>2 DEF decls
<1>4. /\ \A i \in Folded : i \in 1 .. pos /\ i \in 1 .. Len(input) /\ i # pos + 1 /\ i < pos + 1
      /\ Folded' = IF d.table = "skip" THEN Folded ELSE Folded \cup {pos + 1}
      /\ pos + 1 \notin Folded
  BY <1>1 DEF Folded
<1>5. CheckedAtEnd'
  BY <1>1 DEF CheckedAtEnd
<1> HIDE DEF d
<1>6. /\ IsTable(symbols, ObjValue) /\ IsTable(types, GlobDecl) /\ IsTable(aliases, Type)
      /\ dups \subseteq Name
  BY <1>1 DEF TypeOK
<1>7. NothingLost /\ NothingInvented /\ DupsExact
  BY DEF IInv
<1>8. d = input[pos + 1]
  BY DEF d
<1>s. CASE d.table = "symbols"
  <2> DEFINE n == d.name  v == d.value
  <2>1. /\ n \in Name /\ v \in ObjValue /\ d = Entry("symbols", n, v)
        /\ _symbols(n, v)
    BY <1>3, <1>s, DeclCases DEF Fold
  <2> HIDE DEF n, v
  <2>2. /\ IsTable(symbols', ObjValue)
        /\ types' = types /\ aliases' = aliases
        /\ n \in DOMAIN symbols'
        /\ \A m \in DOMAIN symbols :
              m \in DOMAIN symbols' /\ ObjValue_le(symbols[m], symbols'[m])
        /\ \A m \in DOMAIN symbols' :
              \/ m \in DOMAIN symbols /\ symbols'[m] = symbols[m]
              \/ m = n /\ symbols'[m] = v
        /\ \/ dups' = dups /\ ObjValue_le(v, symbols'[n])
           \/ /\ dups' = dups \cup {n}
              /\ n \in DOMAIN symbols
              /\ ~ObjCompatible(v, symbols[n])
    BY <1>6, <2>1, SymbolsStep
  <2>3. TypeOK'
    BY <1>1, <1>6, <2>1, <2>2 DEF TypeOK
  <2>4. NothingLost'
    <3> SUFFICES ASSUME NEW i \in Folded', input[i].name \notin dups'
                 PROVE  Included(input[i], symbols', types', aliases')
      BY <1>1 DEF NothingLost
    <3>1. CASE i \in Folded
      <4>1. Included(input[i], symbols, types, aliases) /\ input[i] \in Decl
        BY <3>1, <1>2, <1>4, <1>7, <2>2 DEF NothingLost
      <4>2. CASE input[i].table = "symbols"
        <5>1. /\ input[i].name \in DOMAIN symbols
              /\ ObjValue_le(input[i].value, symbols[input[i].name])
              /\ input[i].value \in ObjValue
          BY <4>1, <4>2, DeclCases DEF Included
        <5>2. /\ symbols[input[i].name] \in ObjValue
              /\ symbols'[input[i].name] \in ObjValue
              /\ input[i].name \in DOMAIN symbols'
              /\ ObjValue_le(symbols[input[i].name], symbols'[input[i].name])
          BY <5>1, <1>6, <2>2 DEF IsTable
        <5> QED
          BY <4>2, <5>1, <5>2, ObjValue_le_trans DEF Included
      <4>3. CASE input[i].table # "symbols"
        BY <4>1, <4>3, <2>2 DEF Included
      <4> QED
        BY <4>2, <4>3
    <3>2. CASE i = pos + 1
      <4>1. input[i] = Entry("symbols", n, v) /\ n \notin dups'
        BY <3>2, <1>8, <2>1 DEF Entry
      <4> QED
        BY <4>1, <2>2 DEF Included, Entry
    <3> QED
      BY <3>1, <3>2, <1>4
  <2>5. NothingInvented'
    <3>1. ASSUME NEW m \in DOMAIN symbols'
          PROVE  \E i \in Folded' : input'[i] = Entry("symbols", m, symbols'[m])
      <4>1. CASE m \in DOMAIN symbols /\ symbols'[m] = symbols[m]
        BY <4>1, <1>1, <1>4, <1>7 DEF NothingInvented
      <4>2. CASE m = n /\ symbols'[m] = v
        BY <4>2, <1>1, <1>4, <1>8, <1>s, <2>1
      <4> QED
        BY <4>1, <4>2, <2>2
    <3> QED
      BY <3>1, <1>1, <1>4, <1>7, <2>2 DEF NothingInvented
  <2>6. DupsExact'
    <3>1. ASSUME NEW m \in dups'
          PROVE  /\ m \in Name
                 /\ \E i, j \in Folded' :
                      i < j /\ input[i].name = m /\ Conflict(input[i], input[j])
      <4>1. CASE m \in dups
        BY <4>1, <1>4, <1>7 DEF DupsExact
      <4>2. CASE m \notin dups
        <5>1. m = n /\ n \in DOMAIN symbols /\ ~ObjCompatible(v, symbols[n])
          BY <4>2, <2>2
        <5>2. PICK i \in Folded : input[i] = Entry("symbols", n, symbols[n])
          BY <5>1, <1>7 DEF NothingInvented
        <5>3. /\ input[i].name = m /\ Conflict(input[i], input[pos + 1])
              /\ i < pos + 1 /\ pos + 1 \in Folded' /\ i \in Folded'
          BY <5>1, <5>2, <1>4, <1>8, <1>s, <2>1 DEF Conflict, Entry, ObjCompatible
        <5> QED
          BY <5>1, <5>3, <2>1
      <4> QED
        BY <4>1, <4>2
    <3>2. ASSUME NEW m \in Name, NEW i \in Folded', NEW j \in Folded',
                 i < j, input[i].name = m, Conflict(input[i], input[j]), m \notin dups'
          PROVE  FALSE
      <4>1. m \notin dups /\ i \in Folded /\ i \in 1 .. Len(input) /\ j \in 1 .. Len(input)
        BY <3>2, <1>1, <1>4, <2>2
      <4>2. CASE j \in Folded
        BY <3>2, <4>1, <4>2, <1>7 DEF DupsExact
      <4>3. CASE j = pos + 1
        <5>1. /\ input[i].table = "symbols" /\ input[j].table = "symbols"
              /\ input[i].name = n /\ input[j].name = n /\ m = n
              /\ ~ObjCompatible(input[i].value, input[j].value)
          BY <3>2, <4>3, <1>8, <1>s, <2>1 DEF Conflict, Entry
        <5>2. /\ Included(input[i], symbols', types', aliases')
              /\ Included(input[j], symbols', types', aliases')
          BY <3>2, <5>1, <1>1, <2>4 DEF NothingLost
        <5>3. /\ input[i].value \in ObjValue /\ input[j].value \in ObjValue
              /\ symbols'[n] \in ObjValue
              /\ ObjValue_le(input[i].value, symbols'[n])
              /\ ObjValue_le(input[j].value, symbols'[n])
          BY <4>1, <5>1, <5>2, <1>2, <2>2, DeclCases DEF Included, IsTable
        <5> QED
          BY <5>1, <5>3, ObjValue_ler_join DEF ObjCompatible
      <4> QED
        BY <4>2, <4>3, <1>4
    <3> QED
      BY <3>1, <3>2, <1>1 DEF DupsExact
  <2> QED
    BY <1>5, <2>3, <2>4, <2>5, <2>6 DEF IInv
<1>t. CASE d.table = "types"
  <2> DEFINE n == d.name  v == d.value
  <2>1. /\ n \in Name /\ v \in GlobDecl /\ d = Entry("types", n, v)
        /\ _types(n, v)
    BY <1>3, <1>t, DeclCases DEF Fold
  <2> HIDE DEF n, v
  <2>2. /\ IsTable(types', GlobDecl)
        /\ symbols' = symbols /\ aliases' = aliases
        /\ n \in DOMAIN types'
        /\ \A m \in DOMAIN types :
              m \in DOMAIN types' /\ GlobDecl_le(types[m], types'[m])
        /\ \A m \in DOMAIN types' :
              \/ m \in DOMAIN types /\ types'[m] = types[m]
              \/ m = n /\ types'[m] = v
        /\ \/ dups' = dups /\ GlobDecl_le(v, types'[n])
           \/ /\ dups' = dups \cup {n}
              /\ n \in DOMAIN types
              /\ ~GlobCompatible(v, types[n])
    BY <1>6, <2>1, TypesStep
  <2>3. TypeOK'
    BY <1>1, <1>6, <2>1, <2>2 DEF TypeOK
  <2>4. NothingLost'
    <3> SUFFICES ASSUME NEW i \in Folded', input[i].name \notin dups'
                 PROVE  Included(input[i], symbols', types', aliases')
      BY <1>1 DEF NothingLost
    <3>1. CASE i \in Folded
      <4>1. Included(input[i], symbols, types, aliases) /\ input[i] \in Decl
        BY <3>1, <1>2, <1>4, <1>7, <2>2 DEF NothingLost
      <4>2. CASE input[i].table = "types"
        <5>1. /\ input[i].name \in DOMAIN types
              /\ GlobDecl_le(input[i].value, types[input[i].name])
              /\ input[i].value \in GlobDecl
          BY <4>1, <4>2, DeclCases DEF Included
        <5>2. /\ types[input[i].name] \in GlobDecl
              /\ types'[input[i].name] \in GlobDecl
              /\ input[i].name \in DOMAIN types'
              /\ GlobDecl_le(types[input[i].name], types'[input[i].name])
          BY <5>1, <1>6, <2>2 DEF IsTable
        <5> QED
          BY <4>2, <5>1, <5>2, GlobDecl_le_trans DEF Included
      <4>3. CASE input[i].table # "types"
        BY <4>1, <4>3, <2>2 DEF Included
      <4> QED
        BY <4>2, <4>3
    <3>2. CASE i = pos + 1
      <4>1. input[i] = Entry("types", n, v) /\ n \notin dups'
        BY <3>2, <1>8, <2>1 DEF Entry
      <4> QED
        BY <4>1, <2>2 DEF Included, Entry
    <3> QED
      BY <3>1, <3>2, <1>4
  <2>5. NothingInvented'
    <3>1. ASSUME NEW m \in DOMAIN types'
          PROVE  \E i \in Folded' : input'[i] = Entry("types", m, types'[m])
      <4>1. CASE m \in DOMAIN types /\ types'[m] = types[m]
        BY <4>1, <1>1, <1>4, <1>7 DEF NothingInvented
      <4>2. CASE m = n /\ types'[m] = v
        BY <4>2, <1>1, <1>4, <1>8, <1>t, <2>1
      <4> QED
        BY <4>1, <4>2, <2>2
    <3> QED
      BY <3>1, <1>1, <1>4, <1>7, <2>2 DEF NothingInvented
  <2>6. DupsExact'
    <3>1. ASSUME NEW m \in dups'
          PROVE  /\ m \in Name
                 /\ \E i, j \in Folded' :
                      i < j /\ input[i].name = m /\ Conflict(input[i], input[j])
      <4>1. CASE m \in dups
        BY <4>1, <1>4, <1>7 DEF DupsExact
      <4>2. CASE m \notin dups
        <5>1. m = n /\ n \in DOMAIN types /\ ~GlobCompatible(v, types[n])
          BY <4>2, <2>2
        <5>2. PICK i \in Folded : input[i] = Entry("types", n, types[n])
          BY <5>1, <1>7 DEF NothingInvented
        <5>3. /\ input[i].name = m /\ Conflict(input[i], input[pos + 1])
              /\ i < pos + 1 /\ pos + 1 \in Folded' /\ i \in Folded'
          BY <5>1, <5>2, <1>4, <1>8, <1>t, <2>1 DEF Conflict, Entry, GlobCompatible
        <5> QED
          BY <5>1, <5>3, <2>1
      <4> QED
        BY <4>1, <4>2
    <3>2. ASSUME NEW m \in Name, NEW i \in Folded', NEW j \in Folded',
                 i < j, input[i].name = m, Conflict(input[i], input[j]), m \notin dups'
          PROVE  FALSE
      <4>1. m \notin dups /\ i \in Folded /\ i \in 1 .. Len(input) /\ j \in 1 .. Len(input)
        BY <3>2, <1>1, <1>4, <2>2
      <4>2. CASE j \in Folded
        BY <3>2, <4>1, <4>2, <1>7 DEF DupsExact
      <4>3. CASE j = pos + 1
        <5>1. /\ input[i].table = "types" /\ input[j].table = "types"
              /\ input[i].name = n /\ input[j].name = n /\ m = n
              /\ ~GlobCompatible(input[i].value, input[j].value)
          BY <3>2, <4>3, <1>8, <1>t, <2>1 DEF Conflict, Entry
        <5>2. /\ Included(input[i], symbols', types', aliases')
              /\ Included(input[j], symbols', types', aliases')
          BY <3>2, <5>1, <1>1, <2>4 DEF NothingLost
        <5>3. /\ input[i].value \in GlobDecl /\ input[j].value \in GlobDecl
              /\ types'[n] \in GlobDecl
              /\ GlobDecl_le(input[i].value, types'[n])
              /\ GlobDecl_le(input[j].value, types'[n])
          BY <4>1, <5>1, <5>2, <1>2, <2>2, DeclCases DEF Included, IsTable
        <5> QED
          BY <5>1, <5>3, GlobDecl_ler_join DEF GlobCompatible
      <4> QED
        BY <4>2, <4>3, <1>4
    <3> QED
      BY <3>1, <3>2, <1>1 DEF DupsExact
  <2> QED
    BY <1>5, <2>3, <2>4, <2>5, <2>6 DEF IInv
<1>a. CASE d.table = "aliases"
  <2> DEFINE n == d.name  v == d.value
  <2>1. /\ n \in Name /\ v \in Type /\ d = Entry("aliases", n, v)
        /\ _aliases(n, v)
    BY <1>3, <1>a, DeclCases DEF Fold
  <2> HIDE DEF n, v
  <2>2. /\ IsTable(aliases', Type)
        /\ symbols' = symbols /\ types' = types
        /\ \A m \in DOMAIN aliases :
              m \in DOMAIN aliases' /\ aliases'[m] = aliases[m]
        /\ \A m \in DOMAIN aliases' :
              \/ m \in DOMAIN aliases /\ aliases'[m] = aliases[m]
              \/ m = n /\ aliases'[m] = v
        /\ \/ /\ dups' = dups
              /\ n \in DOMAIN aliases' /\ n \notin DOMAIN aliases /\ aliases'[n] = v
           \/ dups' = dups \cup {n} /\ n \in DOMAIN aliases
    BY <1>6, <2>1, AliasesStep
  <2>3. TypeOK'
    BY <1>1, <1>6, <2>1, <2>2 DEF TypeOK
  <2>4. NothingLost'
    <3> SUFFICES ASSUME NEW i \in Folded', input[i].name \notin dups'
                 PROVE  Included(input[i], symbols', types', aliases')
      BY <1>1 DEF NothingLost
    <3>1. CASE i \in Folded
      BY <3>1, <1>7, <2>2 DEF NothingLost, Included
    <3>2. CASE i = pos + 1
      BY <3>2, <1>8, <2>1, <2>2 DEF Included, Entry
    <3> QED
      BY <3>1, <3>2, <1>4
  <2>5. NothingInvented'
    <3>1. ASSUME NEW m \in DOMAIN aliases'
          PROVE  \E i \in Folded' : input'[i] = Entry("aliases", m, aliases'[m])
      <4>1. CASE m \in DOMAIN aliases /\ aliases'[m] = aliases[m]
        BY <4>1, <1>1, <1>4, <1>7 DEF NothingInvented
      <4>2. CASE m = n /\ aliases'[m] = v
        BY <4>2, <1>1, <1>4, <1>8, <1>a, <2>1
      <4> QED
        BY <4>1, <4>2, <2>2
    <3> QED
      BY <3>1, <1>1, <1>4, <1>7, <2>2 DEF NothingInvented
  <2>6. DupsExact'
    <3>1. ASSUME NEW m \in dups'
          PROVE  /\ m \in Name
                 /\ \E i, j \in Folded' :
                      i < j /\ input[i].name = m /\ Conflict(input[i], input[j])
      <4>1. CASE m \in dups
        BY <4>1, <1>4, <1>7 DEF DupsExact
      <4>2. CASE m \notin dups
        <5>1. m = n /\ n \in DOMAIN aliases
          BY <4>2, <2>2
        <5>2. PICK i \in Folded : input[i] = Entry("aliases", n, aliases[n])
          BY <5>1, <1>7 DEF NothingInvented
        <5>3. /\ input[i].name = m /\ Conflict(input[i], input[pos + 1])
              /\ i < pos + 1 /\ pos + 1 \in Folded' /\ i \in Folded'
          BY <5>1, <5>2, <1>4, <1>8, <1>a, <2>1 DEF Conflict, Entry
        <5> QED
          BY <5>1, <5>3, <2>1
      <4> QED
        BY <4>1, <4>2
    <3>2. ASSUME NEW m \in Name, NEW i \in Folded', NEW j \in Folded',
                 i < j, input[i].name = m, Conflict(input[i], input[j]), m \notin dups'
          PROVE  FALSE
      <4>1. m \notin dups /\ i \in Folded
        BY <3>2, <1>1, <1>4, <2>2
      <4>2. CASE j \in Folded
        BY <3>2, <4>1, <4>2, <1>7 DEF DupsExact
      <4>3. CASE j = pos + 1
        <5>1. input[i].table = "aliases" /\ input[i].name = n /\ m = n
          BY <3>2, <4>3, <1>8, <1>a, <2>1 DEF Conflict, Entry
        <5>2. n \in DOMAIN aliases
          BY <4>1, <5>1, <1>7 DEF NothingLost, Included
        <5> QED
          BY <3>2, <5>1, <5>2, <2>2
      <4> QED
        BY <4>2, <4>3, <1>4
    <3> QED
      BY <3>1, <3>2, <1>1 DEF DupsExact
  <2> QED
    BY <1>5, <2>3, <2>4, <2>5, <2>6 DEF IInv
<1>k. CASE d.table = "skip"
  <2>1. UNCHANGED <<symbols, types, aliases, dups>>
    BY <1>3, <1>k DEF Fold, _skip
  <2>2. Folded' = Folded
    BY <1>4, <1>k
  <2>3. TypeOK'
    BY <1>1, <1>6, <2>1 DEF TypeOK
  <2> QED
    BY <1>1, <1>5, <1>7, <2>1, <2>2, <2>3
    DEF IInv, NothingLost, NothingInvented, DupsExact
<1> QED
  BY <1>3, <1>s, <1>t, <1>a, <1>k, DeclCases

(* check_translation_unit only sets the verdict. *)
LEMMA CheckIInv == IInv /\ check_translation_unit => IInv'
<1> SUFFICES ASSUME IInv, check_translation_unit PROVE IInv'
  OBVIOUS
<1>1. UNCHANGED <<input, pos, symbols, types, aliases, dups>>
  BY DEF check_translation_unit
<1>2. Folded' = Folded
  BY <1>1 DEF Folded
<1>3. TypeOK' /\ CheckedAtEnd'
  BY <1>1 DEF IInv, TypeOK, CheckedAtEnd, check_translation_unit
<1> QED
  BY <1>1, <1>2, <1>3 DEF IInv, NothingLost, NothingInvented, DupsExact

(* The strengthening is inductive. *)
THEOREM Inductive == Spec => []IInv
<1>1. IInv /\ UNCHANGED vars => IInv'
  BY DEF IInv, TypeOK, NothingLost, NothingInvented, DupsExact, CheckedAtEnd, Folded, vars
<1>2. IInv /\ [Next]_vars => IInv'
  BY <1>1, DeclsIInv, CheckIInv DEF Next
<1> QED
  BY <1>2, InitIInv, PTL DEF Spec

(* The tables only ever bind names to values of their kind. *)
THEOREM TypeCorrect == Spec => []TypeOK
BY Inductive, PTL DEF IInv

(* No declaration is lost by merging, whatever the list and its order. *)
THEOREM MergeLosesNothing == Spec => []NothingLost
BY Inductive, PTL DEF IInv

(* Every entry is one of the declarations of its name. *)
THEOREM MergeInventsNothing == Spec => []NothingInvented
BY Inductive, PTL DEF IInv

(* The reported names are exactly those with two conflicting declarations,  *)
(* so they do not depend on the order of the list.                          *)
THEOREM DuplicatesAreExact == Spec => []DupsExact
BY Inductive, PTL DEF IInv

(* An accepted unit includes every declaration of the list; a rejected list  *)
(* has two declarations that conflict.                                       *)
THEOREM VerdictIsRight == Spec => []Verdict
<1>1. IInv => Verdict
  <2> SUFFICES ASSUME IInv PROVE Verdict
    OBVIOUS
  <2>1. result # "pending" =>
          Folded = {i \in 1 .. Len(input) : input[i].table # "skip"}
    BY DEF IInv, CheckedAtEnd, Folded
  <2>2. ASSUME result = "translation_unit", NEW i \in 1 .. Len(input), input[i].table # "skip"
        PROVE  Included(input[i], symbols, types, aliases)
    BY <2>1, <2>2 DEF IInv, CheckedAtEnd, NothingLost
  <2>3. ASSUME result = "DuplicateSymbols"
        PROVE  \E i, j \in 1 .. Len(input) :
                 i < j /\ input[i].table # "skip" /\ input[j].table # "skip"
                       /\ Conflict(input[i], input[j])
    <3>1. PICK n \in Name : n \in dups
      BY <2>3 DEF IInv, CheckedAtEnd, TypeOK
    <3>2. PICK i \in Folded, j \in Folded : i < j /\ Conflict(input[i], input[j])
      BY <3>1 DEF IInv, DupsExact
    <3> QED
      BY <2>1, <2>3, <3>2
  <2> QED
    BY <2>2, <2>3 DEF Verdict
<1> QED
  BY <1>1, Inductive, PTL

(* No step of the fold forgets an entry or a reported name. *)
THEOREM TablesOnlyGrow == Spec => TablesGrow
<1> DEFINE Grow ==
      /\ \A n \in DOMAIN symbols :
           n \in DOMAIN symbols' /\ ObjValue_le(symbols[n], symbols'[n])
      /\ \A n \in DOMAIN types :
           n \in DOMAIN types' /\ GlobDecl_le(types[n], types'[n])
      /\ \A n \in DOMAIN aliases :
           n \in DOMAIN aliases' /\ aliases[n] = aliases'[n]
      /\ dups \subseteq dups'
<1>1. ASSUME TypeOK, [Next]_vars
      PROVE  Grow
  <2>1. /\ IsTable(symbols, ObjValue) /\ IsTable(types, GlobDecl) /\ IsTable(aliases, Type)
    BY <1>1 DEF TypeOK
  <2>2. /\ \A n \in DOMAIN symbols : ObjValue_le(symbols[n], symbols[n])
        /\ \A n \in DOMAIN types : GlobDecl_le(types[n], types[n])
    BY <2>1, ObjValue_le_refl, GlobDecl_le_refl DEF IsTable
  <2>3. CASE UNCHANGED <<symbols, types, aliases, dups>>
    BY <2>2, <2>3
  <2>4. CASE decls
    <3> DEFINE d == input[pos + 1]
    <3>1. d \in Decl /\ Fold(d)
      BY <1>1, <2>4, InputDecl, InputsAssumption DEF decls, TypeOK
    <3> HIDE DEF d
    <3>2. CASE d.table = "symbols"
      <4>1. d.name \in Name /\ d.value \in ObjValue /\ _symbols(d.name, d.value)
        BY <3>1, <3>2, DeclCases DEF Fold
      <4> QED
        BY <2>1, <2>2, <4>1, SymbolsStep
    <3>3. CASE d.table = "types"
      <4>1. d.name \in Name /\ d.value \in GlobDecl /\ _types(d.name, d.value)
        BY <3>1, <3>3, DeclCases DEF Fold
      <4> QED
        BY <2>1, <2>2, <4>1, TypesStep
    <3>4. CASE d.table = "aliases"
      <4>1. d.name \in Name /\ d.value \in Type /\ _aliases(d.name, d.value)
        BY <3>1, <3>4, DeclCases DEF Fold
      <4> QED
        BY <2>1, <2>2, <4>1, AliasesStep
    <3>5. CASE d.table = "skip"
      BY <2>3, <3>1, <3>5 DEF Fold, _skip
    <3> QED
      BY <3>1, <3>2, <3>3, <3>4, <3>5, DeclCases
  <2> QED
    BY <1>1, <2>3, <2>4 DEF Next, check_translation_unit, vars
<1>2. TypeOK /\ [Next]_vars => [Grow]_vars
  BY <1>1
<1> QED
  BY <1>2, TypeCorrect, PTL DEF Spec, TablesGrow
=============================================================================
