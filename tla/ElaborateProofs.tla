-------------------------- MODULE ElaborateProofs --------------------------
(***************************************************************************)
(* For any classes, top-level declarations, nesting and source: when the   *)
(* module is built, the classes of the source are elaborated, and under    *)
(* --no-elaborate nothing is forced.                                       *)
(***************************************************************************)
EXTENDS Elaborate, ClosureProofs, TLAPS

TypeOK ==
    /\ elaborate_ \in BOOLEAN /\ ended \in BOOLEAN
    /\ src \in [Class -> Written]
    /\ exists \subseteq Class /\ complete \subseteq exists /\ closed \subseteq TopDecl
    /\ declared \in [Class -> SUBSET Special]
    /\ body \in [Class -> SUBSET Special]

\* A class has the members of its source once it is complete, none before.
MembersOfSource ==
    /\ \A c \in complete : src[c].user \subseteq declared[c]
    /\ \A c \in Class \ complete : declared[c] = {}

\* The classes around which the top-level declaration is finished are done.
ClosedAreDone ==
    \A c \in Class \ Specialization :
        Home[c] \in closed => c \in complete /\ (elaborate_ => Elaborated(c))

IInv ==
    /\ TypeOK
    /\ Class \ Specialization \subseteq exists
    /\ MembersOfSource
    /\ ClosedAreDone
    /\ ended => closed = TopDecl
    /\ NoElaborateIsQuiet

-----------------------------------------------------------------------------

\* What GenerateUndeprecatedImplicitMembers would declare at the closing
\* brace is still declared after it ran later, when clang has declared more.
LEMMA GenerateLater ==
    ASSUME NEW u, NEW d, u \subseteq d
    PROVE  /\ GenerateUndeprecatedImplicitMembers(u, u)
                \subseteq d \cup GenerateUndeprecatedImplicitMembers(u, d)
           /\ GenerateUndeprecatedImplicitMembers(u, d) \subseteq Special
  BY DEF GenerateUndeprecatedImplicitMembers, Needs, Special

\* The source of a class.
LEMMA SourceOf ==
    ASSUME TypeOK, NEW c \in Class
    PROVE  /\ src[c] \in Written
           /\ src[c].user \subseteq Special /\ src[c].dflt \subseteq src[c].user
           /\ src[c].deleted \subseteq Special
<1>1. src[c] \in Written
  BY DEF TypeOK
<1>2. src[c] \in Sources
  BY <1>1, WrittenAssumption
<1>3. src[c].dflt \subseteq src[c].user
  BY <1>1, WrittenAssumption
<1> QED
  BY <1>1, <1>2, <1>3 DEF Sources

\* A step from dcl and bdy takes nothing away and declares members of cs only.
Grown(dcl, bdy, cs) ==
    /\ declared' \in [Class -> SUBSET Special]
    /\ body' \in [Class -> SUBSET Special]
    /\ \A c \in Class : dcl[c] \subseteq declared'[c] /\ bdy[c] \subseteq body'[c]
    /\ \A c \in Class \ cs : declared'[c] = dcl[c]

\* Elaborate::Visit takes nothing away.
LEMMA VisitGrows ==
    ASSUME TypeOK, NEW cs, NEW full,
           NEW dcl \in [Class -> SUBSET Special], NEW bdy \in [Class -> SUBSET Special],
           Visit(cs, full, TRUE, dcl, bdy) \/ Visit(cs, full, FALSE, dcl, bdy)
    PROVE  Grown(dcl, bdy, cs \cap full)
<1> DEFINE d == [c \in Class |->
                   IF c \in cs \cap full
                   THEN dcl[c] \cup GenerateUndeprecatedImplicitMembers(src[c].user, dcl[c])
                   ELSE dcl[c]]
           b == [c \in Class |-> IF c \in cs THEN bdy[c] \cup Definable(src[c], d[c])
                                 ELSE bdy[c]]
<1>1. declared' = d /\ (body' = b \/ body' = bdy)
  BY DEF Visit
<1>2. \A c \in Class : GenerateUndeprecatedImplicitMembers(src[c].user, dcl[c]) \subseteq Special
  BY DEF GenerateUndeprecatedImplicitMembers, Needs
<1>3. d \in [Class -> SUBSET Special]
  BY <1>2
<1>4. \A c \in Class : Definable(src[c], d[c]) \subseteq Special
  <2> SUFFICES ASSUME NEW c \in Class PROVE Definable(src[c], d[c]) \subseteq Special
    OBVIOUS
  <2>1. d[c] \in SUBSET Special
    BY <1>3
  <2> HIDE DEF d
  <2> QED
    BY <2>1 DEF Definable
<1>5. b \in [Class -> SUBSET Special]
  <2> HIDE DEF d
  <2> QED
    BY <1>4
<1>6. \A c \in Class : dcl[c] \subseteq d[c] /\ bdy[c] \subseteq b[c]
  OBVIOUS
<1> QED
  BY <1>1, <1>3, <1>5, <1>6 DEF Grown

\* A recursive visit of a complete class leaves it elaborated.
LEMMA VisitElaborates ==
    ASSUME TypeOK, NEW cs, NEW full, src' = src,
           NEW dcl \in [Class -> SUBSET Special], NEW bdy \in [Class -> SUBSET Special],
           Visit(cs, full, TRUE, dcl, bdy),
           NEW c \in Class, c \in cs, c \in full, src[c].user \subseteq dcl[c]
    PROVE  (Elaborated(c))'
<1> DEFINE g == GenerateUndeprecatedImplicitMembers(src[c].user, src[c].user)
<1>1. declared'[c] = dcl[c] \cup GenerateUndeprecatedImplicitMembers(src[c].user, dcl[c])
  BY DEF Visit
<1>2. Definable(src[c], declared'[c]) \subseteq body'[c]
  BY DEF Visit
<1>3. g \subseteq declared'[c]
  BY <1>1, GenerateLater
<1>4. g \cap src[c].user = {}
  BY DEF GenerateUndeprecatedImplicitMembers, Needs
<1>5. src[c].dflt \subseteq src[c].user
  BY SourceOf
<1>6. src[c].dflt \subseteq declared'[c]
  BY <1>1, <1>5
<1>7. \A m \in g \cup src[c].dflt : m \notin src[c].deleted => m \in body'[c]
  <2> HIDE DEF g
  <2> QED
    BY <1>2, <1>3, <1>4, <1>6 DEF Definable
<1> QED
  BY <1>3, <1>6, <1>7 DEF Elaborated, Wanted

\* More members and bodies do no harm.
LEMMA ElaboratedStays ==
    ASSUME NEW c, Elaborated(c), src' = src,
           declared[c] \subseteq declared'[c], body[c] \subseteq body'[c]
    PROVE  (Elaborated(c))'
  BY DEF Elaborated, Wanted

\* A visit that declares nothing and gives no body forces nothing.
LEMMA QuietVisit ==
    ASSUME TypeOK, NEW cs, NEW full, NEW rec,
           Visit(cs, full, rec, declared, body),
           \A c \in Class : declared'[c] = declared[c] /\ body'[c] = body[c]
    PROVE  forced' = forced
  BY DEF Visit

-----------------------------------------------------------------------------

LEMMA Initially == Init => IInv
  BY DEF Init, IInv, TypeOK, MembersOfSource, ClosedAreDone, NoElaborateIsQuiet

\* A step that only adds members and bodies to classes that are complete
\* keeps the invariant.
LEMMA Grows ==
    ASSUME IInv, UNCHANGED <<elaborate_, src, exists, complete, closed, ended>>,
           declared' \in [Class -> SUBSET Special], body' \in [Class -> SUBSET Special],
           \A c \in Class : declared[c] \subseteq declared'[c] /\ body[c] \subseteq body'[c],
           \A c \in Class \ complete : declared'[c] = declared[c],
           ~elaborate_ => forced' = forced
    PROVE  IInv'
<1>1. TypeOK'
  BY DEF IInv, TypeOK
<1>2. MembersOfSource'
  BY DEF IInv, TypeOK, MembersOfSource
<1>3. ClosedAreDone'
  BY ElaboratedStays DEF IInv, TypeOK, ClosedAreDone
<1> QED
  BY <1>1, <1>2, <1>3 DEF IInv, NoElaborateIsQuiet

LEMMA CompleteKeeps == ASSUME IInv, NEW c \in Class, Complete(c) PROVE IInv'
<1> USE DEF IInv
<1>1. /\ WithMembers(c) \in [Class -> SUBSET Special]
      /\ WithBodies(c) \in [Class -> SUBSET Special]
      /\ \A e \in Class : /\ declared[e] \subseteq WithMembers(c)[e]
                          /\ body[e] \subseteq WithBodies(c)[e]
                          /\ e # c => WithMembers(c)[e] = declared[e]
      /\ src[c].user \subseteq WithMembers(c)[c]
  <2>1. src[c].user \subseteq Special
    BY SourceOf
  <2> QED
    BY <2>1 DEF TypeOK, WithMembers, WithBodies
<1>2. /\ declared' \in [Class -> SUBSET Special]
      /\ body' \in [Class -> SUBSET Special]
      /\ \A e \in Class : /\ WithMembers(c)[e] \subseteq declared'[e]
                          /\ WithBodies(c)[e] \subseteq body'[e]
                          /\ e # c => declared'[e] = WithMembers(c)[e]
      /\ ~elaborate_ => forced' = forced
  <2>1. CASE elaborate_
    <3>1. Visit({c}, complete \cup {c}, FALSE, WithMembers(c), WithBodies(c))
      BY <2>1 DEF Complete, HandleTagDeclDefinition
    <3>2. Grown(WithMembers(c), WithBodies(c), {c} \cap (complete \cup {c}))
      BY <1>1, <3>1, VisitGrows
    <3> QED
      BY <2>1, <3>2 DEF Grown
  <2>2. CASE ~elaborate_
    BY <1>1, <2>2 DEF Complete, HandleTagDeclDefinition
  <2> QED
    BY <2>1, <2>2 DEF TypeOK
<1>3. /\ complete' = complete \cup {c} /\ c \in exists
      /\ c \in Specialization \/ Home[c] \notin closed
      /\ UNCHANGED <<elaborate_, src, exists, closed, ended>>
  BY DEF Complete
<1>4. TypeOK'
  BY <1>2, <1>3 DEF TypeOK
<1>5. MembersOfSource'
  BY <1>1, <1>2, <1>3 DEF TypeOK, MembersOfSource
<1>6. ClosedAreDone'
  BY <1>1, <1>2, <1>3, ElaboratedStays DEF TypeOK, ClosedAreDone
<1> QED
  BY <1>2, <1>3, <1>4, <1>5, <1>6 DEF NoElaborateIsQuiet

LEMMA AddedKeeps ==
    ASSUME IInv, NEW c \in Class, AddedCXXTemplateSpecialization(c) PROVE IInv'
<1> USE DEF IInv
<1>1. /\ c \notin complete /\ exists' = exists \cup {c}
      /\ Visit({c}, complete, TRUE, declared, body)
      /\ UNCHANGED <<elaborate_, src, complete, closed, ended>>
  BY DEF AddedCXXTemplateSpecialization, TypeOK
<1>2. /\ declared' \in [Class -> SUBSET Special]
      /\ body' \in [Class -> SUBSET Special]
      /\ \A e \in Class : declared[e] \subseteq declared'[e] /\ body[e] \subseteq body'[e]
      /\ \A e \in Class : declared'[e] = declared[e]
  <2>1. TypeOK /\ declared \in [Class -> SUBSET Special] /\ body \in [Class -> SUBSET Special]
    BY DEF TypeOK
  <2>2. Grown(declared, body, {c} \cap complete)
    BY <1>1, <2>1, VisitGrows
  <2> QED
    BY <1>1, <2>2 DEF Grown
<1>3. \A e \in Class : body'[e] = body[e]
  <2>1. declared'[c] = {}
    BY <1>1, <1>2 DEF MembersOfSource
  <2>2. \A e \in Class :
           body'[e] = IF e \in {c} /\ TRUE THEN body[e] \cup Definable(src[e], declared'[e])
                      ELSE body[e]
    BY <1>1 DEF Visit
  <2>3. Definable(src[c], {}) = {}
    BY DEF Definable
  <2> QED
    BY <2>1, <2>2, <2>3
<1>4. forced' = forced
  BY <1>1, <1>2, <1>3, QuietVisit
<1>5. TypeOK'
  BY <1>1, <1>2 DEF TypeOK
<1>6. MembersOfSource'
  BY <1>1, <1>2 DEF TypeOK, MembersOfSource
<1>7. ClosedAreDone'
  BY <1>1, <1>2, ElaboratedStays DEF TypeOK, ClosedAreDone
<1> QED
  BY <1>1, <1>4, <1>5, <1>6, <1>7 DEF NoElaborateIsQuiet

\* The visit of a top-level declaration visits what is in it, and classes only.
LEMMA FriendsToo ==
    ASSUME NEW cs \in SUBSET Class
    PROVE  cs \subseteq WithFriends(cs) /\ WithFriends(cs) \subseteq Class
<1> DEFINE succ == [c \in Class |->
                      IF c \in complete THEN (Befriended[c] \cup Nested[c]) \cap exists ELSE {}]
<1>1. IsClosed(succ, Class)
  BY BefriendedAssumption, NestedAssumption, SpecializationAssumption DEF IsClosed
<1>2. Cardinality(Class) \in Nat
  BY ClassAssumption, FS_CardinalityType
<1> QED
  BY <1>1, <1>2, ReachedLeast DEF WithFriends

LEMMA TopLevelKeeps ==
    ASSUME IInv, NEW t \in TopDecl, HandleTopLevelDecl(t)
    PROVE  /\ IInv'
           /\ elaborate_ => \A c \in Class : Home[c] = t /\ c \in complete => (Elaborated(c))'
<1> USE DEF IInv
<1>1. /\ \A c \in Class \ Specialization : Home[c] = t => c \in complete
      /\ closed' = closed \cup {t}
      /\ UNCHANGED <<elaborate_, src, exists, complete, ended>>
      /\ ~ended
  BY DEF HandleTopLevelDecl
<1>2. CASE elaborate_
  <2> DEFINE cs == WithFriends({e \in exists : Home[e] = t})
  <2>0. {e \in exists : Home[e] = t} \subseteq cs /\ cs \subseteq Class
    BY FriendsToo DEF TypeOK
  <2>1. Visit(cs, complete, TRUE, declared, body)
    BY <1>2 DEF HandleTopLevelDecl, elab_top
  <2> HIDE DEF cs
  <2>2. /\ declared' \in [Class -> SUBSET Special]
        /\ body' \in [Class -> SUBSET Special]
        /\ \A e \in Class : declared[e] \subseteq declared'[e] /\ body[e] \subseteq body'[e]
        /\ \A e \in Class \ complete : declared'[e] = declared[e]
    <3>1. TypeOK /\ declared \in [Class -> SUBSET Special] /\ body \in [Class -> SUBSET Special]
      BY DEF TypeOK
    <3>2. Grown(declared, body, cs \cap complete)
      BY <2>0, <2>1, <3>1, VisitGrows
    <3> QED
      BY <3>2 DEF Grown
  <2>3. ASSUME NEW c \in Class, Home[c] = t, c \in complete
        PROVE  (Elaborated(c))'
    <3>1. c \in cs /\ src[c].user \subseteq declared[c]
      BY <2>0, <2>3 DEF TypeOK, MembersOfSource
    <3> QED
      BY <1>1, <2>1, <2>3, <3>1, VisitElaborates DEF TypeOK
  <2>4. TypeOK'
    BY <1>1, <2>2 DEF TypeOK
  <2>5. MembersOfSource'
    BY <1>1, <2>2 DEF TypeOK, MembersOfSource
  <2>6. ClosedAreDone'
    BY <1>1, <2>2, <2>3, ElaboratedStays DEF TypeOK, ClosedAreDone
  <2> QED
    BY <1>1, <1>2, <2>3, <2>4, <2>5, <2>6 DEF NoElaborateIsQuiet
<1>3. CASE ~elaborate_
  <2>1. UNCHANGED <<declared, body, forced>>
    BY <1>3 DEF HandleTopLevelDecl
  <2>2. TypeOK' /\ MembersOfSource'
    BY <1>1, <2>1 DEF TypeOK, MembersOfSource
  <2>3. ClosedAreDone'
    BY <1>1, <1>3 DEF ClosedAreDone
  <2> QED
    BY <1>1, <1>3, <2>1, <2>2, <2>3 DEF NoElaborateIsQuiet
<1> QED
  BY <1>2, <1>3 DEF TypeOK

LEMMA InstantiationKeeps ==
    ASSUME IInv, NEW c \in Class, NEW m, HandleCXXImplicitFunctionInstantiation(c, m) PROVE IInv'
<1>1. m \in Special
  BY DEF HandleCXXImplicitFunctionInstantiation, Definable, IInv, TypeOK
<1> QED
  BY <1>1, Grows DEF HandleCXXImplicitFunctionInstantiation, IInv, TypeOK

LEMMA LookUpKeeps == ASSUME IInv, NEW c \in Class, NEW m, LookUp(c, m) PROVE IInv'
<1>1. m \in Special
  BY DEF LookUp, Needs
<1> QED
  BY <1>1, Grows DEF LookUp, IInv, TypeOK

LEMMA UseKeeps == ASSUME IInv, NEW c \in Class, NEW m, Use(c, m) PROVE IInv'
<1>1. m \in Special
  BY DEF Use, Definable, IInv, TypeOK
<1> QED
  BY <1>1, Grows DEF Use, IInv, TypeOK

\* Every callback keeps the invariant.
LEMMA Inductive == IInv /\ [Next]_evars => IInv'
<1> SUFFICES ASSUME IInv, [Next]_evars PROVE IInv'
  OBVIOUS
<1>1. CASE UNCHANGED evars
  BY <1>1 DEF evars, IInv, TypeOK, MembersOfSource, ClosedAreDone, NoElaborateIsQuiet, Elaborated, Wanted
<1>2. ASSUME NEW c \in Class, Complete(c) PROVE IInv'
  BY <1>2, CompleteKeeps
<1>3. ASSUME NEW c \in Class, AddedCXXTemplateSpecialization(c) PROVE IInv'
  BY <1>3, AddedKeeps
<1>4. ASSUME NEW t \in TopDecl, HandleTopLevelDecl(t) PROVE IInv'
  BY <1>4, TopLevelKeeps
<1>5. ASSUME NEW c \in Class, NEW m \in Touched, HandleCXXImplicitFunctionInstantiation(c, m)
      PROVE IInv'
  BY <1>5, InstantiationKeeps
<1>6. ASSUME NEW c \in Class, NEW m \in Touched, LookUp(c, m) PROVE IInv'
  BY <1>6, LookUpKeeps
<1>7. ASSUME NEW c \in Class, NEW m \in Touched, Use(c, m) PROVE IInv'
  BY <1>7, UseKeeps
<1>8. CASE HandleTranslationUnit
  BY <1>8 DEF HandleTranslationUnit, IInv, TypeOK, MembersOfSource, ClosedAreDone,
              NoElaborateIsQuiet, Elaborated, Wanted
<1> QED
  BY <1>1, <1>2, <1>3, <1>4, <1>5, <1>6, <1>7, <1>8 DEF Next

\* The invariant holds in every behaviour.
THEOREM Invariance == Spec => []IInv
<1>1. Init => IInv
  BY Initially
<1>2. IInv /\ [Next]_evars => IInv'
  BY Inductive
<1> QED
  BY <1>1, <1>2, PTL DEF Spec

\* When the module is built (HandleTranslationUnit), every class of the source
\* has its implicit and defaulted members and their bodies.
THEOREM SourceClassesElaborated == Spec => []ClassesElaborated
<1>1. IInv => ClassesElaborated
  BY HomeAssumption DEF IInv, ClosedAreDone, ClassesElaborated
<1> QED
  BY <1>1, Invariance, PTL

\* --no-elaborate forces nothing: the one callback that ignores the option,
\* AddedCXXTemplateSpecialization, meets the specialization without members.
THEOREM NothingForced == Spec => []NoElaborateIsQuiet
<1>1. IInv => NoElaborateIsQuiet
  BY DEF IInv
<1> QED
  BY <1>1, Invariance, PTL

\* HandleTopLevelDecl of a template elaborates the specializations that are
\* complete by then.
THEOREM EarlySpecializations == Spec => InTime
<1> DEFINE A == \A c \in Specialization \cap complete :
                   elaborate_ /\ Home[c] \in closed' \ closed => (Elaborated(c))'
<1>1. IInv /\ [Next]_evars => A
  <2> SUFFICES ASSUME IInv, [Next]_evars, NEW c \in Specialization \cap complete,
                      elaborate_, Home[c] \in closed' \ closed
               PROVE  (Elaborated(c))'
    OBVIOUS
  <2>1. PICK t \in TopDecl : HandleTopLevelDecl(t)
    BY DEF Next, evars, Complete, AddedCXXTemplateSpecialization, LookUp, Use,
           HandleCXXImplicitFunctionInstantiation, HandleTranslationUnit
  <2>2. Home[c] = t
    BY <2>1 DEF HandleTopLevelDecl
  <2> QED
    BY <2>1, <2>2, TopLevelKeeps DEF IInv, TypeOK
<1>2. IInv /\ [Next]_evars => [A]_evars
  BY <1>1
<1> QED
  BY <1>2, Invariance, PTL DEF Spec, InTime
=============================================================================
