---------------------------- MODULE MCElaborate ----------------------------
(***************************************************************************)
(* Class A with a class B nested in it, and a class template with a        *)
(* specialization S in a namespace of its own, which A befriends.          *)
(***************************************************************************)
EXTENDS Elaborate, TLC

CONSTANTS A, B, S, top, namespace

MCClass == {A, B, S}
MCTopDecl == {top, namespace}
MCHome == A :> top @@ B :> top @@ S :> namespace
MCNested == A :> {B} @@ B :> {} @@ S :> {}
MCSpecialization == {S}
MCBefriended == A :> {S} @@ B :> {} @@ S :> {}

Source(u, f, x) == [user |-> u, dflt |-> f, deleted |-> x]
\* Nothing declared; a copy constructor; a defaulted copy assignment, with a
\* default constructor that C++ deletes.
MCWritten ==
    {Source({}, {}, {}), Source({"copy"}, {}, {}),
     Source({"copyAssign"}, {"copyAssign"}, {"ctor"})}
\* A destructor.
MCDestructor == {Source({"dtor"}, {}, {})}
=============================================================================
