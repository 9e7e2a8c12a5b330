------------------------------ MODULE Closure ------------------------------
(***************************************************************************)
(* What can be reached in a graph.  The properties of the walks over       *)
(* clang's declarations, types and names compare what a walk has done with *)
(* what there is to be reached, whatever the order of the walk.            *)
(***************************************************************************)
EXTENDS Naturals, Sequences

\* One step; succ[x] is the set of the successors of x.
Expand(succ, S) == UNION {{x} \cup succ[x] : x \in S}

\* What at most n steps from S lead to.
Reached(succ, S, n) ==
  LET R[i \in 0 .. n] == IF i = 0 THEN S ELSE Expand(succ, R[i - 1])
  IN  R[n]

\* The members of s that are in T, in their order.
Among(s, T) ==
  LET F[i \in 0 .. Len(s)] ==
        IF i = 0 THEN <<>> ELSE IF s[i] \in T THEN Append(F[i - 1], s[i]) ELSE F[i - 1]
  IN  F[Len(s)]
=============================================================================
