------------------------------ MODULE CoqReader ------------------------------
(***************************************************************************)
(* What a generated text must be: a term of the expected sort, read by Coq *)
(* token by token, from left to right.  The reader keeps a stack of what   *)
(* it still expects:                                                       *)
(*   <<"tok", t>>        the token t;                                      *)
(*   <<"atom">> \o sort  a term of that sort that needs no parentheses, or *)
(*                       one in parentheses;                               *)
(*   <<"term">> \o sort  what stands between the parentheses.              *)
(* Two words printed without white space between them are one other word:  *)
(* the reader does not accept them (string literals likewise: two adjacent *)
(* quotes are an escaped quote).                                           *)
(***************************************************************************)
EXTENDS CoqSyntax, SequencesExt

VARIABLES
    mode,      \* which parser the file imports
    token,     \* the token read last, "" before the first
    gap,       \* whether white space follows that token
    stack      \* what is still expected, the top first

rvars == <<mode, token, gap, stack>>

Punctuation == {"(", ")", ",", "::", ""}
Token == Words \cup Punctuation \cup {"nil", "Some", "None", "str", "num"}

\* Whether token t, written right behind token p, is lexed as another token.
Glued(p, t) ==
    \/ p = "str" /\ t = "str"
    \/ p = "num" /\ t = "num"
    \/ p \notin Punctuation \cup {"str", "num"} /\ t \notin Punctuation \cup {"str"}

Atoms(sorts) == [i \in DOMAIN sorts |-> <<"atom">> \o sorts[i]]

\* The components of a tuple, with commas between them; a list among them
\* stands in parentheses.
TupleFrames(sorts) ==
    [i \in 1..(2 * Len(sorts) - 1) |->
        LET sort == sorts[(i + 1) \div 2]
        IN  IF i % 2 = 0 THEN <<"tok", ",">>
            ELSE <<IF sort[1] = "list" THEN "atom" ELSE "term">> \o sort]

\* Behind an opening parenthesis where a term of a sort is expected.
Opened(sort) ==
    (IF sort[1] \in DOMAIN Tuples THEN TupleFrames(Tuples[sort[1]])
     ELSE <<<<"term">> \o sort>>) \o <<<<"tok", ")">>>>

\* The arguments that word t takes where a term of a sort is expected, in a
\* set: empty when t does not belong there.
Headed(m, sort, t) ==
    CASE sort[1] = "option" -> IF t = "None" THEN {<<>>}
                               ELSE IF t = "Some" THEN {<<S(sort[2])>>} ELSE {}
      [] sort[1] = "list" -> IF t = "nil" THEN {<<>>}
                             ELSE IF sort[2] = "N" /\ t \in DOMAIN ListHeads
                             THEN {ListHeads[t]} ELSE {}
      [] sort[1] \in DOMAIN Tuples -> {}
      [] OTHER -> LET sig == Signature[m][sort[1]]
                  IN  IF sort[1] \in DOMAIN Literals /\ t = Literals[sort[1]]
                      THEN {<<>>}
                      ELSE IF t \in DOMAIN sig THEN {sig[t]} ELSE {}

\* The frames that replace frame f when t is read there, in a set.
After(m, f, t) ==
    LET sort == Tail(f)
        item == Tail(sort)                    \* the sort of a list's elements
        rest == <<<<"tok", "::">>, f>>
        args == Headed(m, sort, t)
    IN  CASE f[1] = "tok" -> IF t = f[2] THEN {<<>>} ELSE {}
          [] f[1] = "atom" -> IF t = "(" THEN {Opened(sort)} ELSE args \cap {<<>>}
          [] f[1] = "term" /\ sort[1] = "list" /\ args = {} ->
                 IF t = "(" THEN {Opened(item) \o rest}
                 ELSE {rest : x \in Headed(m, item, t) \cap {<<>>}}
          [] OTHER -> IF t = "(" THEN {Opened(sort)} ELSE {Atoms(a) : a \in args}

Space ==
    /\ gap' = TRUE
    /\ UNCHANGED <<mode, token, stack>>

Read(t) ==
    /\ token' = t
    /\ stack # <<>>
    /\ gap \/ ~Glued(token, t)
    /\ \E fs \in After(mode, Head(stack), t) : stack' = fs \o Tail(stack)
    /\ gap' = FALSE
    /\ UNCHANGED mode

Init ==
    /\ mode \in Modes
    /\ token = ""
    /\ gap \in BOOLEAN
    /\ \E s \in DOMAIN Signature[mode] : stack \in {<<<<"atom", s>>>>, <<<<"atom", "list", s>>>>}

Next == Space \/ (token' \in Token /\ Read(token'))

Spec == Init /\ [][Next]_rvars
=============================================================================
