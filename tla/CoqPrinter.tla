----------------------------- MODULE CoqPrinter -----------------------------
(***************************************************************************)
(* The vocabulary in which the printers are written: what a visitor asks   *)
(* the CoqPrinter and its Formatter to do, as a sequence of items in the   *)
(* order of the calls.  A visitor that chooses by the shape of the node it *)
(* visits is the SET of the sequences it can print.                        *)
(*   tok      output() << t, for one token                                 *)
(*   nbsp, line, lparen, rparen   the manipulators of fmt::                *)
(*   call     another printer, named by what it prints                     *)
(*   opt      a printer applied under Some when the node is there, else    *)
(*            None                                                         *)
(*   list     CoqPrinter::list: nil, or the elements in parentheses        *)
(*   many     elements that print their own cons, any number of them       *)
(*   filter   CoqPrinter::list_filter                                      *)
(*   die      CoqPrinter::die, logging::die, or an always_assert that some *)
(*            AST fails; those on shapes that clang never builds are left  *)
(*            out, and those on the indentation are in module Printer      *)
(* The number of an item is the nesting still allowed below it.            *)
(***************************************************************************)
EXTENDS Sequences, SequencesExt

Item(k, v) == <<[k |-> k, v |-> v, n |-> 0]>>

Tok(t) == Item("tok", t)
Str == Tok("str")                      \* CoqPrinter::str, a quoted literal
Num == Tok("num")
Bool == Tok("bool")
nbsp == Item("nbsp", "")
line == Item("line", "")
lparen == Item("lparen", "")
rparen == Item("rparen", "")
Call(p) == Item("call", p)
Opt(p) == Item("opt", p)
List(p) == Item("list", p)
Many(p) == Item("many", p)
Filter(p) == Item("filter", p)
Die == Item("die", "")

\* ctor(c) and the guards of it: on a line of its own, or not (line = false).
ctor(c) == line \o lparen \o Tok(c) \o nbsp
ictor(c) == lparen \o Tok(c) \o nbsp
end_ctor == rparen

Ctor(c, args) == ctor(c) \o args \o end_ctor
ICtor(c, args) == ictor(c) \o args \o end_ctor
\* A constructor and its arguments with nbsp between them, the commonest form.
\* args is a sequence of item sequences.
Spaced(args) ==
    FoldLeft(LAMBDA acc, a : IF acc = <<>> THEN a ELSE acc \o nbsp \o a, <<>>, args)
App(c, args) == Ctor(c, Spaced(args))
IApp(c, args) == ICtor(c, Spaced(args))

some(x) == Ctor("Some", x)
none == Tok("None")

\* begin_tuple, next_tuple and end_tuple: bare parentheses, which leave the
\* indentation alone.
Raw(x) == Tok("(") \o x \o Tok(")")
next_tuple == Tok(",") \o nbsp
Tuple2(a, b) == Raw(a \o next_tuple \o b)

cons == nbsp \o Tok("::") \o nbsp
begin_list == lparen
end_list == Tok("nil") \o rparen
\* An explicit list of elements that print their own cons.
ListOf(xs) == begin_list \o xs \o end_list

\* The texts of list_range on up to two elements.
list_range(p) ==
    {Tok("nil"),
     ListOf(Call(p) \o cons),
     ListOf(Call(p) \o cons \o Call(p) \o cons)}

\* list_range_filter: an element that fn refuses prints nothing.
list_range_filter(p) == list_range(p) \cup {ListOf(<<>>)}

\* A loop between begin_list and end_list, up to two rounds.
loop(p) == {<<>>, Call(p), Call(p) \o Call(p)}

optional(p) == {none, some(Call(p))}
=============================================================================
