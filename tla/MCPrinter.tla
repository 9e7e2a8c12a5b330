----------------------------- MODULE MCPrinter -----------------------------
(***************************************************************************)
(* The printers on every AST of the bounded depth.                         *)
(***************************************************************************)
EXTENDS Printer

\* Every printer whose text is a term of the sort of the same name, and the
\* list of the declarations of a file.
AllRoots == (DOMAIN Table("cpp") \cap DOMAIN Signature["cpp"]) \cup {"Module"}

\* What module PrinterProofs takes from the table of texts.
ASSUME TableAssumption == TextsAreBalanced
=============================================================================
