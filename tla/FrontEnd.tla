------------------------------ MODULE FrontEnd ------------------------------
(***************************************************************************)
(* parse of src/parser.py: the lexer, then the parser on what it left.     *)
(* The sources are Texts and programs written out by Printer; a text that  *)
(* parses is printed and read again.                                       *)
(***************************************************************************)
EXTENDS Parser, Printer

CONSTANTS
  Programs,   \* pairs of a layout and a sequence of declarations to be printed
  Layouts     \* the layouts texts that parse are printed in: [semi, gap], the optional
              \* semicolons and what separates statements

VARIABLES tree, origin   \* what was parsed; what the source was printed from

vars == <<lexVars, tree, origin>>

NoTree == << >>   \* also the tree of an empty program

-----------------------------------------------------------------------------
Init ==
  /\ \/ LexInit(Texts) /\ origin = NoTree
     \/ \E p \in Programs : LexInit({Chars(ShowDecls(p[1], p[2]))}) /\ origin = p[2]
  /\ tree = NoTree

Lex == LexNext /\ UNCHANGED <<tree, origin>>

Parse ==
  /\ phase = "lexed"
  /\ LET r == ParseProgram
     IN  /\ phase' = IF r.pos = 0 THEN "rejected" ELSE "parsed"
         /\ tree' = r.node
  /\ UNCHANGED <<src, i, line, col, tokens, origin>>

PrintAgain ==
  /\ phase = "parsed"
  /\ origin = NoTree
  /\ origin' = tree
  /\ tree' = NoTree
  /\ \E lay \in Layouts : src' = Chars(ShowDecls(lay, tree))
  /\ i' = 1 /\ line' = 1 /\ col' = 1 /\ tokens' = << >> /\ phase' = "lexing"

Next == Lex \/ Parse \/ PrintAgain

Spec == Init /\ [][Next]_vars

-----------------------------------------------------------------------------
\* What was printed from a tree, with or without the optional semicolons, with line breaks
\* or comments between the statements, is read back as that tree: brackets are needed
\* nowhere but where the grammar says (parser.py:3-11, :334-389).
ReadsBack ==
  origin # NoTree => /\ phase \notin {"failed", "rejected"}
                     /\ phase = "parsed" => tree = origin

=============================================================================
