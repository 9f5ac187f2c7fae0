------------------------------- MODULE Lexer --------------------------------
(***************************************************************************)
(* The lexer: tokenize of src/lexer.py, one action for each way an         *)
(* iteration of its loop can go.  The source is a sequence of ASCII        *)
(* characters; i is the position of the next one, counted from 1.          *)
(*                                                                         *)
(* A token keeps where it began (at) and ended (to), besides the kind,     *)
(* text, line and column of the code; the kind of a keyword is "KEY" here, *)
(* and its text tells which.                                               *)
(***************************************************************************)
EXTENDS Integers, Sequences, SequencesExt, FiniteSetsExt

CONSTANT Texts   \* the sources

ASSUME TextsAssumption == \A text \in Texts : text \in Seq(STRING)

VARIABLES src, i, line, col, tokens, phase

lexVars == <<src, i, line, col, tokens, phase>>

Keywords ==
  {"lib", "rule", "when", "spawn", "retract", "emit", "if", "then", "else", "seq", "par", "choice",
   "loop", "fun", "and", "or", "not", "forall", "import", "try", "catch", "raise", "type", "match",
   "enum"}
TwoCharOps ==
  {<<"=", ">">>, <<":", "=">>, <<"=", "=">>, <<"!", "=">>, <<"<", "=">>, <<">", "=">>, <<"-", ">">>}
OneCharOps == {"+", "-", "*", "/", "<", ">"}
Punctuation == {"{", "}", "(", ")", "[", "]", ",", ".", ":", "=", "|", ";"}

Blanks == {" ", "\t", "\r"}
Digits == {"0", "1", "2", "3", "4", "5", "6", "7", "8", "9"}
Letters == {"a", "b", "c", "d", "e", "f", "g", "h", "i", "j", "k", "l", "m",
            "n", "o", "p", "q", "r", "s", "t", "u", "v", "w", "x", "y", "z",
            "A", "B", "C", "D", "E", "F", "G", "H", "I", "J", "K", "L", "M",
            "N", "O", "P", "Q", "R", "S", "T", "U", "V", "W", "X", "Y", "Z"}
WordStart == Letters \cup {"_"}
WordChars == WordStart \cup Digits
Quote == "\""

\* Strings and their characters.
Chars(text) == [k \in 1 .. Len(text) |-> SubSeq(text, k, k)]
Spell(chars) == FoldLeft(LAMBDA text, c : text \o c, "", chars)

-----------------------------------------------------------------------------
At(k) == src[k]
Slice(j, k) == SubSeq(src, j, k - 1)   \* src[j:k] of Python
End == Len(src) + 1

\* The first position from k on whose character is in set, or the end.
FirstIn(k, set) == Min({j \in k .. Len(src) : At(j) \in set} \cup {End})
FirstNotIn(k, set) == Min({j \in k .. Len(src) : At(j) \notin set} \cup {End})

\* advance, as often as it takes to stand at j: a line break resets the column,
\* and only the column.
ColAt(j) ==
  LET breaks == {k \in i .. j - 1 : At(k) = "\n"}
  IN  IF breaks = {} THEN col + (j - i) ELSE j - Max(breaks)
Advance(j) ==
  /\ i' = j
  /\ col' = ColAt(j)
  /\ UNCHANGED <<src, phase>>

Skip(j) == Advance(j) /\ UNCHANGED <<line, tokens>>

Token(kind, text, j) ==
  [kind |-> kind, text |-> text, line |-> line, col |-> col, at |-> i, to |-> j]
Take(kind, text, j) ==
  /\ Advance(j)
  /\ tokens' = Append(tokens, Token(kind, text, j))
  /\ UNCHANGED line

Fail ==
  /\ phase' = "failed"
  /\ UNCHANGED <<src, i, line, col, tokens>>

Reading(set) == phase = "lexing" /\ i < End /\ At(i) \in set

-----------------------------------------------------------------------------
Blank == Reading(Blanks) /\ Skip(i + 1)

NewLine ==
  /\ Reading({"\n"})
  /\ line' = line + 1
  /\ Advance(i + 1)
  /\ UNCHANGED tokens

CommentAndBreak == Reading({"#"}) /\ Skip(Min({FirstIn(i, {"\n"}) + 1, End}))
Comment == Reading({"#"}) /\ Skip(FirstIn(i, {"\n"}))

BehindBackslash(j) == At(j - 1) = "\\"
\* A backslash takes the next character with it, whatever it is.
Escaped(j) == (j - Max({k \in i .. j - 1 : At(k) # "\\"})) % 2 = 0
Closing == {j \in i + 1 .. Len(src) : At(j) = Quote /\ ~Escaped(j)}

Unescape(c) == CASE c = "n" -> "\n" [] c = "t" -> "\t" [] OTHER -> c
StringValue(chars) ==
  FoldLeft(LAMBDA v, c : IF v.esc THEN [out |-> v.out \o Unescape(c), esc |-> FALSE]
                         ELSE IF c = "\\" THEN [v EXCEPT !.esc = TRUE]
                         ELSE [v EXCEPT !.out = @ \o c],
           [out |-> "", esc |-> FALSE], chars).out

StringToken ==
  /\ Reading({Quote})
  /\ Closing # {}
  /\ Take("STR", StringValue(Slice(i + 1, Min(Closing))), Min(Closing) + 1)

Unclosed == Reading({Quote}) /\ Closing = {} /\ Fail

\* A point belongs to the number if a digit follows it.
FractionAt(j) == j + 1 < End /\ At(j) = "." /\ At(j + 1) \in Digits
Number ==
  /\ Reading(Digits)
  /\ LET j == FirstNotIn(i, Digits)
         k == FirstNotIn(j + 1, Digits)
     IN  IF FractionAt(j) THEN Take("FLOAT", Spell(Slice(i, k)), k)
                          ELSE Take("INT", Spell(Slice(i, j)), j)

Word ==
  /\ Reading(WordStart)
  /\ LET j == FirstNotIn(i, WordChars)
         word == Spell(Slice(i, j))
     IN  Take(IF word \in Keywords THEN "KEY" ELSE "NAME", word, j)

TwoAhead == Slice(i, Min({i + 2, End}))
Other == phase = "lexing" /\ i < End /\ At(i) \notin Blanks \cup {"\n", "#", Quote} \cup WordChars

TwoChar == Other /\ TwoAhead \in TwoCharOps /\ Take("OP", Spell(TwoAhead), i + 2)
OneChar ==
  /\ Other
  /\ TwoAhead \notin TwoCharOps
  /\ At(i) \in OneCharOps \cup Punctuation
  /\ Take("OP", At(i), i + 1)
Unexpected ==
  /\ Other
  /\ TwoAhead \notin TwoCharOps
  /\ At(i) \notin OneCharOps \cup Punctuation
  /\ Fail

EndOfFile ==
  /\ phase = "lexing"
  /\ i = End
  /\ tokens' = Append(tokens, Token("EOF", "<eof>", i))
  /\ phase' = "lexed"
  /\ UNCHANGED <<src, i, line, col>>

LexInit(sources) ==
  /\ src \in sources
  /\ i = 1
  /\ line = 1
  /\ col = 1
  /\ tokens = << >>
  /\ phase = "lexing"

LexNext ==
  \/ Blank \/ NewLine \/ Comment
  \/ StringToken \/ Number \/ Word \/ TwoChar \/ OneChar
  \/ Unclosed \/ Unexpected \/ EndOfFile

LexSpec == LexInit(Texts) /\ [][LexNext]_lexVars

-----------------------------------------------------------------------------
\* The lexemes of the language, as a reference for the lexer: by what they are, not by how
\* far one reads.
AllIn(text, set) == \A k \in DOMAIN text : text[k] \in set
IsNumeral(text) ==
  /\ AllIn(text, Digits \cup {"."})
  /\ \A p \in DOMAIN text :
       text[p] = "." => p \notin {1, Len(text)} /\ \A q \in DOMAIN text : text[q] = "." => q = p
IsStringLexeme(text) ==
  LET n == Len(text)
      Behind(k) == {j \in 2 .. k - 1 : \A h \in j .. k - 1 : text[h] = "\\"}   \* its backslashes
  IN  /\ n >= 2
      /\ \A k \in 2 .. n : text[k] = Quote /\ Cardinality(Behind(k)) % 2 = 0 <=> k = n
IsLexeme(text) ==
  CASE text[1] \in WordStart -> AllIn(text, WordChars)
    [] text[1] \in Digits -> IsNumeral(text)
    [] text[1] = Quote -> IsStringLexeme(text)
    [] OTHER -> text \in TwoCharOps \cup {<<c>> : c \in OneCharOps \cup Punctuation}

\* What starts at k and is a lexeme: the positions after it.
LexemesAt(k) == {j \in k + 1 .. End : IsLexeme(Slice(k, j))}

\* The token read last, if one was; every token is that at some time.
Newest == IF tokens = << >> THEN {} ELSE {k \in {Len(tokens)} : tokens[k].kind # "EOF"}
EndBefore(k) == IF k = 1 THEN 1 ELSE tokens[k - 1].to

\* What stands before a token, or between the last one and where the lexer is, is blank or
\* a comment.
OnlyBlanks(from, to) ==
  \A k \in from .. to - 1 :
    \/ At(k) \in Blanks \cup {"\n"}
    \/ \E h \in from .. k : At(h) = "#" /\ \A g \in h .. k : At(g) # "\n"

\* The tokens are the source, cut into the longest lexemes there are: a two-character
\* operator is never cut in two, a number keeps its fraction, a quote behind a backslash
\* closes nothing, nothing but blanks and comments is passed over, and where the lexer gives
\* up no lexeme starts (lexer.py:53-66, :70-139).
CutIntoLongest ==
  /\ \A k \in Newest : /\ OnlyBlanks(EndBefore(k), tokens[k].at)
                       /\ tokens[k].to = Max(LexemesAt(tokens[k].at))
  /\ OnlyBlanks(EndBefore(Len(tokens) + 1), i)
  /\ phase = "failed" => LexemesAt(i) = {}

\* The line and column of a token are those of its first character, as long as no string
\* before it runs over a line: the loop counts a line break between tokens only
\* (lexer.py:43-61, :74-86).
LinesBefore(k) == {h \in 1 .. k - 1 : At(h) = "\n"}
PositionsAreExact ==
  \A k \in Newest :
    (\A h \in 1 .. k - 1 : \A g \in tokens[h].at .. tokens[h].to - 1 : At(g) # "\n")
    => /\ tokens[k].line = 1 + Cardinality(LinesBefore(tokens[k].at))
       /\ tokens[k].col = tokens[k].at - Max(LinesBefore(tokens[k].at) \cup {0})

=============================================================================
