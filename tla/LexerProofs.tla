---------------------------- MODULE LexerProofs -----------------------------
(***************************************************************************)
(* What the lexer does with every source: the tokens it cuts are the       *)
(* longest lexemes there are, and it knows their lines and columns.        *)
(***************************************************************************)
EXTENDS Lexer, FiniteSetTheorems, SequenceTheorems, WellFoundedInduction, TLAPS

-----------------------------------------------------------------------------
(* Lemmas about sets of numbers.                                           *)

LEMMA LeastNumber ==
  ASSUME NEW S \in SUBSET Nat, S # {}
  PROVE  \E m \in S : \A s \in S : m <= s
<1> DEFINE Less == {p \in Nat \X Nat : p[1] < p[2]}
<1>1. IsWellFoundedOn(Less, Nat)
  BY NatLessThanWellFounded DEF OpToRel
<1> HIDE DEF Less
<1>2. PICK m \in S : \A s \in S : ~(<<s, m>> \in Less)
  BY <1>1, WFMin
<1>3. \A s \in S : <<s, m>> \in Nat \X Nat
  OBVIOUS
<1>4. \A s \in S : ~(s < m)
  BY <1>2, <1>3 DEF Less
<1> QED
  BY <1>4

LEMMA MinOfSet ==
  ASSUME NEW S \in SUBSET Nat, S # {}
  PROVE  Min(S) \in S /\ \A s \in S : Min(S) <= s
BY LeastNumber DEF Min

LEMMA MaxOfSet ==
  ASSUME NEW S \in SUBSET Nat, NEW n \in Nat, \A s \in S : s <= n, S # {}
  PROVE  Max(S) \in S /\ \A s \in S : s <= Max(S)
<1> DEFINE D == {d \in Nat : n - d \in S}
<1>1. \A s \in S : n - s \in D
  OBVIOUS
<1>2. D # {}
  BY <1>1
<1>3. PICK d \in D : \A e \in D : d <= e
  BY <1>2, LeastNumber
<1>4. n - d \in S /\ \A s \in S : n - d >= s
  BY <1>1, <1>3
<1> QED
  BY <1>4 DEF Max

LEMMA MaxIs ==
  ASSUME NEW S \in SUBSET Nat, NEW m \in S, \A s \in S : s <= m
  PROVE  Max(S) = m
<1>1. m \in Nat
  OBVIOUS
<1>2. Max(S) \in S /\ \A s \in S : s <= Max(S)
  BY <1>1, MaxOfSet
<1>3. m <= Max(S) /\ Max(S) <= m /\ Max(S) \in Nat
  BY <1>2
<1> QED
  BY <1>1, <1>3

LEMMA MinIs ==
  ASSUME NEW S \in SUBSET Nat, NEW m \in S, \A s \in S : m <= s
  PROVE  Min(S) = m
<1>1. m \in Nat
  OBVIOUS
<1>2. Min(S) \in S /\ \A s \in S : Min(S) <= s
  BY MinOfSet
<1>3. m <= Min(S) /\ Min(S) <= m /\ Min(S) \in Nat
  BY <1>2
<1> QED
  BY <1>1, <1>3

-----------------------------------------------------------------------------
(* The source and the positions in it.                                     *)

\* The kinds of characters, of which no character has two.
LEMMA KindsOfCharacters ==
  /\ \A c \in Digits : c \in WordChars /\ c \notin WordStart /\ c # "." /\ c # Quote /\ c # "#"
                      /\ c # "\n" /\ c \notin Blanks
  /\ \A c \in WordStart : c \in WordChars /\ c # Quote /\ c # "." /\ c # "#" /\ c # "\n" /\ c \notin Blanks
  /\ Quote \notin WordStart /\ Quote \notin Digits /\ Quote # "\\" /\ Quote # "#"
BY DEF WordChars, WordStart, Letters, Digits, Blanks, Quote

SourceInv == src \in Seq(STRING) /\ i \in 1 .. End

LEMMA SliceIs ==
  ASSUME src \in Seq(STRING), NEW j \in 1 .. End, NEW k \in j .. End
  PROVE  /\ Slice(j, k) \in Seq(STRING)
         /\ Len(Slice(j, k)) = k - j
         /\ DOMAIN Slice(j, k) = 1 .. k - j
         /\ \A p \in 1 .. k - j : Slice(j, k)[p] = At(j + p - 1)
<1> DEFINE n == k - 1
<1>1. Len(src) \in Nat /\ j \in Nat /\ k \in Nat /\ End = Len(src) + 1
  BY LenProperties DEF End
<1>2. n \in Int /\ j \in Int /\ \A p \in j .. n : p \in 1 .. Len(src)
  BY <1>1
<1>3. \A p \in j .. n : src[p] \in STRING
  BY <1>2, ElementOfSeq
<1> HIDE DEF n
<1>4. /\ SubSeq(src, j, n) \in Seq(STRING)
      /\ Len(SubSeq(src, j, n)) = IF j <= n THEN n - j + 1 ELSE 0
      /\ \A p \in 1 .. n - j + 1 : SubSeq(src, j, n)[p] = src[j + p - 1]
  BY <1>2, <1>3, SubSeqProperties, SMTT(30)
<1>5. Len(SubSeq(src, j, n)) = k - j /\ n - j + 1 = k - j
  BY <1>1, <1>4 DEF n
<1>6. DOMAIN SubSeq(src, j, n) = 1 .. k - j
  BY <1>4, <1>5, LenProperties
<1>7. Slice(j, k) = SubSeq(src, j, n)
  BY DEF Slice, n
<1> QED
  BY <1>4, <1>5, <1>6, <1>7 DEF At

LEMMA FirstInIs ==
  ASSUME src \in Seq(STRING), NEW k \in 1 .. End, NEW set
  PROVE  /\ FirstIn(k, set) \in k .. End
         /\ \A j \in k .. FirstIn(k, set) - 1 : At(j) \notin set
         /\ FirstIn(k, set) = End \/ At(FirstIn(k, set)) \in set
<1> DEFINE S == {j \in k .. Len(src) : At(j) \in set} \cup {End}
<1>1. Len(src) \in Nat /\ k \in Nat /\ End = Len(src) + 1
  BY LenProperties DEF End
<1>2. S \in SUBSET Nat /\ S # {}
  BY <1>1
<1>3. Min(S) \in S /\ \A s \in S : Min(S) <= s
  BY <1>2, MinOfSet
<1>4. FirstIn(k, set) = Min(S)
  BY DEF FirstIn
<1>5. Min(S) \in k .. End /\ (Min(S) = End \/ At(Min(S)) \in set)
  BY <1>1, <1>3
<1>6. \A j \in k .. Min(S) - 1 : j \in k .. Len(src) /\ j \notin S
  BY <1>1, <1>3, <1>5
<1>7. \A j \in k .. Min(S) - 1 : At(j) \notin set
  BY <1>6
<1> HIDE DEF S
<1> QED
  BY <1>4, <1>5, <1>7

LEMMA FirstNotInIs ==
  ASSUME src \in Seq(STRING), NEW k \in 1 .. End, NEW set
  PROVE  /\ FirstNotIn(k, set) \in k .. End
         /\ \A j \in k .. FirstNotIn(k, set) - 1 : At(j) \in set
         /\ FirstNotIn(k, set) = End \/ At(FirstNotIn(k, set)) \notin set
<1> DEFINE S == {j \in k .. Len(src) : At(j) \notin set} \cup {End}
<1>1. Len(src) \in Nat /\ k \in Nat /\ End = Len(src) + 1
  BY LenProperties DEF End
<1>2. S \in SUBSET Nat /\ S # {}
  BY <1>1
<1>3. Min(S) \in S /\ \A s \in S : Min(S) <= s
  BY <1>2, MinOfSet
<1>4. FirstNotIn(k, set) = Min(S)
  BY DEF FirstNotIn
<1>5. Min(S) \in k .. End /\ (Min(S) = End \/ At(Min(S)) \notin set)
  BY <1>1, <1>3
<1>6. \A j \in k .. Min(S) - 1 : j \in k .. Len(src) /\ j \notin S
  BY <1>1, <1>3, <1>5
<1>7. \A j \in k .. Min(S) - 1 : At(j) \in set
  BY <1>6
<1> HIDE DEF S
<1> QED
  BY <1>4, <1>5, <1>7
-----------------------------------------------------------------------------
(* Each kind of token takes the longest lexeme from where the lexer is.    *)

\* j ends the longest lexeme that starts at i.
Longest(j) == j \in LexemesAt(i) /\ \A m \in LexemesAt(i) : m <= j

\* What is a lexeme at i, told by the character there.
LEMMA LexemesAtIs ==
  ASSUME SourceInv, i < End, NEW m \in i + 1 .. End
  PROVE  /\ At(i) \in WordStart => (m \in LexemesAt(i) <=> \A p \in i .. m - 1 : At(p) \in WordChars)
         /\ At(i) \in Digits => (m \in LexemesAt(i) <=> IsNumeral(Slice(i, m)))
         /\ At(i) = Quote => (m \in LexemesAt(i) <=> IsStringLexeme(Slice(i, m)))
         /\ At(i) \notin WordChars \cup {Quote} =>
              (m \in LexemesAt(i) <=> Slice(i, m) \in TwoCharOps \cup {<<c>> : c \in OneCharOps \cup Punctuation})
<1> DEFINE text == Slice(i, m)
<1>1. Len(src) \in Nat /\ i \in Nat /\ m \in Nat /\ End = Len(src) + 1 /\ i < m
  BY LenProperties DEF End, SourceInv
<1>2. /\ DOMAIN text = 1 .. m - i
      /\ \A p \in 1 .. m - i : text[p] = At(i + p - 1)
  BY <1>1, SliceIs DEF SourceInv
<1>3. text[1] = At(i)
  BY <1>1, <1>2
<1>4. m \in LexemesAt(i) <=> IsLexeme(text)
  BY DEF LexemesAt
<1>5. AllIn(text, WordChars) <=> \A p \in i .. m - 1 : At(p) \in WordChars
  <2>1. \A p \in i .. m - 1 : p - i + 1 \in 1 .. m - i /\ i + (p - i + 1) - 1 = p
    BY <1>1
  <2>2. \A p \in 1 .. m - i : i + p - 1 \in i .. m - 1
    BY <1>1
  <2> HIDE DEF text
  <2> QED
    BY <1>2, <2>1, <2>2 DEF AllIn
<1> HIDE DEF text
<1>6. text[1] \in WordStart => (IsLexeme(text) <=> AllIn(text, WordChars))
  BY KindsOfCharacters DEF IsLexeme
<1>7. text[1] \in Digits => (IsLexeme(text) <=> IsNumeral(text))
  BY KindsOfCharacters DEF IsLexeme
<1>8. text[1] = Quote => (IsLexeme(text) <=> IsStringLexeme(text))
  BY KindsOfCharacters DEF IsLexeme
<1>9. text[1] \notin WordChars \cup {Quote} =>
        (IsLexeme(text) <=> text \in TwoCharOps \cup {<<c>> : c \in OneCharOps \cup Punctuation})
  BY DEF IsLexeme, WordChars
<1> QED
  BY <1>3, <1>4, <1>5, <1>6, <1>7, <1>8, <1>9 DEF text

LEMMA WordIsLongest ==
  ASSUME SourceInv, Reading(WordStart)
  PROVE  Longest(FirstNotIn(i, WordChars))
<1> DEFINE j == FirstNotIn(i, WordChars)
<1>1. Len(src) \in Nat /\ i \in 1 .. End /\ i < End /\ End = Len(src) + 1 /\ src \in Seq(STRING)
  BY LenProperties DEF End, SourceInv, Reading
<1>2. At(i) \in WordStart /\ At(i) \in WordChars
  BY KindsOfCharacters DEF Reading
<1>3. j \in i .. End /\ (\A p \in i .. j - 1 : At(p) \in WordChars) /\ (j = End \/ At(j) \notin WordChars)
  BY <1>1, FirstNotInIs
<1> HIDE DEF j
<1>4. j \in i + 1 .. End
  BY <1>1, <1>2, <1>3
<1>5. j \in LexemesAt(i)
  BY <1>1, <1>2, <1>3, <1>4, LexemesAtIs
<1>6. ASSUME NEW m \in LexemesAt(i), m > j
      PROVE  FALSE
  <2>1. m \in i + 1 .. End
    BY DEF LexemesAt
  <2>2. \A p \in i .. m - 1 : At(p) \in WordChars
    BY <1>1, <1>2, <2>1, LexemesAtIs
  <2> QED
    BY <1>1, <1>3, <1>6, <2>1, <2>2
<1>7. \A m \in LexemesAt(i) : m \in Nat
  BY <1>1 DEF LexemesAt
<1> QED
  BY <1>1, <1>4, <1>5, <1>6, <1>7 DEF Longest, j

\* A numeral: digits, with at most one point among them and not at either end.
LEMMA NumeralIs ==
  ASSUME SourceInv, NEW m \in i + 1 .. End
  PROVE  IsNumeral(Slice(i, m)) <=>
           /\ \A p \in i .. m - 1 : At(p) \in Digits \cup {"."}
           /\ \A p \in i .. m - 1 : At(p) = "." =>
                p \notin {i, m - 1} /\ \A q \in i .. m - 1 : At(q) = "." => q = p
<1> DEFINE text == Slice(i, m)
           Src(p) == i + p - 1
           Pos(p) == p - i + 1
<1>1. Len(src) \in Nat /\ i \in Nat /\ m \in Nat /\ End = Len(src) + 1 /\ i < m
  BY LenProperties DEF End, SourceInv
<1>2. /\ DOMAIN text = 1 .. m - i
      /\ Len(text) = m - i
      /\ \A p \in 1 .. m - i : text[p] = At(Src(p))
  BY <1>1, SliceIs DEF SourceInv
<1>3. \A p \in i .. m - 1 : Pos(p) \in 1 .. m - i /\ Src(Pos(p)) = p /\ text[Pos(p)] = At(p)
  <2>1. \A p \in i .. m - 1 : Pos(p) \in 1 .. m - i /\ Src(Pos(p)) = p
    BY <1>1
  <2> HIDE DEF Pos, Src, text
  <2> QED
    BY <2>1, <1>2
<1>4. \A p \in 1 .. m - i : Src(p) \in i .. m - 1 /\ (Src(p) \in {i, m - 1} <=> p \in {1, m - i})
  BY <1>1
<1>5. \A p, q \in 1 .. m - i : Src(p) = Src(q) => p = q
  BY <1>1
<1>6. \A p \in i .. m - 1 : p \in {i, m - 1} <=> Pos(p) \in {1, m - i}
  BY <1>1
<1>7. \A p, q \in i .. m - 1 : Pos(p) = Pos(q) => p = q
  BY <1>1
<1> HIDE DEF text, Src, Pos
<1>8. AllIn(text, Digits \cup {"."}) <=> \A p \in i .. m - 1 : At(p) \in Digits \cup {"."}
  BY <1>2, <1>3, <1>4 DEF AllIn
<1> DEFINE InText == \A p \in 1 .. m - i : text[p] = "." =>
                       p \notin {1, m - i} /\ \A q \in 1 .. m - i : text[q] = "." => q = p
           InSrc == \A p \in i .. m - 1 : At(p) = "." =>
                      p \notin {i, m - 1} /\ \A q \in i .. m - 1 : At(q) = "." => q = p
<1>9. InText => InSrc
  BY <1>2, <1>3, <1>6, <1>7
<1>10. InSrc => InText
  BY <1>2, <1>4, <1>5
<1>11. IsNumeral(text) <=> AllIn(text, Digits \cup {"."}) /\ InText
  BY <1>2 DEF IsNumeral
<1> QED
  BY <1>8, <1>9, <1>10, <1>11 DEF text

LEMMA NumberIsLongest ==
  ASSUME SourceInv, Reading(Digits)
  PROVE  LET j == FirstNotIn(i, Digits)
         IN  Longest(IF FractionAt(j) THEN FirstNotIn(j + 1, Digits) ELSE j)
<1> DEFINE j == FirstNotIn(i, Digits)
           k == FirstNotIn(j + 1, Digits)
<1>1. Len(src) \in Nat /\ i \in 1 .. End /\ i < End /\ End = Len(src) + 1 /\ src \in Seq(STRING)
  BY LenProperties DEF End, SourceInv, Reading
<1>2. At(i) \in Digits /\ "." \notin Digits
  BY KindsOfCharacters DEF Reading
<1>3. j \in i .. End /\ (\A p \in i .. j - 1 : At(p) \in Digits) /\ (j = End \/ At(j) \notin Digits)
  BY <1>1, FirstNotInIs
<1>4. FractionAt(j) => /\ k \in j + 1 .. End
                       /\ \A p \in j + 1 .. k - 1 : At(p) \in Digits
                       /\ k = End \/ At(k) \notin Digits
  <2>1. SUFFICES ASSUME FractionAt(j) PROVE j + 1 \in 1 .. End
    BY <1>1, FirstNotInIs
  <2> HIDE DEF j
  <2> QED
    BY <1>1, <1>3, <2>1 DEF FractionAt
<1> HIDE DEF j, k
<1>5. \A m \in LexemesAt(i) : /\ m \in i + 1 .. End
                              /\ \A p \in i .. m - 1 : At(p) \in Digits \cup {"."}
                              /\ \A p \in i .. m - 1 : At(p) = "." =>
                                   p \notin {i, m - 1} /\ \A q \in i .. m - 1 : At(q) = "." => q = p
  <2>1. TAKE m \in LexemesAt(i)
  <2>2. m \in i + 1 .. End
    BY DEF LexemesAt
  <2>3. IsNumeral(Slice(i, m))
    BY <1>1, <1>2, <2>2, LexemesAtIs
  <2> QED
    BY <2>2, <2>3, NumeralIs
<1>6. CASE FractionAt(j)
  <2>1. j + 1 < End /\ At(j) = "." /\ At(j + 1) \in Digits
    BY <1>6 DEF FractionAt
  <2>2. j > i
    BY <1>1, <1>2, <1>3, <2>1
  <2>3. k > j + 1 /\ k \in i + 1 .. End
    BY <1>1, <1>3, <1>4, <1>6, <2>1, <2>2
  <2>4. \A p \in i .. k - 1 : p = j \/ At(p) \in Digits
    BY <1>1, <1>3, <1>4, <1>6, <2>3
  <2>5. \A p \in i .. k - 1 : At(p) = "." => p = j
    BY <1>2, <2>4
  <2>6. j \notin {i, k - 1}
    BY <1>1, <1>3, <2>2, <2>3
  <2>7. IsNumeral(Slice(i, k))
    <3>1. \A p \in i .. k - 1 : At(p) \in Digits \cup {"."}
      BY <2>1, <2>4
    <3>2. \A p \in i .. k - 1 : At(p) = "." => p \notin {i, k - 1} /\ \A q \in i .. k - 1 : At(q) = "." => q = p
      BY <2>5, <2>6
    <3> QED
      BY <2>3, <3>1, <3>2, NumeralIs
  <2>8. k \in LexemesAt(i)
    BY <1>1, <1>2, <2>3, <2>7, LexemesAtIs
  <2>9. ASSUME NEW m \in LexemesAt(i), m > k
        PROVE  FALSE
    <3>1. k \in i .. m - 1 /\ j \in i .. m - 1 /\ k # j /\ k < End
      BY <1>1, <1>3, <1>5, <2>2, <2>3, <2>9
    <3>2. At(k) = "."
      BY <1>4, <1>5, <1>6, <2>9, <3>1
    <3> QED
      BY <1>5, <2>1, <2>9, <3>1, <3>2
  <2> QED
    BY <1>5, <1>6, <2>3, <2>8, <2>9 DEF Longest, j, k
<1>7. CASE ~FractionAt(j)
  <2>1. j \in i + 1 .. End
    BY <1>1, <1>2, <1>3
  <2>2. \A p \in i .. j - 1 : At(p) \in Digits /\ At(p) # "."
    BY <1>2, <1>3
  <2>3. j \in LexemesAt(i)
    BY <1>1, <1>2, <2>1, <2>2, LexemesAtIs, NumeralIs
  <2>4. ASSUME NEW m \in LexemesAt(i), m > j
        PROVE  FALSE
    <3>1. j \in i .. m - 1 /\ j < End /\ m \in i + 1 .. End
      BY <1>1, <1>5, <2>1, <2>4
    <3>2. At(j) = "."
      BY <1>3, <1>5, <2>4, <3>1
    <3>3. j # m - 1
      BY <1>5, <2>4, <3>1, <3>2
    <3>4. j + 1 \in i .. m - 1 /\ j + 1 < End
      BY <1>1, <2>1, <3>1, <3>3
    <3>5. At(j + 1) \in Digits
      BY <1>5, <2>1, <2>4, <3>1, <3>2, <3>4
    <3> QED
      BY <1>7, <3>2, <3>4, <3>5 DEF FractionAt
  <2> QED
    BY <1>5, <1>7, <2>1, <2>3, <2>4 DEF Longest, j
<1> QED
  BY <1>6, <1>7

\* An operator or a bracket: two characters if they spell an operator, or else one.
LEMMA OperatorIsLongest ==
  ASSUME SourceInv, Other
  PROVE  /\ TwoAhead \in TwoCharOps => Longest(i + 2)
         /\ TwoAhead \notin TwoCharOps =>
              \/ At(i) \in OneCharOps \cup Punctuation /\ Longest(i + 1)
              \/ At(i) \notin OneCharOps \cup Punctuation /\ LexemesAt(i) = {}
<1> DEFINE Ops == TwoCharOps \cup {<<c>> : c \in OneCharOps \cup Punctuation}
<1>1. Len(src) \in Nat /\ i \in 1 .. End /\ i < End /\ End = Len(src) + 1 /\ src \in Seq(STRING)
  BY LenProperties DEF End, SourceInv, Other
<1>2. \A m \in i + 1 .. End : m \in LexemesAt(i) <=> Slice(i, m) \in Ops
  BY <1>1, LexemesAtIs DEF Other
<1>3. \A op \in TwoCharOps : Len(op) = 2
  BY DEF TwoCharOps
<1>4. \A c \in OneCharOps \cup Punctuation : Len(<<c>>) = 1
  OBVIOUS
<1>5. \A m \in i + 1 .. End : Len(Slice(i, m)) = m - i
  BY <1>1, SliceIs
<1>6. /\ Slice(i, i + 1) \in Seq(STRING)
       /\ Len(Slice(i, i + 1)) = 1
       /\ Slice(i, i + 1)[1] = At(i)
  <2> DEFINE k == i + 1
  <2>1. i \in 1 .. End /\ k \in i .. End /\ k - i = 1 /\ i + 1 - 1 = i
    BY <1>1
  <2> HIDE DEF k
  <2>2. /\ Slice(i, k) \in Seq(STRING)
        /\ Len(Slice(i, k)) = k - i
        /\ \A p \in 1 .. k - i : Slice(i, k)[p] = At(i + p - 1)
    BY <1>1, <2>1, SliceIs
  <2>3. Slice(i, k)[1] = At(i + 1 - 1)
    BY <2>1, <2>2
  <2> QED
    BY <2>1, <2>2, <2>3 DEF k
<1>7. \A m \in LexemesAt(i) : m \in i + 1 .. End /\ Slice(i, m) \in Ops
  BY <1>2 DEF LexemesAt
<1>8. \A m \in LexemesAt(i) : \/ m = i + 1 /\ Slice(i, m) \in {<<c>> : c \in OneCharOps \cup Punctuation}
                              \/ m = i + 2 /\ Slice(i, m) \in TwoCharOps
  <2>1. TAKE m \in LexemesAt(i)
  <2>2. m \in i + 1 .. End /\ Slice(i, m) \in Ops /\ Len(Slice(i, m)) = m - i
    BY <1>5, <1>7
  <2>3. Slice(i, m) \in {<<c>> : c \in OneCharOps \cup Punctuation} => Len(Slice(i, m)) = 1
    BY <1>4
  <2>4. Slice(i, m) \in TwoCharOps => Len(Slice(i, m)) = 2
    BY <1>3
  <2> QED
    BY <1>1, <2>2, <2>3, <2>4
<1>9. i + 2 <= End => TwoAhead = Slice(i, i + 2)
  <2>1. i + 2 <= End => Min({i + 2, End}) = i + 2
    BY <1>1, MinIs
  <2> QED
    BY <2>1 DEF TwoAhead
<1>10. TwoAhead \in TwoCharOps => i + 2 <= End
  <2>1. ASSUME ~(i + 2 <= End)
        PROVE  Len(TwoAhead) = 1
    <3>1. End = i + 1
      BY <1>1, <2>1
    <3>2. Min({i + 2, End}) = i + 1
      BY <1>1, <3>1, MinIs
    <3> QED
      BY <1>6, <3>2 DEF TwoAhead
  <2> QED
    BY <1>3, <2>1
<1>11. Slice(i, i + 1) = <<At(i)>>
  BY <1>6
<1> HIDE DEF Ops
<1>12. CASE TwoAhead \in TwoCharOps
  <2>1. i + 2 \in LexemesAt(i)
    BY <1>1, <1>2, <1>9, <1>10, <1>12 DEF Ops
  <2> QED
    BY <1>1, <1>8, <1>12, <2>1 DEF Longest
<1>13. CASE TwoAhead \notin TwoCharOps
  <2>1. \A m \in LexemesAt(i) : m = i + 1 /\ Slice(i, m) \in {<<c>> : c \in OneCharOps \cup Punctuation}
    BY <1>1, <1>7, <1>8, <1>9, <1>13
  <2>2. i + 1 \in LexemesAt(i) <=> <<At(i)>> \in Ops
    BY <1>1, <1>2, <1>11
  <2>3. At(i) \in OneCharOps \cup Punctuation => <<At(i)>> \in Ops
    BY DEF Ops
  <2>4. \A m \in LexemesAt(i) : At(i) \in OneCharOps \cup Punctuation
    BY <1>11, <2>1
  <2>5. CASE At(i) \in OneCharOps \cup Punctuation
    BY <1>1, <1>13, <2>1, <2>2, <2>3, <2>5 DEF Longest
  <2>6. CASE At(i) \notin OneCharOps \cup Punctuation
    BY <1>13, <2>4, <2>6
  <2> QED
    BY <2>5, <2>6
<1> QED
  BY <1>12, <1>13

\* The backslashes right before the k-th character of a text.
BackslashesBefore(text, k) == {j \in 2 .. k - 1 : \A h \in j .. k - 1 : text[h] = "\\"}

\* They are even in number where the lexer sees no escape.
LEMMA EscapedIs ==
  ASSUME SourceInv, At(i) # "\\", NEW m \in i + 1 .. End, NEW p \in i + 1 .. m - 1
  PROVE  Cardinality(BackslashesBefore(Slice(i, m), p - i + 1)) % 2 = 0 <=> ~Escaped(p)
<1> DEFINE text == Slice(i, m)
           k == p - i + 1
           S == {q \in i .. p - 1 : At(q) # "\\"}
           x == Max(S)
<1>1. Len(src) \in Nat /\ i \in Nat /\ m \in Nat /\ p \in Nat /\ i < p /\ p < m
  BY LenProperties DEF End, SourceInv
<1>2. \A h \in 1 .. m - i : text[h] = At(i + h - 1)
  BY <1>1, SliceIs DEF SourceInv
<1>3. S \in SUBSET Nat /\ S # {} /\ p \in Nat /\ \A q \in S : q <= p
  BY <1>1
<1>4. x \in S /\ \A q \in S : q <= x
  BY <1>3, MaxOfSet
<1>5. x \in i .. p - 1 /\ At(x) # "\\"
  BY <1>4
<1>6. \A q \in x + 1 .. p - 1 : At(q) = "\\"
  <2>1. ASSUME NEW q \in x + 1 .. p - 1 PROVE q \in i .. p - 1 /\ ~(q <= x)
    BY <1>1, <1>5
  <2> HIDE DEF x
  <2> QED
    BY <1>4, <2>1
<1> HIDE DEF S, x, text
<1>7. BackslashesBefore(text, k) = x - i + 2 .. k - 1
  <2>1. ASSUME NEW j \in BackslashesBefore(text, k) PROVE j \in x - i + 2 .. k - 1
    <3>1. j \in 2 .. k - 1 /\ \A h \in j .. k - 1 : text[h] = "\\"
      BY <2>1 DEF BackslashesBefore
    <3>2. SUFFICES ASSUME j <= x - i + 1 PROVE FALSE
      BY <1>1, <1>5, <3>1
    <3>3. x - i + 1 \in j .. k - 1 /\ x - i + 1 \in 1 .. m - i /\ i + (x - i + 1) - 1 = x
      BY <1>1, <1>5, <3>1, <3>2
    <3> HIDE DEF k
    <3>4. text[x - i + 1] = "\\" /\ text[x - i + 1] = At(i + (x - i + 1) - 1)
      BY <1>2, <3>1, <3>3
    <3> QED
      BY <1>5, <3>3, <3>4
  <2>2. ASSUME NEW j \in x - i + 2 .. k - 1 PROVE j \in BackslashesBefore(text, k)
    <3>1. j \in 2 .. k - 1
      BY <1>1, <1>5
    <3>2. ASSUME NEW h \in j .. k - 1 PROVE text[h] = "\\"
      <4>1. h \in 1 .. m - i /\ i + h - 1 \in x + 1 .. p - 1
        BY <1>1, <1>5
      <4> QED
        BY <1>2, <1>6, <4>1
    <3> QED
      BY <3>1, <3>2 DEF BackslashesBefore
  <2> HIDE DEF k
  <2> QED
    BY <2>1, <2>2
<1>8. Cardinality(x - i + 2 .. k - 1) = p - x - 1
  <2> DEFINE a == x - i + 2
             b == k - 1
  <2>1. a \in Int /\ b \in Int /\ (IF a > b THEN 0 ELSE b - a + 1) = p - x - 1
    BY <1>1, <1>5
  <2> HIDE DEF a, b
  <2>2. Cardinality(a .. b) = IF a > b THEN 0 ELSE b - a + 1
    BY <2>1, FS_Interval
  <2> QED
    BY <2>1, <2>2 DEF a, b
<1>9. Escaped(p) <=> (p - x) % 2 = 0
  BY DEF Escaped, S, x
<1>10. (p - x - 1) % 2 = 0 <=> ~((p - x) % 2 = 0)
  BY <1>1, <1>5
<1> QED
  BY <1>7, <1>8, <1>9, <1>10 DEF text

\* The string lexemes at i end right after the first quote that closes it.
LEMMA StringLexemeIs ==
  ASSUME SourceInv, At(i) = Quote, NEW m \in i + 1 .. End
  PROVE  IsStringLexeme(Slice(i, m)) <=>
           m - 1 \in Closing /\ \A p \in Closing : m - 1 <= p
<1> DEFINE text == Slice(i, m)
<1>1. Len(src) \in Nat /\ i \in Nat /\ m \in Nat /\ End = Len(src) + 1 /\ i < m /\ m <= End
  BY LenProperties DEF End, SourceInv
<1>2. /\ Len(text) = m - i
      /\ \A h \in 1 .. m - i : text[h] = At(i + h - 1)
  BY <1>1, SliceIs DEF SourceInv
<1>3. At(i) # "\\"
  BY KindsOfCharacters
<1>4. \A p \in i + 1 .. m - 1 : text[p - i + 1] = At(p)
  <2>1. \A p \in i + 1 .. m - 1 : p - i + 1 \in 1 .. m - i /\ i + (p - i + 1) - 1 = p
    BY <1>1
  <2> HIDE DEF text
  <2> QED
    BY <1>2, <2>1
<1> DEFINE Closes(k) == text[k] = Quote /\ Cardinality(BackslashesBefore(text, k)) % 2 = 0
<1>5. IsStringLexeme(text) <=> Len(text) >= 2 /\ \A k \in 2 .. Len(text) : Closes(k) <=> k = Len(text)
  BY DEF IsStringLexeme, BackslashesBefore
<1>6. \A p \in i + 1 .. m - 1 : Closes(p - i + 1) <=> p \in Closing
  <2>1. TAKE p \in i + 1 .. m - 1
  <2>2. p \in i + 1 .. Len(src)
    BY <1>1
  <2>3. Cardinality(BackslashesBefore(text, p - i + 1)) % 2 = 0 <=> ~Escaped(p)
    BY <1>3, EscapedIs
  <2> QED
    BY <1>4, <2>2, <2>3 DEF Closing
<1> HIDE DEF text, Closes
<1>7. \A p \in i + 1 .. m - 1 : p - i + 1 \in 2 .. m - i /\ (p - i + 1 = m - i <=> p = m - 1)
  BY <1>1
<1>8. \A k \in 2 .. m - i : k + i - 1 \in i + 1 .. m - 1 /\ (k + i - 1) - i + 1 = k
  BY <1>1
<1>9. (\A k \in 2 .. m - i : Closes(k) <=> k = m - i) <=> \A p \in i + 1 .. m - 1 : p \in Closing <=> p = m - 1
  <2>1. ASSUME \A k \in 2 .. m - i : Closes(k) <=> k = m - i, NEW p \in i + 1 .. m - 1
        PROVE  p \in Closing <=> p = m - 1
    BY <1>6, <1>7, <2>1
  <2>2. ASSUME \A p \in i + 1 .. m - 1 : p \in Closing <=> p = m - 1, NEW k \in 2 .. m - i
        PROVE  Closes(k) <=> k = m - i
    <3>1. PICK p \in i + 1 .. m - 1 : p - i + 1 = k
      BY <1>8
    <3> QED
      BY <1>6, <1>7, <2>2, <3>1
  <2> QED
    BY <2>1, <2>2
<1>10. Closing \in SUBSET Nat /\ \A p \in Closing : p >= i + 1
  BY <1>1 DEF Closing
<1>11. (m - i >= 2 /\ \A p \in i + 1 .. m - 1 : p \in Closing <=> p = m - 1)
         <=> (m - 1 \in Closing /\ \A p \in Closing : m - 1 <= p)
  <2>1. ASSUME m - i >= 2, \A p \in i + 1 .. m - 1 : p \in Closing <=> p = m - 1
        PROVE  m - 1 \in Closing /\ \A p \in Closing : m - 1 <= p
    <3>1. m - 1 \in Closing
      BY <1>1, <2>1
    <3>2. ASSUME NEW p \in Closing, ~(m - 1 <= p) PROVE FALSE
      BY <1>1, <1>10, <2>1, <3>2
    <3> QED
      BY <3>1, <3>2
  <2>2. ASSUME m - 1 \in Closing, \A p \in Closing : m - 1 <= p
        PROVE  m - i >= 2 /\ \A p \in i + 1 .. m - 1 : p \in Closing <=> p = m - 1
    BY <1>1, <1>10, <2>2
  <2> QED
    BY <2>1, <2>2
<1> QED
  BY <1>2, <1>5, <1>9, <1>11 DEF text

LEMMA StringIsLongest ==
  ASSUME SourceInv, Reading({Quote})
  PROVE  /\ Closing # {} => Longest(Min(Closing) + 1)
         /\ Closing = {} => LexemesAt(i) = {}
<1>1. Len(src) \in Nat /\ i \in Nat /\ i < End /\ End = Len(src) + 1 /\ At(i) = Quote
  BY LenProperties DEF End, SourceInv, Reading
<1>2. \A m \in i + 1 .. End : m \in LexemesAt(i) <=> m - 1 \in Closing /\ \A p \in Closing : m - 1 <= p
  BY <1>1, LexemesAtIs, StringLexemeIs
<1>3. \A m \in LexemesAt(i) : m \in i + 1 .. End
  BY DEF LexemesAt
<1>4. Closing \in SUBSET Nat /\ \A p \in Closing : p \in i + 1 .. Len(src)
  BY <1>1 DEF Closing
<1>5. CASE Closing = {}
  BY <1>2, <1>3, <1>5
<1>6. CASE Closing # {}
  <2> DEFINE c == Min(Closing)
  <2>1. c \in Closing /\ \A p \in Closing : c <= p
    BY <1>4, <1>6, MinOfSet
  <2> HIDE DEF c
  <2>2. c + 1 \in i + 1 .. End /\ c \in Nat
    BY <1>1, <1>4, <2>1
  <2>3. c + 1 \in LexemesAt(i)
    <3>1. PICK m \in i + 1 .. End : m = c + 1
      BY <2>2
    <3>2. m - 1 = c
      BY <2>2, <3>1
    <3>3. m \in LexemesAt(i)
      BY <1>2, <2>1, <3>2
    <3> QED
      BY <3>1, <3>3
  <2>4. \A m \in LexemesAt(i) : m <= c + 1
    BY <1>1, <1>2, <1>3, <1>4, <2>1
  <2> QED
    BY <1>6, <2>3, <2>4 DEF Longest, c
<1> QED
  BY <1>5, <1>6

-----------------------------------------------------------------------------
(* What a step does.                                                       *)

Kinds == {"STR", "INT", "FLOAT", "KEY", "NAME", "OP"}

\* A step passes over blanks, or takes the longest lexeme, or stops.
LEMMA WhatStepsDo ==
  ASSUME SourceInv, LexNext
  PROVE  /\ phase = "lexing"
         /\ \/ \E j \in i + 1 .. End : /\ Skip(j)
                                       /\ OnlyBlanks(i, j)
                                       /\ \A k \in i .. j - 1 : At(k) # "\n"
            \/ NewLine /\ i < End /\ At(i) = "\n"
            \/ \E kind \in Kinds : \E text, j : Longest(j) /\ Take(kind, text, j)
            \/ Fail /\ i < End /\ LexemesAt(i) = {}
            \/ EndOfFile
<1>1. Len(src) \in Nat /\ i \in 1 .. End /\ End = Len(src) + 1 /\ src \in Seq(STRING)
  BY LenProperties DEF End, SourceInv
<1>2. CASE Blank
  <2>1. phase = "lexing" /\ i < End /\ At(i) \in Blanks /\ Skip(i + 1)
    BY <1>2 DEF Blank, Reading
  <2>2. PICK j \in i + 1 .. End : j = i + 1
    BY <1>1, <2>1
  <2>3. \A k \in i .. j - 1 : k = i
    BY <1>1, <2>2
  <2>4. At(i) # "\n"
    BY <2>1 DEF Blanks
  <2>5. OnlyBlanks(i, j)
    BY <2>1, <2>3 DEF OnlyBlanks
  <2>6. \A k \in i .. j - 1 : At(k) # "\n"
    BY <2>3, <2>4
  <2>7. Skip(j)
    BY <2>1, <2>2
  <2> QED
    BY <2>1, <2>5, <2>6, <2>7
<1>3. CASE NewLine
  BY <1>3 DEF NewLine, Reading
<1>4. CASE Comment
  <2> DEFINE j == FirstIn(i, {"\n"})
  <2>1. phase = "lexing" /\ i < End /\ At(i) = "#" /\ Skip(j)
    BY <1>4 DEF Comment, Reading
  <2>2. j \in i .. End /\ (\A k \in i .. j - 1 : At(k) # "\n") /\ (j = End \/ At(j) = "\n")
    BY <1>1, FirstInIs
  <2> HIDE DEF j
  <2>3. j \in i + 1 .. End
    BY <1>1, <2>1, <2>2
  <2>4. OnlyBlanks(i, j)
    <3>1. \A k \in i .. j - 1 : i \in i .. k /\ \A g \in i .. k : g \in i .. j - 1
      BY <1>1, <2>3
    <3> QED
      BY <2>1, <2>2, <3>1 DEF OnlyBlanks
  <2> QED
    BY <2>1, <2>2, <2>3, <2>4
<1>5. CASE StringToken
  BY <1>5, StringIsLongest DEF StringToken, Reading, Kinds
<1>6. CASE Number
  <2> DEFINE j == FirstNotIn(i, Digits)
             k == FirstNotIn(j + 1, Digits)
  <2>1. phase = "lexing" /\ Reading(Digits)
    BY <1>6 DEF Number, Reading
  <2>2. Longest(IF FractionAt(j) THEN k ELSE j)
    BY <2>1, NumberIsLongest
  <2>3. IF FractionAt(j) THEN Take("FLOAT", Spell(Slice(i, k)), k) ELSE Take("INT", Spell(Slice(i, j)), j)
    BY <1>6 DEF Number
  <2> HIDE DEF j, k
  <2>4. CASE FractionAt(j)
    <3>1. "FLOAT" \in Kinds /\ Longest(k) /\ Take("FLOAT", Spell(Slice(i, k)), k)
      BY <2>2, <2>3, <2>4 DEF Kinds
    <3> QED
      BY <2>1, <3>1
  <2>5. CASE ~FractionAt(j)
    <3>1. "INT" \in Kinds /\ Longest(j) /\ Take("INT", Spell(Slice(i, j)), j)
      BY <2>2, <2>3, <2>5 DEF Kinds
    <3> QED
      BY <2>1, <3>1
  <2> QED
    BY <2>4, <2>5
<1>7. CASE Word
  <2> DEFINE j == FirstNotIn(i, WordChars)
             word == Spell(Slice(i, j))
             kind == IF word \in Keywords THEN "KEY" ELSE "NAME"
  <2>1. phase = "lexing" /\ Reading(WordStart) /\ Take(kind, word, j)
    BY <1>7 DEF Word, Reading
  <2>2. Longest(j)
    BY <2>1, WordIsLongest
  <2>3. kind \in Kinds
    BY DEF Kinds
  <2> HIDE DEF j, word, kind
  <2> QED
    BY <2>1, <2>2, <2>3
<1>8. CASE TwoChar
  <2>1. phase = "lexing" /\ Longest(i + 2) /\ Take("OP", Spell(TwoAhead), i + 2)
    BY <1>8, OperatorIsLongest DEF TwoChar, Other
  <2> QED
    BY <2>1 DEF Kinds
<1>9. CASE OneChar
  <2>1. phase = "lexing" /\ Longest(i + 1) /\ Take("OP", At(i), i + 1)
    BY <1>9, OperatorIsLongest DEF OneChar, Other
  <2> QED
    BY <2>1 DEF Kinds
<1>10. CASE Unclosed
  BY <1>10, StringIsLongest DEF Unclosed, Reading
<1>11. CASE Unexpected
  BY <1>11, OperatorIsLongest DEF Unexpected, Other
<1>12. CASE EndOfFile
  BY <1>12 DEF EndOfFile
<1> QED
  BY <1>2, <1>3, <1>4, <1>5, <1>6, <1>7, <1>8, <1>9, <1>10, <1>11, <1>12 DEF LexNext

-----------------------------------------------------------------------------
(* The invariant.                                                          *)

IsSequence(s) == s \in Seq({s[k] : k \in DOMAIN s})
TokensInv ==
  /\ IsSequence(tokens)
  /\ \A k \in DOMAIN tokens : tokens[k].at \in 1 .. i /\ tokens[k].to \in tokens[k].at .. i

\* Where no token runs over a line the lexer knows where it is.
NoBreaksIn(n) == \A h \in 1 .. n : \A g \in tokens[h].at .. tokens[h].to - 1 : At(g) # "\n"
KnowsWhere ==
  NoBreaksIn(Len(tokens)) => /\ line = 1 + Cardinality(LinesBefore(i))
                             /\ col = i - Max(LinesBefore(i) \cup {0})

TypeInv ==
  /\ src \in Texts
  /\ phase \in {"lexing", "lexed", "failed"}
  /\ SourceInv
  /\ TokensInv

LEMMA Appended ==
  ASSUME TokensInv, NEW t, tokens' = Append(tokens, t)
  PROVE  /\ IsSequence(tokens')
         /\ Len(tokens) \in Nat
         /\ DOMAIN tokens = 1 .. Len(tokens)
         /\ DOMAIN tokens' = 1 .. Len(tokens) + 1
         /\ Len(tokens') = Len(tokens) + 1
         /\ \A k \in 1 .. Len(tokens) : tokens'[k] = tokens[k]
         /\ tokens'[Len(tokens) + 1] = t
<1> DEFINE more == tokens'
           S == {tokens[k] : k \in DOMAIN tokens} \cup {t}
<1>1. tokens \in Seq(S)
  <2>1. {tokens[k] : k \in DOMAIN tokens} \subseteq S
    OBVIOUS
  <2> HIDE DEF S
  <2> QED
    BY <2>1, SeqDef, LenProperties DEF TokensInv, IsSequence
<1>2. t \in S /\ more = Append(tokens, t)
  OBVIOUS
<1> HIDE DEF S, more
<1>3. /\ more \in Seq(S)
      /\ Len(more) = Len(tokens) + 1
      /\ \A k \in 1 .. Len(tokens) : more[k] = tokens[k]
      /\ more[Len(tokens) + 1] = t
  BY <1>1, <1>2, AppendProperties
<1>4. Len(tokens) \in Nat /\ DOMAIN tokens = 1 .. Len(tokens)
  BY <1>1, LenProperties
<1>5. DOMAIN more = 1 .. Len(tokens) + 1
  BY <1>3, LenProperties
<1> DEFINE R == {more[k] : k \in DOMAIN more}
<1>6. more \in Seq(R)
  <2>1. \A k \in 1 .. Len(tokens) + 1 : more[k] \in R
    BY <1>5
  <2>2. more = [k \in 1 .. Len(tokens) + 1 |-> more[k]]
    BY <1>3, <1>5, LenProperties
  <2> HIDE DEF R
  <2>3. more \in [1 .. Len(tokens) + 1 -> R] /\ Len(tokens) + 1 \in Nat
    BY <1>4, <2>1, <2>2
  <2> QED
    BY <2>3, SeqDef
<1> QED
  BY <1>3, <1>4, <1>5, <1>6 DEF IsSequence, more

\* What a step does to the source, the position and the tokens.
LEMMA WhatTokensDo ==
  ASSUME TypeInv, LexNext
  PROVE  /\ src' = src /\ i' \in i .. End /\ phase' \in {"lexing", "lexed", "failed"}
         /\ \/ tokens' = tokens
            \/ \E t : /\ tokens' = Append(tokens, t)
                      /\ t.at = i /\ t.to = i' /\ t.line = line /\ t.col = col
                      /\ t.kind = "EOF" => i' = i /\ line' = line /\ col' = col /\ phase' = "lexed"
<1>1. Len(src) \in Nat /\ i \in 1 .. End /\ End = Len(src) + 1
  BY LenProperties DEF TypeInv, SourceInv, End
<1>2. phase = "lexing"
  BY WhatStepsDo DEF TypeInv
<1>3. CASE \E j \in i + 1 .. End : Skip(j)
  BY <1>1, <1>2, <1>3 DEF Skip, Advance
<1>4. CASE NewLine /\ i < End
  BY <1>1, <1>2, <1>4 DEF NewLine, Advance
<1>5. CASE \E kind \in Kinds : \E text, j : Longest(j) /\ Take(kind, text, j)
  <2>1a. PICK kind \in Kinds : \E text, j : Longest(j) /\ Take(kind, text, j)
    BY <1>5
  <2>1. PICK text, j : Longest(j) /\ Take(kind, text, j)
    BY <2>1a
  <2>2. j \in i + 1 .. End
    BY <2>1 DEF Longest, LexemesAt
  <2>3. kind # "EOF"
    BY DEF Kinds
  <2>4. src' = src /\ i' = j /\ phase' = phase /\ tokens' = Append(tokens, Token(kind, text, j))
    BY <2>1 DEF Take, Advance
  <2>5. Token(kind, text, j).at = i /\ Token(kind, text, j).to = j /\ Token(kind, text, j).line = line
        /\ Token(kind, text, j).col = col /\ Token(kind, text, j).kind = kind
    BY DEF Token
  <2> QED
    BY <1>1, <1>2, <2>2, <2>3, <2>4, <2>5
<1>6. CASE Fail
  BY <1>1, <1>6 DEF Fail
<1>7. CASE EndOfFile
  <2>1. /\ tokens' = Append(tokens, Token("EOF", "<eof>", i))
        /\ src' = src /\ i' = i /\ line' = line /\ col' = col /\ phase' = "lexed"
    BY <1>7 DEF EndOfFile
  <2>2. LET t == Token("EOF", "<eof>", i)
        IN  t.at = i /\ t.to = i /\ t.line = line /\ t.col = col
    BY DEF Token
  <2> QED
    BY <1>1, <2>1, <2>2
<1> QED
  BY <1>3, <1>4, <1>5, <1>6, <1>7, WhatStepsDo DEF TypeInv

\* The lexer only goes forward, and its tokens stay within what it has read.
THEOREM TypeCorrect == LexSpec => []TypeInv
<1>1. LexInit(Texts) => TypeInv
  <2>1. SUFFICES ASSUME LexInit(Texts) PROVE TypeInv
    OBVIOUS
  <2>2. src \in Seq(STRING) /\ src \in Texts /\ i = 1 /\ tokens = << >> /\ phase = "lexing"
    BY <2>1, TextsAssumption DEF LexInit
  <2>3. SourceInv
    BY <2>2, LenProperties DEF SourceInv, End
  <2>4. TokensInv
    BY <2>2, EmptySeq DEF TokensInv, IsSequence
  <2> QED
    BY <2>2, <2>3, <2>4 DEF TypeInv
<1>2. TypeInv /\ [LexNext]_lexVars => TypeInv'
  <2>1. SUFFICES ASSUME TypeInv, [LexNext]_lexVars PROVE TypeInv'
    OBVIOUS
  <2>2. CASE UNCHANGED lexVars
    BY <2>1, <2>2 DEF lexVars, TypeInv, SourceInv, TokensInv, End
  <2>3. CASE LexNext
    <3>1. Len(src) \in Nat /\ i \in 1 .. End /\ End = Len(src) + 1
      BY <2>1, LenProperties DEF TypeInv, SourceInv, End
    <3>2. src' = src /\ End' = End /\ i' \in i .. End /\ phase' \in {"lexing", "lexed", "failed"}
      BY <2>1, <2>3, WhatTokensDo DEF End
    <3>3. SourceInv'
      BY <2>1, <3>1, <3>2 DEF TypeInv, SourceInv
    <3>4. \A k \in DOMAIN tokens : tokens[k].at \in 1 .. i' /\ tokens[k].to \in tokens[k].at .. i'
      BY <2>1, <3>1, <3>2 DEF TypeInv, TokensInv
    <3>5. ASSUME tokens' = tokens PROVE TokensInv'
      BY <2>1, <3>4, <3>5 DEF TypeInv, TokensInv
    <3>6. ASSUME NEW t, tokens' = Append(tokens, t), t.at = i, t.to = i' PROVE TokensInv'
      <4>1. /\ IsSequence(tokens')
            /\ Len(tokens) \in Nat
            /\ DOMAIN tokens = 1 .. Len(tokens)
            /\ DOMAIN tokens' = 1 .. Len(tokens) + 1
            /\ \A k \in 1 .. Len(tokens) : tokens'[k] = tokens[k]
            /\ tokens'[Len(tokens) + 1] = t
        <5>1. TokensInv
          BY <2>1 DEF TypeInv
        <5> QED
          BY <3>6, <5>1, Appended
      <4>2. ASSUME NEW k \in DOMAIN tokens'
            PROVE  tokens'[k].at \in 1 .. i' /\ tokens'[k].to \in tokens'[k].at .. i'
        <5>1. CASE k \in 1 .. Len(tokens)
          BY <3>4, <4>1, <5>1
        <5>2. CASE k = Len(tokens) + 1
          BY <3>1, <3>2, <3>6, <4>1, <5>2
        <5> QED
          BY <4>1, <5>1, <5>2
      <4> QED
        BY <4>1, <4>2 DEF TokensInv
    <3>7. TokensInv'
      BY <2>1, <2>3, <3>5, <3>6, WhatTokensDo
    <3> QED
      BY <2>1, <3>2, <3>3, <3>7 DEF TypeInv
  <2> QED
    BY <2>1, <2>2, <2>3
<1> QED
  BY <1>1, <1>2, PTL DEF LexSpec

-----------------------------------------------------------------------------
(* Positions.                                                              *)

\* From i to j without a line break, the column moves and the line stays.
LEMMA NoBreakBetween ==
  ASSUME SourceInv, NEW j \in i + 1 .. End, \A k \in i .. j - 1 : At(k) # "\n"
  PROVE  LinesBefore(j) = LinesBefore(i) /\ ColAt(j) = col + (j - i)
<1>1. Len(src) \in Nat /\ i \in Nat /\ j \in Nat /\ 1 <= i /\ i < j
  BY LenProperties DEF SourceInv, End
<1>2. LinesBefore(j) = LinesBefore(i)
  <2>1. \A h \in 1 .. j - 1 : h \in 1 .. i - 1 \/ h \in i .. j - 1
    BY <1>1
  <2>2. \A h \in 1 .. i - 1 : h \in 1 .. j - 1
    BY <1>1
  <2> QED
    BY <2>1, <2>2 DEF LinesBefore
<1>3. ColAt(j) = col + (j - i)
  BY DEF ColAt
<1> QED
  BY <1>2, <1>3

LEMMA LastBreakIs ==
  ASSUME SourceInv
  PROVE  Max(LinesBefore(i) \cup {0}) \in Nat
<1>1. i \in Nat
  BY DEF SourceInv
<1> DEFINE S == LinesBefore(i) \cup {0}
<1>2. S \in SUBSET Nat /\ S # {} /\ \A h \in S : h <= i
  BY <1>1 DEF LinesBefore
<1> HIDE DEF S
<1>3. Max(S) \in Nat
  BY <1>1, <1>2, MaxOfSet
<1> QED
  BY <1>3 DEF S

LEMMA BreakAtLast ==
  ASSUME SourceInv, i < End, At(i) = "\n"
  PROVE  /\ Cardinality(LinesBefore(i + 1)) = Cardinality(LinesBefore(i)) + 1
         /\ Cardinality(LinesBefore(i)) \in Nat
         /\ Max(LinesBefore(i + 1) \cup {0}) = i
         /\ ColAt(i + 1) = 1
<1>1. Len(src) \in Nat /\ i \in Nat /\ 1 <= i
  BY LenProperties DEF SourceInv, End
<1>2. LinesBefore(i + 1) = LinesBefore(i) \cup {i} /\ i \notin LinesBefore(i)
  <2>1. \A h : h \in 1 .. i + 1 - 1 <=> h \in 1 .. i - 1 \/ h = i
    BY <1>1
  <2> QED
    BY <1>1, <2>1 DEF LinesBefore
<1>3. IsFiniteSet(LinesBefore(i))
  <2>1. LinesBefore(i) \in SUBSET Nat /\ \A h \in LinesBefore(i) : h <= i
    BY <1>1 DEF LinesBefore
  <2> QED
    BY <1>1, <2>1, FS_BoundedSetOfNaturals
<1>4. Max(LinesBefore(i + 1) \cup {0}) = i
  <2>1. \A h \in LinesBefore(i) : h \in Nat /\ h <= i
    BY <1>1 DEF LinesBefore
  <2> QED
    BY <1>1, <1>2, <2>1, MaxIs
<1>5. ColAt(i + 1) = 1
  <2>1. PICK j \in Nat : j = i + 1
    BY <1>1
  <2> DEFINE breaks == {k \in i .. j - 1 : At(k) = "\n"}
  <2>2. \A k : k \in i .. j - 1 <=> k = i
    BY <1>1, <2>1
  <2>3. breaks = {i}
    BY <2>2
  <2>4. Max(breaks) = i
    BY <1>1, <2>3, MaxIs
  <2>5. ColAt(j) = IF breaks = {} THEN col + (j - i) ELSE j - Max(breaks)
    BY DEF ColAt
  <2> HIDE DEF breaks
  <2>6. breaks # {}
    BY <2>3
  <2>7. ColAt(j) = j - i
    BY <2>4, <2>5, <2>6
  <2> QED
    BY <1>1, <2>1, <2>7
<1> QED
  BY <1>2, <1>3, <1>4, <1>5, FS_AddElement, FS_CardinalityType

\* With it, the position it knows is the position of the next token.
PositionInv == TypeInv /\ KnowsWhere /\ PositionsAreExact

THEOREM PositionsCorrect == LexSpec => []PositionsAreExact
<1>1. LexInit(Texts) /\ TypeInv => PositionInv
  <2>1. SUFFICES ASSUME LexInit(Texts), TypeInv PROVE KnowsWhere /\ PositionsAreExact
    BY DEF PositionInv
  <2>2. i = 1 /\ line = 1 /\ col = 1 /\ tokens = << >>
    BY <2>1 DEF LexInit
  <2>3. LinesBefore(i) = {}
    BY <2>2 DEF LinesBefore
  <2>4. Cardinality(LinesBefore(i)) = 0 /\ Max(LinesBefore(i) \cup {0}) = 0
    BY <2>3, FS_EmptySet, MaxIs
  <2> QED
    BY <2>2, <2>4 DEF KnowsWhere, PositionsAreExact, Newest
<1>2. PositionInv /\ TypeInv' /\ [LexNext]_lexVars => PositionInv'
  <2>1. SUFFICES ASSUME PositionInv, TypeInv', [LexNext]_lexVars PROVE KnowsWhere' /\ PositionsAreExact'
    BY DEF PositionInv
  <2>2. CASE UNCHANGED lexVars
    <3>1. src' = src /\ i' = i /\ line' = line /\ col' = col /\ tokens' = tokens
      BY <2>2 DEF lexVars
    <3>2. KnowsWhere' <=> KnowsWhere
      BY <3>1 DEF KnowsWhere, NoBreaksIn, LinesBefore, At
    <3>3. PositionsAreExact' <=> PositionsAreExact
      BY <3>1 DEF PositionsAreExact, Newest, LinesBefore, At
    <3> QED
      BY <2>1, <3>2, <3>3 DEF PositionInv
  <2>3. CASE LexNext
    <3>1. /\ TypeInv /\ SourceInv /\ TokensInv /\ KnowsWhere /\ PositionsAreExact
          /\ Len(src) \in Nat /\ i \in 1 .. End /\ End = Len(src) + 1
      BY <2>1, LenProperties DEF PositionInv, TypeInv, SourceInv, End
    <3>2. src' = src /\ (\A k : At(k)' = At(k)) /\ (\A k : LinesBefore(k)' = LinesBefore(k))
      BY <2>3, <3>1, WhatTokensDo DEF At, LinesBefore
    <3> DEFINE Here(j, l, c) == l = 1 + Cardinality(LinesBefore(j)) /\ c = j - Max(LinesBefore(j) \cup {0})
    <3>3. ASSUME tokens' = tokens, Here(i, line, col) => Here(i', line', col')
          PROVE  KnowsWhere' /\ PositionsAreExact'
      <4>1. PositionsAreExact'
        BY <3>1, <3>2, <3>3 DEF PositionsAreExact, Newest
      <4>2. NoBreaksIn(Len(tokens))' => NoBreaksIn(Len(tokens))
        BY <3>2, <3>3 DEF NoBreaksIn
      <4>3. Here(i', line', col') => KnowsWhere'
        BY <3>2 DEF KnowsWhere
      <4> QED
        BY <3>1, <3>3, <4>1, <4>2, <4>3 DEF KnowsWhere
    <3>4. CASE tokens' = tokens
      <4>1. ASSUME NEW j \in i + 1 .. End, Skip(j), \A k \in i .. j - 1 : At(k) # "\n"
            PROVE  Here(i, line, col) => Here(i', line', col')
        <5>1. i' = j /\ line' = line /\ col' = ColAt(j)
          BY <4>1 DEF Skip, Advance
        <5>2. LinesBefore(j) = LinesBefore(i) /\ ColAt(j) = col + (j - i)
          BY <3>1, <4>1, NoBreakBetween
        <5>3. Max(LinesBefore(i) \cup {0}) \in Nat
          BY <3>1, LastBreakIs
        <5> QED
          BY <3>1, <5>1, <5>2, <5>3
      <4>2. ASSUME NewLine, i < End, At(i) = "\n"
            PROVE  Here(i, line, col) => Here(i', line', col')
        <5>1. i' = i + 1 /\ line' = line + 1 /\ col' = ColAt(i + 1)
          BY <4>2 DEF NewLine, Advance
        <5>2. /\ Cardinality(LinesBefore(i + 1)) = Cardinality(LinesBefore(i)) + 1
              /\ Cardinality(LinesBefore(i)) \in Nat
              /\ Max(LinesBefore(i + 1) \cup {0}) = i
              /\ ColAt(i + 1) = 1
          BY <3>1, <4>2, BreakAtLast
        <5> QED
          BY <3>1, <5>1, <5>2
      <4>3. ASSUME Fail
            PROVE  Here(i, line, col) => Here(i', line', col')
        BY <4>3 DEF Fail
      <4>4. ASSUME NEW t, tokens' = Append(tokens, t) PROVE FALSE
        BY <3>1, <3>4, <4>4, Appended
      <4>5. ~EndOfFile /\ \A kind, text, j : ~Take(kind, text, j)
        BY <4>4 DEF EndOfFile, Take
      <4> HIDE DEF Here
      <4>6. Here(i, line, col) => Here(i', line', col')
        BY <2>3, <3>1, <4>1, <4>2, <4>3, <4>5, WhatStepsDo
      <4> QED
        BY <3>3, <3>4, <4>6
    <3>5. ASSUME NEW t, tokens' = Append(tokens, t), t.at = i, t.to = i', t.line = line, t.col = col
          PROVE  PositionsAreExact' /\ (NoBreaksIn(Len(tokens))' => /\ Here(i, line, col)
                                                                     /\ \A g \in i .. i' - 1 : At(g) # "\n")
      <4>1. PICK n \in Nat : /\ n = Len(tokens)
                             /\ Len(tokens') = n + 1
                             /\ \A k \in 1 .. n : tokens'[k] = tokens[k]
                             /\ tokens'[n + 1] = t
        BY <3>1, <3>5, Appended
      <4>2. \A h \in 1 .. n : h \in 1 .. n + 1
        BY <4>1
      <4>3. NoBreaksIn(n) => Here(i, line, col)
        BY <3>1, <4>1 DEF KnowsWhere
      <4>4. ASSUME NoBreaksIn(Len(tokens))'
            PROVE  NoBreaksIn(n) /\ \A g \in i .. i' - 1 : At(g) # "\n"
        <5>1. \A h \in 1 .. n + 1 : \A g \in tokens'[h].at .. tokens'[h].to - 1 : At(g) # "\n"
          BY <3>2, <4>1, <4>4 DEF NoBreaksIn
        <5>2. NoBreaksIn(n)
          BY <4>1, <4>2, <5>1 DEF NoBreaksIn
        <5>3. n + 1 \in 1 .. n + 1
          BY <4>1
        <5>4. \A g \in t.at .. t.to - 1 : At(g) # "\n"
          BY <4>1, <5>1, <5>3
        <5> QED
          BY <3>5, <5>2, <5>4
      <4>5. ASSUME \A h \in 1 .. n : \A g \in tokens'[h].at .. tokens'[h].to - 1 : At(g)' # "\n"
            PROVE  NoBreaksIn(n)
        BY <3>2, <4>1, <4>5 DEF NoBreaksIn
      <4>6. Newest' \subseteq {n + 1}
        BY <4>1 DEF Newest
      <4>7. PositionsAreExact'
        <5>1. SUFFICES ASSUME NEW k \in Newest',
                              \A h \in 1 .. k - 1 : \A g \in tokens'[h].at .. tokens'[h].to - 1 : At(g)' # "\n"
                       PROVE  (/\ tokens[k].line = 1 + Cardinality(LinesBefore(tokens[k].at))
                               /\ tokens[k].col = tokens[k].at - Max(LinesBefore(tokens[k].at) \cup {0}))'
          BY DEF PositionsAreExact
        <5>2. k = n + 1 /\ k - 1 = n
          BY <4>1, <4>6
        <5>3. Here(i, line, col)
          BY <4>3, <4>5, <5>1, <5>2
        <5>4. tokens'[k] = t
          BY <4>1, <5>2
        <5> QED
          BY <3>2, <3>5, <5>3, <5>4 DEF LinesBefore, At
      <4> HIDE DEF Here
      <4> QED
        BY <4>3, <4>4, <4>7
    <3>6. CASE tokens' # tokens
      <4>1. PICK t : /\ tokens' = Append(tokens, t)
                     /\ t.at = i /\ t.to = i' /\ t.line = line /\ t.col = col
        BY <2>3, <3>1, <3>6, WhatTokensDo
      <4>2. CASE EndOfFile
        <5>1. i' = i /\ line' = line /\ col' = col
          BY <4>2 DEF EndOfFile
        <5> QED
          BY <3>2, <3>5, <4>1, <5>1 DEF KnowsWhere
      <4>3. CASE \E kind \in Kinds : \E text, j : Longest(j) /\ Take(kind, text, j)
        <5>1. PICK j : Longest(j) /\ i' = j /\ col' = ColAt(j) /\ line' = line
          BY <4>3 DEF Take, Advance
        <5>2. j \in i + 1 .. End
          BY <5>1 DEF Longest, LexemesAt
        <5>3. ASSUME NoBreaksIn(Len(tokens))' PROVE Here(i', line', col')
          <6>1. Here(i, line, col) /\ \A g \in i .. j - 1 : At(g) # "\n"
            BY <3>5, <4>1, <5>1, <5>3
          <6>2. LinesBefore(j) = LinesBefore(i) /\ ColAt(j) = col + (j - i)
            BY <3>1, <5>2, <6>1, NoBreakBetween
          <6>3. Max(LinesBefore(i) \cup {0}) \in Nat
            BY <3>1, LastBreakIs
          <6> QED
            BY <3>1, <5>1, <5>2, <6>1, <6>2, <6>3
        <5> QED
          BY <3>2, <3>5, <4>1, <5>3 DEF KnowsWhere
      <4>4. tokens' = tokens \/ EndOfFile \/ \E kind \in Kinds : \E text, j : Longest(j) /\ Take(kind, text, j)
        BY <2>3, <3>1, WhatStepsDo DEF Skip, NewLine, Fail
      <4> QED
        BY <3>6, <4>2, <4>3, <4>4
    <3> QED
      BY <3>4, <3>6
  <2> QED
    BY <2>1, <2>2, <2>3
<1>3. PositionInv => PositionsAreExact
  BY DEF PositionInv
<1> QED
  BY <1>1, <1>2, <1>3, TypeCorrect, PTL DEF LexSpec

-----------------------------------------------------------------------------
(* The cut.                                                                *)

\* The invariant is the property itself, with the types.
CutInv == TypeInv /\ CutIntoLongest

THEOREM CutCorrect == LexSpec => []CutIntoLongest
<1>1. LexInit(Texts) => CutIntoLongest
  <2>1. SUFFICES ASSUME LexInit(Texts) PROVE CutIntoLongest
    OBVIOUS
  <2>2. i = 1 /\ tokens = << >> /\ phase = "lexing" /\ Len(tokens) = 0
    BY <2>1, EmptySeq DEF LexInit
  <2>3. EndBefore(Len(tokens) + 1) = 1
    BY <2>2 DEF EndBefore
  <2>4. OnlyBlanks(1, 1)
    BY DEF OnlyBlanks
  <2> QED
    BY <2>2, <2>3, <2>4 DEF CutIntoLongest, Newest
<1>2. CutInv /\ TypeInv' /\ [LexNext]_lexVars => CutInv'
  <2>1. SUFFICES ASSUME CutInv, TypeInv', [LexNext]_lexVars PROVE CutIntoLongest'
    BY DEF CutInv
  <2>2. CASE UNCHANGED lexVars
    <3>1. src' = src /\ i' = i /\ tokens' = tokens /\ phase' = phase
      BY <2>2 DEF lexVars
    <3>2. \A k, j : OnlyBlanks(k, j)' = OnlyBlanks(k, j) /\ EndBefore(k)' = EndBefore(k)
      BY <3>1 DEF OnlyBlanks, At, EndBefore
    <3>3. \A k : LexemesAt(k)' = LexemesAt(k)
      BY <3>1 DEF LexemesAt, End, Slice
    <3>4. CutIntoLongest' <=> CutIntoLongest
      BY <3>1, <3>2, <3>3 DEF CutIntoLongest, Newest
    <3> QED
      BY <2>1, <3>4 DEF CutInv
  <2>3. CASE LexNext
    <3>1. /\ TypeInv /\ SourceInv /\ TokensInv /\ CutIntoLongest
          /\ Len(src) \in Nat /\ i \in 1 .. End /\ End = Len(src) + 1
      BY <2>1, LenProperties DEF CutInv, TypeInv, SourceInv, End
    <3>2. src' = src
      BY <2>3, <3>1, WhatTokensDo
    <3>3. PICK n \in Nat : n = Len(tokens) /\ DOMAIN tokens = 1 .. n
      BY <3>1, LenProperties DEF TokensInv, IsSequence
    <3>4. PICK e : e = EndBefore(n + 1) /\ e \in 1 .. i
      <4>1. CASE n = 0
        BY <3>1, <4>1 DEF EndBefore
      <4>2. CASE n # 0
        <5>1. n \in DOMAIN tokens /\ n + 1 # 1 /\ n + 1 - 1 = n
          BY <3>3, <4>2
        <5>2. tokens[n].at \in 1 .. i /\ tokens[n].to \in tokens[n].at .. i
          BY <3>1, <5>1 DEF TokensInv
        <5>3. tokens[n].to \in 1 .. i
          BY <3>1, <5>2
        <5> QED
          BY <5>1, <5>3 DEF EndBefore
      <4> QED
        BY <4>1, <4>2
    <3>5. OnlyBlanks(e, i)
      BY <3>1, <3>3, <3>4 DEF CutIntoLongest
    <3>6. \A k, j : OnlyBlanks(k, j)' = OnlyBlanks(k, j)
      BY <3>2 DEF OnlyBlanks, At
    <3>7. \A k : LexemesAt(k)' = LexemesAt(k)
      BY <3>2 DEF LexemesAt, End, Slice
    <3>8. ASSUME tokens' = tokens, OnlyBlanks(e, i'), phase' = "failed" => LexemesAt(i') = {}
          PROVE  CutIntoLongest'
      <4>1. Newest' = Newest /\ \A k : EndBefore(k)' = EndBefore(k)
        BY <3>8 DEF Newest, EndBefore
      <4>2. \A k \in Newest : OnlyBlanks(EndBefore(k), tokens[k].at) /\ tokens[k].to = Max(LexemesAt(tokens[k].at))
        BY <3>1 DEF CutIntoLongest
      <4>3. (OnlyBlanks(EndBefore(Len(tokens) + 1), i))'
        <5>1. EndBefore(Len(tokens) + 1)' = e
          BY <3>3, <3>4, <3>8 DEF EndBefore
        <5> QED
          BY <3>2, <3>8, <5>1 DEF OnlyBlanks, At
      <4>4. (phase = "failed" => LexemesAt(i) = {})'
        BY <3>7, <3>8
      <4> QED
        BY <3>6, <3>7, <3>8, <4>1, <4>2, <4>3, <4>4 DEF CutIntoLongest
    <3>9. ASSUME NEW j \in i .. End, OnlyBlanks(i, j) PROVE OnlyBlanks(e, j)
      <4>1. \A k \in e .. j - 1 : k \in e .. i - 1 \/ (k \in i .. j - 1 /\ \A h \in i .. k : h \in e .. k)
        BY <3>1, <3>4
      <4> QED
        BY <3>5, <3>9, <4>1 DEF OnlyBlanks
    <3>10. ASSUME NEW j \in i + 1 .. End, Skip(j), OnlyBlanks(i, j)
           PROVE  CutIntoLongest'
      <4>1. tokens' = tokens /\ i' = j /\ phase' = phase
        BY <3>10 DEF Skip, Advance
      <4>2. phase' # "failed"
        BY <2>3, <3>1, <4>1, WhatStepsDo
      <4>3. j \in i .. End
        BY <3>1
      <4> QED
        BY <3>8, <3>9, <3>10, <4>1, <4>2, <4>3
    <3>11. ASSUME NewLine, i < End, At(i) = "\n"
           PROVE  CutIntoLongest'
      <4>1. tokens' = tokens /\ i' = i + 1 /\ phase' = phase
        BY <3>11 DEF NewLine, Advance
      <4>2. phase' # "failed"
        BY <2>3, <3>1, <4>1, WhatStepsDo
      <4>3. PICK j \in i .. End : j = i + 1
        BY <3>1, <3>11
      <4>4. \A k \in i .. j - 1 : k = i
        BY <3>1, <4>3
      <4>5. OnlyBlanks(i, j)
        BY <3>11, <4>4 DEF OnlyBlanks
      <4> QED
        BY <3>8, <3>9, <4>1, <4>2, <4>3, <4>5
    <3>12. ASSUME Fail, LexemesAt(i) = {}
           PROVE  CutIntoLongest'
      BY <3>5, <3>8, <3>12 DEF Fail
    <3>13. ASSUME NEW t, tokens' = Append(tokens, t), t.at = i, t.to = i', phase' # "failed",
                  t.kind # "EOF" => t.to = Max(LexemesAt(i))
           PROVE  CutIntoLongest'
      <4>1. /\ Len(tokens') = n + 1
            /\ \A k \in 1 .. n : tokens'[k] = tokens[k]
            /\ tokens'[n + 1] = t
        BY <3>1, <3>3, <3>13, Appended
      <4>2. Newest' = IF t.kind # "EOF" THEN {n + 1} ELSE {}
        <5>1. tokens' # << >>
          BY <4>1, <3>3, EmptySeq
        <5> QED
          BY <4>1, <5>1 DEF Newest
      <4>3. EndBefore(n + 1)' = e
        <5>1. n + 1 = 1 \/ n + 1 - 1 \in 1 .. n
          BY <3>3
        <5> QED
          BY <3>4, <4>1, <5>1 DEF EndBefore
      <4>4. (OnlyBlanks(EndBefore(n + 1), tokens[n + 1].at))'
        BY <3>2, <3>5, <3>13, <4>1, <4>3 DEF OnlyBlanks, At
      <4>5. t.kind # "EOF" => (tokens[n + 1].to = Max(LexemesAt(tokens[n + 1].at)))'
        BY <3>2, <3>13, <4>1 DEF LexemesAt, End, Slice
      <4>6. EndBefore(Len(tokens) + 1)' = i'
        <5>1. n + 1 + 1 # 1 /\ n + 1 + 1 - 1 = n + 1
          BY <3>3
        <5> QED
          BY <3>13, <4>1, <5>1 DEF EndBefore
      <4>7. OnlyBlanks(EndBefore(Len(tokens) + 1), i)'
        <5>1. PICK j \in Int : j = i'
          BY <2>1 DEF TypeInv, SourceInv
        <5>2. \A k \in j .. j - 1 : FALSE
          OBVIOUS
        <5>3. OnlyBlanks(j, j)
          BY <5>2 DEF OnlyBlanks
        <5> QED
          BY <3>6, <4>6, <5>1, <5>3
      <4> QED
        BY <3>13, <4>2, <4>4, <4>5, <4>7 DEF CutIntoLongest
    <3>14. ASSUME NEW kind \in Kinds, NEW text, NEW j, Longest(j), Take(kind, text, j)
           PROVE  CutIntoLongest'
      <4>1. tokens' = Append(tokens, Token(kind, text, j)) /\ i' = j /\ phase' = phase
        BY <3>14 DEF Take, Advance
      <4>2. phase' # "failed"
        BY <2>3, <3>1, <4>1, WhatStepsDo
      <4>3. j = Max(LexemesAt(i))
        <5>1. LexemesAt(i) \in SUBSET Nat
          BY <3>1 DEF LexemesAt
        <5> QED
          BY <3>14, <5>1, MaxIs DEF Longest
      <4>4. Token(kind, text, j).at = i /\ Token(kind, text, j).to = j
        BY DEF Token
      <4> QED
        BY <3>13, <4>1, <4>2, <4>3, <4>4
    <3>15. ASSUME EndOfFile PROVE CutIntoLongest'
      <4>1. tokens' = Append(tokens, Token("EOF", "<eof>", i)) /\ i' = i /\ phase' = "lexed"
        BY <3>15 DEF EndOfFile
      <4>2. LET t == Token("EOF", "<eof>", i) IN t.at = i /\ t.to = i /\ t.kind = "EOF"
        BY DEF Token
      <4> QED
        BY <3>13, <4>1, <4>2
    <3> QED
      BY <2>3, <3>1, <3>10, <3>11, <3>12, <3>14, <3>15, WhatStepsDo
  <2> QED
    BY <2>1, <2>2, <2>3
<1>3. TypeInv /\ CutIntoLongest => CutInv
  BY DEF CutInv
<1>4. CutInv => CutIntoLongest
  BY DEF CutInv
<1> QED
  BY <1>1, <1>2, <1>3, <1>4, TypeCorrect, PTL DEF LexSpec
=============================================================================
