------------------------- MODULE ImportTableProofs --------------------------
(***************************************************************************)
(* What holds of the rule table for every file system, every way files may *)
(* import one another, and both ports.                                     *)
(***************************************************************************)
EXTENDS ImportTable, FiniteSetTheorems, SequenceTheorems, WellFoundedInduction, TLAPS

Lib == Segment \cup {TopLib}
FrameType == [path : Seq(Segment), lib : Lib, next : Nat \ {0}]
NonEmpty == Seq(Segment) \ {<< >>}
EntryType == [lib : Lib, name : Name, file : Seq(Segment)]

-----------------------------------------------------------------------------
(* Lemmas about paths and sequences.                                       *)

LEMMA FrontOfSeq ==
  ASSUME NEW S, NEW s \in Seq(S), s # << >>
  PROVE  /\ Front(s) \in Seq(S)
         /\ Len(Front(s)) = Len(s) - 1
         /\ \A i \in 1 .. Len(s) - 1 : Front(s)[i] = s[i]
<1>1. Len(s) \in Nat \ {0}
  BY EmptySeq
<1>2. \A i \in 1 .. Len(s) - 1 : s[i] \in S
  BY <1>1, ElementOfSeq
<1>3. /\ SubSeq(s, 1, Len(s) - 1) \in Seq(S)
      /\ Len(SubSeq(s, 1, Len(s) - 1)) = Len(s) - 1
      /\ \A i \in 1 .. Len(s) - 1 : SubSeq(s, 1, Len(s) - 1)[i] = s[i]
  <2> DEFINE n == Len(s) - 1
  <2>1. 1 \in Int /\ n \in Nat
    BY <1>1
  <2> HIDE DEF n
  <2>2. /\ SubSeq(s, 1, n) \in Seq(S)
        /\ Len(SubSeq(s, 1, n)) = IF 1 <= n THEN n - 1 + 1 ELSE 0
        /\ \A i \in 1 .. n - 1 + 1 : SubSeq(s, 1, n)[i] = s[1 + i - 1]
    <3>1. \A i \in 1 .. n : s[i] \in S
      BY <1>2 DEF n
    <3>2. n \in Int
      BY <2>1
    <3> QED
      BY <2>1, <3>1, <3>2, SubSeqProperties
  <2>3. Len(SubSeq(s, 1, n)) = n
    BY <2>1, <2>2
  <2>4. \A i \in 1 .. n : SubSeq(s, 1, n)[i] = s[i]
    <3>1. n - 1 + 1 = n /\ \A i \in 1 .. n : 1 + i - 1 = i
      BY <2>1
    <3> QED
      BY <2>2, <3>1
  <2> QED
    BY <2>2, <2>3, <2>4 DEF n
<1> QED
  BY <1>3 DEF Front

LEMMA LastOfSeq ==
  ASSUME NEW S, NEW s \in Seq(S), s # << >>
  PROVE  /\ Len(s) \in Nat \ {0}
         /\ Len(s) \in DOMAIN s
         /\ DOMAIN s = 1 .. Len(s)
         /\ Last(s) = s[Len(s)]
         /\ Last(s) \in S
<1>1. Len(s) \in Nat \ {0} /\ DOMAIN s = 1 .. Len(s)
  BY EmptySeq, LenProperties
<1> QED
  BY <1>1, ElementOfSeq DEF Last

LEMMA WithEndingIsPath ==
  ASSUME NEW t \in Seq(Segment), t # << >>, Last(t) \in DOMAIN Evol
  PROVE  WithEnding(t) \in Seq(Segment) /\ WithEnding(t) # << >>
<1>1. Len(t) \in Nat \ {0} /\ Last(t) = t[Len(t)]
  BY LastOfSeq
<1>2. Evol[t[Len(t)]] \in Segment
  BY <1>1, PathAssumption
<1>3. /\ [t EXCEPT ![Len(t)] = Evol[t[Len(t)]]] \in Seq(Segment)
      /\ Len([t EXCEPT ![Len(t)] = Evol[t[Len(t)]]]) = Len(t)
  BY <1>1, <1>2, ExceptSeq
<1> QED
  BY <1>1, <1>3, EmptySeq DEF WithEnding

LEMMA WritableIs ==
  ASSUME NEW d, Writable(d)
  PROVE  /\ d.target \in Seq(Segment) /\ d.target # << >>
         /\ \A k \in DOMAIN d.target : d.target[k] # Here
         /\ Last(d.target) \in DOMAIN Evol \/ (d.path /\ HasEnding(d.target))
<1>1. d.target \in Seq(Segment \ {Here}) /\ d.target # << >>
      /\ (Last(d.target) \in DOMAIN Evol \/ (d.path /\ HasEnding(d.target)))
  BY DEF Writable
<1>2. d.target \in Seq(Segment)
  BY <1>1, SeqMonotonic
<1>3. \A k \in DOMAIN d.target : d.target[k] \in Segment \ {Here}
  BY <1>1, ElementOfSeq, LenProperties
<1> QED
  BY <1>1, <1>2, <1>3

\* What an import finds is a path, and it leads to a file or a directory.
LEMMA FoundIsPath ==
  ASSUME port \in {"py", "rs"}, NEW dir \in Seq(Segment), NEW d, Writable(d),
         NEW p \in Found(dir, d)
  PROVE  p \in NonEmpty /\ Exists(p)
<1> DEFINE paths == Candidates(dir, d)
           target == IF d.path THEN d.target ELSE WithEnding(d.target)
<1>1. PICK k \in DOMAIN paths : p = paths[k] /\ Exists(paths[k])
  BY DEF Found
<1>2. /\ d.target \in Seq(Segment) /\ d.target # << >>
      /\ Last(d.target) \in DOMAIN Evol \/ (d.path /\ HasEnding(d.target))
  BY WritableIs
<1>3. target \in NonEmpty
  BY <1>2, WithEndingIsPath DEF NonEmpty
<1>4. Cwd \in Seq(Segment) /\ Samples[port] \in Seq(Segment)
  BY PathAssumption
<1>5. ASSUME NEW t \in NonEmpty, NEW j \in 1 .. 3
      PROVE  <<dir, Cwd, Samples[port]>>[j] \o t \in NonEmpty
  <2>1. <<dir, Cwd, Samples[port]>>[j] \in Seq(Segment)
    BY <1>4
  <2> QED
    BY <2>1, <1>5, ConcatProperties, ConcatEqualIffEmpty DEF NonEmpty
<1>6. paths[k] \in NonEmpty
  <2>1. CASE d.abs
    BY <2>1, <1>3 DEF Candidates
  <2>2. CASE ~d.abs /\ HasEnding(target)
    <3>1. paths = [j \in 1 .. 3 |-> <<dir, Cwd, Samples[port]>>[j] \o target] \o << >>
      BY <2>2 DEF Candidates
    <3>2. [j \in 1 .. 3 |-> <<dir, Cwd, Samples[port]>>[j] \o target] \in Seq(NonEmpty)
      BY <1>3, <1>5, IsASeq
    <3>3. paths \in Seq(NonEmpty)
      BY <3>1, <3>2, ConcatEmptySeq, SMTT(30)
    <3> QED
      BY <3>3, LenProperties, ElementOfSeq
  <2>3. CASE ~d.abs /\ ~HasEnding(target)
    <3> DEFINE plain == [j \in 1 .. 3 |-> <<dir, Cwd, Samples[port]>>[j] \o target]
               ended == [j \in 1 .. 3 |-> <<dir, Cwd, Samples[port]>>[j] \o WithEnding(target)]
    <3>1. paths = plain \o ended
      BY <2>3 DEF Candidates
    <3>2. WithEnding(target) \in NonEmpty
      <4>1. CASE d.path
        BY <4>1, <1>2, <2>3, WithEndingIsPath DEF NonEmpty
      <4>2. CASE ~d.path
        <5>1. Len(d.target) \in DOMAIN d.target /\ Last(d.target) = d.target[Len(d.target)]
          BY <1>2, LastOfSeq
        <5>2. Len(WithEnding(d.target)) = Len(d.target) /\ WithEnding(d.target)[Len(d.target)] = Evol[Last(d.target)]
          BY <5>1, <1>2, ExceptSeq, PathAssumption, LastOfSeq DEF WithEnding
        <5>3. HasEnding(target)
          BY <5>2, <4>2, <1>2 DEF HasEnding, Evols, Range, Last
        <5> QED
          BY <5>3, <2>3
      <4> QED
        BY <4>1, <4>2
    <3>3. plain \in Seq(NonEmpty) /\ ended \in Seq(NonEmpty)
      BY <1>3, <1>5, <3>2, IsASeq
    <3>4. paths \in Seq(NonEmpty)
      BY <3>1, <3>3, ConcatProperties
    <3> QED
      BY <3>4, LenProperties, ElementOfSeq
  <2> QED
    BY <2>1, <2>2, <2>3
<1> QED
  BY <1>1, <1>6

LEMMA StemIsSegment ==
  ASSUME NEW p \in Seq(Segment), p # << >>
  PROVE  Stem(p) \in Segment
<1>1. Last(p) \in Segment
  BY LastOfSeq
<1>2. HasEnding(p) => \E s \in DOMAIN Evol : Evol[s] = Last(p)
  BY DEF HasEnding, Evols, Range
<1> QED
  BY <1>1, <1>2, PathAssumption DEF Stem

-----------------------------------------------------------------------------
(* Types.                                                                  *)

Texts == {place \in DOMAIN src : src[place] # Broken}

\* The files on the stack and those begun are files that parse.
Readable ==
  /\ TypeOK
  /\ src \in Worlds
  /\ status = "walking" => stack # << >>
  /\ \A i \in DOMAIN stack : Place(stack[i].path) \in Texts
  /\ \A i \in DOMAIN stack : stack[i].lib # TopLib => stack[i].path # << >>
  /\ \A f \in read : f.lib = TopLib => f.path = Main
  /\ \A i \in DOMAIN stack : [path |-> stack[i].path, lib |-> stack[i].lib] \in read

LEMMA TextType ==
  ASSUME Readable, NEW path, Place(path) \in Texts
  PROVE  /\ DOMAIN Text(path) = 1 .. Len(Text(path))
         /\ Len(Text(path)) \in Nat
         /\ \A k \in DOMAIN Text(path) :
              /\ Text(path)[k].kind = "rule" => /\ Text(path)[k].name \in Name
                                                /\ Text(path)[k].lib \in Lib
              /\ Text(path)[k].kind = "import" => Writable(Text(path)[k])
<1> QED
  BY WorldAssumption DEF Readable, Texts, Text, Lib

LEMMA TopType ==
  ASSUME Readable, status = "walking"
  PROVE  /\ stack \in Seq(FrameType) /\ stack # << >>
         /\ Len(stack) \in Nat \ {0} /\ Len(stack) \in DOMAIN stack
         /\ DOMAIN stack = 1 .. Len(stack)
         /\ Top = stack[Len(stack)]
         /\ Top \in FrameType
         /\ Place(Top.path) \in Texts
<1>1. stack \in Seq(FrameType) /\ stack # << >>
  BY DEF Readable, TypeOK, FrameType, Lib
<1>2. /\ Len(stack) \in Nat \ {0} /\ Len(stack) \in DOMAIN stack
      /\ DOMAIN stack = 1 .. Len(stack)
      /\ Last(stack) = stack[Len(stack)]
      /\ Last(stack) \in FrameType
  BY <1>1, LastOfSeq
<1>3. Place(stack[Len(stack)].path) \in Texts
  BY <1>2 DEF Readable
<1> QED
  BY <1>1, <1>2, <1>3 DEF Top

\* A call that returns leaves the others as they are.
LEMMA Popped ==
  ASSUME Readable, status = "walking", stack' = Front(stack)
  PROVE  /\ Len(stack) \in Nat \ {0} /\ DOMAIN stack = 1 .. Len(stack)
         /\ stack' \in Seq(FrameType) /\ Len(stack') = Len(stack) - 1
         /\ DOMAIN stack' = 1 .. Len(stack) - 1
         /\ \A i \in 1 .. Len(stack) - 1 : i \in DOMAIN stack /\ stack'[i] = stack[i]
<1>1. /\ stack \in Seq(FrameType) /\ stack # << >>
      /\ Len(stack) \in Nat \ {0} /\ DOMAIN stack = 1 .. Len(stack)
  BY TopType
<1> DEFINE front == Front(stack)
<1>2. /\ front \in Seq(FrameType) /\ Len(front) = Len(stack) - 1
      /\ \A i \in 1 .. Len(stack) - 1 : front[i] = stack[i]
  BY <1>1, FrontOfSeq, Zenon
<1> HIDE DEF front
<1>3. DOMAIN front = 1 .. Len(stack) - 1
  BY <1>2, LenProperties
<1>4. \A i \in 1 .. Len(stack) - 1 : i \in DOMAIN stack
  BY <1>1
<1>5. stack' = front
  BY DEF front
<1> QED
  BY <1>1, <1>2, <1>3, <1>4, <1>5, Zenon

LEMMA GoOnType ==
  ASSUME Readable, status = "walking"
  PROVE  /\ GoOn \in Seq(FrameType)
         /\ DOMAIN GoOn = DOMAIN stack /\ Len(GoOn) = Len(stack)
         /\ \A i \in DOMAIN stack : /\ GoOn[i].path = stack[i].path
                                    /\ GoOn[i].lib = stack[i].lib
                                    /\ i # Len(stack) => GoOn[i] = stack[i]
         /\ GoOn[Len(stack)].next = Top.next + 1
<1> DEFINE g == [Top EXCEPT !.next = @ + 1]
<1>1. g \in FrameType
  <2>1. Top \in FrameType
    BY TopType
  <2>2. Top.next + 1 \in Nat \ {0}
    BY <2>1 DEF FrameType
  <2> QED
    BY <2>1, <2>2 DEF FrameType
<1>2. GoOn = [stack EXCEPT ![Len(stack)] = g]
  BY TopType DEF GoOn
<1>3. GoOn \in Seq(FrameType) /\ Len(GoOn) = Len(stack)
  BY <1>1, <1>2, TopType, ExceptSeq
<1>4. DOMAIN GoOn = DOMAIN stack
  BY <1>2
<1>5. \A i \in DOMAIN stack : GoOn[i] = IF i = Len(stack) THEN g ELSE stack[i]
  BY <1>2, TopType
<1>6. \A i \in DOMAIN stack : stack[i] \in FrameType
  BY TopType, ElementOfSeq
<1> QED
  BY <1>3, <1>4, <1>5, <1>6, TopType DEF FrameType

\* The import the walk has come to, and what it finds.
LEMMA TargetType ==
  ASSUME Readable, At("import"), NEW p \in Target
  PROVE  /\ Decl = Text(Top.path)[Top.next] /\ Top.next \in DOMAIN Text(Top.path)
         /\ p \in NonEmpty
         /\ Exists(p)
<1>1. status = "walking" /\ Top.next \in DOMAIN Text(Top.path) /\ Decl.kind = "import"
  BY DEF At
<1>2. Writable(Decl)
  BY <1>1, TopType, TextType DEF Decl
<1>3. DirOf(Top) \in Seq(Segment)
  <2>1. Top.path \in Seq(Segment) /\ (Top.lib # TopLib => Top.path # << >>)
    BY <1>1, TopType DEF FrameType, Readable
  <2> QED
    BY <2>1, FrontOfSeq, PathAssumption DEF DirOf
<1>4. port \in {"py", "rs"}
  BY DEF Readable, TypeOK
<1> QED
  BY <1>1, <1>2, <1>3, <1>4, FoundIsPath DEF Target, Decl

\* What an entry does to the table: it takes the place of its key or comes last.
LEMMA PutType ==
  ASSUME table \in Seq(EntryType), NEW lib \in Lib, NEW name \in Name, NEW file \in Seq(Segment)
  PROVE  LET new == Put(lib, name, file)
             entry == [lib |-> lib, name |-> name, file |-> file]
         IN  /\ new \in Seq(EntryType)
             /\ \A k \in DOMAIN table : /\ k \in DOMAIN new
                                        /\ new[k].lib = table[k].lib /\ new[k].name = table[k].name
             /\ \E k \in DOMAIN new : new[k] = entry
             /\ \A k \in DOMAIN new : new[k] = entry \/ (k \in DOMAIN table /\ new[k] = table[k])
<1> DEFINE entry == [lib |-> lib, name |-> name, file |-> file]
           new == Put(lib, name, file)
<1>1. entry \in EntryType
  BY DEF EntryType
<1>2. Len(table) \in Nat /\ DOMAIN table = 1 .. Len(table)
  BY LenProperties
<1>3. CASE Slots(lib, name) = {}
  <2>1. new = Append(table, entry)
    BY <1>3 DEF Put
  <2>2. /\ Append(table, entry) \in Seq(EntryType)
        /\ Len(Append(table, entry)) = Len(table) + 1
        /\ \A i \in 1 .. Len(table) : Append(table, entry)[i] = table[i]
        /\ Append(table, entry)[Len(table) + 1] = entry
    BY <1>1, AppendProperties
  <2>3. DOMAIN new = 1 .. Len(table) + 1
    BY <2>1, <2>2, LenProperties
  <2> HIDE DEF new, entry
  <2>4. \A k \in DOMAIN new : k \in DOMAIN table \/ k = Len(table) + 1
    BY <1>2, <2>3
  <2>5. \A k \in DOMAIN table : k \in DOMAIN new
    BY <1>2, <2>3
  <2>6. Len(table) + 1 \in DOMAIN new
    BY <1>2, <2>3
  <2> QED
    BY <1>2, <2>1, <2>2, <2>4, <2>5, <2>6 DEF new, entry
<1>4. CASE Slots(lib, name) # {}
  <2>1. new = [k \in DOMAIN table |-> IF k \in Slots(lib, name) THEN entry ELSE table[k]]
    BY <1>4 DEF Put
  <2>2. \A k \in DOMAIN table : table[k] \in EntryType
    BY ElementOfSeq, <1>2
  <2>3. new \in Seq(EntryType)
    <3>1. new = [k \in 1 .. Len(table) |-> IF k \in Slots(lib, name) THEN entry ELSE table[k]]
      BY <1>2, <2>1
    <3>2. \A k \in 1 .. Len(table) : (IF k \in Slots(lib, name) THEN entry ELSE table[k]) \in EntryType
      BY <1>1, <1>2, <2>2
    <3> QED
      BY <1>2, <3>1, <3>2, IsASeq
  <2>4. PICK k \in DOMAIN table : k \in Slots(lib, name)
    BY <1>4 DEF Slots
  <2>5. new[k] = entry /\ k \in DOMAIN new
    BY <2>1, <2>4
  <2>6. \A j \in DOMAIN table : j \in Slots(lib, name) => table[j].lib = lib /\ table[j].name = name
    BY DEF Slots
  <2> QED
    BY <2>1, <2>3, <2>5, <2>6
<1> QED
  BY <1>3, <1>4

-----------------------------------------------------------------------------
(* Readable is inductive.                                                  *)

LEMMA ReadableInit == Init => Readable
<1> SUFFICES ASSUME Init PROVE Readable
  OBVIOUS
<1> USE DEF Init
<1>1. stack \in Seq(FrameType) /\ Len(stack) = 1 /\ DOMAIN stack = {1}
  <2>1. [path |-> Main, lib |-> TopLib, next |-> 1] \in FrameType
    BY PathAssumption DEF FrameType, Lib
  <2> QED
    BY <2>1
<1>2. TypeOK
  <2>1. table \in Seq(EntryType)
    BY EmptySeq
  <2> QED
    BY <1>1, <2>1, PathAssumption DEF TypeOK, File, FrameType, EntryType, Lib
<1>3. Place(Main) \in Texts
  BY WorldAssumption DEF Texts
<1> QED
  BY <1>1, <1>2, <1>3 DEF Readable

\* The parts of Readable that a step to the next declaration keeps.
LEMMA GoOnReadable ==
  ASSUME Readable, status = "walking", stack' = GoOn, src' = src, read' = read
  PROVE  /\ stack' \in Seq(FrameType) /\ stack' # << >>
         /\ \A i \in DOMAIN stack' : Place(stack'[i].path) \in Texts'
         /\ \A i \in DOMAIN stack' : stack'[i].lib # TopLib => stack'[i].path # << >>
         /\ \A i \in DOMAIN stack' : [path |-> stack'[i].path, lib |-> stack'[i].lib] \in read'
<1>1. /\ stack' \in Seq(FrameType) /\ DOMAIN stack' = DOMAIN stack /\ Len(stack') = Len(stack)
      /\ \A i \in DOMAIN stack : stack'[i].path = stack[i].path /\ stack'[i].lib = stack[i].lib
  BY GoOnType
<1>2. Texts' = Texts
  BY DEF Texts
<1>3. Len(stack) \in Nat \ {0}
  BY TopType
<1>4. stack' # << >>
  BY <1>1, <1>3, EmptySeq
<1> QED
  BY <1>1, <1>2, <1>4 DEF Readable

LEMMA ReadableStep == Readable /\ [Next]_vars => Readable'
<1> SUFFICES ASSUME Readable, [Next]_vars PROVE Readable'
  OBVIOUS
<1>t. /\ port \in {"py", "rs"} /\ stack \in Seq(FrameType) /\ table \in Seq(EntryType)
      /\ seen \subseteq Seq(Segment) /\ read \subseteq File /\ src \in Worlds
  BY DEF Readable, TypeOK, FrameType, EntryType, Lib
<1>g. ASSUME status = "walking", stack' = GoOn, UNCHANGED <<port, src, seen, status, read>>,
             table' \in Seq(EntryType)
      PROVE  Readable'
  <2>1. /\ stack' \in Seq(FrameType) /\ stack' # << >>
        /\ \A i \in DOMAIN stack' : Place(stack'[i].path) \in Texts'
        /\ \A i \in DOMAIN stack' : stack'[i].lib # TopLib => stack'[i].path # << >>
        /\ \A i \in DOMAIN stack' : [path |-> stack'[i].path, lib |-> stack'[i].lib] \in read'
    BY <1>g, GoOnReadable
  <2>2. TypeOK'
    BY <1>g, <1>t, <2>1 DEF TypeOK, FrameType, EntryType, Lib
  <2> QED
    BY <1>g, <1>t, <2>1, <2>2 DEF Readable
\* The walk ends here and nothing but seen changes.
<1>e. ASSUME UNCHANGED <<port, src, stack, table, read>>, status' # "walking",
             status' \in {"ffi", "missing", "syntax", "unreadable", "too deep"},
             seen' \subseteq Seq(Segment)
      PROVE  Readable'
  <2>1. Texts' = Texts
    BY <1>e DEF Texts
  <2> QED
    BY <1>e, <2>1 DEF Readable, TypeOK, File
<1>1. CASE AddRule
  <2>1. status = "walking" /\ Top.next \in DOMAIN Text(Top.path) /\ Decl.kind = "rule"
    BY <1>1 DEF AddRule, At
  <2>2. Decl.name \in Name /\ Decl.lib \in Lib
    BY <2>1, TopType, TextType DEF Decl
  <2>3. Top.lib \in Lib /\ Top.path \in Seq(Segment)
    BY <2>1, TopType DEF FrameType
  <2>4. LibOf(Top, Decl) \in Lib
    BY <2>2, <2>3 DEF LibOf
  <2>5. table' \in Seq(EntryType)
    BY <1>1, <1>t, <2>2, <2>3, <2>4, PutType DEF AddRule
  <2> QED
    BY <1>1, <1>g, <2>1, <2>5 DEF AddRule
<1>2. CASE Skip
  <2>1. stack' = GoOn /\ status = "walking" /\ UNCHANGED <<port, src, table, seen, ffi, status, read>>
    BY <1>2 DEF Skip, At
  <2> QED
    BY <1>g, <1>t, <2>1
<1>3. CASE RegisterPy
  <2>1. UNCHANGED <<port, src, table, seen, read>> /\ status = "walking"
    BY <1>3 DEF RegisterPy, At
  <2>2. (stack' = GoOn /\ UNCHANGED status) \/ (status' = "ffi" /\ UNCHANGED stack)
    BY <1>3 DEF RegisterPy
  <2>3. CASE stack' = GoOn /\ UNCHANGED status
    BY <1>g, <1>t, <2>1, <2>3
  <2>4. CASE status' = "ffi" /\ UNCHANGED stack
    BY <1>e, <1>t, <2>1, <2>4
  <2> QED
    BY <2>2, <2>3, <2>4
<1>4. CASE ImportSeen
  <2>1. stack' = GoOn /\ status = "walking" /\ UNCHANGED <<port, src, table, seen, ffi, status, read>>
    BY <1>4 DEF ImportSeen, At
  <2> QED
    BY <1>g, <1>t, <2>1
<1>5. CASE ImportFile
  <2>1. PICK p \in Target : /\ Place(p) \notin Dirs /\ Text(p) # Broken
                            /\ seen' = Marked(p)
                            /\ stack' = Append(GoOn, Frame(p))
                            /\ read' = read \cup {[path |-> p, lib |-> Stem(p)]}
    BY <1>5 DEF ImportFile
  <2>2. At("import") /\ status = "walking" /\ UNCHANGED <<port, src, table, ffi, status>>
    BY <1>5 DEF ImportFile, At
  <2>3. p \in NonEmpty /\ Exists(p)
    BY <2>2, TargetType
  <2>4. p \in Seq(Segment) /\ p # << >> /\ Stem(p) \in Segment /\ Stem(p) # TopLib
    BY <2>3, StemIsSegment, PathAssumption DEF NonEmpty
  <2>5. Place(p) \in Texts
    BY <2>1, <2>3 DEF Exists, Texts, Text
  <2>6. Frame(p) \in FrameType /\ Frame(p).path = p /\ Frame(p).lib = Stem(p)
    BY <2>4 DEF Frame, FrameType, Lib
  <2>7. /\ GoOn \in Seq(FrameType) /\ DOMAIN GoOn = DOMAIN stack /\ Len(GoOn) = Len(stack)
        /\ \A i \in DOMAIN stack : GoOn[i].path = stack[i].path /\ GoOn[i].lib = stack[i].lib
    BY <2>2, GoOnType
  <2>8. /\ stack' \in Seq(FrameType) /\ stack' # << >>
        /\ \A i \in DOMAIN stack' : \/ i \in DOMAIN stack /\ stack'[i] = GoOn[i]
                                    \/ stack'[i] = Frame(p)
    <3>1. /\ Append(GoOn, Frame(p)) \in Seq(FrameType)
          /\ Append(GoOn, Frame(p)) # << >>
          /\ Len(Append(GoOn, Frame(p))) = Len(GoOn) + 1
          /\ \A i \in 1 .. Len(GoOn) : Append(GoOn, Frame(p))[i] = GoOn[i]
          /\ Append(GoOn, Frame(p))[Len(GoOn) + 1] = Frame(p)
      BY <2>6, <2>7, AppendProperties
    <3>2. Len(stack) \in Nat /\ DOMAIN stack = 1 .. Len(stack)
      BY <2>2, TopType
    <3>3. DOMAIN stack' = 1 .. Len(stack) + 1
      BY <2>1, <2>7, <3>1, LenProperties
    <3>4. \A i \in DOMAIN stack' : i \in DOMAIN stack \/ i = Len(stack) + 1
      BY <3>2, <3>3
    <3> QED
      BY <2>1, <2>7, <3>1, <3>2, <3>4
  <2>9. Texts' = Texts
    BY <2>2 DEF Texts
  <2>10. TypeOK'
    BY <1>t, <2>1, <2>2, <2>4, <2>8 DEF Readable, TypeOK, FrameType, EntryType, Lib, File, Marked
  <2>11. \A f \in read' : f.lib = TopLib => f.path = Main
    BY <2>1, <2>4 DEF Readable
  <2>12. \A i \in DOMAIN stack' : [path |-> stack'[i].path, lib |-> stack'[i].lib] \in read'
    BY <2>1, <2>6, <2>7, <2>8 DEF Readable
  <2>13. \A i \in DOMAIN stack' : Place(stack'[i].path) \in Texts'
    BY <2>5, <2>6, <2>7, <2>8, <2>9 DEF Readable
  <2>14. \A i \in DOMAIN stack' : stack'[i].lib # TopLib => stack'[i].path # << >>
    BY <2>4, <2>6, <2>7, <2>8 DEF Readable
  <2> QED
    BY <1>t, <2>2, <2>8, <2>10, <2>11, <2>12, <2>13, <2>14 DEF Readable
<1>6. CASE ImportFails
  <2>1. PICK p \in Target : seen' = Marked(p) /\ status' \in {"unreadable", "syntax", "too deep"}
    BY <1>6 DEF ImportFails
  <2>2. p \in Seq(Segment)
    BY <1>6, TargetType DEF ImportFails, NonEmpty
  <2>3. seen' \subseteq Seq(Segment)
    BY <1>t, <2>1, <2>2 DEF Marked
  <2> QED
    BY <1>6, <1>e, <2>1, <2>3 DEF ImportFails
<1>7. CASE ImportMissing
  BY <1>7, <1>e, <1>t DEF ImportMissing
<1>8. CASE Return
  <2>1. status = "walking" /\ stack' = Front(stack) /\ UNCHANGED <<port, src, table, seen, ffi, read>>
        /\ status' = IF Len(stack) = 1 THEN "done" ELSE status
    BY <1>8 DEF Return
  <2>3. /\ Len(stack) \in Nat \ {0} /\ DOMAIN stack = 1 .. Len(stack)
        /\ stack' \in Seq(FrameType) /\ Len(stack') = Len(stack) - 1
        /\ DOMAIN stack' = 1 .. Len(stack) - 1
        /\ \A i \in 1 .. Len(stack) - 1 : i \in DOMAIN stack /\ stack'[i] = stack[i]
    BY <2>1, Popped, Zenon
  <2>5. \A i \in DOMAIN stack' : i \in DOMAIN stack /\ stack'[i] = stack[i]
    BY <2>3
  <2>6. Texts' = Texts
    BY <2>1 DEF Texts
  <2>7. status' = "walking" => stack' # << >>
    BY <2>1, <2>3, EmptySeq
  <2>8. TypeOK'
    BY <1>t, <2>1, <2>3 DEF Readable, TypeOK, FrameType, EntryType, Lib
  <2> QED
    BY <1>t, <2>1, <2>5, <2>6, <2>7, <2>8 DEF Readable
<1>9. CASE UNCHANGED vars
  BY <1>9 DEF vars, Readable, TypeOK, File, Texts
<1> QED
  BY <1>1, <1>2, <1>3, <1>4, <1>5, <1>6, <1>7, <1>8, <1>9 DEF Next

\* Every variable keeps its type, whatever the files hold and however they import one
\* another (interpreter.py:678-714).
THEOREM TypeCorrect == Spec => []TypeOK
<1>1. Readable => TypeOK
  BY DEF Readable
<1> QED
  BY <1>1, ReadableInit, ReadableStep, PTL DEF Spec

-----------------------------------------------------------------------------
(* What a step may do to the table, and to what has been dealt with.       *)

LEMMA AddRuleFacts ==
  ASSUME Readable, AddRule
  PROVE  /\ status = "walking" /\ Top.next \in DOMAIN Text(Top.path) /\ Decl.kind = "rule"
         /\ Decl = Text(Top.path)[Top.next]
         /\ table' = Put(LibOf(Top, Decl), Decl.name, Top.path)
         /\ LibOf(Top, Decl) \in Lib /\ Decl.name \in Name /\ Top.path \in Seq(Segment)
<1>1. status = "walking" /\ Top.next \in DOMAIN Text(Top.path) /\ Decl.kind = "rule"
  BY DEF AddRule, At
<1>2. Decl.name \in Name /\ Decl.lib \in Lib
  BY <1>1, TopType, TextType DEF Decl
<1>3. Top.lib \in Lib /\ Top.path \in Seq(Segment)
  BY <1>1, TopType DEF FrameType
<1> QED
  BY <1>1, <1>2, <1>3 DEF AddRule, LibOf, Decl

\* A key of the table keeps its slot.
LEMMA SlotsStep ==
  ASSUME Readable, [Next]_vars
  PROVE  \A k \in DOMAIN table : /\ k \in DOMAIN table'
                                 /\ table'[k].lib = table[k].lib
                                 /\ table'[k].name = table[k].name
<1>t. table \in Seq(EntryType)
  BY DEF Readable, TypeOK, EntryType, Lib
<1>1. CASE AddRule
  BY <1>1, <1>t, AddRuleFacts, PutType
<1>2. CASE UNCHANGED table
  BY <1>2
<1>3. AddRule \/ UNCHANGED table
  BY DEF Next, vars, Skip, RegisterPy, ImportSeen, ImportFile, ImportFails, ImportMissing, Return
<1> QED
  BY <1>1, <1>2, <1>3

\* The order of the table is that of the first mention of every rule: an import that
\* replaces a rule moves nothing (interpreter.py:688).
THEOREM SlotsKept == Spec => SlotsAreKept
<1>1. Readable /\ [Next]_vars =>
        [\A k \in DOMAIN table : /\ k \in DOMAIN table'
                                 /\ table'[k].lib = table[k].lib
                                 /\ table'[k].name = table[k].name]_vars
  BY SlotsStep
<1> QED
  BY <1>1, ReadableInit, ReadableStep, PTL DEF Spec, SlotsAreKept

\* What was dealt with stays so: nothing leaves the table or the files read.
LEMMA CoveredStays ==
  ASSUME NEW f, NEW d, Covered(f, d), UNCHANGED <<port, src>>, read \subseteq read',
         \A k \in DOMAIN table : /\ k \in DOMAIN table'
                                 /\ table'[k].lib = table[k].lib
                                 /\ table'[k].name = table[k].name
  PROVE  Covered(f, d)'
<1>1. Found(DirOf(f), d)' = Found(DirOf(f), d)
  BY DEF Found, Candidates, Exists, DirOf
<1>2. \A p, r : SamePath(p, r)' = SamePath(p, r)
  BY DEF SamePath
<1>3. Slots(LibOf(f, d), d.name) # {} => Slots(LibOf(f, d), d.name)' # {}
  BY DEF Slots
<1> QED
  BY <1>1, <1>2, <1>3 DEF Covered, LibOf

-----------------------------------------------------------------------------
(* The rules of the table come from the files read.                        *)

LEMMA OriginStep ==
  ASSUME Readable, RulesComeFromFiles, [Next]_vars
  PROVE  RulesComeFromFiles'
<1>t. table \in Seq(EntryType)
  BY DEF Readable, TypeOK, EntryType, Lib
<1>1. src' = src /\ read \subseteq read'
  BY DEF Next, vars, AddRule, Skip, RegisterPy, ImportSeen, ImportFile, ImportFails,
         ImportMissing, Return
<1>2. \A path : Text(path)' = Text(path)
  BY <1>1 DEF Text
<1>3. CASE AddRule
  <2> DEFINE entry == [lib |-> LibOf(Top, Decl), name |-> Decl.name, file |-> Top.path]
             f == [path |-> Top.path, lib |-> Top.lib]
  <2>1. \A k \in DOMAIN table' : table'[k] = entry \/ (k \in DOMAIN table /\ table'[k] = table[k])
    BY <1>3, <1>t, AddRuleFacts, PutType
  <2>2. f \in read
    BY <1>3, AddRuleFacts, TopType DEF Readable
  <2>3. /\ Top.next \in DOMAIN Text(f.path) /\ Text(f.path)[Top.next] = Decl /\ Decl.kind = "rule"
        /\ LibOf(f, Decl) = LibOf(Top, Decl)
    BY <1>3, AddRuleFacts DEF LibOf
  <2>4. ASSUME NEW k \in DOMAIN table'
        PROVE  \E g \in read' : /\ g.path = table'[k].file
                                /\ \E j \in DOMAIN Text(g.path)' :
                                     /\ Text(g.path)'[j].kind = "rule"
                                     /\ Text(g.path)'[j].name = table'[k].name
                                     /\ LibOf(g, Text(g.path)'[j]) = table'[k].lib
    <3>1. CASE table'[k] = entry
      BY <3>1, <1>1, <1>2, <2>2, <2>3
    <3>2. CASE k \in DOMAIN table /\ table'[k] = table[k]
      <4>1. PICK g \in read : /\ g.path = table[k].file
                              /\ \E j \in DOMAIN Text(g.path) :
                                   /\ Text(g.path)[j].kind = "rule"
                                   /\ Text(g.path)[j].name = table[k].name
                                   /\ LibOf(g, Text(g.path)[j]) = table[k].lib
        BY <3>2 DEF RulesComeFromFiles
      <4> QED
        BY <4>1, <3>2, <1>1, <1>2
    <3> QED
      BY <2>1, <3>1, <3>2
  <2> QED
    BY <2>4 DEF RulesComeFromFiles, LibOf
<1>4. CASE UNCHANGED table
  <2>1. ASSUME NEW k \in DOMAIN table
        PROVE  \E g \in read' : /\ g.path = table[k].file
                                /\ \E j \in DOMAIN Text(g.path)' :
                                     /\ Text(g.path)'[j].kind = "rule"
                                     /\ Text(g.path)'[j].name = table[k].name
                                     /\ LibOf(g, Text(g.path)'[j]) = table[k].lib
    BY <1>1, <1>2, <2>1 DEF RulesComeFromFiles
  <2> QED
    BY <1>4, <2>1 DEF RulesComeFromFiles, LibOf
<1>5. AddRule \/ UNCHANGED table
  BY DEF Next, vars, Skip, RegisterPy, ImportSeen, ImportFile, ImportFails, ImportMissing, Return
<1> QED
  BY <1>3, <1>4, <1>5

LEMMA OriginInit == Init => RulesComeFromFiles
  BY DEF Init, RulesComeFromFiles

\* No rule gets into the table but from a file on the way, under the library that file
\* gives it (interpreter.py:687-692).
THEOREM RulesHaveAFile == Spec => []RulesComeFromFiles
<1> QED
  BY ReadableInit, ReadableStep, OriginInit, OriginStep, PTL DEF Spec

\* The rules an unqualified spawn prefers are those of the main file: no import replaces
\* one (interpreter.py:711, :717-723).
THEOREM TopRulesKept == Spec => []TopRulesAreOfMain
<1>1. Readable /\ RulesComeFromFiles => TopRulesAreOfMain
  <2> SUFFICES ASSUME Readable, RulesComeFromFiles, NEW k \in DOMAIN table, table[k].lib = TopLib
               PROVE  table[k].file = Main
    BY DEF TopRulesAreOfMain
  <2>1. PICK f \in read : /\ f.path = table[k].file
                          /\ \E j \in DOMAIN Text(f.path) : LibOf(f, Text(f.path)[j]) = TopLib
    BY DEF RulesComeFromFiles
  <2>2. f.lib = TopLib
    BY <2>1 DEF LibOf
  <2> QED
    BY <2>1, <2>2 DEF Readable
<1> QED
  BY <1>1, ReadableInit, ReadableStep, OriginInit, OriginStep, PTL DEF Spec

-----------------------------------------------------------------------------
(* The table is complete.                                                  *)

\* The call i of the stack is the walk of the file f, and all before the declaration it has
\* come to is dealt with.
OnStack(f, i) ==
  /\ stack[i].path = f.path /\ stack[i].lib = f.lib
  /\ \A k \in DOMAIN Text(f.path) : k < stack[i].next => Covered(f, Text(f.path)[k])

Progress ==
  status \in {"walking", "done"} =>
    /\ \A f \in read : AllCovered(f) \/ \E i \in DOMAIN stack : OnStack(f, i)
    /\ \A p \in seen : \E f \in read : f.path = p
    /\ status = "done" => DOMAIN stack = {}

LEMMA ProgressInit == Init => Progress
<1> SUFFICES ASSUME Init PROVE Progress
  OBVIOUS
<1>1. /\ DOMAIN stack = {1} /\ stack[1] = [path |-> Main, lib |-> TopLib, next |-> 1]
      /\ read = {[path |-> Main, lib |-> TopLib]} /\ seen = {} /\ status = "walking"
  BY DEF Init
<1>2. \A k \in DOMAIN Text(Main) : ~(k < 1)
  BY ReadableInit, TextType, WorldAssumption DEF Readable, Texts, Init
<1>3. OnStack([path |-> Main, lib |-> TopLib], 1)
  BY <1>1, <1>2 DEF OnStack
<1> QED
  BY <1>1, <1>3 DEF Progress

\* The walk goes on behind a declaration it has dealt with: no file read before is forgotten.
LEMMA GoOnProgress ==
  ASSUME Readable, Progress, status = "walking", Top.next \in DOMAIN Text(Top.path),
         UNCHANGED <<port, src>>, read \subseteq read',
         \A k \in DOMAIN table : /\ k \in DOMAIN table'
                                 /\ table'[k].lib = table[k].lib
                                 /\ table'[k].name = table[k].name,
         \A i \in DOMAIN stack : i \in DOMAIN stack' /\ stack'[i] = GoOn[i],
         NEW f0, NEW d0, f0 = [path |-> Top.path, lib |-> Top.lib], d0 = Decl, Covered(f0, d0)'
  PROVE  \A f \in read : AllCovered(f)' \/ \E i \in DOMAIN stack' : OnStack(f, i)'
<1> SUFFICES ASSUME NEW f \in read
             PROVE  AllCovered(f)' \/ \E i \in DOMAIN stack' : OnStack(f, i)'
  OBVIOUS
<1>1. \A path : Text(path)' = Text(path)
  BY DEF Text
<1>2. CASE AllCovered(f)
  BY <1>1, <1>2, CoveredStays DEF AllCovered
<1>3. CASE \E i \in DOMAIN stack : OnStack(f, i)
  <2>1. PICK i \in DOMAIN stack : OnStack(f, i)
    BY <1>3
  <2>2. stack'[i].path = f.path /\ stack'[i].lib = f.lib
    BY <2>1, GoOnType DEF OnStack
  <2>3. ASSUME NEW k \in DOMAIN Text(f.path), k < stack'[i].next
        PROVE  Covered(f, Text(f.path)[k])'
    <3>1. CASE k < stack[i].next
      BY <3>1, <2>1, <1>1, CoveredStays DEF OnStack
    <3>2. CASE ~(k < stack[i].next)
      <4>1. i = Len(stack)
        BY <2>3, <3>2, GoOnType
      <4>2. stack[i] = Top /\ stack'[i].next = Top.next + 1
        BY <4>1, GoOnType, TopType
      <4>3. k \in Nat /\ Top.next \in Nat
        BY <2>1, <4>2, TextType, TopType DEF OnStack, FrameType
      <4>4. k = Top.next
        BY <2>3, <3>2, <4>2, <4>3
      <4>5. f = f0
        <5>1. f \in File
          BY DEF Readable, TypeOK
        <5>2. f = [path |-> f.path, lib |-> f.lib]
          BY <5>1 DEF File
        <5>3. f.path = Top.path /\ f.lib = Top.lib
          BY <2>1, <4>2 DEF OnStack
        <5> QED
          BY <5>2, <5>3
      <4>6. Text(f.path)[k] = d0
        BY <4>4, <4>5 DEF Decl
      <4> QED
        BY <4>5, <4>6, <1>1
    <3> QED
      BY <3>1, <3>2
  <2>4. i \in DOMAIN stack' /\ OnStack(f, i)'
    BY <1>1, <2>1, <2>2, <2>3 DEF OnStack
  <2> QED
    BY <2>4
<1> QED
  BY <1>2, <1>3 DEF Progress

LEMMA ProgressStep ==
  ASSUME Readable, Progress, [Next]_vars
  PROVE  Progress'
<1> SUFFICES ASSUME status' \in {"walking", "done"} PROVE Progress'
  BY DEF Progress
<1>s. \A k \in DOMAIN table : /\ k \in DOMAIN table'
                              /\ table'[k].lib = table[k].lib
                              /\ table'[k].name = table[k].name
  BY SlotsStep
<1>d. PICK f0, d0 : f0 = [path |-> Top.path, lib |-> Top.lib] /\ d0 = Decl
  OBVIOUS
\* A step to the next declaration that reads no file.
<1>g. ASSUME status = "walking", Top.next \in DOMAIN Text(Top.path), stack' = GoOn,
             UNCHANGED <<port, src, seen, status, read>>, Covered(f0, d0)'
      PROVE  Progress'
  <2>1. \A i \in DOMAIN stack : i \in DOMAIN stack' /\ stack'[i] = GoOn[i]
    BY <1>g, GoOnType
  <2>2. \A f \in read : AllCovered(f)' \/ \E i \in DOMAIN stack' : OnStack(f, i)'
    BY <1>d, <1>g, <1>s, <2>1, GoOnProgress
  <2>3. \A p \in seen' : \E f \in read' : f.path = p
    BY <1>g DEF Progress
  <2> QED
    BY <1>g, <2>2, <2>3 DEF Progress
<1>1. CASE AddRule
  <2>1. table \in Seq(EntryType)
    BY DEF Readable, TypeOK, EntryType, Lib
  <2>2. \E k \in DOMAIN table' : table'[k].lib = LibOf(Top, Decl) /\ table'[k].name = Decl.name
    BY <1>1, <2>1, AddRuleFacts, PutType
  <2>3. LibOf(f0, d0) = LibOf(Top, Decl) /\ d0.kind = "rule" /\ d0.name = Decl.name
    BY <1>1, <1>d, AddRuleFacts DEF LibOf
  <2>4. \E k \in DOMAIN table' : table'[k].lib = LibOf(f0, d0) /\ table'[k].name = d0.name
    BY <2>2, <2>3
  <2>5. Covered(f0, d0)'
    BY <2>3, <2>4 DEF Covered, Slots, LibOf
  <2> QED
    BY <1>1, <1>g, <2>5, AddRuleFacts DEF AddRule
<1>2. CASE Skip
  <2>1. /\ status = "walking" /\ Top.next \in DOMAIN Text(Top.path) /\ d0.kind = "skip"
        /\ stack' = GoOn /\ UNCHANGED <<port, src, table, seen, ffi, status, read>>
    BY <1>2, <1>d DEF Skip, At
  <2>2. Covered(f0, d0)'
    BY <2>1 DEF Covered
  <2> QED
    BY <1>g, <2>1, <2>2
<1>3. CASE RegisterPy
  <2>1. /\ status = "walking" /\ Top.next \in DOMAIN Text(Top.path) /\ d0.kind = "py"
        /\ UNCHANGED <<port, src, table, seen, read>>
    BY <1>3, <1>d DEF RegisterPy, At
  <2>2. stack' = GoOn /\ UNCHANGED status
    BY <1>3 DEF RegisterPy
  <2>3. Covered(f0, d0)'
    BY <2>1 DEF Covered
  <2> QED
    BY <1>g, <2>1, <2>2, <2>3
<1>4. CASE ImportSeen
  <2>1. /\ status = "walking" /\ Top.next \in DOMAIN Text(Top.path) /\ d0.kind = "import"
        /\ stack' = GoOn /\ UNCHANGED <<port, src, table, seen, ffi, status, read>>
    BY <1>4, <1>d DEF ImportSeen, At
  <2>2. PICK p \in Target : Seen(p)
    BY <1>4 DEF ImportSeen
  <2>3. PICK q \in seen : SamePath(q, p)
    BY <2>2 DEF Seen
  <2>4. PICK g \in read : g.path = q
    BY <2>1, <2>3 DEF Progress
  <2>5. p \in Found(DirOf(f0), d0)
    BY <2>2, <1>d DEF Target, DirOf
  <2>6. Found(DirOf(f0), d0)' = Found(DirOf(f0), d0) /\ SamePath(g.path, p)' = SamePath(g.path, p)
    BY <2>1 DEF Found, Candidates, Exists, DirOf, SamePath
  <2>7. Covered(f0, d0)'
    BY <2>1, <2>3, <2>4, <2>5, <2>6 DEF Covered
  <2> QED
    BY <1>g, <2>1, <2>7
<1>5. CASE ImportFile
  <2>1. PICK p \in Target : /\ seen' = Marked(p)
                            /\ stack' = Append(GoOn, Frame(p))
                            /\ read' = read \cup {[path |-> p, lib |-> Stem(p)]}
    BY <1>5 DEF ImportFile
  <2>2. /\ status = "walking" /\ Top.next \in DOMAIN Text(Top.path) /\ d0.kind = "import"
        /\ UNCHANGED <<port, src, table, ffi, status>>
    BY <1>5, <1>d DEF ImportFile, At
  <2>3. p \in Found(DirOf(f0), d0)
    BY <1>d DEF DirOf, Target
  <2>4. Found(DirOf(f0), d0)' = Found(DirOf(f0), d0)
    BY <2>2 DEF Found, Candidates, Exists, DirOf
  <2>5. Covered(f0, d0)'
    <3>1. SamePath(p, p)'
      BY DEF SamePath
    <3>2. \E g \in read' : g.path = p
      <4>1. [path |-> p, lib |-> Stem(p)] \in read' /\ [path |-> p, lib |-> Stem(p)].path = p
        BY <2>1
      <4> QED
        BY <4>1
    <3>3. \E q \in Found(DirOf(f0), d0)' : \E g \in read' : SamePath(g.path, q)'
      BY <2>3, <2>4, <3>1, <3>2
    <3> QED
      BY <2>2, <3>3 DEF Covered
  <2>6. Frame(p) \in FrameType
    <3>1. p \in NonEmpty /\ p \in Seq(Segment)
      BY <1>5, TargetType DEF ImportFile, NonEmpty
    <3> QED
      BY <3>1, StemIsSegment DEF Frame, FrameType, Lib, NonEmpty
  <2>7. /\ \A i \in DOMAIN stack : i \in DOMAIN stack' /\ stack'[i] = GoOn[i]
        /\ \E i \in DOMAIN stack' : stack'[i] = Frame(p)
    <3>1. GoOn \in Seq(FrameType) /\ DOMAIN GoOn = DOMAIN stack /\ Len(GoOn) = Len(stack)
      BY <2>2, GoOnType
    <3>2. /\ Append(GoOn, Frame(p)) \in Seq(FrameType)
          /\ Len(Append(GoOn, Frame(p))) = Len(GoOn) + 1
          /\ \A i \in 1 .. Len(GoOn) : Append(GoOn, Frame(p))[i] = GoOn[i]
          /\ Append(GoOn, Frame(p))[Len(GoOn) + 1] = Frame(p)
      BY <2>6, <3>1, AppendProperties
    <3>3. Len(stack) \in Nat /\ DOMAIN stack = 1 .. Len(stack)
      BY <2>2, TopType
    <3>4. DOMAIN stack' = 1 .. Len(stack) + 1
      BY <2>1, <3>1, <3>2, LenProperties
    <3>5. Len(stack) + 1 \in DOMAIN stack' /\ \A i \in DOMAIN stack : i \in DOMAIN stack'
      BY <3>3, <3>4
    <3> QED
      BY <2>1, <3>1, <3>2, <3>3, <3>5
  <2>8. \A f \in read : AllCovered(f)' \/ \E i \in DOMAIN stack' : OnStack(f, i)'
    BY <1>d, <1>s, <2>1, <2>2, <2>5, <2>7, GoOnProgress
  <2>9. \A f \in {[path |-> p, lib |-> Stem(p)]} : \E i \in DOMAIN stack' : OnStack(f, i)'
    <3>1. PICK i \in DOMAIN stack' : stack'[i] = Frame(p)
      BY <2>7
    <3>2. stack'[i].path = p /\ stack'[i].lib = Stem(p) /\ stack'[i].next = 1
      BY <3>1 DEF Frame
    <3>3. Place(p) \in Texts
      BY <1>5, <2>1, ReadableStep, <3>1, <3>2, <2>2 DEF Readable, Texts, Next
    <3>4. \A k \in DOMAIN Text(p) : ~(k < 1)
      BY <3>3, TextType
    <3> QED
      BY <2>2, <3>2, <3>4 DEF OnStack, Text
  <2>10. \A q \in seen' : \E f \in read' : f.path = q
    <3>1. \A q \in seen' : q \in seen \/ q = p
      BY <2>1 DEF Marked
    <3>2. [path |-> p, lib |-> Stem(p)] \in read' /\ [path |-> p, lib |-> Stem(p)].path = p
      BY <2>1
    <3>3. \A q \in seen : \E f \in read : f.path = q
      BY <2>2 DEF Progress
    <3>4. read \subseteq read'
      BY <2>1
    <3> QED
      BY <3>1, <3>2, <3>3, <3>4
  <2> QED
    BY <2>1, <2>2, <2>8, <2>9, <2>10 DEF Progress
<1>6. CASE ImportFails \/ ImportMissing
  BY <1>6 DEF ImportFails, ImportMissing
<1>7. CASE Return
  <2>1. /\ status = "walking" /\ Top.next \notin DOMAIN Text(Top.path) /\ stack' = Front(stack)
        /\ UNCHANGED <<port, src, table, seen, ffi, read>>
        /\ status' = IF Len(stack) = 1 THEN "done" ELSE status
    BY <1>7 DEF Return
  <2>2. /\ stack \in Seq(FrameType) /\ Len(stack) \in Nat \ {0} /\ DOMAIN stack = 1 .. Len(stack)
        /\ Top = stack[Len(stack)] /\ stack # << >>
    BY <2>1, TopType
  <2>3. /\ stack' \in Seq(FrameType) /\ Len(stack') = Len(stack) - 1
        /\ \A i \in 1 .. Len(stack) - 1 : stack'[i] = stack[i]
    BY <2>1, Popped, Zenon
  <2>4. DOMAIN stack' = 1 .. Len(stack) - 1
    BY <2>1, Popped
  <2>5. \A f, d : Covered(f, d) => Covered(f, d)'
    BY <1>s, <2>1, CoveredStays
  <2>6. \A path : Text(path)' = Text(path)
    BY <2>1 DEF Text
  <2>7. \A f \in read : AllCovered(f) => AllCovered(f)'
    BY <2>5, <2>6 DEF AllCovered
  <2>8. ASSUME NEW f \in read, NEW i \in DOMAIN stack, OnStack(f, i)
        PROVE  AllCovered(f)' \/ \E j \in DOMAIN stack' : OnStack(f, j)'
    <3>1. CASE i = Len(stack)
      <4>1. f.path = Top.path /\ stack[i].next = Top.next
        BY <2>2, <2>8, <3>1 DEF OnStack
      <4>2. \A k \in DOMAIN Text(Top.path) : k < Top.next
        <5>1. DOMAIN Text(Top.path) = 1 .. Len(Text(Top.path)) /\ Len(Text(Top.path)) \in Nat
          BY <2>1, TopType, TextType
        <5>2. Top.next \in Nat \ {0}
          BY <2>1, TopType DEF FrameType
        <5> QED
          BY <2>1, <5>1, <5>2
      <4>3. AllCovered(f)
        BY <2>8, <4>1, <4>2 DEF OnStack, AllCovered
      <4> QED
        BY <4>3, <2>7
    <3>2. CASE i # Len(stack)
      <4>1. i \in DOMAIN stack' /\ stack'[i] = stack[i]
        BY <2>2, <2>3, <2>4, <3>2
      <4>2. OnStack(f, i)'
        BY <2>5, <2>6, <2>8, <4>1 DEF OnStack
      <4> QED
        BY <4>1, <4>2
    <3> QED
      BY <3>1, <3>2
  <2>9. \A f \in read' : AllCovered(f)' \/ \E j \in DOMAIN stack' : OnStack(f, j)'
    BY <2>1, <2>7, <2>8 DEF Progress
  <2>10. status' = "done" => DOMAIN stack' = {}
    BY <2>1, <2>2, <2>4
  <2> QED
    BY <2>1, <2>9, <2>10 DEF Progress
<1>8. CASE UNCHANGED vars
  <2>1. UNCHANGED <<port, src, stack, table, seen, status, read>>
    BY <1>8 DEF vars
  <2>2. \A f, d : Covered(f, d) => Covered(f, d)'
    BY <1>s, <2>1, CoveredStays
  <2>3. \A path : Text(path)' = Text(path)
    BY <2>1 DEF Text
  <2>4. /\ \A f \in read : AllCovered(f) => AllCovered(f)'
        /\ \A f \in read : \A i \in DOMAIN stack : OnStack(f, i) => OnStack(f, i)'
    BY <2>1, <2>2, <2>3 DEF AllCovered, OnStack
  <2> QED
    BY <2>1, <2>4 DEF Progress
<1> QED
  BY <1>1, <1>2, <1>3, <1>4, <1>5, <1>6, <1>7, <1>8 DEF Next

\* A table reported complete holds every rule of the main file and of every file reached
\* from it, however the imports share files or go round in circles: the mark that cuts a
\* circle never cuts off a file (interpreter.py:686-713).
THEOREM TableIsComplete == Spec => []ClosedUnderImports
<1>1. Progress => ClosedUnderImports
  BY DEF Progress, ClosedUnderImports
<1> QED
  BY <1>1, ReadableInit, ReadableStep, ProgressInit, ProgressStep, PTL DEF Spec

-----------------------------------------------------------------------------
(* Circles of imports.                                                     *)

LEMMA LeastNumber ==
  ASSUME NEW S \in SUBSET Nat, S # {}
  PROVE  \E m \in S : \A s \in S : m <= s
<1> DEFINE Less == {p \in Nat \X Nat : p[1] < p[2]}
<1>1. IsWellFoundedOn(Less, Nat)
  BY NatLessThanWellFounded DEF OpToRel
<1> HIDE DEF Less
<1>2. PICK m \in S : \A s \in S : ~(<<s, m>> \in Less)
  BY <1>1, WFMin
<1>3. \A s \in S : <<s, m>> \in Nat \X Nat
  OBVIOUS
<1>4. \A s \in S : ~(s < m)
  BY <1>2, <1>3 DEF Less
<1> QED
  BY <1>4

LEMMA TidyIs ==
  ASSUME NEW path \in Seq(Segment)
  PROVE  /\ Tidy(path) <=> \A k \in 1 .. Len(path) : /\ path[k] \notin {".", ".."}
                                                     /\ path[k] = Here => k = 1
         /\ NoDots(path) <=> \A k \in 1 .. Len(path) : path[k] \notin {".", ".."}
BY LenProperties DEF Tidy, NoDots, Range

IsRelative(path) == path # << >> /\ path[1] = Here

\* Where the first k segments of a tidy path lead.
Way(path, k) ==
  IF IsRelative(path) /\ k # 0 THEN Cwd \o SubSeq(path, 2, k) ELSE SubSeq(path, 1, k)

LEMMA WayOn ==
  ASSUME NEW path \in Seq(Segment), Tidy(path), NEW k \in 1 .. Len(path)
  PROVE  Way(path, k) = Step(Way(path, k - 1), path[k])
<1>1. Len(path) \in Nat /\ path[k] \notin {".", ".."} /\ (path[k] = Here => k = 1)
  BY LenProperties, TidyIs
<1>2. Here \notin {".", ".."} /\ Cwd \in Seq(Segment)
  BY PathAssumption
<1>3. \A i \in 1 .. Len(path) : path[i] \in Segment
  BY ElementOfSeq
<1>4. CASE path[k] = Here
  <2>1. k = 1 /\ IsRelative(path)
    BY <1>1, <1>4, EmptySeq DEF IsRelative
  <2>2. SubSeq(path, 2, 1) = << >> /\ Cwd \o << >> = Cwd
    BY <1>2, SubSeqEmpty, ConcatEmptySeq
  <2>3. Way(path, 1) = Cwd
    <3>1. Way(path, 1) = Cwd \o SubSeq(path, 2, 1)
      BY <2>1 DEF Way
    <3> QED
      BY <2>2, <3>1
  <2>4. \A place : Step(place, Here) = Cwd
    BY <1>2 DEF Step
  <2> QED
    BY <1>4, <2>1, <2>3, <2>4
<1>5. CASE path[k] # Here
  <2>1. \A place : Step(place, path[k]) = Append(place, path[k])
    BY <1>1, <1>5 DEF Step
  <2>2. CASE IsRelative(path)
    <3>1. k # 1 /\ k \in Nat
      BY <1>1, <1>5, <2>2 DEF IsRelative
    <3>2. SubSeq(path, 2, k) = Append(SubSeq(path, 2, k - 1), path[k])
      BY <1>1, <3>1
    <3>3. SubSeq(path, 2, k - 1) \in Seq(Segment)
      <4>1. 2 \in Int /\ k - 1 \in Int /\ \A i \in 2 .. k - 1 : path[i] \in Segment
        BY <1>1, <1>3, <3>1
      <4> QED
        BY <4>1, SubSeqProperties
    <3> DEFINE q == SubSeq(path, 2, k - 1)
    <3>4. q \in Seq(Segment) /\ path[k] \in Segment
      BY <1>3, <3>3
    <3> HIDE DEF q
    <3>5. Cwd \o Append(q, path[k]) = Append(Cwd \o q, path[k])
      <4>1. /\ Append(q, path[k]) = q \o <<path[k]>>
            /\ Append(Cwd \o q, path[k]) = (Cwd \o q) \o <<path[k]>>
            /\ <<path[k]>> \in Seq(Segment)
        BY <1>2, <3>4, AppendIsConcat, ConcatProperties
      <4> QED
        BY <1>2, <3>4, <4>1, ConcatAssociative
    <3>6. Way(path, k) = Cwd \o SubSeq(path, 2, k) /\ Way(path, k - 1) = Cwd \o q
      BY <2>2, <3>1 DEF Way, q
    <3> QED
      BY <2>1, <3>2, <3>5, <3>6 DEF q
  <2>3. CASE ~IsRelative(path)
    <3>1. SubSeq(path, 1, k) = Append(SubSeq(path, 1, k - 1), path[k])
      BY <1>1
    <3> QED
      BY <2>1, <2>3, <3>1 DEF Way
  <2> QED
    BY <2>2, <2>3
<1> QED
  BY <1>4, <1>5

\* A tidy path leads where it says, a relative one from the current directory.
LEMMA TidyPlace ==
  ASSUME NEW path \in Seq(Segment), Tidy(path)
  PROVE  Place(path) = IF IsRelative(path) THEN Cwd \o SubSeq(path, 2, Len(path)) ELSE path
<1> DEFINE W(w) == [k \in 0 .. Len(path) |-> IF k = 0 THEN << >> ELSE Step(w[k - 1], path[k])]
           walk == CHOOSE w : w = W(w)
           way == [k \in 0 .. Len(path) |-> Way(path, k)]
<1>1. Place(path) = walk[Len(path)]
  BY DEF Place
<1>2. Len(path) \in Nat /\ DOMAIN path = 1 .. Len(path)
  BY LenProperties
<1>3. Way(path, 0) = << >>
  BY SubSeqEmpty DEF Way
<1>4. way = W(way)
  <2>1. ASSUME NEW k \in 0 .. Len(path)
        PROVE  way[k] = IF k = 0 THEN << >> ELSE Step(way[k - 1], path[k])
    <3>1. CASE k = 0
      BY <3>1, <1>3
    <3>2. CASE k # 0
      <4>1. k \in 1 .. Len(path) /\ k - 1 \in 0 .. Len(path)
        BY <3>2, <1>2
      <4>2. way[k] = Way(path, k) /\ way[k - 1] = Way(path, k - 1)
        BY <4>1
      <4> HIDE DEF way
      <4> QED
        BY <3>2, <4>1, <4>2, WayOn
    <3> QED
      BY <3>1, <3>2
  <2> QED
    BY <2>1
<1>5. walk = W(walk)
  <2> HIDE DEF way, W
  <2> QED
    BY <1>4
<1>6. \A k \in 0 .. Len(path) : walk[k] = IF k = 0 THEN << >> ELSE Step(walk[k - 1], path[k])
  <2> DEFINE w0 == walk
  <2>1. w0 = W(w0)
    BY <1>5
  <2> HIDE DEF w0
  <2>2. \A k \in 0 .. Len(path) : w0[k] = IF k = 0 THEN << >> ELSE Step(w0[k - 1], path[k])
    BY <2>1
  <2> QED
    BY <2>2 DEF w0
<1> HIDE DEF walk
<1>7. \A k \in 0 .. Len(path) : walk[k] = Way(path, k)
  <2> DEFINE Off == {k \in 0 .. Len(path) : walk[k] # Way(path, k)}
  <2> SUFFICES ASSUME Off # {} PROVE FALSE
    OBVIOUS
  <2>1. PICK k \in Off : \A j \in Off : k <= j
    <3>1. Off \in SUBSET Nat
      BY <1>2
    <3> QED
      BY <3>1, LeastNumber
  <2>2. k # 0
    BY <1>2, <1>3, <1>6
  <2>3. k \in 1 .. Len(path) /\ k - 1 \in 0 .. Len(path) /\ k - 1 \notin Off
    BY <1>2, <2>1, <2>2
  <2>4. walk[k - 1] = Way(path, k - 1)
    BY <2>3
  <2>5. walk[k] = Way(path, k)
    BY <1>6, <2>2, <2>3, <2>4, WayOn
  <2> QED
    BY <2>5
<1>8. walk[Len(path)] = Way(path, Len(path))
  BY <1>2, <1>7
<1>9. Way(path, Len(path)) = IF IsRelative(path) THEN Cwd \o SubSeq(path, 2, Len(path)) ELSE path
  <2>1. SubSeq(path, 1, Len(path)) = path
    BY <1>2
  <2>2. IsRelative(path) => Len(path) # 0
    BY EmptySeq DEF IsRelative
  <2> QED
    BY <2>1, <2>2 DEF Way
<1> QED
  BY <1>1, <1>8, <1>9 DEF walk

\* Two tidy paths of one place are the same if both are relative or neither is.
LEMMA OneOfTwo ==
  ASSUME NEW p \in Seq(Segment), NEW q \in Seq(Segment), Tidy(p), Tidy(q),
         Place(p) = Place(q), IsRelative(p) = IsRelative(q)
  PROVE  p = q
<1>1. CASE ~IsRelative(p)
  BY <1>1, TidyPlace
<1>2. CASE IsRelative(p)
  <2>1. p # << >> /\ p[1] = Here /\ q # << >> /\ q[1] = Here
    BY <1>2 DEF IsRelative
  <2>2. Cwd \o SubSeq(p, 2, Len(p)) = Cwd \o SubSeq(q, 2, Len(q))
    BY <1>2, TidyPlace
  <2>3. Tail(p) = SubSeq(p, 2, Len(p)) /\ Tail(q) = SubSeq(q, 2, Len(q))
    BY <2>1, TailIsSubSeq
  <2>4. Tail(p) \in Seq(Segment) /\ Tail(q) \in Seq(Segment) /\ Cwd \in Seq(Segment)
    BY <2>1, HeadTailProperties, PathAssumption
  <2>5. Tail(p) = Tail(q)
    BY <2>2, <2>3, <2>4, ConcatSimplifications
  <2> DEFINE tp == Tail(p)
             tq == Tail(q)
  <2>6. /\ Len(tp) = Len(p) - 1 /\ \A i \in 1 .. Len(tp) : tp[i] = p[i + 1]
        /\ Len(tq) = Len(q) - 1 /\ \A i \in 1 .. Len(tq) : tq[i] = q[i + 1]
        /\ tp = tq
    BY <2>1, <2>5, HeadTailProperties
  <2> HIDE DEF tp, tq
  <2>7. Len(p) \in Nat /\ Len(q) \in Nat /\ Len(p) = Len(q)
    <3>1. Len(p) \in Nat /\ Len(q) \in Nat
      BY LenProperties
    <3>2. Len(p) - 1 = Len(q) - 1
      BY <2>6
    <3> QED
      BY <3>1, <3>2
  <2>8. ASSUME NEW i \in 1 .. Len(p) PROVE p[i] = q[i]
    <3>1. CASE i = 1
      BY <2>1, <3>1
    <3>2. CASE i # 1
      <4>1. i - 1 \in 1 .. Len(tp) /\ (i - 1) + 1 = i
        BY <2>6, <2>7, <3>2
      <4> QED
        BY <2>6, <4>1
    <3> QED
      BY <3>1, <3>2
  <2> QED
    BY <2>7, <2>8, SeqEqual
<1> QED
  BY <1>1, <1>2

\* A name below a tidy directory is a tidy path.
LEMMA JoinIsTidy ==
  ASSUME NEW p \in Seq(Segment), NEW q \in Seq(Segment), Tidy(p), NoDots(q),
         \A k \in DOMAIN q : q[k] # Here
  PROVE  Tidy(p \o q)
<1>1. /\ p \o q \in Seq(Segment)
      /\ Len(p \o q) = Len(p) + Len(q)
      /\ \A k \in 1 .. Len(p) + Len(q) : (p \o q)[k] = IF k <= Len(p) THEN p[k] ELSE q[k - Len(p)]
  BY ConcatProperties
<1>2. Len(p) \in Nat /\ Len(q) \in Nat /\ DOMAIN q = 1 .. Len(q)
  BY LenProperties
<1>3. ASSUME NEW k \in 1 .. Len(p) + Len(q)
      PROVE  (p \o q)[k] \notin {".", ".."} /\ ((p \o q)[k] = Here => k = 1)
  <2>1. k \in 1 .. Len(p) \/ (~(k <= Len(p)) /\ k - Len(p) \in 1 .. Len(q))
    BY <1>2
  <2>2. k \in 1 .. Len(p) => k <= Len(p)
    BY <1>2
  <2> QED
    BY <1>1, <1>2, <2>1, <2>2, TidyIs
<1> QED
  BY <1>1, <1>3, TidyIs

\* What an import without dots finds from a tidy directory is a tidy path.
LEMMA FoundIsTidy ==
  ASSUME TidyStart, port \in {"py", "rs"}, NEW dir \in Seq(Segment), Tidy(dir),
         NEW d, Writable(d), NoDots(d.target), NEW p \in Found(dir, d)
  PROVE  Tidy(p)
<1> DEFINE paths == Candidates(dir, d)
           target == IF d.path THEN d.target ELSE WithEnding(d.target)
           Names == {t \in Seq(Segment) : NoDots(t) /\ \A k \in DOMAIN t : t[k] # Here}
           Paths == {t \in Seq(Segment) : Tidy(t)}
<1>1. PICK k \in DOMAIN paths : p = paths[k]
  BY DEF Found
<1>2. /\ d.target \in Seq(Segment) /\ d.target # << >>
      /\ \A j \in DOMAIN d.target : d.target[j] # Here
      /\ (Last(d.target) \in DOMAIN Evol \/ (d.path /\ HasEnding(d.target)))
  BY WritableIs
<1>3. ASSUME NEW t \in Names, t # << >>, Last(t) \in DOMAIN Evol PROVE WithEnding(t) \in Names
  <2>1. Len(t) \in Nat \ {0} /\ Last(t) = t[Len(t)] /\ DOMAIN t = 1 .. Len(t)
    BY <1>3, LastOfSeq
  <2>2. Evol[t[Len(t)]] \in Segment /\ Evol[t[Len(t)]] \notin {".", "..", Here}
    BY <1>3, <2>1, PathAssumption DEF TidyStart
  <2>3. /\ WithEnding(t) \in Seq(Segment) /\ Len(WithEnding(t)) = Len(t)
        /\ \A j \in 1 .. Len(t) : WithEnding(t)[j] = IF j = Len(t) THEN Evol[t[Len(t)]] ELSE t[j]
    BY <2>1, <2>2, ExceptSeq DEF WithEnding
  <2>4. \A j \in 1 .. Len(t) : t[j] \notin {".", "..", Here}
    BY <2>1, TidyIs
  <2>5. DOMAIN WithEnding(t) = 1 .. Len(t)
    BY <2>3, LenProperties
  <2> QED
    BY <2>2, <2>3, <2>4, <2>5, TidyIs
<1>4. target \in Names
  BY <1>2, <1>3
<1>5. \A j \in 1 .. 3 : <<dir, Cwd, Samples[port]>>[j] \in Paths
  <2>1. Tidy(Cwd) /\ Cwd \in Seq(Segment)
    BY PathAssumption DEF TidyStart, Tidy, Range
  <2>2. Tidy(Samples[port]) /\ Samples[port] \in Seq(Segment)
    BY PathAssumption DEF TidyStart
  <2> QED
    BY <2>1, <2>2
<1>6. ASSUME NEW t \in Names
      PROVE  [j \in 1 .. 3 |-> <<dir, Cwd, Samples[port]>>[j] \o t] \in Seq(Paths)
  <2>1. ASSUME NEW j \in 1 .. 3 PROVE <<dir, Cwd, Samples[port]>>[j] \o t \in Paths
    <3>1. <<dir, Cwd, Samples[port]>>[j] \in Paths
      BY <1>5
    <3> QED
      BY <3>1, JoinIsTidy, ConcatProperties
  <2> HIDE DEF Paths
  <2> QED
    BY <2>1, IsASeq
<1>n. \A t \in Names : t \in Paths
  BY TidyIs, LenProperties
<1>7. paths \in Seq(Paths) \/ paths[k] \in Paths
  <2>1. CASE d.abs
    BY <2>1, <1>4, <1>n DEF Candidates
  <2>2. CASE ~d.abs /\ HasEnding(target)
    <3>1. paths = [j \in 1 .. 3 |-> <<dir, Cwd, Samples[port]>>[j] \o target] \o << >>
      BY <2>2 DEF Candidates
    <3> QED
      BY <1>4, <1>6, <3>1, ConcatEmptySeq, SMTT(30)
  <2>3. CASE ~d.abs /\ ~HasEnding(target)
    <3>1. paths = [j \in 1 .. 3 |-> <<dir, Cwd, Samples[port]>>[j] \o target]
                  \o [j \in 1 .. 3 |-> <<dir, Cwd, Samples[port]>>[j] \o WithEnding(target)]
      BY <2>3 DEF Candidates
    <3>2. WithEnding(target) \in Names
      <4>1. CASE d.path
        BY <4>1, <1>2, <1>3, <1>4, <2>3
      <4>2. CASE ~d.path
        <5>1. Len(d.target) \in DOMAIN d.target /\ Last(d.target) = d.target[Len(d.target)]
          BY <1>2, LastOfSeq
        <5>2. Len(WithEnding(d.target)) = Len(d.target) /\ WithEnding(d.target)[Len(d.target)] = Evol[Last(d.target)]
          BY <5>1, <1>2, <4>2, ExceptSeq, PathAssumption, LastOfSeq DEF WithEnding
        <5>3. HasEnding(target)
          BY <5>2, <4>2, <1>2 DEF HasEnding, Evols, Range, Last
        <5> QED
          BY <5>3, <2>3
      <4> QED
        BY <4>1, <4>2
    <3> QED
      BY <1>4, <1>6, <3>1, <3>2, ConcatProperties, SMTT(90)
  <2> QED
    BY <2>1, <2>2, <2>3
<1>8. paths[k] \in Paths
  <2> HIDE DEF paths, Paths
  <2> QED
    BY <1>7, LenProperties, ElementOfSeq
<1> QED
  BY <1>1, <1>8

\* Every path on the stack is tidy; all but the first are marked, and no two of those are
\* the same.
Stacked ==
  /\ \A i \in DOMAIN stack : Tidy(stack[i].path)
  /\ \A i \in DOMAIN stack : i # 1 => stack[i].path \in seen
  /\ \A i, j \in DOMAIN stack : i # 1 /\ j # 1 /\ stack[i].path = stack[j].path => i = j

Circling == Sound /\ Undotted => Stacked /\ status \in {"walking", "done"}

LEMMA CirclingInit ==
  ASSUME TidyStart, Init
  PROVE  Circling
BY DEF TidyStart, Init, Circling, Stacked

\* The import the walk has come to leads to a file.
LEMMA SoundTarget ==
  ASSUME TidyStart, Readable, Sound, Undotted, Stacked, At("import")
  PROVE  /\ Target # {}
         /\ \A p \in Target : /\ Tidy(p) /\ p \in Seq(Segment)
                              /\ Place(p) \in DOMAIN src /\ Place(p) \notin Dirs /\ Text(p) # Broken
<1>1. /\ status = "walking" /\ Top.next \in DOMAIN Text(Top.path) /\ Decl.kind = "import"
      /\ Decl = Text(Top.path)[Top.next]
  BY DEF At, Decl
<1>2. /\ Top = stack[Len(stack)] /\ Len(stack) \in DOMAIN stack /\ Top \in FrameType
      /\ Place(Top.path) \in Texts
  BY <1>1, TopType
<1>3. Top.path \in Seq(Segment) /\ Tidy(Top.path)
  BY <1>2 DEF FrameType, Stacked
<1> DEFINE f == [path |-> Top.path, lib |-> Top.lib]
<1>4. f \in read /\ f.path = Top.path /\ f.lib = Top.lib
  BY <1>2 DEF Readable
<1> HIDE DEF f
<1>5. Decl \in Imports(f)
  BY <1>1, <1>4 DEF Imports, Text, Range
<1>6. NoDots(Decl.target) /\ Writable(Decl)
  BY <1>1, <1>2, <1>4, <1>5, TextType DEF Undotted
<1>7. Target = Found(DirOf(f), Decl)
  BY <1>4 DEF Target, DirOf
<1>8. DirOf(f) \in Seq(Segment) /\ Tidy(DirOf(f))
  <2>1. CASE Top.lib = TopLib
    BY <1>4, <2>1, PathAssumption DEF DirOf, TidyStart
  <2>2. CASE Top.lib # TopLib
    <3>1. Top.path # << >>
      BY <1>2, <2>2 DEF Readable
    <3>2. /\ Front(Top.path) \in Seq(Segment) /\ Len(Front(Top.path)) = Len(Top.path) - 1
          /\ \A i \in 1 .. Len(Top.path) - 1 : Front(Top.path)[i] = Top.path[i]
      BY <1>3, <3>1, FrontOfSeq
    <3>3. Len(Top.path) \in Nat
      BY <1>3, LenProperties
    <3>4. Tidy(Front(Top.path))
      BY <1>3, <3>2, <3>3, TidyIs
    <3> QED
      BY <1>4, <2>2, <3>2, <3>4 DEF DirOf
  <2> QED
    BY <2>1, <2>2
<1>9. Target # {} /\ \A p \in Target : Place(p) \notin Dirs /\ Text(p) # Broken
  BY <1>4, <1>5, <1>7 DEF Sound
<1>10. ASSUME NEW p \in Target
       PROVE  Tidy(p) /\ p \in Seq(Segment) /\ Place(p) \in DOMAIN src
  <2>1. port \in {"py", "rs"}
    BY DEF Readable, TypeOK
  <2>2. p \in Seq(Segment) /\ Exists(p)
    BY <1>6, <1>7, <1>8, <2>1, FoundIsPath DEF NonEmpty
  <2>3. Tidy(p)
    BY <1>6, <1>7, <1>8, <2>1, FoundIsTidy
  <2> QED
    BY <1>9, <2>2, <2>3 DEF Exists
<1> QED
  BY <1>9, <1>10

\* There are not as many tidy paths of files as calls can wait for each other.
LEMMA NeverTooDeep ==
  ASSUME TidyStart, Readable, Stacked, status = "walking",
         NEW p \in Seq(Segment), Tidy(p), Place(p) \in DOMAIN src, p \notin seen
  PROVE  Len(stack) < MaxDepth
<1> DEFINE Ways == (DOMAIN src) \X (1 .. 2)
<1>1. /\ Len(stack) \in Nat \ {0} /\ DOMAIN stack = 1 .. Len(stack) /\ stack \in Seq(FrameType)
  BY TopType
<1>2. IsFiniteSet(DOMAIN src) /\ 2 * Cardinality(DOMAIN src) < MaxDepth /\ MaxDepth \in Nat
  BY DEF TidyStart, Readable
<1>3. Cardinality(DOMAIN src) \in Nat
  BY <1>2, FS_CardinalityType
<1>4. IsFiniteSet(Ways) /\ Cardinality(Ways) = 2 * Cardinality(DOMAIN src)
  <2>1. IsFiniteSet(1 .. 2) /\ Cardinality(1 .. 2) = 2
    <3>1. 1 \in Int /\ 2 \in Int /\ ~(1 > 2) /\ 2 - 1 + 1 = 2
      OBVIOUS
    <3>2. /\ IsFiniteSet(1 .. 2)
          /\ Cardinality(1 .. 2) = IF 1 > 2 THEN 0 ELSE 2 - 1 + 1
      BY <3>1, FS_Interval, Zenon
    <3> QED
      BY <3>1, <3>2
  <2>2. IsFiniteSet(Ways) /\ Cardinality(Ways) = Cardinality(DOMAIN src) * Cardinality(1 .. 2)
    BY <1>2, <2>1, FS_Product
  <2> QED
    BY <1>3, <2>1, <2>2
<1> DEFINE path(i) == IF i = 1 THEN p ELSE stack[i].path
           f == [i \in 1 .. Len(stack) |-> <<Place(path(i)), IF IsRelative(path(i)) THEN 1 ELSE 2>>]
<1>5. ASSUME NEW i \in 1 .. Len(stack)
      PROVE  path(i) \in Seq(Segment) /\ Tidy(path(i)) /\ Place(path(i)) \in DOMAIN src
  <2>1. stack[i] \in FrameType /\ i \in DOMAIN stack
    BY <1>1, ElementOfSeq
  <2> QED
    BY <2>1 DEF FrameType, Stacked, Readable, Texts
<1>6. \A i, j \in 1 .. Len(stack) : path(i) = path(j) => i = j
  BY <1>1 DEF Stacked
<1> HIDE DEF path
<1>7. f \in [1 .. Len(stack) -> Ways]
  <2>1. \A i : (IF IsRelative(path(i)) THEN 1 ELSE 2) \in 1 .. 2
    OBVIOUS
  <2> QED
    BY <1>5, <2>1
<1>8. ASSUME NEW i \in 1 .. Len(stack), NEW j \in 1 .. Len(stack), f[i] = f[j]
      PROVE  i = j
  <2>1. /\ Place(path(i)) = Place(path(j))
        /\ (IF IsRelative(path(i)) THEN 1 ELSE 2) = (IF IsRelative(path(j)) THEN 1 ELSE 2)
    BY <1>8
  <2>2. IsRelative(path(i)) = IsRelative(path(j))
    BY <2>1 DEF IsRelative
  <2> QED
    BY <1>5, <1>6, <2>1, <2>2, OneOfTwo
<1>9. IsFiniteSet(1 .. Len(stack)) /\ Cardinality(1 .. Len(stack)) = Len(stack)
  BY <1>1, FS_Interval
<1> HIDE DEF f, Ways
<1>10. ~(Cardinality(Ways) < Len(stack))
  BY <1>4, <1>7, <1>8, <1>9, FS_PigeonHole
<1> QED
  BY <1>1, <1>2, <1>3, <1>4, <1>10

\* What holds of all the files begun held of those begun before.
LEMMA FilesStay ==
  ASSUME UNCHANGED <<port, src>>, read \subseteq read'
  PROVE  (Sound' => Sound) /\ (Undotted' => Undotted)
<1>1. \A dir, d : Candidates(dir, d)' = Candidates(dir, d)
  BY DEF Candidates
<1>2. \A path : Exists(path)' = Exists(path)
  BY DEF Exists
<1>3. \A f, d : Found(DirOf(f), d)' = Found(DirOf(f), d)
  BY <1>1, <1>2 DEF Found, DirOf
<1>4. \A path : Text(path)' = Text(path)
  BY DEF Text
<1>5. \A f : Imports(f)' = Imports(f)
  BY <1>4 DEF Imports
<1>6. Sound' => Sound
  BY <1>3, <1>4, <1>5 DEF Sound
<1>7. Undotted' => Undotted
  BY <1>5 DEF Undotted
<1> QED
  BY <1>6, <1>7

LEMMA CirclingStep ==
  ASSUME TidyStart, Readable, Circling, [Next]_vars
  PROVE  Circling'
<1>1. CASE UNCHANGED vars
  BY <1>1, FilesStay DEF vars, Circling, Stacked
<1>2. CASE Next
  <2>1. UNCHANGED <<port, src>> /\ status = "walking" /\ read \subseteq read'
    BY <1>2 DEF Next, AddRule, Skip, RegisterPy, ImportSeen, ImportFile, ImportFails, ImportMissing, Return, At
  <2>2. (Sound' => Sound) /\ (Undotted' => Undotted)
    BY <2>1, FilesStay
  <2> SUFFICES ASSUME Sound, Undotted, Stacked PROVE Stacked' /\ status' \in {"walking", "done"}
    BY <2>2 DEF Circling
  <2>3. /\ stack \in Seq(FrameType) /\ Len(stack) \in Nat \ {0} /\ DOMAIN stack = 1 .. Len(stack)
        /\ stack # << >>
    BY <2>1, TopType
  <2>4. /\ GoOn \in Seq(FrameType) /\ DOMAIN GoOn = DOMAIN stack /\ Len(GoOn) = Len(stack)
        /\ \A i \in DOMAIN stack : GoOn[i].path = stack[i].path
    BY <2>1, GoOnType
  <2>5. ASSUME stack' = GoOn, seen' = seen PROVE Stacked'
    BY <2>4, <2>5 DEF Stacked
  <2>6. CASE AddRule \/ Skip \/ ImportSeen
    BY <2>1, <2>5, <2>6 DEF AddRule, Skip, ImportSeen, At
  <2>7. CASE RegisterPy
    <3>1. Decl.kind = "py" /\ Top.next \in DOMAIN Text(Top.path) /\ Decl = Text(Top.path)[Top.next]
      BY <2>7, Zenon DEF RegisterPy, At, Decl
    <3>2. [path |-> Top.path, lib |-> Top.lib] \in read
      BY <2>1, TopType DEF Readable
    <3>3. \A d \in Range(Text(Top.path)) : d.kind # "py"
      BY <3>2 DEF Sound
    <3> QED
      BY <3>1, <3>3 DEF Range
  <2>8. CASE ImportMissing
    BY <2>8, SoundTarget DEF ImportMissing
  <2>9. CASE ImportFails
    <3>1. PICK p \in Target : /\ ~Seen(p)
                              /\ Place(p) \in Dirs \/ Text(p) = Broken \/ Len(stack) >= MaxDepth
      BY <2>9 DEF ImportFails
    <3>2. /\ p \in Seq(Segment) /\ Tidy(p) /\ Place(p) \in DOMAIN src
          /\ Place(p) \notin Dirs /\ Text(p) # Broken
      BY <2>9, SoundTarget DEF ImportFails
    <3>3. p \notin seen
      BY <3>1 DEF Seen, SamePath
    <3>4. Len(stack) < MaxDepth
      BY <2>1, <3>2, <3>3, NeverTooDeep
    <3> QED
      BY <2>3, <3>1, <3>2, <3>4 DEF TidyStart
  <2>10. CASE ImportFile
    <3>1. PICK p \in Target : ~Seen(p) /\ seen' = Marked(p) /\ stack' = Append(GoOn, Frame(p))
      BY <2>10 DEF ImportFile
    <3>2. p \notin seen
      BY <3>1 DEF Seen, SamePath
    <3>3. p \in Seq(Segment) /\ p # << >> /\ Tidy(p)
      BY <2>10, TargetType, SoundTarget DEF ImportFile, NonEmpty
    <3>4. Frame(p) \in FrameType /\ Frame(p).path = p
      BY <3>3, StemIsSegment DEF Frame, FrameType, Lib
    <3>5. /\ Append(GoOn, Frame(p)) \in Seq(FrameType)
          /\ Len(Append(GoOn, Frame(p))) = Len(stack) + 1
          /\ \A i \in 1 .. Len(stack) : Append(GoOn, Frame(p))[i] = GoOn[i]
          /\ Append(GoOn, Frame(p))[Len(stack) + 1] = Frame(p)
      BY <2>4, <3>4, AppendProperties
    <3>6. DOMAIN stack' = 1 .. Len(stack) + 1
      BY <3>1, <3>5, LenProperties
    <3>7. /\ \A i \in DOMAIN stack : i \in DOMAIN stack' /\ stack'[i].path = stack[i].path
          /\ Len(stack) + 1 \in DOMAIN stack' /\ stack'[Len(stack) + 1].path = p
      BY <2>3, <2>4, <3>1, <3>4, <3>5, <3>6
    <3>8. \A i \in DOMAIN stack' : i \in DOMAIN stack \/ i = Len(stack) + 1
      BY <2>3, <3>6
    <3>9. seen' = seen \cup {p}
      BY <3>1 DEF Marked
    <3>10. Stacked'
      <4>1. \A i \in DOMAIN stack' : Tidy(stack'[i].path)
        BY <3>3, <3>7, <3>8 DEF Stacked
      <4>2. \A i \in DOMAIN stack' : i # 1 => stack'[i].path \in seen'
        BY <3>7, <3>8, <3>9 DEF Stacked
      <4>3. ASSUME NEW i \in DOMAIN stack', NEW j \in DOMAIN stack', i # 1, j # 1,
                   stack'[i].path = stack'[j].path
            PROVE  i = j
        BY <3>2, <3>7, <3>8, <4>3 DEF Stacked
      <4> QED
        BY <4>1, <4>2, <4>3 DEF Stacked
    <3> QED
      BY <2>1, <2>10, <3>10 DEF ImportFile
  <2>11. CASE Return
    <3>1. stack' = Front(stack) /\ seen' = seen /\ status' \in {"walking", "done"}
      BY <2>1, <2>11 DEF Return
    <3>2. /\ DOMAIN stack' = 1 .. Len(stack) - 1
          /\ \A i \in 1 .. Len(stack) - 1 : i \in DOMAIN stack /\ stack'[i] = stack[i]
      BY <2>1, <3>1, Popped
    <3>4. \A i \in DOMAIN stack' : i \in DOMAIN stack /\ stack'[i] = stack[i]
      BY <3>2
    <3> QED
      BY <3>1, <3>4 DEF Stacked
  <2> QED
    BY <1>2, <2>6, <2>7, <2>8, <2>9, <2>10, <2>11 DEF Next
<1> QED
  BY <1>1, <1>2

\* Files that import one another, in whatever circle, are each read once, or once by an
\* absolute and once by a relative path, and the walk meets no error, as long as no import
\* goes through "." or ".." and the interpreter can go one call deeper than there are such
\* paths (interpreter.py:706-708).  In Python that is all PlainCirclesClose says; of the port
\* it says the same of imports with ".".
THEOREM PlainCirclesEnd ==
  ASSUME TidyStart
  PROVE  Spec => [](port = "py" \/ Undotted => PlainCirclesClose)
<1>1. Circling => (port = "py" \/ Undotted => PlainCirclesClose)
  BY DEF Circling, PlainCirclesClose, Plain, Dotted, Undotted, NoDots
<1>2. Init => Circling
  BY CirclingInit
<1>3. Readable /\ Circling /\ [Next]_vars => Circling'
  BY CirclingStep
<1> QED
  BY <1>1, <1>2, <1>3, ReadableInit, ReadableStep, PTL DEF Spec

=============================================================================
