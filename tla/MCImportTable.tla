--------------------------- MODULE MCImportTable ----------------------------
(***************************************************************************)
(* Small file systems for ImportTable.  The main file d/m.evol, a file     *)
(* beside it, one in a directory below, one in the current directory w and *)
(* one among the samples of either port, with every choice of a few        *)
(* declarations each.  The samples of the port lie below w: what an import *)
(* of "samples/c" finds there, one of c finds under another path.          *)
(***************************************************************************)
EXTENDS ImportTable

Rule(name) == [kind |-> "rule", lib |-> "", name |-> name]
InLib(lib, name) == [kind |-> "rule", lib |-> lib, name |-> name]
ByPath(target) == [kind |-> "import", path |-> TRUE, abs |-> FALSE, target |-> target]
ByName(name) == [kind |-> "import", path |-> FALSE, abs |-> FALSE, target |-> <<name>>]
Absolute(target) == [kind |-> "import", path |-> TRUE, abs |-> TRUE, target |-> target]
Python(module, funcs) == [kind |-> "py", module |-> module, funcs |-> funcs]
Enum == [kind |-> "skip"]

MCMain == <<"d", "m.evol">>
MCBase == <<"d">>
MCCwd == <<"w">>
MCSamples == [py |-> <<"p">>, rs |-> <<"here", "samples">>]
MCDirs == {<< >>, <<"d">>, <<"d", "s">>, <<"w">>, <<"p">>, <<"w", "samples">>}
MCSegment == {"here", "d", "s", "w", "p", "samples", ".", "..", "m", "a", "b", "c", "none",
              "m.evol", "a.evol", "b.evol", "c.evol", "s.evol", "none.evol"}
MCEvol == [m |-> "m.evol", a |-> "a.evol", b |-> "b.evol", c |-> "c.evol", s |-> "s.evol", none |-> "none.evol"]
MCPyModule == [math |-> <<"cos", "sin">>, os |-> <<"getcwd", "open">>]

InA == <<"d", "a.evol">>
InB == <<"d", "s", "b.evol">>
InW == <<"w", "a.evol">>
InP == <<"p", "c.evol">>
InS == <<"w", "samples", "c.evol">>

Pairs(decls) == {<<d, e>> : d \in decls, e \in decls}
UpTo2(decls) == {<< >>} \cup {<<d>> : d \in decls} \cup Pairs(decls)

\* Files that import one another in every way there is, plain and dotted.
MCWorlds ==
  {MCMain :> <<Rule("r"), InLib("a", "r")>> \o m @@ InA :> a @@ InB :> b @@ InW :> <<InLib("a", "q")>> @@ InP :> c @@ InS :> c :
     m \in Pairs({ByName("a"), ByPath(<<"s", "b">>), ByPath(<<".", "m">>), ByName("c"),
                  ByPath(<<"samples", "c">>), Absolute(InB)}),
     a \in Pairs({Rule("r"), ByName("m"), ByPath(<<"s", "b.evol">>)}),
     b \in {<<Rule("q"), ByName("a")>>, <<ByPath(<<"..", "m">>)>>, <<ByPath(<<"..", "a">>), Rule("r")>>},
     c \in {<<ByName("a"), Rule("r")>>, <<ByName("c")>>}}

\* Imports that fail, and the Python modules.
MCFaults ==
  {MCMain :> <<Rule("r"), d, e>> @@ InA :> a @@ InB :> Broken :
     d \in {ByName("a"), ByName("none"), ByPath(<<"s">>), ByPath(<<"s", "b">>),
            ByPath(<<".", ".", "m">>), Enum},
     e \in {Python("math", << >>), Python("math", <<"sin", "tan">>), Python("os", << >>),
            Python("os", <<"getcwd">>), Python("none", << >>), Rule("r")},
     a \in UpTo2({Rule("q"), Python("math", <<"cos">>), ByPath(<<"s", "b">>)})}

\* Two files that import each other, in three spellings.
MCCircles ==
  {MCMain :> <<Rule("r"), ByPath(t)>> @@ InB :> <<u>> :
     t \in {<<"s", "b">>, <<"s", "b.evol">>, <<".", "s", "b">>},
     u \in {Enum, ByPath(<<"..", "m">>), ByPath(<<"..", "m.evol">>)}}

MCAllWorlds == MCWorlds \cup MCFaults

ASSUME TidyAssumption == TidyStart

=============================================================================
