---------------------------- MODULE ImportTable ----------------------------
(***************************************************************************)
(* How the rule table is built: collect_rule_table, _resolve_module and    *)
(* _register_pyimport of src/interpreter.py, and their port in             *)
(* src/src/interp.rs.  The declarations of the main file are walked in     *)
(* order; an import walks the file it finds before the walk goes on.       *)
(*                                                                         *)
(* A path is the sequence of its segments, as it was written or joined,    *)
(* with Here before the first of a relative one; a place is where a path   *)
(* leads: its absolute path without detours.  A file is a sequence of      *)
(* declarations, a library the rules it holds (an import inside a library  *)
(* is "skip", like an enum).  The table is a sequence, since dicts keep    *)
(* their order.                                                            *)
(***************************************************************************)
EXTENDS Integers, Sequences, SequencesExt

CONSTANTS
  Segment,      \* the names in paths, of libraries too
  Name,         \* rule names
  TopLib,       \* the library of the rules of the main file
  Main,         \* the main file, and the directory its imports start from
  BaseDir,
  Here,         \* where a relative path starts
  Cwd,          \* where imports are looked for as well: the directory the program runs in
  Samples,      \* and Samples[port], that of the samples, in the port a relative path
  Dirs,         \* the places of the directories
  Worlds,       \* the contents files may have: functions from places to texts
  Broken,       \* a text that does not parse
  Evol,         \* Evol[s]: the segment s with the ending .evol
  PyModule,     \* the functions of every Python module, in the order of dir()
  Banned,       \* _FFI_BANNED
  PathMax,      \* the longest path the operating system takes
  MaxDepth      \* the deepest recursion the interpreter takes

VARIABLES
  port,     \* "py" or "rs"
  src,      \* the contents of the files
  stack,    \* the calls of collect_rule_table: [path, lib, next]
  table,    \* the rules found: [lib, name, file]
  seen,     \* _seen
  ffi,      \* _py_ffi: the module every registered function is of
  status,   \* "walking", "done", or the error the walk ended with
  read      \* history: the files begun, with the library they were begun as

vars == <<port, src, stack, table, seen, ffi, status, read>>

File == [path : Seq(Segment), lib : Segment \cup {TopLib}]

Init ==
  /\ port \in {"py", "rs"}
  /\ src \in Worlds
  /\ stack = <<[path |-> Main, lib |-> TopLib, next |-> 1]>>
  /\ table = << >>
  /\ seen = {}
  /\ ffi = << >>
  /\ status = "walking"
  /\ read = {[path |-> Main, lib |-> TopLib]}

-----------------------------------------------------------------------------
(* Paths.                                                                  *)

Evols == Range(Evol)
HasEnding(target) == Last(target) \in Evols
WithEnding(target) == [target EXCEPT ![Len(target)] = Evol[@]]
Stem(path) == IF HasEnding(path) THEN CHOOSE s \in DOMAIN Evol : Evol[s] = Last(path) ELSE Last(path)

\* What is written after import: to a target without the ending one can be added.
Writable(d) ==
  /\ d.target \in Seq(Segment \ {Here}) \ {<< >>}
  /\ Last(d.target) \in DOMAIN Evol \/ (d.path /\ HasEnding(d.target))

\* Nothing leads on from a place that is no directory.
Step(place, segment) ==
  CASE segment = Here -> Cwd
    [] segment = "." /\ place \in Dirs -> place
    [] segment = ".." /\ place \in Dirs -> Front(place)
    [] OTHER -> Append(place, segment)
Place(path) ==
  LET walk[k \in 0 .. Len(path)] == IF k = 0 THEN << >> ELSE Step(walk[k - 1], path[k])
  IN  walk[Len(path)]

ASSUME PathAssumption ==
  /\ Main \in Seq(Segment) /\ BaseDir \in Seq(Segment) /\ Cwd \in Seq(Segment)
  /\ Samples \in [{"py", "rs"} -> Seq(Segment)]
  /\ DOMAIN Evol \subseteq Segment /\ \A s \in DOMAIN Evol : Evol[s] \in Segment
  /\ TopLib \notin Segment /\ Here \in Segment \ {".", ".."}

ASSUME WorldAssumption ==
  \A world \in Worlds :
    /\ Place(Main) \in DOMAIN world /\ world[Place(Main)] # Broken
    /\ \A place \in DOMAIN world :
         world[place] # Broken =>
           /\ DOMAIN world[place] = 1 .. Len(world[place]) /\ Len(world[place]) \in Nat
           /\ \A k \in DOMAIN world[place] :
                LET d == world[place][k]
                IN  /\ d.kind = "rule" => d.name \in Name /\ d.lib \in Segment \cup {TopLib}
                    /\ d.kind = "import" => Writable(d)

Exists(path) == Len(path) <= PathMax /\ Place(path) \in Dirs \cup DOMAIN src

\* Where an import may be found, in this order; current_dir() is an absolute path, the
\* samples of the port are not.
Candidates(dir, d) ==
  LET target == IF d.path THEN d.target ELSE WithEnding(d.target)
      bases == <<dir, Cwd, Samples[port]>>
      plain == [k \in 1 .. 3 |-> bases[k] \o target]
  IN  IF d.abs THEN <<target>>
      ELSE plain \o IF HasEnding(target) THEN << >>
                    ELSE [k \in 1 .. 3 |-> bases[k] \o WithEnding(target)]

\* The first candidate that exists: one path or none.
Found(dir, d) ==
  LET paths == Candidates(dir, d)
      there == {k \in DOMAIN paths : Exists(paths[k])}
  IN  {paths[k] : k \in {k \in there : \A j \in there : k <= j}}

Components(path) == SelectSeq(path, LAMBDA s : s # ".")

\* Python compares paths as strings, the port component by component: "." is passed over.
SamePath(p, r) == IF port = "py" THEN p = r ELSE Components(p) = Components(r)
SeenName(path) == \E p \in seen : Last(p) = Last(path)
Seen(path) == \E p \in seen : SamePath(p, path)

-----------------------------------------------------------------------------
(* The declaration the walk has come to.                                   *)

Top == Last(stack)
Text(path) == src[Place(path)]
Decl == Text(Top.path)[Top.next]

At(kind) ==
  /\ status = "walking"
  /\ Top.next \in DOMAIN Text(Top.path)
  /\ Decl.kind = kind

GoOn == [stack EXCEPT ![Len(stack)].next = @ + 1]

LibOf(f, d) == IF d.lib = TopLib THEN f.lib ELSE d.lib

Slots(lib, name) == {k \in DOMAIN table : table[k].lib = lib /\ table[k].name = name}

PutLast(lib, name, file) ==
  Append(SelectSeq(table, LAMBDA e : e.lib # lib \/ e.name # name),
         [lib |-> lib, name |-> name, file |-> file])

\* table[(lib, name)] = d: a key that is there keeps its place.
Put(lib, name, file) ==
  LET entry == [lib |-> lib, name |-> name, file |-> file]
  IN  IF Slots(lib, name) = {} THEN Append(table, entry)
      ELSE [k \in DOMAIN table |-> IF k \in Slots(lib, name) THEN entry ELSE table[k]]

AddRule ==
  /\ At("rule")
  /\ table' = Put(LibOf(Top, Decl), Decl.name, Top.path)
  /\ stack' = GoOn
  /\ UNCHANGED <<port, src, seen, ffi, status, read>>

Skip ==
  /\ At("skip")
  /\ stack' = GoOn
  /\ UNCHANGED <<port, src, table, seen, ffi, status, read>>

\* The functions are registered one by one, up to the first that is banned or not there;
\* the port has no Python to import.
RegisterPy ==
  /\ At("py")
  /\ LET known == port = "py" /\ Decl.module \in DOMAIN PyModule
         funcs == IF Decl.funcs # << >> THEN Decl.funcs ELSE PyModule[Decl.module]
         bad == {k \in DOMAIN funcs : funcs[k] \in Banned
                                      \/ funcs[k] \notin Range(PyModule[Decl.module])}
         good == {k \in DOMAIN funcs : \A j \in bad : k < j}
     IN  /\ ffi' = IF known THEN [fn \in {funcs[k] : k \in good} |-> Decl.module] @@ ffi ELSE ffi
         /\ IF known /\ bad = {}
              THEN stack' = GoOn /\ UNCHANGED status
              ELSE status' = "ffi" /\ UNCHANGED stack
  /\ UNCHANGED <<port, src, table, seen, read>>

-----------------------------------------------------------------------------
(* Imports.                                                                *)

DirOf(f) == IF f.lib = TopLib THEN BaseDir ELSE Front(f.path)
Target == Found(DirOf(Top), Decl)

ImportSeen ==
  /\ At("import")
  /\ \E p \in Target : Seen(p)
  /\ stack' = GoOn
  /\ UNCHANGED <<port, src, table, seen, ffi, status, read>>

\* The importing call waits under the new one.
SameLib(p) == [path |-> p, lib |-> Top.lib, next |-> 1]
FromZero(p) == [path |-> p, lib |-> Stem(p), next |-> 0]
Frame(p) == [path |-> p, lib |-> Stem(p), next |-> 1]

Unmarked(p) == seen
Marked(p) == seen \cup {p}

ImportFile ==
  /\ At("import")
  /\ Len(stack) < MaxDepth
  /\ \E p \in Target :
       /\ ~Seen(p)
       /\ Place(p) \notin Dirs /\ Text(p) # Broken
       /\ seen' = Marked(p)
       /\ stack' = Append(GoOn, Frame(p))
       /\ read' = read \cup {[path |-> p, lib |-> Stem(p)]}
  /\ UNCHANGED <<port, src, table, ffi, status>>

\* A text that does not parse, a directory, or one call too many.
ImportFails ==
  /\ At("import")
  /\ \E p \in Target :
       /\ ~Seen(p)
       /\ seen' = Marked(p)
       /\ \/ Place(p) \in Dirs /\ status' = "unreadable"
          \/ Place(p) \notin Dirs /\ Text(p) = Broken /\ status' = "syntax"
          \/ Place(p) \notin Dirs /\ Text(p) # Broken /\ Len(stack) >= MaxDepth /\ status' = "too deep"
  /\ UNCHANGED <<port, src, stack, table, ffi, read>>

ImportMissing ==
  /\ At("import")
  /\ Target = {}
  /\ status' = "missing"
  /\ UNCHANGED <<port, src, stack, table, seen, ffi, read>>

Return ==
  /\ status = "walking"
  /\ Top.next \notin DOMAIN Text(Top.path)
  /\ stack' = Front(stack)
  /\ status' = IF Len(stack) = 1 THEN "done" ELSE status
  /\ UNCHANGED <<port, src, table, seen, ffi, read>>

Next == AddRule \/ Skip \/ RegisterPy \/ ImportSeen \/ ImportFile \/ ImportFails
        \/ ImportMissing \/ Return

Spec == Init /\ [][Next]_vars

-----------------------------------------------------------------------------
TypeOK ==
  /\ port \in {"py", "rs"}
  /\ stack \in Seq([path : Seq(Segment), lib : Segment \cup {TopLib}, next : Nat \ {0}])
  /\ table \in Seq([lib : Segment \cup {TopLib}, name : Name, file : Seq(Segment)])
  /\ seen \subseteq Seq(Segment)
  /\ status \in {"walking", "done", "ffi", "missing", "syntax", "unreadable", "too deep"}
  /\ read \subseteq File

\* The declaration d of a file has been dealt with: its rule has an entry, and the file its
\* import finds has been read.
Covered(f, d) ==
  /\ d.kind = "rule" => Slots(LibOf(f, d), d.name) # {}
  /\ d.kind = "import" => \E p \in Found(DirOf(f), d) : \E g \in read : SamePath(g.path, p)

AllCovered(f) == \A k \in DOMAIN Text(f.path) : Covered(f, Text(f.path)[k])

\* A table that is reported complete holds every rule of the main file and of every file that
\* can be reached from it, however the imports share files or go round in circles
\* (interpreter.py:686-713).
ClosedUnderImports == status = "done" => \A f \in read : AllCovered(f)

\* No rule is in the table but one that a file on the way declares, under the library the
\* file gives it (interpreter.py:687-692).
RulesComeFromFiles ==
  \A k \in DOMAIN table :
    \E f \in read : /\ f.path = table[k].file
                    /\ \E j \in DOMAIN Text(f.path) :
                         LET d == Text(f.path)[j]
                         IN  d.kind = "rule" /\ d.name = table[k].name /\ LibOf(f, d) = table[k].lib

\* The rules an unqualified spawn prefers are those of the main file alone: no import can
\* replace one (interpreter.py:711, :717-723).
TopRulesAreOfMain == \A k \in DOMAIN table : table[k].lib = TopLib => table[k].file = Main

\* The order of the table, which decides what an unqualified spawn finds and which rule
\* reacts first, is that of the first mention: replacing a rule moves nothing
\* (interpreter.py:688, :724-726, :738-743).
SlotsAreKept ==
  [][\A k \in DOMAIN table : /\ k \in DOMAIN table'
                             /\ table'[k].lib = table[k].lib
                             /\ table'[k].name = table[k].name]_vars

-----------------------------------------------------------------------------
(* Circles.                                                                *)

Imports(f) == {d \in Range(Text(f.path)) : d.kind = "import"}

\* Every import of every file begun leads to a file that can be read.
Sound ==
  \A f \in read :
    /\ \A d \in Range(Text(f.path)) : d.kind # "py"
    /\ \A d \in Imports(f) :
         /\ Found(DirOf(f), d) # {}
         /\ \A p \in Found(DirOf(f), d) : Place(p) \notin Dirs /\ Text(p) # Broken

\* The segments that give one file several paths.
Dotted == IF port = "py" THEN {".", ".."} ELSE {".."}
Plain == \A f \in read : \A d \in Imports(f) : Range(d.target) \cap Dotted = {}

\* No import goes through "." or "..", in either port.
NoDots(path) == Range(path) \cap {".", ".."} = {}
Undotted == \A f \in read : \A d \in Imports(f) : NoDots(d.target)

\* A path that is one of two, the absolute or the relative, of the file it leads to.
Tidy(path) == NoDots(path) /\ \A k \in DOMAIN path : path[k] = Here => k = 1

\* run_file starts from the absolute path of the main file (interpreter.py:793; the port from
\* the path it is given, bin/evol.rs:78).  The interpreter can go one call deeper than there
\* are tidy paths of files.
TidyStart ==
  /\ \A path \in {Main, BaseDir, Samples["py"], Samples["rs"]} : Tidy(path)
  /\ NoDots(Cwd) /\ Here \notin Range(Cwd)
  /\ \A s \in DOMAIN Evol : Evol[s] \notin {".", "..", Here}
  /\ MaxDepth \in Nat
  /\ \A world \in Worlds : IsFiniteSet(DOMAIN world) /\ 2 * Cardinality(DOMAIN world) < MaxDepth

\* Files that import one another, in whatever circle, are read once, or once under each of
\* two paths, and the walk comes to its end, as long as no import goes through ".." or, in
\* Python, "." (interpreter.py:706-708).
PlainCirclesClose == Sound /\ Plain => status \in {"walking", "done"}

\* "protection against cycles" (interpreter.py:707): a circle of files that are all there
\* ends the walk in no error.
CirclesClose == Sound => status \in {"walking", "done"}

=============================================================================
