-------------------------------- MODULE Repl --------------------------------
(***************************************************************************)
(* An interactive session: SimState and repl_main of src/repl.py.          *)
(*                                                                         *)
(* A session keeps its own copy of the machine (store, queue, rule list,   *)
(* step count), the hash of every file it has read, and may be saved to a  *)
(* checkpoint and restored.  The user's editor changes files on disk at    *)
(* any time, also between the reads of one reload: the hash that shows the *)
(* file has changed, the text, the hash to compare with later.  A file's   *)
(* content is a version; two versions have two hashes.                     *)
(*                                                                         *)
(* As in SeqMachine the rule list is a set: entries are only ever appended,*)
(* with the next id, so its order is the order of the ids.                 *)
(***************************************************************************)
EXTENDS Integers, Sequences, FiniteSets

CONSTANTS
  File, Version,   \* source files and what they may contain
  Text(_, _),      \* Text(file, version): the rules collect_rule_table finds
  Broken(_, _),    \* Broken(file, version): parsing or importing it raises
  Node,            \* rules as the parser returns them: [name, accepts]
  Typed,           \* the rules a user may add by hand
  Msg, Store, EmptyStore,   \* EmptyStore stands for {}
  Outcome(_, _),   \* Outcome(node, store): what eval_eff may return
  Json(_),         \* the store as json.dump and json.load give it back
  MaxSteps,        \* max_steps
  MaxCommands,     \* bound: commands of one session
  MaxEdits,        \* bound: edits of files
  MaxQueue         \* bound: the user emits nothing while so much is waiting

ASSUME SessionAssumption ==
  /\ MaxSteps \in Nat /\ MaxCommands \in Nat /\ MaxEdits \in Nat /\ MaxQueue \in Nat
  /\ Typed \subseteq Node

ASSUME TextAssumption ==
  \A f \in File, v \in Version : ~Broken(f, v) => Text(f, v) \in Seq(Node)

ASSUME OutcomeAssumption ==
  \A n \in Node, s \in Store : \A res \in Outcome(n, s) :
    ~res.raises => /\ res.store \in Store
                   /\ res.emits \in Seq(Msg)
                   /\ Len(res.spawned) \in Nat /\ DOMAIN res.spawned = 1 .. Len(res.spawned)

ASSUME StoreAssumption == EmptyStore \in Store /\ \A s \in Store : Json(s) \in Store

\* No file is named like the source of the rules that come from none.
ASSUME SourceAssumption == {"spawned", "interactive"} \cap File = {}

VARIABLES
  disk,      \* disk[f]: the version on disk
  rules,     \* the rule list
  nextId,    \* _rule_id_counter
  sigma, queue, steps,
  hashes,    \* _file_hashes
  watching,  \* the files repl_main watches
  last,      \* last_file, as a set of at most one file
  saved,     \* the checkpoint on disk, as a set of at most one
  pc,        \* "prompt", "watch", "reload", "hash", "run" or "dead" (an exception left repl_main)
  cur,       \* the file being loaded, as a set of at most one
  todo,      \* the files check_watch has still to look at
  budget,    \* where :run stops: the value of steps it may reach
  commands, edits,  \* counters, for the bounds
  shown,     \* history: the versions of f read since its last reload
  kept       \* history: ids of hand-typed rules nobody has retracted

session == <<sigma, queue, steps>>
files == <<hashes, watching, last>>
vars == <<disk, rules, nextId, session, files, saved, pc, cur, todo, budget, commands, edits,
          shown, kept>>

Source == File \cup {"spawned", "interactive"}

\* A rule installed by spawn has neither pattern nor body: it never matches.
Inert == [name |-> "inert", accepts |-> {}]

Init ==
  /\ disk \in [File -> Version]
  /\ rules = {} /\ nextId = 0
  /\ sigma = EmptyStore /\ queue = << >> /\ steps = 0
  /\ hashes = << >> /\ watching = {} /\ last = {}
  /\ saved = {} /\ pc = "prompt" /\ cur = {} /\ todo = {} /\ budget = 0
  /\ commands = 0 /\ edits = 0
  /\ shown = [f \in File |-> {}] /\ kept = {}

-----------------------------------------------------------------------------
(* The machine.                                                            *)

Append1(name, source, node, id) == [id |-> id, name |-> name, source |-> source, node |-> node]
FromStart(f, v) == {Append1(Text(f, v)[k].name, f, Text(f, v)[k], k - 1) : k \in DOMAIN Text(f, v)}
FromText(f, v) == {Append1(Text(f, v)[k].name, f, Text(f, v)[k], nextId + k - 1) : k \in DOMAIN Text(f, v)}

Candidates(m) == {r \in rules : m \in r.node.accepts}
First(m) == {r \in Candidates(m) : \A c \in Candidates(m) : r.id <= c.id}

\* The message of a turn is gone and counted before its body runs.
TakenOff == Tail(queue)

MayStep == queue # << >> /\ steps < MaxSteps

\* One iteration of step(): the body may raise, and nothing here catches it.
Turn(back) ==
  /\ MayStep
  /\ steps' = steps + 1
  /\ \/ /\ Candidates(Head(queue)) = {}
        /\ queue' = TakenOff
        /\ pc' = back
        /\ UNCHANGED <<rules, nextId, sigma, kept>>
     \/ \E r \in First(Head(queue)) : \E res \in Outcome(r.node, sigma) :
          IF res.raises
            THEN /\ queue' = TakenOff /\ pc' = "dead"
                 /\ UNCHANGED <<rules, nextId, sigma, kept>>
            ELSE LET new == {Append1(res.spawned[k], "spawned", Inert, nextId + k - 1) :
                               k \in DOMAIN res.spawned}
                     left == {x \in rules \cup new : x.name \notin res.retracted}
                 IN  /\ sigma' = res.store
                     /\ queue' = TakenOff \o res.emits
                     /\ rules' = left
                     /\ nextId' = nextId + Len(res.spawned)
                     /\ kept' = {x \in kept : \E y \in left : y.id = x}
                     /\ pc' = back
  /\ UNCHANGED <<disk, files, saved, cur, todo, budget, edits, shown>>

-----------------------------------------------------------------------------
(* Commands.  Each is one line of input.                                   *)

Command == pc = "prompt" /\ commands < MaxCommands /\ commands' = commands + 1

\* :step, one turn; with nothing to do it only prints.
StepCommand == Command /\ Turn("prompt")

\* :run n, or :run with the limit of the session.
RunCommand(n) ==
  /\ Command
  /\ pc' = "run"
  /\ budget' = steps + n
  /\ UNCHANGED <<disk, rules, nextId, session, files, saved, cur, todo, edits, shown, kept>>

RunningOr == pc = "run" /\ (queue # << >> \/ steps < budget)
Running == pc = "run" /\ queue # << >> /\ steps < budget
RunTurn == Running /\ Turn("run") /\ UNCHANGED commands
\* step(1) refuses beyond the limit and the loop asks again.
RunSpins == Running /\ ~MayStep /\ UNCHANGED vars
RunEnds ==
  /\ pc = "run" /\ ~Running
  /\ pc' = "prompt"
  /\ UNCHANGED <<disk, rules, nextId, session, files, saved, cur, todo, budget, commands, edits,
                 shown, kept>>

\* :emit tag
EmitCommand ==
  /\ Command /\ Len(queue) < MaxQueue
  /\ \E m \in Msg : queue' = Append(queue, m)
  /\ UNCHANGED <<disk, rules, nextId, sigma, steps, files, saved, pc, cur, todo, budget, edits,
                 shown, kept>>

\* :spawn lib.rule
AddCommand ==
  /\ Command
  /\ \E n \in Typed : rules' = rules \cup {Append1(n.name, "interactive", n, nextId)}
  /\ nextId' = nextId + 1
  /\ kept' = kept \cup {nextId}
  /\ UNCHANGED <<disk, session, files, saved, pc, cur, todo, budget, edits, shown>>

\* :retract name
RetractCommand ==
  /\ Command
  /\ \E name \in {r.name : r \in rules} :
       /\ rules' = {r \in rules : r.name # name}
       /\ kept' = {x \in kept : \E r \in rules : r.id = x /\ r.name # name}
  /\ UNCHANGED <<disk, nextId, session, files, saved, pc, cur, todo, budget, edits, shown>>

\* The rules the text of f brings in, and the hash still to be taken.
Install(f, others) ==
  /\ rules' = others \cup FromText(f, disk[f])
  /\ nextId' = nextId + Len(Text(f, disk[f]))
  /\ cur' = {f}
  /\ pc' = "hash"

\* :load file
LoadCommand(f) ==
  /\ Command
  /\ IF Broken(f, disk[f])
       THEN pc' = "dead" /\ UNCHANGED <<rules, nextId, shown, cur, watching, last>>
       ELSE /\ Install(f, rules)
            /\ shown' = [shown EXCEPT ![f] = @ \cup {disk[f]}]
            /\ watching' = watching \cup {f}
            /\ last' = {f}
  /\ UNCHANGED <<disk, session, hashes, saved, todo, budget, edits, kept>>

\* hot_reload: the old rules of the file go before the new text is read.
EveryRule(f) == rules
OtherFiles(f) == {r \in rules : r.source \in File \ {f}}
OthersThan(f) == {r \in rules : r.source # f}
HotReload(f) ==
  /\ IF Broken(f, disk[f])
       THEN rules' = OthersThan(f) /\ pc' = "dead" /\ UNCHANGED <<nextId, shown, cur>>
       ELSE Install(f, OthersThan(f)) /\ shown' = [shown EXCEPT ![f] = {disk[f]}]
  /\ UNCHANGED <<disk, session, files, saved, budget, edits, kept>>

\* :reload
ReloadCommand == Command /\ UNCHANGED todo /\ \E f \in last : HotReload(f)

\* load_file and hot_reload read the file once more, for its hash.
TakeHash ==
  /\ pc = "hash"
  /\ \E f \in cur :
       hashes' = [g \in DOMAIN hashes \cup {f} |-> IF g = f THEN disk[f] ELSE hashes[g]]
  /\ cur' = {}
  /\ pc' = IF todo = {} THEN "prompt" ELSE "watch"
  /\ UNCHANGED <<disk, rules, nextId, session, watching, last, saved, todo, budget, commands,
                 edits, shown, kept>>

\* :watch file
WatchCommand(f) ==
  /\ Command
  /\ watching' = watching \cup {f}
  /\ hashes' = [g \in DOMAIN hashes \cup {f} |-> IF g = f THEN disk[f] ELSE hashes[g]]
  /\ UNCHANGED <<disk, rules, nextId, session, last, saved, pc, cur, todo, budget, edits,
                 shown, kept>>

\* :unwatch
UnwatchCommand ==
  /\ Command
  /\ watching' = {}
  /\ UNCHANGED <<disk, rules, nextId, session, hashes, last, saved, pc, cur, todo, budget, edits,
                 shown, kept>>

\* A line that is not a command is an effect; it may fail, which is printed, and
\* its spawns and retracts are dropped.  Only now are the watched files looked at.
EffectLine(n) ==
  /\ Command
  /\ \E res \in Outcome(n, sigma) :
       IF res.raises THEN UNCHANGED <<sigma, queue>>
       ELSE /\ Len(queue) < MaxQueue
            /\ sigma' = res.store
            /\ queue' = queue \o res.emits
  /\ todo' = IF watching # {} THEN DOMAIN hashes ELSE {}
  /\ pc' = IF todo' # {} THEN "watch" ELSE "prompt"
  /\ UNCHANGED <<disk, rules, nextId, steps, files, saved, cur, budget, edits, shown, kept>>

\* check_watch: every file with a hash, in the order of the dict; any order here.  The text
\* is read after the hash has been compared.
CheckFile(f) ==
  /\ pc = "watch" /\ f \in todo
  /\ todo' = todo \ {f}
  /\ IF disk[f] # hashes[f]
       THEN pc' = "reload" /\ cur' = {f}
       ELSE pc' = (IF todo' = {} THEN "prompt" ELSE "watch") /\ UNCHANGED cur
  /\ UNCHANGED <<disk, rules, nextId, session, files, saved, budget, commands, edits, shown, kept>>

ReloadWatched ==
  /\ pc = "reload"
  /\ \E f \in cur : HotReload(f)
  /\ UNCHANGED <<todo, commands>>

\* :checkpoint and :restore: rules, ids and the log are not part of it.
Snapshot == [store |-> Json(sigma), queue |-> queue, steps |-> steps]

CheckpointCommand ==
  /\ Command
  /\ saved' = {Snapshot}
  /\ UNCHANGED <<disk, rules, nextId, session, files, pc, cur, todo, budget, edits, shown, kept>>

RestoreCommand ==
  /\ Command
  /\ \E s \in saved : sigma' = s.store /\ queue' = s.queue /\ steps' = s.steps
  /\ UNCHANGED <<disk, rules, nextId, files, saved, pc, cur, todo, budget, edits, shown, kept>>

-----------------------------------------------------------------------------
\* The user saves another version of a file, whatever the session is doing.
Edit(f) ==
  /\ edits < MaxEdits
  /\ edits' = edits + 1
  /\ \E v \in Version \ {disk[f]} : disk' = [disk EXCEPT ![f] = v]
  /\ UNCHANGED <<rules, nextId, session, files, saved, pc, cur, todo, budget, commands,
                 shown, kept>>

\* What the program does by itself once a line has been entered.
Working ==
  \/ RunTurn \/ RunSpins \/ RunEnds \/ ReloadWatched \/ TakeHash
  \/ \E f \in File : CheckFile(f)

UserActs ==
  \/ StepCommand \/ RunCommand(1) \/ RunCommand(MaxSteps)
  \/ EmitCommand \/ AddCommand \/ RetractCommand
  \/ (\E f \in File : LoadCommand(f) \/ WatchCommand(f) \/ Edit(f))
  \/ ReloadCommand \/ UnwatchCommand
  \/ (\E n \in Typed : EffectLine(n))
  \/ CheckpointCommand \/ RestoreCommand

Next == Working \/ UserActs

Spec == Init /\ [][Next]_vars
\* The program runs on; the user may leave at any time.
FairSpec == Spec /\ WF_vars(Working)

-----------------------------------------------------------------------------
(* Properties.                                                             *)

TypeOK ==
  /\ disk \in [File -> Version]
  /\ \A r \in rules : r.id \in Nat /\ r.source \in Source /\ r.node \in Node \cup {Inert}
  /\ nextId \in Nat /\ steps \in 0 .. MaxSteps
  /\ sigma \in Store /\ queue \in Seq(Msg)
  /\ DOMAIN hashes \subseteq File /\ watching \subseteq File /\ todo \subseteq DOMAIN hashes
  /\ pc \in {"prompt", "watch", "reload", "hash", "run", "dead"}

\* However rules are loaded, reloaded, added and spawned, no two entries share an id
\* and later ones have larger ids, so the order of the list is never ambiguous
\* (repl.py:62-94, :123-133).
IdsAreFresh ==
  /\ \A r \in rules : r.id < nextId
  /\ \A r, s \in rules : r.id = s.id => r = s

\* A rule typed by hand survives every reload, until its name is retracted
\* (repl.py:78, :128, :185-189).
TypedRulesStay == \A x \in kept : \E r \in rules : r.id = x /\ r.source = "interactive"

\* The rules of a file are those of the texts read since its last reload: nothing
\* of an older text is left, whatever was loaded, retracted, spawned, watched and
\* restored in between (repl.py:54-96, :214-221).
FileRulesAreCurrent ==
  \A r \in rules : r.source \in File =>
    \E v \in shown[r.source] : \E k \in DOMAIN Text(r.source, v) : r.node = Text(r.source, v)[k]

\* ":run - until it stops or n steps": the command comes back (repl.py:7, :141-146).
RunReturns == pc = "run" ~> pc # "run"

\* It does as long as the session has steps left, whatever the rules emit and wherever
\* a restore set the counter (repl.py:141-146, :204-212).
RunReturnsWithinLimit == pc = "run" ~> pc # "run" \/ steps >= MaxSteps

=============================================================================
