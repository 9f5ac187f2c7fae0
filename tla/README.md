# EVOL: models, checks and proofs

EVOL is a small rule language. A program is a table of rules `when pattern =>
{ effects }`; a run keeps a store, a queue of messages and a list of installed
rules, and takes one message at a time. This directory holds TLA+ models of its
machines, the TLC configurations that check them on small programs, and proofs
checked by TLAPS.

## 1. The system

| Part | Source | State it keeps | Operations | Hard about it |
|---|---|---|---|---|
| Concurrent runtime | `runtime_concurrent.py` | agents (id, name, store, mailbox, lock), token queue, in-flight counter, `done`, global lock, log | register, deliver, worker loop, spawn, retract, terminate | threads, two kinds of locks, distributed termination, thread death |
| Sequential machine | `interpreter.py` 729-785, `interp.rs` 1385-1480 | store, queue, rule list, step count, log | take, match, react, spawn, retract, stop | rules that change the rule list while messages wait; the limit |
| Evaluator | `interpreter.py` 369-634, `interp.rs` 596-1189 | none: results are (store, emits, spawns, retracts) | the twelve effects, the expressions, patterns | isolation of `par`, rollback of `try`, scoping of `forall` |
| Rule table | `interpreter.py` 637-726, `interp.rs` 1226-1344 | table, files seen, FFI names | import, register, resolve a spawn | files that import one another, one file under several paths, rules replaced, walks that stop half way |
| REPL | `repl.py` | a session: store, queue, rules, step count, log, file hashes | load, hot reload, watch, step, run, emit, add, retract, checkpoint, restore | partial failure, persistence, its own copy of the machine |
| Type checker and prover | `typechecker.py`, `types.rs` | types in scope | subtyping, expression types, rule facts, properties P1-P8 | whether what it "proves" holds of the machine |
| Transpiler | `compiler.py`, `compiler.rs` | none | rules to Python functions | whether the generated code means the same |
| Lexer, parser | `lexer.py`, `parser.py`, `lexer.rs`, `parser.rs` | position, line, column; the syntax tree of `ast_nodes.py` | text to tokens, tokens to tree | where a lexeme ends, optional separators, binding of operators |
| Library, FFI, CLI, metrics, samples | `metrics/`, `bin/evol.rs`, `samples/` | none of interest | I/O | external |

How they interact: the parser hands declarations to `collect_rule_table`; the
three machines (sequential, concurrent, REPL) take the finished table, call
`match` to choose a rule or the agents of a message, call `eval_eff` on the body
with a copy of a store, and apply the four parts of its result. The type checker
and the transpiler look at the same tree and never run.

Each hazard of the code, at its line, with the properties aimed at it, is in
`PROJECT.json` under `hazards`; every definition that models code is listed there
under `map` with the lines it stands for.

## 2. The plan

In order of importance.

| Module(s) | Models | State |
|---|---|---|
| `Program` | what all machines take as given: rule table, messages, outcome of a body | done |
| `ActorRuntime`, `MCActorRuntime`, `ActorRuntimeProofs`, `ActorMailboxProofs` | `runtime_concurrent.py` | checked and proved |
| `Actors`, `Fanout`, `ActorRefinement` | what the concurrent runtime promises: a plain system of agents, which `ActorRuntime` implements; the fan-out sample, on any pool | checked and proved |
| `Delta`, `SeqMachine`, `MCSeqMachine`, `SeqMachineProofs` | `run()` of both interpreters, as an implementation of the abstract machine | checked and proved |
| `ImportTable`, `MCImportTable`, `ImportTableProofs` | `_resolve_module`, `_register_pyimport`, `collect_rule_table` of both ports | checked and proved |
| `Repl`, `MCRepl`, `ReplProofs` | `repl.py` | checked and proved |
| `Effects`, `EffectProofs` | how the results of effects are put together: sequence, `par`, `forall` of both interpreters | proved, whatever the effects are |
| `Syntax`, `EffSemantics`, `EffLaws`, `MCEffLaws` | `ast_nodes.py`; `eval_eff` and `evaluate` of both interpreters, on top of `Effects` | checked |
| `Checker` | the checkers and provers of `typechecker.py` and `types.rs`, P1 to P8 | checked (through `ToolLaws`) |
| `Transpiler` | `compiler.py`, `compiler.rs`: what the code written for a body does when it runs | checked (through `ToolLaws`); the dispatcher of a script is left out |
| `ToolLaws` | verdicts of the checker and code of the transpiler against `EffSemantics` and the machine | checked |
| `Lexer`, `LexerProofs` | `lexer.py` | checked (in `FrontEnd`) and proved |
| `Parser`, `Printer`, `FrontEnd`, `MCFrontEnd` | `parser.py`, and the lexer with it | checked |

Everything planned has been done. One theorem of the plan turned out to be false: that a
program whose bodies neither spawn nor retract reacts on a pool of one worker as the
sequential machine does. A commit queues one more token for an agent whose mailbox is not
empty (`runtime_concurrent.py:128-130`); that surplus token may stand before those of later
messages, and takes the next message of its agent ahead of them. So messages of different
agents are taken in another order than they were sent; only within an agent is the order
kept, which is what `ImplementsActors` says.

## 3. Modules

**Program.** A rule is a number into `Table` (library, name, the messages its
pattern accepts). `Outcome(rule, store)` is the set of results `eval_eff` may
return (new store, emits, spawns, retracts, or an exception): the machines are
checked and proved for *any* such operator, the runs choose small ones.
`ResolveSpawn` is `resolve_spawn`: qualified name first, then any rule of that name.

**ActorRuntime.** Every thread has a `pc`; one action is one lock scope of
`worker()` or of the thread in `run()`. The global lock does not keep the other workers
from the token queue, the mailboxes and, in the test of their loop, `done` and the counter,
so what happens under it is cut again: one action per spawned agent, and one each for the
message put into a mailbox, the token queued and the counter changed (`:76`, `:77`, `:78`; and
`:127` to `:132` at the end of a commit). The loop test reads `done` and the counter in two
steps. Left as one step are those of which no other thread sees the middle: the agents a
`retract` pops (looked up one by one by workers that then wait for the lock), the test of
the counter and `done.set()` of an idle worker, the decrement of a surplus token with the
two locks given back, and the test whether anybody received a message with `done.clear()`.

| Code | Model |
|---|---|
| `agents`, `next_aid`, `Agent.name/pat/eff` | `live`, `nextAid`, `agent` |
| `Agent.sigma`, `.mailbox`, `.lock` | `store`, `mailbox`, `alock` |
| `work`, `inflight`, `done`, `lock`, `emitted_log` | the same names, `log` |
| locals of `worker()` | `tok`, `msg`, `seen`, `out`, `targets` |
| 71-80 `deliver` | `Route`, `Put`, `PutToken`, `CountToken`, `Routed` |
| 91-99 loop test, `get`, timeout | `LoopTest`, `Recheck`, `GetToken`, `GetTimeout`, `Idle` |
| 100-110 look-up, surplus token, message | `Lookup`, `DropDeadToken`, `LockAgent`, `CheckMailbox`, `DropSurplusToken`, `TakeMessage` |
| 111-112 body, on a copy, under no lock | `CopyStore`, `EvalBody`, `WriteStore` |
| 113-126 commit | `LockGlobal`, `SpawnOne`, `RetractAll`, and `deliver` as above |
| 127-132 token back, next token, end | `GiveBack`, `LookAgain`, `Requeue`, `Recount`, `Settle` |
| 133-140 start, wait, return | `Booted`, `StartThread`, `AllStarted`, `Return` |

A body that raises kills its thread (`pc = "dead"`): nothing in `worker()` catches
the exception, and the token is never given back.

**Actors** is what the runtime promises, without the tokens, the counter, `done`, the
locks and the loops that keep the promise: a message goes once to each agent of its moment
that accepts it, an agent's messages are taken in the order they came, bodies run at any
time but take effect one at a time, a retract takes away every copy of its name, and
`run()` returns when no worker handles anything and no message waits at a live agent.
Stores are left out, because bodies may see stale ones: a body runs on some store.
`ImplementsActors`, at the end of `ActorRuntime`, gives the refinement mapping: what a
worker is doing is read off its `pc`, tokens a worker holds without a message are not seen.

**Fanout** is the sample program that the tests of the runtime run, with the number of
copies and of broadcasts as constants, and the answers those tests expect (`FanAnswers`).

**Delta** is the abstract machine the README of the language describes: one
message, a rule that matches, new rules, then retraction by name. A message is dropped only
if no rule matches it; a body that raises, or a stop, ends the machine (`ended`), and only
then may one more message be gone, as it is in the port at the limit.
**SeqMachine** is the loop of `run()`, with the step counter, the limit, the end
and its report, the rule list with its ids, and a failing body. The variable
`port`, chosen at the start, says which of the two loops it is: the Python loop tests the
limit first, the Rust loop takes the message first and loses it at the limit. The list of
rules is a set of entries with ids; entries are appended with the next id only, so the
order of the list is the order of the ids. `gone` is a history variable.

**Syntax** has one constructor per class of `ast_nodes.py`, so that a tree in a model
reads like one in the code.

**Effects** is what `eval_eff` does with the results of the effects inside an effect: one
after the other up to the first failure (`InTurn`), both branches on one store and
their stores merged (`ParResult`), a body once per item (`ForItems`). What an effect does
is a parameter there, so nothing in the module is recursive and it can be proved about; so is
`Same`, the `==` of the language, since `par` compares values with it and it is coarser than
being one value (`True == 1`).
`Done`, `Failed` and `Join` are the results themselves.

**EffSemantics** is `eval_eff` and `evaluate` as recursive operators on (effect or
expression, store), for both ports: the twelve effects, arithmetic and order of mixed
values, closures, `match`, attributes and indices, constructors, the built-in functions
and printing. What differs between the ports is a pair of operators ending in `Py` and
`Rs`, or a `port` parameter. Errors are of two kinds, those `try` catches and (Python
only) all others. A Python closure is a tuple of five, and the operators that take
tuples take it, as in the code.
**EffLaws** is a machine that has no counterpart in the code: its states are the
programs up to a depth, with a store, so that its invariants are laws that hold of
every such program. Expressions do not grow; they come as samples, an effect around one
expression of each form.

**Checker** is `TypeChecker` and `proven_properties`: `Infer`
and `CheckEff` return a type or an environment and whether no error was reported; one
environment goes through both branches of an `if`, as in the code. `Names` is what
`check_program` collects, and `NamesPy` what the Python checker has left of it once it
has called itself on a library. `EmittedTags`, `Spawns`, `Retracts` and `Walked` are the walks
over a body, each with the constructs it enters; `IsProven` and `ProvenExhaustive` are the
properties P1 to P8.

**Transpiler** is not the text but what the Python code written for a body does:
`Exec` and `RunExpr` run it on the global store, in place, and `Loads` says whether Python
would load it at all (a branch that consists of a `spawn` leaves its header without a
line, an expression that is not supported turns the rest of its line into a comment).

**ToolLaws** extends the machine of `EffLaws` with what ties these verdicts to a run:
the body under test becomes the rule for `boot` of a library, next to another rule and
before one at the top level, and `RulesThatReact` is the sequential machine cut down to
which rules react in `RunSteps` messages. Its laws are of the form "what the tool
accepts, holds when the body runs", with the exceptions the code really has as named
conditions: `Stable` (one environment for all branches), `Precise` (no Top, no mixed
list), `TagsAreNoVariables`, `Uses`, `Means` and `Differs` (the expressions the transpiler
writes otherwise).

**ImportTable** is the walk over the imports, one declaration a step. `stack` holds the
calls of `collect_rule_table` that are open, each with the file, the library its rules
go to and the declaration it has come to. A path is the sequence of segments as written,
a place is where it leads: `_seen` compares paths, files have places, and that
difference is the hazard. A relative path begins with `Here`, which leads to the current
directory: the port looks for samples under one (`interp.rs:1210`), so it may know a file by
two paths. `port` chooses how paths are compared and where samples are looked for. `read` is
a history variable: the files begun.

| Code | Model |
|---|---|
| `table`, `_seen`, `_py_ffi` | `table`, `seen`, `ffi` |
| the recursive call and its loop over `decls` | `Frame` on `stack`, `Return` |
| `_resolve_module` | `Candidates`, `Found` |
| 686-693 rules of a file and of its libraries | `AddRule`, `Put` |
| 695-696, 656-675 `import py` | `RegisterPy` |
| 697-713 `import` | `ImportSeen`, `ImportFile`, `ImportFails`, `ImportMissing` |

**Lexer** is `tokenize`, one action for each way an iteration of its loop can go, on
ASCII text, which is a sequence of characters. A token keeps where it began and ended, which the code does not, so that
properties can speak of it. **Parser** has one operator per method of the parser, from
the position of the next token to a node and the position after it; position 0 is a
raised error. **Printer** stands for no code: it writes a tree out with the brackets
the grammar asks for and no more. **FrontEnd** lexes and parses a source; one that
parses is printed and read again.

**Repl** is a session: commands are actions, the two reads of a load (text, then
hash) are two actions, and `check_watch` adds one before them for the hash that shows whether
a file has changed; in between the user may edit files. `:run` is a loop of its own, one turn an action. An exception
outside an effect line leaves `repl_main`, as in the code. `:step n` is n times
`:step 1`. Simulation time, `:dt` and the printing commands are left out.

## 4. Runs

All of them end within seconds to two and a half minutes (`churn`, `eff_laws`, `imports`,
`repl_session`) on an idle machine.

| Run | Shows |
|---|---|
| `fan` | two workers, the fan-out sample in small (two spawns, two broadcasts): 33,844 states: every schedule returns, answers each broadcast once per agent, never finds a mailbox empty under `get`, sets `done` once and only when all is quiet |
| `churn` | 258 thousand states: three workers, agents spawned and retracted while messages wait, a body that may raise: the counter is exact for whoever owns the lock, and short by one token not yet counted for everybody else; the pool implements `Actors`, so no copy survives the retract and no message is lost or taken twice; tokens of dead agents are given back so that the run returns; a dead thread keeps its token, so the run then hangs and is never reported complete |
| `seq_loops` | both loops on a program of four rules that compete, spawn, retract, fail and feed themselves: refinement of `Delta`, FIFO, copies made by `spawn` stay inert until the retract, termination |
| `imports` | 94,235 states: the walk over 2412 file systems, in both ports: a table reported complete holds every rule of every file reached, rules keep their slots, no import replaces a rule at the top level of the main file (a rule of one of its libraries is replaced by an import of that library's name), files that import one another in a circle are read once, or once under each of two paths |
| `eff_laws` | twelve laws on 178,842 states, each a body and a store (thirteen effects as leaves, depth 3, and some 1,700 samples of expressions; one store binds the name of the loop variable). Of the evaluators: `ParIsEitherOrder`, `TryForgetsTheBody`, `ForAllIsUnrolled`, `ClosuresKeepTheirScope`, `PortsAgree`, which says on what the ports disagree and how. Of the prover: names that P1 and P2 accept exist when the body comes to them, a rule that P4 calls dead never reacts, a match that P7 and P8 accept answers. Of the checker: a value has the type inferred for it, a body it accepts does not fail on a type, the ports accept the same programs. Of the transpiler: its code leaves the same store and the same messages |
| `front_end` | 199,237 states: every text of up to four characters of eleven kinds, every three words in an expression and in a body, and four thousand printed programs: the tokens are the source cut into the longest lexemes, lines and columns are right, and what is printed from a tree is read back as that tree |
| `repl_session` | sessions of five commands with two files and two edits: ids stay unique, rules typed by hand survive reloads, nothing of an old text survives one, `:run` comes back while steps are left |

Runs that refute what the repository says (each with a finding in `PROJECT.json`):

| Run | Refutes |
|---|---|
| `race_lost_update` | "race-free by construction": two workers hold tokens of one agent and one update is lost |
| `payload` | the semantics of the sequential machine: bodies do not see the bindings of their pattern |
| `prover_tags` | "all emitted tags are covered" (P5): a tag emitted in a `forall` or a `try` is not looked at. The trace emits one in a `forall`; the premise `TagsAreWritten` asks that every emit of the program writes its tag, since P5 sees no other (below) |
| `repl_run_hangs` | `:run` ends: not after the session's limit |
| `import_cycle` | "protection against cycles": not if one of the imports goes through `..` |

Further disagreements met while modelling. The models contain them unless it is said
otherwise, but no run is spent on them.

Concurrent runtime:

- "logically deterministic" (`runtime_concurrent.py:6-7`): whether a message is answered
  depends on whether its agent is taken before or after another one retracts it.
- `retract` compares a bare name with the qualified name of
  the agent (`runtime_concurrent.py:66`, `:122`), so a library's rule is never
  retracted there; see `Retracts`.
- `max_steps` (`:47`) is a parameter nothing reads: a program that feeds itself never stops.

Sequential machine and evaluator:

- `stopped_by_max_steps` is `steps >= max_steps` (`interpreter.py:784`): true as well
  of a run that drained its queue on its last step.
- The ports are called bit-identical (`README.md:48-49`), but a type error is a Python
  exception that no `try` of the language catches, and an error of the language in the
  port (`TypeErrorPy`, `TypeErrorRs`).
- `choice` waits for a failure that nothing raises (`interpreter.py:536`): its second
  branch never runs.
- `forall` over a variable that was bound before: Python forgets it, Rust restores it
  (`AfterIterationPy`, `AfterIterationRs`); `ForAllIsUnrolled` and `PortsAgree` say so.
- `par` compares whole stores, so it takes a name that only one branch changed for a
  conflict (`ParOnlyAdds`), and in Python loses an assignment of None (`ClashPy`,
  `EitherPy`). It starts from the store before it (`interpreter.py:526`), so a name that both
  branches lost (a loop variable) comes back. `ParIsEitherOrder` therefore speaks of branches
  that change different names, the first of which drops none.
- The port neither adds nor repeats tuples and does not order lists (`Appendable`, `Order`),
  keeps truth values apart from numbers where Python counts with them (`KindOf`; `"a" * True`,
  `range(0, True)`), and gives a function no attributes and no length. `RefusedFor` lists all of
  these; `PortsAgree` holds the ports to agreement on every other expression.
- A call into a module that does not exist answers None in Python, since the `raise` for it
  stands behind a `return` (`interpreter.py:173-174`), and is an error in the port
  (`CallModule`).
- A name with a capital is always a constructor when it is called, even if a function
  is bound to it (`CallExpr`).

Rule table:

- An import inside a library is ignored (`"skip"`). `import name` is looked for under the
  name as it is written, not under the lower-case name of the language's README (`README.md:95`).
- The search in the samples starts from different directories in the two ports, and the
  ports differ in whether `./a` and `a` are the same file (`SamePath`).

REPL:

- An edit between the two reads of a load, or before a `:watch`, is never noticed
  (`repl.py:59`, `:95`, `:423`): the hash that is kept is that of a text nobody loaded.
- `hot_reload` drops the old rules before it reads the new text (`:78`), and a step takes
  its message off the queue before it runs the body (`:110`); the exception of either ends the session.
- `check_watch` reloads every file that has a hash, watched or not (`CheckFile`), and
  loading a file twice installs its rules twice (`LoadCommand`).
- `:checkpoint` writes symbols of the store as strings (`Json`), and neither rules
  nor ids.

Type checker and prover:

- The environment of the checker is that of the text, not of the flow: the type an
  `if` leaves for a name is that of its last branch, taken or not, and a loop variable
  hides the name it shadows only inside the loop. A list has the type of its last item,
  and two symbols may be compared by size, which fails when it runs. P3 ("type safe")
  therefore holds only of bodies for which this makes no difference (`Stable`, `Precise`).
- The Python checker has no case for `try` and `raise` and reports both as unknown
  effects; the port checks them (`CheckEff`). The port says of the names of a library
  "Python recurses without touching the rule-name set" (`types.rs:201`): Python replaces
  it, so a rule after a library may only spawn what that library declares (`NamesPy`).
- Of the built-in functions only `range` and `len` have a type: a program that uses another is
  always rejected (`BuiltinType`).
- P7 looks at the tags of the cases and not at their arity; P8 looks at calls and not at
  bare variant names, and passes over conditions, collections, indices and the cases of a `match`
  (`WalkedIn`). P4 and P5 see a tag only where it is written as a name.
- `proven_properties` sorts qualified and plain names together (`typechecker.py:654`), which
  raises a TypeError when there are unreachable rules of both kinds. Not modelled: it is the
  report of P4, not its verdict.

Transpiler:

- Its docstring lists `spawn` and `retract` as supported (`compiler.py:6-7`):
  no line is written for either, so a branch that is only a `spawn` makes a script that
  Python does not load (`NoLines`, `Loads`). `par` runs in sequence without its conflict
  test, a failed `try` keeps its writes and messages (`Exec`).
- A name that is not set is 0, so the tag of a message such as
  `emit done` or `(done, 1)` is 0 and matches no rule (`Lookup`): of a script only the
  rules for `boot` ever react. The rules at the top level are not written at all (the
  dispatcher is not modelled). The variables bound by a pattern, by `forall` and by
  `catch` are locals the bodies do not read.
- `and` and `or` answer an operand, a constructor call answers None, a `match` is the
  number 0 and a comment, a function reads the store of the moment it is called at
  (`Differs`, `IsClosed`).
- The Python transpiler decides on the comma of a one-item tuple by the length of its
  text, so `(done,)` becomes its item; the port counts the items (`CommaPy`, `CommaRs`).

Lexer and parser:

- A line break inside a string is not counted (`lexer.py:74-86`), so every position after
  it is wrong (the condition of `PositionsAreExact`).
- A semicolon separates the statements of a block only, and is an error in the bodies of
  `forall` and `try`; any word stands for the `in` of a `forall`; the names of the fields of
  an enum variant are dropped.

Bounds, and why they are enough:

- `Aid`: how many agents a run may create. The programs of the runs create fewer,
  so the bound never stops anything: a run stuck at the bound would violate
  `Returns` or `ReturnsUnlessABodyRaised`.
- Two workers in `fan`, three in `churn`: every hazard here is between a worker that
  holds a token, one that idles and one that commits, and the invariants that matter
  are proved for any number. So is what `fan` says of the sample's answers, for any number
  of copies (20 in the sample) and broadcasts (1).
- `MaxSteps = 12` in `seq_loops`: the program feeds itself for ever on
  some paths and drains its queue on others, so both ends are reached, each before
  and at the limit. (100000 in the code is a parameter.)
- `LoopLimit = 4` for 100000: the loops in the runs end by themselves after at most
  two turns or never. `MaxDepth = 3`: each law is about a construct, its body and
  what surrounds them; the samples have every operator on every pair of six atoms, every
  built-in function on every number of arguments up to three, and `match` with up to two
  cases on what fits and what does not. `RunSteps = 6`: the program around a body has three rules, and a
  chain that reaches all of them takes three messages.
- The thirteen leaves of `eff_laws` (`Beside` are the six of them that stand next to a
  program that grows; every leaf is the innermost effect of some): assignments that make,
  change and copy a name, that read the loop variable and that store the value of a `match`
  no case of which fits; messages with a known tag, an unknown one and a variable as a tag;
  `spawn` and `retract` of a rule that exists, `spawn` of one that does not, `raise`, and
  a call that may fail. One of the three stores binds `i`, the variable of every `forall`.
- `imports`: six files, the main file, one beside it, one below it, one in the current
  directory, one in its `samples` (where the port looks) and one in Python's directory of
  samples, with up to two imports in each, so that circles of one, two and three files,
  shadowed names, libraries of two files with one name, and a file reached under a relative
  and under an absolute path occur. `MaxDepth = 13` and `PathMax = 15` stand for the
  recursion limit and the longest path of the system: a circle that closes needs at most two
  calls for each file, one for either way to spell its path; one that does not hits either.
- `TextLength = 4` over an alphabet with a character of every branch of the loop, and
  backslash, quote and line break: no lexeme needs more to end wrongly.
  `WordsLength = 3`: every pair of neighbouring words, with what closes them. The printed programs
  have each form of expression inside each other one, and each effect in each position.
- `MaxCommands = 5` (4 in `repl_run_hangs`), `MaxEdits = 2` (1 there), `MaxQueue = 2` in the
  REPL: load, edit, watch, effect line, reload are five, and an edit may fall into any gap
  between them; two of them so that a file can change once before its hash is compared and
  once more before the reload reads its text. `MaxSteps = 3` is in reach of a session, and a `:restore` may set the
  counter back.

Deadlock is checked in `fan` and `seq_loops`, whose specifications stutter
explicitly where the program has ended. It is not in `churn`, where the run really
hangs once every thread has died, in `EffLaws`, which stops at `MaxDepth`, in `ImportTable`
and `FrontEnd`, which stop when the walk or the parse is over, and in
`Repl`, which stops when its commands are used up or an exception has ended it.

Fairness: `FairSpec` of `ActorRuntime` assumes that the operating system runs every
thread that can run (weak fairness of the main thread and of each worker, not of
single actions). `SeqMachine` assumes that the one loop runs on. `Repl` assumes that
of the program's own steps and nothing of the user, who may never type again. The other
modules state no liveness: their steps are those of one call that cannot wait.

## 5. Proofs

All theorems hold for every program (`Table`, `Outcome`, `Bootstrap`), every set of workers
and of ids. They assume what the modules state: `ProcAssumption` (finitely many workers, at
least one; `Main` and `Nobody` are other values), `AidAssumption` (every rule has an id),
`FanoutAssumption` (numbers of copies and broadcasts), and the typing of tables and outcomes
in `Program` and `SeqMachine`; `PathAssumption` and `WorldAssumption` (a file that parses is
a sequence of declarations, the main file parses) in `ImportTable`; in `Repl`,
`SessionAssumption`, `TextAssumption` (a text that parses is a sequence of rules),
`OutcomeAssumption` and `StoreAssumption` (a body, and the detour of a checkpoint over JSON,
lead from stores to stores) and `SourceAssumption` (no file is named "spawned" or
"interactive"); in `Lexer`, `TextsAssumption` (a source is a sequence of characters). TLC
evaluates each of these in the runs. In `EffectProofs` names, values and effects are any;
its theorems on `par` have one hypothesis, `SameIsEquality`: the equality the branches are
compared with (`Same`) is reflexive and symmetric, as `SameValue` of the evaluator is, for
which True is 1 in Python. Of the invariants proved, `ResultIsFinal`, `FirstIsUnique`,
`EndsForAReason`, `RulesComeFromFiles`, `LocksComeFree`, `StandsStillForAReason`,
`OnlyAliveRun`, `OnlyAliveReact`, `EveryTurnCounts`, `NeverStuck`, `RunCounts`, `RunGoesOn`,
`Repl!TypeOK` and the lexer's `TypeInv` are in no run: the proofs are the stronger
statement.

Where a proof needs induction over numbers, it takes the least number a statement fails for
(`LeastNumber`, from the library's theorem that `<` on the naturals is well founded).

*ActorRuntimeProofs.* `TypeInv` (types, and the label-dependent facts about locals)
is inductive. `InflightExact` is inductive relative to it: the counter, with the
tokens that are queued and not yet counted (`Uncounted`), is the number of queued tokens plus
the number of workers holding one. The counter alone is not, since a token can be taken
between its `put` and its `+= 1`; but a thread in that window owns the global lock, or is
`run()` before it starts the workers, so that whoever else owns the lock finds it exact. It is
what the rest rests on: with `DoneInv` (`done` implies a counter of zero, and no worker exists
during the bootstrap) it gives that a `done.clear()` can no longer happen after
`done` was set (`DoneIsSetOnce`), that a dead worker keeps the run from completing
(`RaisedNeverCompletes`) and that the returned values are final (`ReturnIsFinal`).

*ActorMailboxProofs.* `MailboxLockInv`: who is between `check` and `take` owns the
agent's lock, hence nobody else can empty the mailbox (`GetNeverWaits`). Counting the
tokens *of one agent* (queued, held by a worker that has not yet taken a message
with it, or still owed by the thread that has just filled the mailbox) against the length of
its mailbox gives
`NoMessageStranded`, and from it and `InflightExact`, `DoneIsQuiet`.

The module goes on with who waits for whom. `WaitInv` says where the holder of each lock
is: the holder of the global lock is a worker inside its commit, the holder of an agent's
lock is between `check` and the place that gives the lock back, with that agent's token. The
only lock anybody asks for while holding another is the global one, so nobody waits in a
circle (`NoCircularWait`), and with `CountInv` and `DoneInv` the runs that stand still are
those that are over and those in which a body raised in every worker (`NoDeadlock`): the
safety half of `Returns` and `ReturnsUnlessABodyRaised`. The prover has no ENABLED, so
`CanStep` and `MainCanStep` spell out the guards; on the programs of the runs TLC has found
them equal to ENABLED in every state. The bound `Aid`, which the code does not have, is kept
out of it by `RoomForAgents`.

`DeadRulesStayIdle` is the soundness of the prover's "no unreachable rule", for this
machine: `Alive` is the least set of rules closed under what bodies emit from `Bootstrap`
on, and `AliveInv`, that all messages waiting, being routed or being handled belong to it, is
inductive because a copy made by spawn has the rule of its original. `StaleWriteNeedsTwoBodies`
says when the race the run `race_lost_update` finds can occur: `FreshInv` (a body's copy is
its agent's store) is inductive as long as no two workers are in a body of one agent, which
is so in a pool of one (`OneWorkerIsRaceFree`).

*ActorRefinement.* `PoolImplementsActors`: the initial state maps to the initial state of
`Actors`, and each of the pool's actions to one of its actions or to a stutter. The invariant
behind it puts together the type invariant, `CountInv`, `DoneInv` and `DoneMeansQuiet` of the
two modules above, and `LockInv`: a worker between `spawn` and the end of its commit owns the
global lock, so the abstract commit finds nobody else committing. `DoneMeansQuiet` is what
lets the step that ends the caller's wait be the abstract `Return`.

`FanOutAnswers` uses it: `FanInv` is an invariant of `Actors` running the sample, carried over
to the pool by the mapping. Its core is `Balance`: the answers given, the messages waiting at
the workers of the sample, the recipients a broadcast has not reached yet and the threads that
handle a `go` and have not said `done` are together as many as the broadcasts routed times the
copies and one. A broadcast adds to both sides what `Recipients` finds, which by `Crew`
and `RunsBoss` (nothing is broadcast before the last copy exists) is every worker there will
be; every other step moves at most one unit from one term to the next. When the caller returns all
terms but the first are zero, and `Settled` says that every broadcast has been routed.

*SeqMachineProofs.* `SeqTypeCorrect`; an invariant on the rule list (ids below the
next id, all different, originals below `Len(Table)`, an original missing only if
its name is in `gone`) gives `FirstIsOneRule` and `CopiesAreInert`; the queue is
always what was queued less what was taken (`TakenOnceInOrder`); `EndHasAReason`
needs that the step count never passes the limit; `LoopImplementsDelta` maps every
step of either loop to a step of `Delta` or a stutter; there a message is dropped only if no
rule accepts it, a body that raises ends the machine, and nothing moves after the end. `DeadRulesNeverRun` is the
theorem on unreachable rules for this machine, with the queue in place of mailboxes.
`TurnsAreBounded` and `AlwaysATurn` are what `Halts` needs besides fairness: every turn
counts towards the limit, and where a rule accepts the message there is a first one and a
result of its body.

*ImportTableProofs.* `TypeInv` types the calls on the stack and says that every one of
them stands in a file that parsed. `SlotsKept` follows from `Put`, which either replaces
an entry in its place or appends one. `TopRulesKept` needs that only the lowest call has
the library of the main file. `TableIsComplete` rests on an invariant about the stack:
every file that was begun is either on it, with all its declarations before the current
one dealt with (their rules in the table, the files they import begun), or has been
dealt with to its end; what is dealt with once stays so, since neither `table` nor `read`
ever loses anything. `PlainCirclesEnd` follows from `Circling`: every path on the stack is
tidy (no dots but for the one a relative path begins with), all but the first are marked as
seen, and no two of those are the same, since an import of a marked path is skipped. A tidy
path leads where it says (`TidyPlace`), so a file has at most one that is relative and one
that is absolute (`OneOfTwo`). So no more calls are open than twice the files
(`NeverTooDeep`), and nothing else can go wrong in a sound world. It needs `TidyStart`, a
hypothesis of the theorem that the run evaluates: the main file, the current directory and the
samples are given by tidy paths, and the interpreter can go deeper than twice the number of
files. For the port the theorem asks that no
import goes through `.` either: there an import of `./x` joins one more `.` to the path with
every file, so that a walk may end at the longest path the system allows although the circle
would close. That its `.` paths are recognised (`SamePath`) is checked by the run alone.

*LexerProofs.* `PositionsCorrect` rests on `KnowsWhere`: the line is one more than the line
breaks before the position, the column counts from the last of them, unless a string ran over
a line. `CutCorrect` goes through one lemma for each kind of lexeme (word, number,
operator, string): what the code's look-ahead takes is a lexeme and no longer one begins
there (`WordIsLongest`, `NumberIsLongest`, `OperatorIsLongest`, `StringIsLongest`), and where
it gives up none begins. For strings, where a backslash takes the next character with it,
`EscapedIs` and `StringLexemeIs` are inductions over the characters.

*EffectProofs.* An effect is any function from stores to outcomes, so that the theorems hold of
whatever the evaluators put together. `Chain` is the sequence of outcomes a block goes
through; `BlockIs` and `ForAllIs` show that the recursive `InTurn` gives its end, and an
induction along it gives `BlocksFlatten`, `ForAllUnrolled` (two steps of the written out
block to one of the `forall`) and `PortsLoopAlike`. The theorems on `par` compare the
merged stores name by name. They are the core of `ParIsEitherOrder`, `ForAllIsUnrolled` and
`PortsAgree`, which say the same of programs and so of the recursive evaluator.

*ReplProofs.* `TypeInv` adds to the types those of the files' histories and of a saved
checkpoint, and is inductive. `RuleSteps` sorts all commands by what they do to the rule
list: nothing, a rule reacts, one is added by hand, a name is retracted, a file is
installed beside or instead of what it had, or what it had is dropped. `IdsStayFresh` then
needs that an installed or spawned block of rules takes the ids from the next one on;
`TypedRulesSurvive` rests on it, since an entry with the id of a typed rule is that rule
and a retract of another name leaves it; `FileRulesStayCurrent` is inductive with the
history `shown` of the versions read since the last reload. `RunTurnsCount` and
`RunHangsAtTheLimitOnly` are what `RunReturnsWithinLimit` needs besides fairness, and say
that the hang the run `repl_run_hangs` finds is the only one; the second assumes that every
body has some result, as those of the runs do.

Only model-checked: every liveness property (`Returns`,
`ReturnsUnlessABodyRaised`, `Halts`, `RunReturnsWithinLimit`), since the prover has
neither fairness nor ENABLED, though not what they rest on, as described above; and the laws
of `EffLaws` and `ToolLaws`, and `ReadsBack` of `FrontEnd`, because the evaluator, the
checker, the transpiler, the parser and the printer walk trees with recursive operators,
which the prover does not take. What those laws say of the parts that do not look into
trees, the lexer and `Effects`, is proved.

## 6. Not modelled, and why

- Floats, 64-bit overflow and the detour of the Rust operators over floats; what is in a
  text, and `isdigit` and `isalpha` on anything but ASCII: values no property here tells
  apart. In the lexer texts do have contents.
- FFI calls, the library but for printing, files, random numbers, time: external; a body
  that uses them is one with several outcomes.
- `--enforce-types`, which tests annotations at run time: off unless asked for.
- The names that imports add to those the checker knows: they make more programs pass and
  change no verdict on the ones that are modelled.
- The dispatcher of transpiled scripts (`compiler.py` 34-134): as described above it
  never gets to dispatch anything but `boot`, so there is no run of it to compare.
- `smt_prove.py`, and the rest of `metrics/`: offline scripts that read a corpus of programs
  and print tables. They keep no state and no machine calls them. The conditions
  `smt_prove.py` hands to its solver hold by their shape (a condition and its negation
  are both collected), so a model would show nothing.
- `max_steps`, `stats` and timing of the concurrent runtime, `emit_log` of the REPL: never
  read by the program. Simulation time and `:dt` in the REPL.
- The command line and the demos: argument parsing and printing.
