------------------------------ MODULE Program ------------------------------
(***************************************************************************)
(* What the machines of EVOL run: a rule table, the messages a run starts  *)
(* with, and what the evaluator may return for each body.                  *)
(*                                                                         *)
(* The three machines (the sequential interpreter, the concurrent runtime, *)
(* the REPL) share the evaluator of src/interpreter.py.  Here its results  *)
(* are a parameter, any set of results for any rule and store; module      *)
(* EffSemantics models how it computes them.                               *)
(***************************************************************************)
EXTENDS Integers, Sequences, FiniteSets

CONSTANTS
  Msg,            \* the messages a program exchanges
  Store,          \* the stores a body can be run on
  EmptyStore,     \* the empty store
  Lib, NoLib,     \* library names, and the one of a top-level rule
  Name,           \* rule names
  Table,          \* the rule table: a sequence, since dicts keep their order
  Bootstrap,      \* the messages run() was given, already wrapped
  Outcome(_, _)   \* Outcome(rule, store): the results eval_eff may return

\* What a Spawn node of the syntax tree holds.
SpawnNode == [lib : Lib, name : Name]

\* The tuple eval_eff returns; `raises` stands for an exception escaping it.
Result == [raises    : BOOLEAN,
           store     : Store,
           emits     : Seq(Msg),
           spawned   : Seq(SpawnNode),
           retracted : SUBSET Name]

NoResult == [raises |-> FALSE, store |-> EmptyStore, emits |-> << >>,
             spawned |-> << >>, retracted |-> {}]

Rule == DOMAIN Table

ASSUME TableAssumption ==
  /\ NoLib \in Lib
  /\ Table \in Seq([lib : Lib, name : Name, accepts : SUBSET Msg])
  /\ \A i, j \in Rule : Table[i].lib = Table[j].lib /\ Table[i].name = Table[j].name => i = j

ASSUME ProgramAssumption ==
  /\ Bootstrap \in Seq(Msg)
  /\ EmptyStore \in Store
  /\ \A i \in Rule, s \in Store : Outcome(i, s) # {} /\ Outcome(i, s) \subseteq Result

\* match(): whether the pattern of a rule accepts a message, by its content.
Accepts(i, m) == m \in Table[i].accepts

(* resolve_spawn: a qualified name exactly; an unqualified one at top      *)
(* level, else the first rule of that name in table order.  At most one.   *)
ResolveSpawn(sp) ==
  LET exact == {i \in Rule : Table[i].lib = sp.lib /\ Table[i].name = sp.name}
      named == {i \in Rule : Table[i].name = sp.name}
  IN  IF sp.lib # NoLib \/ exact # {}
        THEN exact
        ELSE {i \in named : \A j \in named : i <= j}

=============================================================================
