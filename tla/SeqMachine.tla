----------------------------- MODULE SeqMachine -----------------------------
(***************************************************************************)
(* The sequential machine: run() of src/interpreter.py, and the run() the  *)
(* Rust port has in src/src/interp.rs.  One turn takes the head of the     *)
(* queue, runs the first installed rule that matches it on the global      *)
(* store extended with the bindings, and applies all of its effects.       *)
(*                                                                         *)
(* The list of installed rules is kept as a set: every installation takes  *)
(* the next id, so the order of the list is the order of the ids.          *)
(***************************************************************************)
EXTENDS Program

CONSTANTS
  Bind(_, _, _),  \* Bind(rule, message, store): local = dict(sigma) | bindings
  MaxSteps        \* the step limit

ASSUME LimitAssumption == MaxSteps \in Nat

ASSUME BindAssumption ==
  \A i \in Rule, m \in Msg, s \in Store : Accepts(i, m) => Bind(i, m, s) \in Store

VARIABLES
  port,     \* the interpreter that runs: "py" or "rs"
  q,        \* the installed rules
  rid,      \* the next id
  sigma,    \* the global store
  mu,       \* the queue of messages
  steps,    \* the messages taken, dropped ones included
  log,      \* emitted_log
  phase,    \* "run", then "stopped" or "raised" (run() ends with an exception)
  gone      \* history: the names retracted so far

vars == <<port, q, rid, sigma, mu, steps, log, phase, gone>>

Installed == [id : Nat, name : Name, node : Rule]

Init ==
  /\ port \in {"py", "rs"}
  /\ q = {[id |-> i - 1, name |-> Table[i].name, node |-> i] : i \in Rule}
  /\ rid = Len(Table)
  /\ sigma = EmptyStore
  /\ mu = Bootstrap
  /\ steps = 0
  /\ log = << >>
  /\ phase = "run"
  /\ gone = {}

-----------------------------------------------------------------------------
Candidates(m) == {r \in q : Accepts(r.node, m)}

\* Every priority is 0 and the sort is stable: the first one in the list.
LastFirst(m) == {r \in Candidates(m) : \A c \in Candidates(m) : c.id <= r.id}
First(m) == {r \in Candidates(m) : \A c \in Candidates(m) : r.id <= c.id}

\* The positions of the spawn list that resolve to a rule, and what they install.
Resolved(spawned) == {k \in DOMAIN spawned : ResolveSpawn(spawned[k]) # {}}

Unresolved(spawned) ==
  {[id   |-> rid + k - 1,
    name |-> spawned[k].name,
    node |-> IF k \in Resolved(spawned)
               THEN CHOOSE i \in ResolveSpawn(spawned[k]) : TRUE
               ELSE 0] : k \in DOMAIN spawned}
NewRules(spawned) ==
  {[id   |-> rid + Cardinality({j \in Resolved(spawned) : j < k}),
    name |-> spawned[k].name,
    node |-> CHOOSE i \in ResolveSpawn(spawned[k]) : TRUE] : k \in Resolved(spawned)}

\* Retraction comes last and goes by the bare name.
Left(rules, retracted) == {r \in rules : r.name \notin retracted}
RetractFirst(res) == Left(q, res.retracted) \cup NewRules(res.spawned)
Reinstalled(res) == Left(q \cup NewRules(res.spawned), res.retracted)

Prepended(m, res) == res.emits \o Tail(mu)
Requeued(m, res) == Tail(mu) \o res.emits

\* What one turn does once its message m has been taken off the queue.
LeftInPlace(m) ==
  /\ Candidates(m) = {}
  /\ UNCHANGED vars

DropMessage(m) ==
  /\ Candidates(m) = {}
  /\ mu' = Tail(mu)
  /\ steps' = steps + 1
  /\ UNCHANGED <<port, q, rid, sigma, log, phase, gone>>

FireRule(m) ==
  \E r \in First(m) :
    \E res \in Outcome(r.node, Bind(r.node, m, sigma)) :
      /\ ~res.raises
      /\ sigma' = res.store
      /\ mu' = Requeued(m, res)
      /\ log' = log \o res.emits
      /\ q' = Reinstalled(res)
      /\ rid' = rid + Cardinality(Resolved(res.spawned))
      /\ gone' = gone \cup res.retracted
      /\ steps' = steps + 1
      /\ UNCHANGED <<port, phase>>

\* An exception (of the body, or of the enforced annotations of the pattern)
\* leaves run(): the turn has no effect but the message is off the queue.
RaiseOut(m) ==
  \E r \in First(m) :
    \E res \in Outcome(r.node, Bind(r.node, m, sigma)) :
      /\ res.raises
      /\ mu' = Tail(mu)
      /\ steps' = steps + 1
      /\ phase' = "raised"
      /\ UNCHANGED <<port, q, rid, sigma, log, gone>>

Stop(rest) ==
  /\ phase' = "stopped"
  /\ mu' = rest
  /\ UNCHANGED <<port, q, rid, sigma, steps, log, gone>>

-----------------------------------------------------------------------------
(* interpreter.py: while queue and steps < max_steps: m = queue.pop(0) ... *)
PyTurn ==
  /\ port = "py" /\ phase = "run"
  /\ mu # << >> /\ steps < MaxSteps

PyDrop  == PyTurn /\ DropMessage(Head(mu))
PyFire  == PyTurn /\ FireRule(Head(mu))
PyRaise == PyTurn /\ RaiseOut(Head(mu))
PyStop  == port = "py" /\ phase = "run" /\ ~(mu # << >> /\ steps < MaxSteps) /\ Stop(mu)

(* interp.rs: while let Some(m) = queue.pop_front() { if steps >= max ... } *)
RsTurn ==
  /\ port = "rs" /\ phase = "run"
  /\ mu # << >> /\ steps < MaxSteps

RsDrop  == RsTurn /\ DropMessage(Head(mu))
RsFire  == RsTurn /\ FireRule(Head(mu))
RsRaise == RsTurn /\ RaiseOut(Head(mu))
\* The message taken when the limit is reached is thrown away.
RsLimit == port = "rs" /\ phase = "run" /\ mu # << >> /\ steps >= MaxSteps /\ Stop(Tail(mu))
RsEmpty == port = "rs" /\ phase = "run" /\ mu = << >> /\ Stop(mu)

Ended == phase # "run" /\ UNCHANGED vars

Next ==
  \/ PyDrop \/ PyFire \/ PyRaise \/ PyStop
  \/ RsDrop \/ RsFire \/ RsRaise \/ RsLimit \/ RsEmpty
  \/ Ended

Spec == Init /\ [][Next]_vars
FairSpec == Spec /\ WF_vars(Next)

-----------------------------------------------------------------------------
(* Properties.                                                             *)

TypeOK ==
  /\ port \in {"py", "rs"}
  /\ q \subseteq Installed
  /\ rid \in Nat
  /\ sigma \in Store
  /\ mu \in Seq(Msg)
  /\ steps \in Nat
  /\ log \in Seq(Msg)
  /\ phase \in {"run", "stopped", "raised"}

\* Every message handed to the machine, by the caller or by an emit.
Received == Bootstrap \o log

\* The machine takes every message once and in the order it received them: the
\* queue is exactly what it has received and not yet taken
\* (interpreter.py:744-771, interp.rs:1409-1462).
TakenInOrder ==
  phase # "stopped" \/ port = "py" => mu = SubSeq(Received, steps + 1, Len(Received))

\* Ids stay unique, so "the first rule that matches" is one rule, however often
\* rules are spawned and retracted (interpreter.py:735-739, :772-779).
FirstIsUnique ==
  /\ \A r \in q : r.id < rid
  /\ \A r, s \in q : r.id = s.id => r = s

\* A copy made by spawn is the one that reacts only once its name has been
\* retracted: until then the rule it was copied from always comes first, and
\* spawn multiplies no reaction, unlike in the concurrent runtime
\* (interpreter.py:749-756 with :772-779).
SpawnIsInert ==
  \A m \in Msg : \A r \in First(m) : r.id < Len(Table) \/ r.name \in gone

\* A run that ended without an exception either drained the queue or used up its
\* steps (interpreter.py:744, interp.rs:1409-1412).
EndsForAReason ==
  phase = "stopped" => mu = << >> \/ steps = MaxSteps

\* Even a program that feeds itself for ever is stopped (interpreter.py:744).
Halts == <>(phase # "run")

\* The loop takes the steps of the abstract machine and no others: it drops no message
\* a rule matches before it ends, and ids, copies and the order of the list are not
\* needed to say what it does (interpreter.py:3-15 against :744-779).
Abstract == INSTANCE Delta WITH Q <- {r.node : r \in q}, emitted <- log, ended <- phase # "run"
ImplementsDelta == Abstract!DSpec

=============================================================================
