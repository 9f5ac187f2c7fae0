------------------------------- MODULE Delta -------------------------------
(***************************************************************************)
(* The abstract machine S = (Sigma, M, Q) the interpreters promise to be:  *)
(* the delta step of the header of src/interpreter.py.                     *)
(*                                                                         *)
(* Q is a set of rules: copies of a rule are the same rule to a machine    *)
(* that runs one rule per message.  Every priority is 0, so any rule of Q  *)
(* whose pattern matches the head of M may be the one that runs.  Steps    *)
(* are not counted, so the machine may stop at any point; while it runs,   *)
(* a message some rule matches is never lost.                              *)
(***************************************************************************)
EXTENDS Program

CONSTANT
  Bind(_, _, _)   \* Bind(rule, message, store): the store with the bindings

VARIABLES
  sigma,   \* the store
  mu,      \* the queue of messages
  Q,       \* the installed rules
  emitted, \* every message emitted so far
  ended    \* the machine has stopped, or a body has raised

dvars == <<sigma, mu, Q, emitted, ended>>

DInit ==
  /\ sigma = EmptyStore
  /\ mu = Bootstrap
  /\ Q = Rule
  /\ emitted = << >>
  /\ ended = FALSE

Matching == {i \in Q : Accepts(i, Head(mu))}

\* No rule matches the head of M: it is dropped.
DropStep ==
  /\ ~ended /\ mu # << >> /\ Matching = {}
  /\ mu' = Tail(mu)
  /\ UNCHANGED <<sigma, Q, emitted, ended>>

\* A body raises, and the machine ends without another effect.
RaiseStep ==
  /\ ~ended /\ mu # << >>
  /\ \E i \in Matching : \E res \in Outcome(i, Bind(i, Head(mu), sigma)) : res.raises
  /\ mu' = Tail(mu)
  /\ ended' = TRUE
  /\ UNCHANGED <<sigma, Q, emitted>>

\* The machine stops; what is left of M is of no use any more, the head may be off it.
StopStep ==
  /\ ~ended
  /\ ended' = TRUE
  /\ UNCHANGED mu \/ (mu # << >> /\ mu' = Tail(mu))
  /\ UNCHANGED <<sigma, Q, emitted>>

\* The rules a list of Spawn nodes installs.
Spawns(spawned) == UNION {ResolveSpawn(spawned[k]) : k \in DOMAIN spawned}

\* One matching rule runs: its emits go to the end of M, its spawns to Q, and
\* no rule of a retracted name is left, not even one it has just spawned.
ReactStep ==
  /\ ~ended /\ mu # << >>
  /\ \E i \in Matching :
       \E res \in Outcome(i, Bind(i, Head(mu), sigma)) :
         /\ ~res.raises
         /\ sigma' = res.store
         /\ mu' = Tail(mu) \o res.emits
         /\ emitted' = emitted \o res.emits
         /\ Q' = {j \in Q \cup Spawns(res.spawned) : Table[j].name \notin res.retracted}
  /\ UNCHANGED ended

DNext == DropStep \/ ReactStep \/ RaiseStep \/ StopStep

DSpec == DInit /\ [][DNext]_dvars

=============================================================================
