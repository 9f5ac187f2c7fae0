------------------------------- MODULE Fanout -------------------------------
(***************************************************************************)
(* samples/concurrent_fanout.evol, the program src/test_concurrent.py      *)
(* runs: `boss` spawns copies of `worker` and emits `go`, and every        *)
(* worker, old and new, answers each `go` with `done`.  How many copies,   *)
(* how many `go` and how many threads there are is left open.              *)
(***************************************************************************)
EXTENDS ActorRuntime

CONSTANTS
  Copies,   \* of worker that boss spawns: 20 in the sample
  Gos       \* messages boss emits: 1 in the sample

ASSUME FanoutAssumption == Copies \in Nat /\ Gos \in Nat

FanTable ==
  <<[lib |-> NoLib, name |-> "worker", accepts |-> {"go"}],
    [lib |-> NoLib, name |-> "boss", accepts |-> {"start"}]>>
FanBootstrap == <<"start">>

WorkerResult(s) == [NoResult EXCEPT !.store = s, !.emits = <<"done">>]
BossResult(s) ==
  [NoResult EXCEPT !.store = s,
                   !.spawned = [k \in 1 .. Copies |-> [lib |-> NoLib, name |-> "worker"]],
                   !.emits = [k \in 1 .. Gos |-> "go"]]
FanOutcome(i, s) == {IF i = 1 THEN WorkerResult(s) ELSE BossResult(s)}

\* The program that runs is the sample.
RunsFanout ==
  /\ Table = FanTable /\ Bootstrap = FanBootstrap
  /\ \A i \in Rule, s \in Store : Outcome(i, s) = FanOutcome(i, s)

Occurrences(m) == {k \in DOMAIN log : log[k] = m}

\* Every schedule gives the same answers: a broadcast reaches every worker, the freshly
\* spawned ones included, exactly once (test_concurrent.py:36-43, :49-55).
FanAnswers ==
  pc[Main] = "returned" =>
    /\ Cardinality(Occurrences("go")) = Gos
    /\ Cardinality(Occurrences("done")) = Gos * (Copies + 1)
    /\ Cardinality(live) = Copies + 2

=============================================================================
