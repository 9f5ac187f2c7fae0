--------------------------- MODULE MCActorRuntime ---------------------------
(***************************************************************************)
(* Small programs on which TLC runs the concurrent runtime.  A program is  *)
(* a rule table, the messages it is started with, and what each body does. *)
(***************************************************************************)
EXTENDS ActorRuntime, TLC

CONSTANTS w1, w2, w3, main, nobody

MCWorkers == {w1, w2}
MCThreeWorkers == {w1, w2, w3}
MCLib == {"", "lib"}
MCName == {"Boot", "Agent", "Killer", "Ghost"}
MCMsg == {"start", "go", "done", "done_unbound"}

Does == NoResult
Declare(l, n, tags) == [lib |-> l, name |-> n, accepts |-> tags]
SpawnOf(l, n) == [lib |-> l, name |-> n]

-----------------------------------------------------------------------------
(* Spawning and retracting while messages are on the way: one rule spawns  *)
(* an Agent and a name nobody declared, and retracts every Agent, the one  *)
(* it has just spawned included, while `go` messages wait in mailboxes.    *)
(* The body of Agent may raise, which ends its worker.                     *)
ChurnTable == <<Declare("", "Boot", {"start"}), Declare("", "Agent", {"go"}),
                Declare("", "Killer", {"start", "done"})>>
ChurnBootstrap == <<"start">>
ChurnOutcome(i, s) ==
  CASE i = 1 -> {[Does EXCEPT !.emits = <<"go", "done">>]}
    [] i = 2 -> {[Does EXCEPT !.emits = <<"done">>], [Does EXCEPT !.raises = TRUE]}
    [] i = 3 -> {[Does EXCEPT !.spawned = IF s = 0
                                            THEN <<SpawnOf("", "Agent"), SpawnOf("", "Ghost")>>
                                            ELSE << >>,
                              !.retracted = {"Agent"}, !.store = 1]}
ChurnAid == 0 .. 6

-----------------------------------------------------------------------------
(* An agent that counts its messages in its store.                         *)
CountTable == <<Declare("", "Agent", {"go"})>>
CountBootstrap == <<"go", "go">>
CountAid == 0 .. 3
CountOutcome(i, s) == {[Does EXCEPT !.store = IF s < 2 THEN s + 1 ELSE s]}

-----------------------------------------------------------------------------
(* Agent is `when (go, x) => { emit (done, x) }` and Boot sends (go, 1).   *)
(* Store 1 is a store in which x is bound to 1; where x is not bound, the  *)
(* name evaluates to the symbol x (interpreter.py:377-380).                *)
PayloadTable == <<Declare("", "Boot", {"start"}), Declare("", "Agent", {"go"})>>
PayloadBootstrap == <<"start">>
PayloadAid == 0 .. 3
PayloadOutcome(i, s) ==
  {CASE i = 1 -> [Does EXCEPT !.emits = <<"go">>]
     [] i = 2 /\ s = 1 -> [Does EXCEPT !.store = 1, !.emits = <<"done">>]
     [] i = 2 /\ s = 0 -> [Does EXCEPT !.emits = <<"done_unbound">>]}

\* local = dict(sigma); local.update(bindings)
PayloadBind(i, m, s) == IF i = 2 /\ m = "go" THEN 1 ELSE s

\* "The semantics of a single rule coincides with the sequential interpreter": a
\* body returns what it would return there, on the store extended with the bindings
\* of its message (runtime_concurrent.py:9-10, :111; interpreter.py:757-758).
SameAsSequential ==
  \A w \in Workers :
    pc[w] = "write" =>
      LET i == agent[tok[w]].rule
      IN  out[w] \in Outcome(i, PayloadBind(i, Head(msg[w]), seen[w]))

=============================================================================
