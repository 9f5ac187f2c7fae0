------------------------------- MODULE MCRepl -------------------------------
(***************************************************************************)
(* Two files a user edits while a session runs, and what the rules do.     *)
(***************************************************************************)
EXTENDS Repl

MCFile == {"main", "extra"}
MCMsg == {"go", "on"}

\* A store is known by the one value its only name is bound to: a symbol, the text
\* json.dump makes of a symbol (default=str), a number, or nothing.
MCStore == {"empty", "number", "symbol", "text"}
MCJson(s) == IF s = "symbol" THEN "text" ELSE s

Rule(name, tags) == [name |-> name, accepts |-> tags]
Greet == Rule("Greet", {"go"})
Pass == Rule("Pass", {"go", "on"})
Again == Rule("Again", {"on"})
MCNode == {Greet, Pass, Again}
MCTyped == {Greet}

\* An edit of main changes which rules it has; one of extra may break it.
MCVersion == {1, 2}
MCText(f, v) ==
  CASE f = "main" /\ v = 1 -> <<Greet, Pass>>
    [] f = "main" /\ v = 2 -> <<Pass>>
    [] f = "extra" -> <<Again>>
MCBroken(f, v) == f = "extra" /\ v = 2

Does(s) == [raises |-> FALSE, store |-> s, emits |-> << >>, spawned |-> << >>, retracted |-> {}]
MCOutcome(n, s) ==
  CASE n = Greet -> {[Does("symbol") EXCEPT !.emits = <<"on">>, !.spawned = <<"Again">>]}
    [] n = Pass -> {[Does("number") EXCEPT !.retracted = {"Greet"}], [Does(s) EXCEPT !.raises = TRUE]}
    [] n = Again -> {[Does(s) EXCEPT !.emits = <<"go">>, !.retracted = {"Again"}]}

=============================================================================
