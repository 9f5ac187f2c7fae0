---------------------------- MODULE MCSeqMachine ----------------------------
(***************************************************************************)
(* A program for the sequential machine: a dispatcher, two rules that      *)
(* compete for the same message, a rule that retracts and one that spawns. *)
(***************************************************************************)
EXTENDS SeqMachine

MCLib == {"", "lib"}
MCName == {"Boot", "Work", "Ghost", "Swap"}
MCMsg == {"start", "work", "swap", "noise"}

Does == NoResult
Declare(l, n, tags) == [lib |-> l, name |-> n, accepts |-> tags]
SpawnOf(l, n) == [lib |-> l, name |-> n]

MCTable == <<Declare("", "Boot", {"start"}),
             Declare("lib", "Work", {"work"}),
             Declare("", "Swap", {"swap", "work"}),
             Declare("", "Work", {"work", "swap"})>>

MCBootstrap == <<"start", "swap", "work", "noise", "work">>

\* Most bodies have several outcomes, as they depend on what the store holds.
MCOutcome(i, s) ==
  CASE i = 1 -> {[Does EXCEPT !.emits = <<"work", "swap">>, !.store = s]}
    [] i = 2 -> {[Does EXCEPT !.emits = <<"swap">>, !.store = s],
                 [Does EXCEPT !.retracted = {"Swap"}, !.store = s],
                 [Does EXCEPT !.raises = TRUE]}
    [] i = 3 -> {[Does EXCEPT !.retracted = {"Work"}, !.store = s,
                              !.spawned = <<SpawnOf("", "Work"), SpawnOf("lib", "Ghost")>>],
                 [Does EXCEPT !.spawned = <<SpawnOf("lib", "Work"), SpawnOf("", "Ghost"),
                                            SpawnOf("", "Swap")>>, !.store = s]}
    [] i = 4 -> {[Does EXCEPT !.emits = <<"work">>, !.store = 1 - s],
                 [Does EXCEPT !.retracted = {"Swap"}, !.store = s,
                              !.spawned = <<SpawnOf("", "Boot")>>]}

MCBind(i, m, s) == IF m = "swap" THEN 1 ELSE s
=============================================================================
