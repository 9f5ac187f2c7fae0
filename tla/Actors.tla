------------------------------- MODULE Actors -------------------------------
(***************************************************************************)
(* What run() of src/runtime_concurrent.py promises, without the tokens,   *)
(* the counter, the event, the locks and the loops that keep the promise:  *)
(* agents with mailboxes, workers that each handle a message or rest, one  *)
(* worker at a time committing the effects of a body, and a return when    *)
(* nothing is left to do.                                                  *)
(*                                                                         *)
(* Stores are left out: a body runs on some store.  So is the message a    *)
(* body runs for, which the code does not show it.                         *)
(***************************************************************************)
EXTENDS Program

CONSTANTS Workers, Main, Aid   \* as in ActorRuntime

VARIABLES
  live,      \* the agents
  nextAid,   \* the id of the next one
  agent,     \* agent[a]: its name and rule, also after it was retracted
  mailbox,   \* mailbox[a]: the messages it has not begun to handle
  log,       \* the messages emitted by bodies
  doing,     \* doing[p]: what a worker, or the caller, is doing
  of,        \* of[w]: the agent whose message w handles
  out,       \* out[p]: what p has still to commit
  targets    \* targets[p]: the agents p has still to serve

registry == <<live, nextAid, agent>>
vars == <<registry, mailbox, log, doing, of, out, targets>>

Becomes(p, what) == doing' = [doing EXCEPT ![p] = what]

-----------------------------------------------------------------------------
Init ==
  /\ live = 0 .. Len(Table) - 1
  /\ nextAid = Len(Table)
  /\ agent = [a \in live |-> [lib |-> Table[a + 1].lib, name |-> Table[a + 1].name, rule |-> a + 1]]
  /\ mailbox = [a \in Aid |-> << >>]
  /\ log = << >>
  /\ doing = [p \in Workers \cup {Main} |-> IF p = Main THEN "emit" ELSE "idle"]
  /\ of = [w \in Workers |-> 0]
  /\ out = [p \in Workers \cup {Main} |-> IF p = Main THEN [NoResult EXCEPT !.emits = Bootstrap]
                                                     ELSE NoResult]
  /\ targets = [p \in Workers \cup {Main} |-> {}]

\* A message goes to the agents there are at that moment, by content.
Recipients(m) == {a \in live : Accepts(agent[a].rule, m)}

Route(p) ==
  /\ doing[p] = "emit"
  /\ out[p].emits # << >>
  /\ targets' = [targets EXCEPT ![p] = Recipients(Head(out[p].emits))]
  /\ log' = IF p = Main THEN log ELSE Append(log, Head(out[p].emits))
  /\ Becomes(p, "put")
  /\ UNCHANGED <<registry, mailbox, of, out>>

\* Each of them gets it once, in any order.
Put(p) ==
  /\ doing[p] = "put"
  /\ \E a \in targets[p] :
       /\ mailbox' = [mailbox EXCEPT ![a] = Append(@, Head(out[p].emits))]
       /\ targets' = [targets EXCEPT ![p] = @ \ {a}]
  /\ UNCHANGED <<registry, log, doing, of, out>>

Routed(p) ==
  /\ doing[p] = "put"
  /\ targets[p] = {}
  /\ out' = [out EXCEPT ![p].emits = Tail(@)]
  /\ Becomes(p, "emit")
  /\ UNCHANGED <<registry, mailbox, log, of, targets>>

\* The caller waits once every bootstrap message is delivered, and returns when no
\* worker is handling anything and no message waits at an agent that is still there.
Booted ==
  /\ doing[Main] = "emit"
  /\ out[Main].emits = << >>
  /\ Becomes(Main, "wait")
  /\ UNCHANGED <<registry, mailbox, log, of, out, targets>>

Return ==
  /\ doing[Main] = "wait"
  /\ \A w \in Workers : doing[w] = "idle"
  /\ \A a \in live : mailbox[a] = << >>
  /\ Becomes(Main, "returned")
  /\ UNCHANGED <<registry, mailbox, log, of, out, targets>>

-----------------------------------------------------------------------------
\* The oldest message of an agent, retracted or not, begins to be handled: only while the
\* caller waits.
Begin(w) ==
  /\ doing[Main] = "wait"
  /\ doing[w] = "idle"
  /\ \E a \in Aid :
       /\ mailbox[a] # << >>
       /\ mailbox' = [mailbox EXCEPT ![a] = Tail(@)]
       /\ of' = [of EXCEPT ![w] = a]
  /\ Becomes(w, "body")
  /\ UNCHANGED <<registry, log, out, targets>>

\* A body that raises is the end of its worker.
Body(w) ==
  /\ doing[w] = "body"
  /\ \E s \in Store : \E r \in Outcome(agent[of[w]].rule, s) :
       /\ out' = [out EXCEPT ![w] = r]
       /\ Becomes(w, IF r.raises THEN "dead" ELSE "result")
  /\ UNCHANGED <<registry, mailbox, log, of, targets>>

Committing(p) == doing[p] \in {"spawn", "emit", "put"}

Commit(w) ==
  /\ doing[w] = "result"
  /\ \A p \in Workers \cup {Main} : ~Committing(p)
  /\ Becomes(w, "spawn")
  /\ UNCHANGED <<registry, mailbox, log, of, out, targets>>

Spawn(w) ==
  /\ doing[w] = "spawn"
  /\ out[w].spawned # << >>
  /\ LET sp == Head(out[w].spawned)
     IN  \/ \E i \in ResolveSpawn(sp) :
              /\ live' = live \cup {nextAid}
              /\ agent' = [a \in DOMAIN agent \cup {nextAid} |->
                             IF a = nextAid THEN [lib |-> sp.lib, name |-> sp.name, rule |-> i]
                                            ELSE agent[a]]
              /\ nextAid' = nextAid + 1
         \/ ResolveSpawn(sp) = {} /\ UNCHANGED registry
  /\ out' = [out EXCEPT ![w].spawned = Tail(@)]
  /\ UNCHANGED <<mailbox, log, doing, of, targets>>

\* Every agent of a retracted name, the ones just spawned included.
Retract(w) ==
  /\ doing[w] = "spawn"
  /\ out[w].spawned = << >>
  /\ live' = {a \in live : agent[a].lib # NoLib \/ agent[a].name \notin out[w].retracted}
  /\ Becomes(w, "emit")
  /\ UNCHANGED <<nextAid, agent, mailbox, log, of, out, targets>>

Finish(w) ==
  /\ doing[w] = "emit"
  /\ out[w].emits = << >>
  /\ of' = [of EXCEPT ![w] = 0]
  /\ out' = [out EXCEPT ![w] = NoResult]
  /\ Becomes(w, "idle")
  /\ UNCHANGED <<registry, mailbox, log, targets>>

-----------------------------------------------------------------------------
Step(p) == Route(p) \/ Put(p) \/ Routed(p)
Handle(w) == Begin(w) \/ Body(w) \/ Commit(w) \/ Spawn(w) \/ Retract(w) \/ Finish(w)

Next ==
  \/ \E p \in Workers \cup {Main} : Step(p)
  \/ \E w \in Workers : Handle(w)
  \/ Booted \/ Return

Spec == Init /\ [][Next]_vars

=============================================================================
