---------------------------- MODULE ActorRuntime ----------------------------
(***************************************************************************)
(* The concurrent runtime of EVOL: src/runtime_concurrent.py.              *)
(*                                                                         *)
(* Every rule of the table becomes an agent with a private store and a     *)
(* FIFO mailbox.  A pool of worker threads shares one FIFO of tokens (the  *)
(* `work` queue holds agent ids), one counter of outstanding tokens        *)
(* (`inflight`), one event (`done`) and one re-entrant lock.  A worker     *)
(* takes a token, takes one message of that agent under the agent's own    *)
(* lock, runs the body OUTSIDE every lock, writes the store back, and      *)
(* commits the effects under the global lock.                              *)
(*                                                                         *)
(* The atomic steps below follow the lock scopes of the code; what happens *)
(* inside one global-lock section is still cut into one step per spawned   *)
(* agent and emitted message, and into one per message put, token put and  *)
(* count changed, because the other workers use the mailboxes, the token   *)
(* queue and, in the test of their loop, the counter without that lock.    *)
(***************************************************************************)
EXTENDS Program

CONSTANTS
  Workers,      \* the threads of the pool: max(1, n_workers) of them
  Main,         \* the thread that called run()
  Nobody,       \* owner of a free lock
  Aid           \* agent ids; a bound: a run creates at most |Aid| agents

Proc == Workers \cup {Main}

ASSUME ProcAssumption ==
  /\ IsFiniteSet(Workers) /\ Workers # {}
  /\ Main \notin Workers /\ Nobody \notin Proc

ASSUME AidAssumption == Aid \subseteq Nat /\ 0 .. Len(Table) - 1 \subseteq Aid

VARIABLES
  live,      \* keys of the dict `agents`
  nextAid,   \* next_aid[0]
  agent,     \* agent[a]: name (qualified) and rule (pattern and body) of agent a
  store,     \* store[a]: a.sigma
  mailbox,   \* mailbox[a]: a.mailbox
  alock,     \* alock[a]: owner of a.lock
  work,      \* the queue of tokens
  inflight,  \* inflight[0]
  done,      \* the event `done`
  log,       \* emitted_log
  lock,      \* owner of the global lock
  pc,        \* where each thread is
  tok,       \* tok[w]: the agent whose token worker w took (aid, a)
  msg,       \* msg[w]: the message worker w took
  seen,      \* seen[w]: the copy dict(a.sigma) worker w evaluates on
  out,       \* out[p]: the part of the result thread p has still to commit
  targets,   \* targets[p]: the recipients deliver() has still to serve
  to         \* to[p]: the recipient whose token deliver() is queueing (aid)

shared == <<live, nextAid, agent, store, mailbox, alock, work, inflight, done, log, lock>>
local  == <<pc, tok, msg, seen, out, targets, to>>
vars   == <<shared, local>>

registry == <<live, nextAid, agent>>

-----------------------------------------------------------------------------
RecipientsAtStart(m) == {a \in live : a < Len(Table) /\ Accepts(agent[a].rule, m)}
\* The agents deliver() selects: those whose pattern matches, by content.
Recipients(m) == {a \in live : Accepts(agent[a].rule, m)}

Goto(p, label) == pc' = [pc EXCEPT ![p] = label]

\* The next turn of the loop reads none of these before assigning it.
Forget(w) ==
  /\ tok' = [tok EXCEPT ![w] = 0]
  /\ msg' = [msg EXCEPT ![w] = << >>]
  /\ seen' = [seen EXCEPT ![w] = EmptyStore]
  /\ out' = [out EXCEPT ![w] = NoResult]

\* The counter after a worker has given its token back.
KeptToken == inflight
GivenBack == inflight - 1

-----------------------------------------------------------------------------
(* new_agent for every rule of the table, before anything else happens.    *)
Init ==
  /\ live = 0 .. Len(Table) - 1
  /\ nextAid = Len(Table)
  /\ agent = [a \in live |-> [lib  |-> Table[a + 1].lib,
                              name |-> Table[a + 1].name,
                              rule |-> a + 1]]
  /\ store = [a \in Aid |-> EmptyStore]
  /\ mailbox = [a \in Aid |-> << >>]
  /\ alock = [a \in Aid |-> Nobody]
  /\ work = << >>
  /\ inflight = 0
  /\ done = FALSE
  /\ log = << >>
  /\ lock = Nobody
  /\ pc = [p \in Proc |-> IF p = Main THEN "emit" ELSE "new"]
  /\ tok = [w \in Workers |-> 0]
  /\ msg = [w \in Workers |-> << >>]
  /\ seen = [w \in Workers |-> EmptyStore]
  /\ out = [p \in Proc |-> IF p = Main THEN [NoResult EXCEPT !.emits = Bootstrap]
                                       ELSE NoResult]
  /\ targets = [p \in Proc |-> {}]
  /\ to = [p \in Proc |-> 0]

-----------------------------------------------------------------------------
(* deliver(), shared by the bootstrap loop and by a committing worker.     *)

\* The next message of the list: only a worker records it in emitted_log.
Route(p) ==
  /\ pc[p] = "emit"
  /\ out[p].emits # << >>
  /\ LET m == Head(out[p].emits)
     IN  /\ targets' = [targets EXCEPT ![p] = Recipients(m)]
         /\ log' = IF p = Main THEN log ELSE Append(log, m)
  /\ Goto(p, "put")
  /\ UNCHANGED <<registry, store, mailbox, alock, work, inflight, done, lock, tok, msg, seen, out, to>>

\* One recipient, in agent order.  First the message ...
Put(p) ==
  /\ pc[p] = "put"
  /\ \E a \in targets[p] :
       /\ \A b \in targets[p] : a <= b
       /\ mailbox' = [mailbox EXCEPT ![a] = Append(@, Head(out[p].emits))]
       /\ targets' = [targets EXCEPT ![p] = @ \ {a}]
       /\ to' = [to EXCEPT ![p] = a]
  /\ Goto(p, "token")
  /\ UNCHANGED <<registry, store, alock, work, inflight, done, log, lock, tok, msg, seen, out>>

OneTokenPerBurst(p) == IF Len(mailbox[to[p]]) > 1 THEN work ELSE Append(work, to[p])
OneTokenMore(p) == Append(work, to[p])

\* ... then the token, which another worker may take at once ...
PutToken(p) ==
  /\ pc[p] = "token"
  /\ work' = OneTokenMore(p)
  /\ Goto(p, "count")
  /\ UNCHANGED <<registry, store, mailbox, alock, inflight, done, log, lock,
                 tok, msg, seen, out, targets, to>>

\* ... and only then the count of it.
CountToken(p) ==
  /\ pc[p] = "count"
  /\ inflight' = inflight + 1
  /\ to' = [to EXCEPT ![p] = 0]
  /\ Goto(p, "put")
  /\ UNCHANGED <<registry, store, mailbox, alock, work, done, log, lock,
                 tok, msg, seen, out, targets>>

\* done.clear() is reached once the recipients have been served.
Routed(p) ==
  /\ pc[p] = "put"
  /\ targets[p] = {}
  /\ done' = IF Recipients(Head(out[p].emits)) = {} THEN done ELSE FALSE
  /\ out' = [out EXCEPT ![p].emits = Tail(@)]
  /\ Goto(p, "emit")
  /\ UNCHANGED <<registry, store, mailbox, alock, work, inflight, log, lock, tok, msg, seen, targets, to>>

-----------------------------------------------------------------------------
(* The thread that called run().                                           *)

Booted ==
  /\ pc[Main] = "emit"
  /\ out[Main].emits = << >>
  /\ done' = (done \/ inflight = 0)
  /\ Goto(Main, "start")
  /\ UNCHANGED <<registry, store, mailbox, alock, work, inflight, log, lock,
                 tok, msg, seen, out, targets, to>>

StartThread(w) ==
  /\ pc[Main] = "start"
  /\ pc[w] = "new"
  /\ Goto(w, "loop")
  /\ UNCHANGED <<shared, tok, msg, seen, out, targets, to>>

AllStarted ==
  /\ pc[Main] = "start"
  /\ \A w \in Workers : pc[w] # "new"
  /\ Goto(Main, "wait")
  /\ UNCHANGED <<shared, tok, msg, seen, out, targets, to>>

\* done.wait(); the joins time out after a second each, so they hold nothing up.
Return ==
  /\ pc[Main] = "wait"
  /\ done
  /\ Goto(Main, "returned")
  /\ UNCHANGED <<shared, tok, msg, seen, out, targets, to>>

-----------------------------------------------------------------------------
(* A worker: the token.                                                    *)

\* `not done.is_set() or inflight[0] > 0`, two reads without the lock: the counter is
\* looked at only when the event was found set.
LoopTest(w) ==
  /\ pc[w] = "loop"
  /\ Goto(w, IF done THEN "recheck" ELSE "get")
  /\ UNCHANGED <<shared, tok, msg, seen, out, targets, to>>

Recheck(w) ==
  /\ pc[w] = "recheck"
  /\ Goto(w, IF inflight > 0 THEN "get" ELSE "exit")
  /\ UNCHANGED <<shared, tok, msg, seen, out, targets, to>>

GetToken(w) ==
  /\ pc[w] = "get"
  /\ work # << >>
  /\ tok' = [tok EXCEPT ![w] = Head(work)]
  /\ work' = Tail(work)
  /\ Goto(w, "lookup")
  /\ UNCHANGED <<registry, store, mailbox, alock, inflight, done, log, lock,
                 msg, seen, out, targets, to>>

\* work.get timed out after 50 ms on an empty queue.
GetTimeout(w) ==
  /\ pc[w] = "get"
  /\ work = << >>
  /\ Goto(w, "idle")
  /\ UNCHANGED <<shared, tok, msg, seen, out, targets, to>>

NothingQueued == work = << >>
NothingInFlight == inflight = 0

Idle(w) ==
  /\ pc[w] = "idle"
  /\ lock = Nobody
  /\ done' = (done \/ NothingInFlight)
  /\ Goto(w, IF NothingInFlight THEN "exit" ELSE "loop")
  /\ UNCHANGED <<registry, store, mailbox, alock, work, inflight, log, lock,
                 tok, msg, seen, out, targets, to>>

\* agents.get(aid), without the lock.
Lookup(w) ==
  /\ pc[w] = "lookup"
  /\ Goto(w, IF tok[w] \in live THEN "alock" ELSE "drop")
  /\ UNCHANGED <<shared, tok, msg, seen, out, targets, to>>

DropDeadToken(w) ==
  /\ pc[w] = "drop"
  /\ lock = Nobody
  /\ inflight' = GivenBack
  /\ Forget(w)
  /\ Goto(w, "loop")
  /\ UNCHANGED <<registry, store, mailbox, alock, work, done, log, lock, targets, to>>

-----------------------------------------------------------------------------
(* A worker: the message, under the agent's lock.                          *)

AgentNeverLocked(w) == TRUE
AgentFree(w) == alock[tok[w]] = Nobody

LockAgent(w) ==
  /\ pc[w] = "alock"
  /\ AgentFree(w)
  /\ alock' = [alock EXCEPT ![tok[w]] = w]
  /\ Goto(w, "check")
  /\ UNCHANGED <<registry, store, mailbox, work, inflight, done, log, lock,
                 tok, msg, seen, out, targets, to>>

CheckMailbox(w) ==
  /\ pc[w] = "check"
  /\ Goto(w, IF mailbox[tok[w]] = << >> THEN "surplus" ELSE "take")
  /\ UNCHANGED <<shared, tok, msg, seen, out, targets, to>>

\* A token without a message: it is discarded, still inside a.lock.
DropSurplusToken(w) ==
  /\ pc[w] = "surplus"
  /\ lock = Nobody
  /\ inflight' = GivenBack
  /\ alock' = [alock EXCEPT ![tok[w]] = Nobody]
  /\ Forget(w)
  /\ Goto(w, "loop")
  /\ UNCHANGED <<registry, store, mailbox, work, done, log, lock, targets, to>>

\* mailbox.get() without a timeout: it would block on an empty mailbox.
TakeMessage(w) ==
  /\ pc[w] = "take"
  /\ mailbox[tok[w]] # << >>
  /\ msg' = [msg EXCEPT ![w] = <<Head(mailbox[tok[w]])>>]
  /\ mailbox' = [mailbox EXCEPT ![tok[w]] = Tail(@)]
  /\ alock' = [alock EXCEPT ![tok[w]] = Nobody]
  /\ Goto(w, "copy")
  /\ UNCHANGED <<registry, store, work, inflight, done, log, lock, tok, seen, out, targets, to>>

-----------------------------------------------------------------------------
(* A worker: the body, under no lock at all.                               *)

\* dict(a.sigma).  Neither msg[w] nor its bindings reach the body.
CopyStore(w) ==
  /\ pc[w] = "copy"
  /\ seen' = [seen EXCEPT ![w] = store[tok[w]]]
  /\ Goto(w, "eval")
  /\ UNCHANGED <<shared, tok, msg, out, targets, to>>

RaiseGivesTokenBack(w, r) == /\ Goto(w, IF r.raises THEN "dead" ELSE "write")
                             /\ inflight' = IF r.raises THEN inflight - 1 ELSE inflight
AfterBody(w, r) == /\ Goto(w, IF r.raises THEN "dead" ELSE "write")
                   /\ UNCHANGED inflight

\* An exception ends the thread: nothing in worker() catches it.
EvalBody(w) ==
  /\ pc[w] = "eval"
  /\ \E r \in Outcome(agent[tok[w]].rule, seen[w]) :
       /\ out' = [out EXCEPT ![w] = r]
       /\ AfterBody(w, r)
  /\ UNCHANGED <<registry, store, mailbox, alock, work, done, log, lock,
                 tok, msg, seen, targets, to>>

WriteStore(w) ==
  /\ pc[w] = "write"
  /\ store' = [store EXCEPT ![tok[w]] = out[w].store]
  /\ Goto(w, "commit")
  /\ UNCHANGED <<registry, mailbox, alock, work, inflight, done, log, lock,
                 tok, msg, seen, out, targets, to>>

-----------------------------------------------------------------------------
(* A worker: the effects, under the global lock.                           *)

LockGlobal(w) ==
  /\ pc[w] = "commit"
  /\ lock = Nobody
  /\ lock' = w
  /\ Goto(w, "spawn")
  /\ UNCHANGED <<registry, store, mailbox, alock, work, inflight, done, log,
                 tok, msg, seen, out, targets, to>>

\* new_agent(sp.lib, sp.name, node): the name is the one the Spawn node uses.
NewAgentAtNextId(sp, i) ==
  /\ nextAid + 1 \in Aid
  /\ live' = live \cup {nextAid + 1}
  /\ agent' = [a \in DOMAIN agent \cup {nextAid + 1} |->
                 IF a = nextAid + 1 THEN [lib |-> sp.lib, name |-> sp.name, rule |-> i]
                                    ELSE agent[a]]
  /\ nextAid' = nextAid + 1
NewAgent(sp, i) ==
  /\ nextAid \in Aid
  /\ live' = live \cup {nextAid}
  /\ agent' = [a \in DOMAIN agent \cup {nextAid} |->
                 IF a = nextAid THEN [lib |-> sp.lib, name |-> sp.name, rule |-> i]
                                ELSE agent[a]]
  /\ nextAid' = nextAid + 1

SpawnOne(w) ==
  /\ pc[w] = "spawn"
  /\ out[w].spawned # << >>
  /\ LET sp == Head(out[w].spawned)
     IN  \/ \E i \in ResolveSpawn(sp) : NewAgent(sp, i)
         \/ ResolveSpawn(sp) = {} /\ UNCHANGED registry
  /\ out' = [out EXCEPT ![w].spawned = Tail(@)]
  /\ UNCHANGED <<store, mailbox, alock, work, inflight, done, log, lock,
                 pc, tok, msg, seen, targets, to>>

RetractsFirst(w) ==
  {a \in live : /\ agent[a].lib = NoLib /\ agent[a].name \in out[w].retracted
                /\ \A b \in live : agent[b].name = agent[a].name => a <= b}
\* a2.name == rn compares the qualified name "lib.name" with a bare one.
Retracts(w) == {a \in live : agent[a].lib = NoLib /\ agent[a].name \in out[w].retracted}

RetractAll(w) ==
  /\ pc[w] = "spawn"
  /\ out[w].spawned = << >>
  /\ live' = live \ Retracts(w)
  /\ Goto(w, "emit")
  /\ UNCHANGED <<nextAid, agent, store, mailbox, alock, work, inflight, done, log, lock,
                 tok, msg, seen, out, targets, to>>

\* Every effect is committed: the token is given back ...
GiveBack(w) ==
  /\ pc[w] = "emit"
  /\ out[w].emits = << >>
  /\ inflight' = GivenBack
  /\ Goto(w, "again")
  /\ UNCHANGED <<registry, store, mailbox, alock, work, done, log, lock,
                 tok, msg, seen, out, targets, to>>

\* ... and a mailbox that is not empty gets another one: queued first, counted later.
LookAgain(w) ==
  /\ pc[w] = "again"
  /\ Goto(w, IF mailbox[tok[w]] = << >> THEN "settle" ELSE "requeue")
  /\ UNCHANGED <<shared, tok, msg, seen, out, targets, to>>

Requeue(w) ==
  /\ pc[w] = "requeue"
  /\ work' = Append(work, tok[w])
  /\ Goto(w, "recount")
  /\ UNCHANGED <<registry, store, mailbox, alock, inflight, done, log, lock,
                 tok, msg, seen, out, targets, to>>

Recount(w) ==
  /\ pc[w] = "recount"
  /\ inflight' = inflight + 1
  /\ Goto(w, "settle")
  /\ UNCHANGED <<registry, store, mailbox, alock, work, done, log, lock,
                 tok, msg, seen, out, targets, to>>

\* The last worker that finds the counter at zero sets `done`; the lock is released.
Settle(w) ==
  /\ pc[w] = "settle"
  /\ done' = (done \/ inflight = 0)
  /\ lock' = Nobody
  /\ Forget(w)
  /\ Goto(w, "loop")
  /\ UNCHANGED <<registry, store, mailbox, alock, work, inflight, log, targets, to>>

-----------------------------------------------------------------------------
Deliver(p) == Route(p) \/ Put(p) \/ PutToken(p) \/ CountToken(p) \/ Routed(p)

WorkerStep(w) ==
  \/ LoopTest(w) \/ Recheck(w) \/ GetToken(w) \/ GetTimeout(w) \/ Idle(w)
  \/ Lookup(w) \/ DropDeadToken(w)
  \/ LockAgent(w) \/ CheckMailbox(w) \/ DropSurplusToken(w) \/ TakeMessage(w)
  \/ CopyStore(w) \/ EvalBody(w) \/ WriteStore(w)
  \/ LockGlobal(w) \/ SpawnOne(w) \/ RetractAll(w)
  \/ Deliver(w)
  \/ GiveBack(w) \/ LookAgain(w) \/ Requeue(w) \/ Recount(w) \/ Settle(w)

MainStep ==
  \/ Deliver(Main) \/ Booted
  \/ \E w \in Workers : StartThread(w)
  \/ AllStarted \/ Return

\* run() has returned and no thread is left: the only way for a run to stop.
Over ==
  /\ pc[Main] = "returned"
  /\ \A w \in Workers : pc[w] = "exit"
  /\ UNCHANGED vars

Next == MainStep \/ (\E w \in Workers : WorkerStep(w)) \/ Over

Spec == Init /\ [][Next]_vars

\* The operating system runs every thread that can run, sooner or later.
FairSpec == Spec /\ WF_vars(MainStep) /\ \A w \in Workers : WF_vars(WorkerStep(w))

-----------------------------------------------------------------------------
(* Properties.                                                             *)

WorkerLabel == {"new", "loop", "recheck", "get", "idle", "lookup", "drop", "alock", "check", "surplus",
                "take", "copy", "eval", "write", "commit", "spawn", "emit", "put", "token", "count",
                "again", "requeue", "recount", "settle", "dead", "exit"}
MainLabel == {"emit", "put", "token", "count", "start", "wait", "returned"}

TypeOK ==
  /\ nextAid \in Nat
  /\ agent \in [0 .. nextAid - 1 -> [lib : Lib, name : Name, rule : Rule]]
  /\ DOMAIN agent \subseteq Aid
  /\ live \subseteq DOMAIN agent
  /\ store \in [Aid -> Store]
  /\ mailbox \in [Aid -> Seq(Msg)]
  /\ alock \in [Aid -> Workers \cup {Nobody}]
  /\ work \in Seq(DOMAIN agent)
  /\ inflight \in Int
  /\ done \in BOOLEAN
  /\ log \in Seq(Msg)
  /\ lock \in Workers \cup {Nobody}
  /\ pc \in [Proc -> WorkerLabel \cup MainLabel]
  /\ pc[Main] \in MainLabel
  /\ \A w \in Workers : pc[w] \in WorkerLabel
  /\ tok \in [Workers -> Int]
  /\ msg \in [Workers -> Seq(Msg)]
  /\ seen \in [Workers -> Store]
  /\ out \in [Proc -> Result]
  /\ targets \in [Proc -> SUBSET DOMAIN agent]
  /\ to \in [Proc -> Int]

\* The workers with a token the counter has for them: from the get to the decrement.
\* A dead thread never gives its token back.
Holders == {w \in Workers : pc[w] \notin {"new", "loop", "recheck", "get", "idle", "again",
                                           "requeue", "recount", "settle", "exit"}}

\* The threads that have queued a token and not counted it yet.
Uncounted == {p \in Proc : pc[p] \in {"count", "recount"}}

\* The counter that decides termination never drifts, not even in the window in which
\* a token is queued, and perhaps taken, before it is counted: it is the queued and the
\* held tokens, but for one that the owner of the lock (or run(), before it starts the
\* threads) has still to add.  So whoever reads it under the lock reads the truth, after
\* retracts and failed bodies too (runtime_concurrent.py:77-78, :103, :108, :127-130).
InflightExact ==
  /\ inflight + Cardinality(Uncounted) = Len(work) + Cardinality(Holders)
  /\ \A p \in Uncounted \ {Main} : lock = p
  /\ Main \in Uncounted => Uncounted = {Main} /\ Holders = {}

\* The tokens that stand for a message agent a has yet to be woken for: those in the
\* queue, those of workers that have not looked into the mailbox yet, and the one a
\* thread in deliver() is about to queue.
QueuedTokens(a) == {k \in DOMAIN work : work[k] = a}
Wakers(a) == {w \in Workers : tok[w] = a /\ pc[w] \in {"lookup", "alock", "check", "take"}}
Owed(a) == {p \in Proc : pc[p] = "token" /\ to[p] = a}

\* No message is stranded: a live agent has at least as many tokens on the way
\* as messages in its mailbox, even after some thread died holding one.
\* (runtime_concurrent.py:75-78 against :105-110)
MailboxCovered ==
  \A a \in live :
    Len(mailbox[a])
      <= Cardinality(QueuedTokens(a)) + Cardinality(Wakers(a)) + Cardinality(Owed(a))

\* mailbox.get() has no timeout, so it must never find the mailbox empty: another
\* worker cannot empty it between the test and the get (runtime_concurrent.py:106, :110).
GetNeverBlocks ==
  \A w \in Workers : pc[w] = "take" => mailbox[tok[w]] # << >>

\* When `done` is set there is nothing left: no token, no worker holding one, and
\* no message waiting at a live agent (runtime_concurrent.py:96-97, :131-132).
DoneMeansQuiet ==
  done => /\ work = << >>
          /\ Holders = {}
          /\ \A a \in live : mailbox[a] = << >>

\* `done` is never cleared once set, although deliver() may clear it: no worker
\* can be about to deliver then (runtime_concurrent.py:79-80).
DoneIsFinal == [][done => done']_vars

\* What run() returns is final: the log and the agents it counts change no more
\* (runtime_concurrent.py:139-151).
ResultIsFinal == [][pc[Main] = "returned" => UNCHANGED <<log, live, inflight>>]_vars

\* A body that raised leaves its message half handled; run() must not report
\* that run as complete (runtime_concurrent.py:111, :139).
FailureIsNeverCompletion ==
  (\E w \in Workers : pc[w] = "dead") => ~done /\ pc[Main] # "returned"

\* "Race-free by construction": no worker overwrites an agent's store with a
\* result computed from an older one (runtime_concurrent.py:5-6, :111-112).
NoStaleWrite ==
  \A w \in Workers : pc[w] = "write" => seen[w] = store[tok[w]]

\* run() returns, whatever the interleaving, when no body raises and the program
\* itself stops emitting (runtime_concurrent.py:91-99, :139).
Returns == <>(pc[Main] = "returned")

\* Retracted agents, surplus tokens and names nobody declared do not keep run()
\* from returning; only a body that raised does (runtime_concurrent.py:99-108, :139).
ReturnsUnlessABodyRaised == <>(pc[Main] = "returned" \/ \E w \in Workers : pc[w] = "dead")

\* What a thread at a label is doing, to an observer who sees no token and no lock.
What(label) ==
  CASE label \in {"copy", "eval"} -> "body"
    [] label \in {"write", "commit"} -> "result"
    [] label \in {"put", "token", "count"} -> "put"
    [] label \in {"emit", "again", "requeue", "recount", "settle"} -> "emit"
    [] label \in {"spawn", "dead", "returned"} -> label
    [] label \in {"start", "wait"} -> "wait"
    [] OTHER -> "idle"

doingSeen == [p \in Proc |-> What(pc[p])]
ofSeen == [w \in Workers |-> IF What(pc[w]) = "idle" THEN 0 ELSE tok[w]]
outSeen == [p \in Proc |-> IF What(pc[p]) \in {"idle", "body"} THEN NoResult ELSE out[p]]

Abstract == INSTANCE Actors WITH doing <- doingSeen, of <- ofSeen, out <- outSeen

\* The pool of workers is a system of agents: each message reaches every agent that
\* accepts it once and in order, one body at a time takes effect, a retract leaves no copy,
\* and run() returns only when no message waits at a live agent and no worker is handling
\* one (runtime_concurrent.py:71-81, :90-132, :139).
ImplementsActors == Abstract!Spec

=============================================================================
