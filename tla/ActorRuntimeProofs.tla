------------------------- MODULE ActorRuntimeProofs -------------------------
(***************************************************************************)
(* What holds of the concurrent runtime for every program, every number of *)
(* workers and every schedule.                                             *)
(***************************************************************************)
EXTENDS ActorRuntime, FiniteSetTheorems, SequenceTheorems, TLAPS

\* Where deliver() is, and where a worker is that has given its token back but not yet
\* released the lock.
Delivering == {"put", "token", "count"}
Settling == {"again", "requeue", "recount", "settle"}

\* What a thread's locals satisfy at the places where they are used: the token
\* of a worker names an agent, and deliver() is serving some message and some agent.
LocalsOK ==
  /\ \A p \in Proc : pc[p] \in Delivering => out[p].emits # << >>
  /\ \A w \in Holders : tok[w] \in DOMAIN agent
  /\ \A w \in Workers : pc[w] \in Settling => tok[w] \in DOMAIN agent /\ out[w].emits = << >>
  /\ \A p \in Proc : pc[p] \in {"token", "count"} => to[p] \in DOMAIN agent

TypeInv == TypeOK /\ LocalsOK

LEMMA InitTypeInv == Init => TypeInv
<1> SUFFICES ASSUME Init PROVE TypeInv
  OBVIOUS
<1> USE ProcAssumption, TableAssumption, ProgramAssumption, AidAssumption
<1>1. NoResult \in Result /\ [NoResult EXCEPT !.emits = Bootstrap] \in Result
  <2>1. << >> \in Seq(Msg) /\ << >> \in Seq(SpawnNode) /\ Bootstrap \in Seq(Msg)
    OBVIOUS
  <2>2. NoResult \in Result
    BY <2>1 DEF NoResult, Result
  <2>3. [NoResult EXCEPT !.emits = Bootstrap] \in Result
    BY <2>1, <2>2 DEF Result
  <2> QED
    BY <2>2, <2>3
<1>2. agent \in [0 .. nextAid - 1 -> [lib : Lib, name : Name, rule : Rule]]
  <2>1. Len(Table) \in Nat /\ DOMAIN Table = 1 .. Len(Table)
    OBVIOUS
  <2>2. \A i \in 1 .. Len(Table) : Table[i] \in [lib : Lib, name : Name, accepts : SUBSET Msg]
    BY ElementOfSeq
  <2>3. \A a \in 0 .. Len(Table) - 1 : a + 1 \in 1 .. Len(Table)
    BY <2>1
  <2>4. \A a \in 0 .. Len(Table) - 1 :
          [lib |-> Table[a + 1].lib, name |-> Table[a + 1].name, rule |-> a + 1]
            \in [lib : Lib, name : Name, rule : Rule]
    BY <2>1, <2>2, <2>3 DEF Rule
  <2>5. /\ live = 0 .. nextAid - 1 /\ nextAid = Len(Table)
        /\ agent = [a \in live |-> [lib |-> Table[a + 1].lib, name |-> Table[a + 1].name,
                                    rule |-> a + 1]]
    BY DEF Init
  <2> QED
    BY <2>4, <2>5
<1>3. nextAid \in Nat /\ DOMAIN agent \subseteq Aid /\ live \subseteq DOMAIN agent
  BY DEF Init
<1>4. out \in [Proc -> Result] /\ targets \in [Proc -> SUBSET DOMAIN agent]
      /\ to \in [Proc -> Int]
  BY <1>1 DEF Init
<1>5. /\ pc \in [Proc -> WorkerLabel \cup MainLabel]
      /\ pc[Main] \in MainLabel
      /\ \A w \in Workers : pc[w] \in WorkerLabel
  BY DEF Init, WorkerLabel, MainLabel, Proc
<1>6. work \in Seq(DOMAIN agent) /\ log \in Seq(Msg)
  BY EmptySeq DEF Init
<1>7. /\ store \in [Aid -> Store] /\ mailbox \in [Aid -> Seq(Msg)]
      /\ alock \in [Aid -> Workers \cup {Nobody}]
  BY EmptySeq DEF Init
<1>8. inflight \in Int /\ done \in BOOLEAN /\ lock \in Workers \cup {Nobody}
  <2>1. inflight = 0
    BY DEF Init
  <2>2. done \in BOOLEAN /\ lock \in Workers \cup {Nobody}
    BY DEF Init
  <2> QED
    BY <2>1, <2>2
<1>9. tok \in [Workers -> Int] /\ seen \in [Workers -> Store]
  BY DEF Init
<1>10. msg \in [Workers -> Seq(Msg)]
  BY EmptySeq DEF Init
<1>11. LocalsOK
  BY DEF Init, LocalsOK, Delivering, Settling, Holders, Proc
<1> QED
  BY <1>2, <1>3, <1>4, <1>5, <1>6, <1>7, <1>8, <1>9, <1>10, <1>11 DEF TypeInv, TypeOK

\* What is left of a result once its first spawn or emit has been committed.
LEMMA ResultRest ==
  ASSUME NEW r \in Result
  PROVE  /\ r.emits \in Seq(Msg) /\ r.spawned \in Seq(SpawnNode) /\ r.store \in Store
         /\ r.emits # << >> => /\ Head(r.emits) \in Msg
                              /\ [r EXCEPT !.emits = Tail(@)] \in Result
         /\ r.spawned # << >> => /\ Head(r.spawned) \in SpawnNode
                                /\ [r EXCEPT !.spawned = Tail(@)] \in Result
<1>1. r.emits \in Seq(Msg) /\ r.spawned \in Seq(SpawnNode) /\ r.store \in Store
  BY DEF Result
<1>2. ASSUME r.emits # << >>
      PROVE  Head(r.emits) \in Msg /\ [r EXCEPT !.emits = Tail(@)] \in Result
  <2>1. Head(r.emits) \in Msg /\ Tail(r.emits) \in Seq(Msg)
    BY <1>1, <1>2, HeadTailProperties
  <2> QED
    BY <2>1 DEF Result
<1>3. ASSUME r.spawned # << >>
      PROVE  Head(r.spawned) \in SpawnNode /\ [r EXCEPT !.spawned = Tail(@)] \in Result
  <2>1. Head(r.spawned) \in SpawnNode /\ Tail(r.spawned) \in Seq(SpawnNode)
    BY <1>1, <1>3, HeadTailProperties
  <2> QED
    BY <2>1 DEF Result
<1> QED
  BY <1>1, <1>2, <1>3

LEMMA NoResultType == NoResult \in Result
  BY ProgramAssumption, EmptySeq DEF NoResult, Result

LEMMA TypeInvStep == TypeInv /\ [Next]_vars => TypeInv'
<1> SUFFICES ASSUME TypeInv, [Next]_vars PROVE TypeInv'
  OBVIOUS
<1> USE ProcAssumption, ProgramAssumption DEF TypeInv, Delivering, Settling
<1>1. ASSUME NEW p \in Proc, Route(p) PROVE TypeInv'
  <2>1. out[p] \in Result /\ out[p].emits # << >>
    BY <1>1 DEF TypeOK, Route
  <2>2. Head(out[p].emits) \in Msg
    BY <2>1, ResultRest
  <2>3. Recipients(Head(out[p].emits)) \in SUBSET DOMAIN agent
    BY DEF TypeOK, Recipients
  <2>4. log' \in Seq(Msg)
    BY <1>1, <2>2 DEF TypeOK, Route
  <2>5. targets' \in [Proc -> SUBSET DOMAIN agent]
    BY <1>1, <2>3 DEF TypeOK, Route
  <2> QED
    BY <1>1, <2>1, <2>4, <2>5
       DEF TypeOK, LocalsOK, Route, Goto, Holders, Proc, registry, WorkerLabel, MainLabel
<1>2. ASSUME NEW p \in Proc, Put(p) PROVE TypeInv'
  <2>1. PICK a \in targets[p] :
          /\ mailbox' = [mailbox EXCEPT ![a] = Append(@, Head(out[p].emits))]
          /\ targets' = [targets EXCEPT ![p] = @ \ {a}]
          /\ to' = [to EXCEPT ![p] = a]
    BY <1>2 DEF Put
  <2>2. out[p] \in Result /\ out[p].emits # << >> /\ a \in DOMAIN agent /\ a \in Int
    BY <1>2, <2>1, AidAssumption DEF TypeOK, LocalsOK, Put
  <2>3. Head(out[p].emits) \in Msg
    BY <2>2, ResultRest
  <2>4. mailbox' \in [Aid -> Seq(Msg)]
    BY <2>1, <2>3 DEF TypeOK
  <2>5. targets' \in [Proc -> SUBSET DOMAIN agent] /\ to' \in [Proc -> Int]
    BY <2>1, <2>2 DEF TypeOK
  <2>6. /\ pc[p] = "put" /\ pc' = [pc EXCEPT ![p] = "token"]
        /\ UNCHANGED <<registry, store, alock, work, inflight, done, log, lock, tok, msg, seen, out>>
    BY <1>2 DEF Put, Goto
  <2>7. TypeOK'
    BY <2>4, <2>5, <2>6 DEF TypeOK, Proc, registry, WorkerLabel, MainLabel
  <2>8. to'[p] \in DOMAIN agent /\ \A q \in Proc : q # p => to'[q] = to[q] /\ pc'[q] = pc[q]
    BY <2>1, <2>2, <2>6 DEF TypeOK
  <2> QED
    BY <2>2, <2>6, <2>7, <2>8 DEF LocalsOK, Holders, TypeOK, Proc, registry
<1>26. ASSUME NEW p \in Proc, PutToken(p) PROVE TypeInv'
  <2>1. to[p] \in DOMAIN agent
    BY <1>26 DEF LocalsOK, PutToken
  <2>2. work' \in Seq(DOMAIN agent)
    BY <1>26, <2>1 DEF TypeOK, PutToken, OneTokenMore
  <2> QED
    BY <1>26, <2>2
       DEF TypeOK, LocalsOK, PutToken, Goto, Holders, Proc, registry, WorkerLabel, MainLabel
<1>27. ASSUME NEW p \in Proc, CountToken(p) PROVE TypeInv'
  <2>1. inflight' \in Int /\ to' \in [Proc -> Int] /\ \A q \in Proc : q # p => to'[q] = to[q]
    BY <1>27 DEF TypeOK, CountToken
  <2> QED
    BY <1>27, <2>1
       DEF TypeOK, LocalsOK, CountToken, Goto, Holders, Proc, registry, WorkerLabel, MainLabel
<1>3. ASSUME NEW p \in Proc, Routed(p) PROVE TypeInv'
  <2>1. out' \in [Proc -> Result]
    <3>1. out[p] \in Result /\ out[p].emits # << >>
      BY <1>3 DEF TypeOK, LocalsOK, Routed
    <3> QED
      BY <1>3, <3>1, ResultRest DEF TypeOK, Routed
  <2>2. \A q \in Proc : q # p => out'[q] = out[q] /\ pc'[q] = pc[q]
    BY <1>3 DEF TypeOK, Routed, Goto
  <2> QED
    BY <1>3, <2>1, <2>2
       DEF TypeOK, LocalsOK, Routed, Goto, Holders, Proc, registry, WorkerLabel, MainLabel
<1>4. CASE Booted
  BY <1>4 DEF TypeOK, LocalsOK, Booted, Goto, Holders, Proc, shared, registry, WorkerLabel, MainLabel
<1>5. ASSUME NEW w \in Workers, StartThread(w) PROVE TypeInv'
  BY <1>5 DEF TypeOK, LocalsOK, StartThread, Goto, Holders, Proc, shared, registry, WorkerLabel, MainLabel
<1>6. CASE AllStarted
  BY <1>6 DEF TypeOK, LocalsOK, AllStarted, Goto, Holders, Proc, shared, registry, WorkerLabel, MainLabel
<1>7. CASE Return
  BY <1>7 DEF TypeOK, LocalsOK, Return, Goto, Holders, Proc, shared, registry, WorkerLabel, MainLabel
<1>8. ASSUME NEW w \in Workers, LoopTest(w) PROVE TypeInv'
  BY <1>8 DEF TypeOK, LocalsOK, LoopTest, Goto, Holders, Proc, shared, registry, WorkerLabel, MainLabel
<1>28. ASSUME NEW w \in Workers, Recheck(w) PROVE TypeInv'
  BY <1>28 DEF TypeOK, LocalsOK, Recheck, Goto, Holders, Proc, shared, registry, WorkerLabel, MainLabel
<1>9. ASSUME NEW w \in Workers, GetToken(w) PROVE TypeInv'
  <2>1. Head(work) \in DOMAIN agent /\ Tail(work) \in Seq(DOMAIN agent)
    BY <1>9, HeadTailProperties DEF TypeOK, GetToken
  <2>2. /\ work' = Tail(work) /\ tok' = [tok EXCEPT ![w] = Head(work)]
        /\ pc' = [pc EXCEPT ![w] = "lookup"]
        /\ UNCHANGED <<registry, store, mailbox, alock, inflight, done, log, lock,
                       msg, seen, out, targets, to>>
    BY <1>9 DEF GetToken, Goto
  <2>3. Head(work) \in Int
    BY <2>1, AidAssumption DEF TypeOK
  <2>4. TypeOK'
    BY <2>1, <2>2, <2>3 DEF TypeOK, Proc, registry, WorkerLabel
  <2> QED
    BY <2>1, <2>2, <2>4 DEF TypeOK, LocalsOK, Holders, Proc, registry
<1>10. ASSUME NEW w \in Workers, GetTimeout(w) PROVE TypeInv'
  BY <1>10 DEF TypeOK, LocalsOK, GetTimeout, Goto, Holders, Proc, shared, registry, WorkerLabel, MainLabel
<1>11. ASSUME NEW w \in Workers, Idle(w) PROVE TypeInv'
  BY <1>11 DEF TypeOK, LocalsOK, Idle, Goto, Holders, Proc, shared, registry, WorkerLabel, MainLabel
<1>12. ASSUME NEW w \in Workers, Lookup(w) PROVE TypeInv'
  BY <1>12 DEF TypeOK, LocalsOK, Lookup, Goto, Holders, Proc, shared, registry, WorkerLabel, MainLabel
<1>13. ASSUME NEW w \in Workers, DropDeadToken(w) PROVE TypeInv'
  <2>1. out' \in [Proc -> Result] /\ GivenBack \in Int
    <3>1. out' = [out EXCEPT ![w] = NoResult]
      BY <1>13 DEF DropDeadToken, Forget
    <3>2. out' \in [Proc -> Result]
      BY <3>1, NoResultType DEF TypeOK
    <3> QED
      BY <3>2 DEF TypeOK, GivenBack
  <2>2. /\ tok' \in [Workers -> Int] /\ msg' \in [Workers -> Seq(Msg)]
        /\ seen' \in [Workers -> Store]
    BY <1>13, EmptySeq DEF TypeOK, DropDeadToken, Forget
  <2> QED
    BY <1>13, <2>1, <2>2
       DEF TypeOK, LocalsOK, DropDeadToken, Forget, Goto, Holders, Proc, registry, WorkerLabel, MainLabel
<1>14. ASSUME NEW w \in Workers, LockAgent(w) PROVE TypeInv'
  BY <1>14 DEF TypeOK, LocalsOK, LockAgent, Goto, Holders, Proc, shared, registry, WorkerLabel, MainLabel
<1>15. ASSUME NEW w \in Workers, CheckMailbox(w) PROVE TypeInv'
  BY <1>15 DEF TypeOK, LocalsOK, CheckMailbox, Goto, Holders, Proc, shared, registry, WorkerLabel, MainLabel
<1>16. ASSUME NEW w \in Workers, DropSurplusToken(w) PROVE TypeInv'
  <2>1. out' \in [Proc -> Result] /\ GivenBack \in Int
    <3>1. out' = [out EXCEPT ![w] = NoResult]
      BY <1>16 DEF DropSurplusToken, Forget
    <3>2. out' \in [Proc -> Result]
      BY <3>1, NoResultType DEF TypeOK
    <3> QED
      BY <3>2 DEF TypeOK, GivenBack
  <2>2. /\ tok' \in [Workers -> Int] /\ msg' \in [Workers -> Seq(Msg)]
        /\ seen' \in [Workers -> Store]
    BY <1>16, EmptySeq DEF TypeOK, DropSurplusToken, Forget
  <2> QED
    BY <1>16, <2>1, <2>2
       DEF TypeOK, LocalsOK, DropSurplusToken, Forget, Goto, Holders, Proc, registry, WorkerLabel, MainLabel
<1>17. ASSUME NEW w \in Workers, TakeMessage(w) PROVE TypeInv'
  <2>1. tok[w] \in Aid /\ mailbox[tok[w]] \in Seq(Msg) /\ mailbox[tok[w]] # << >>
    BY <1>17 DEF TypeOK, LocalsOK, Holders, TakeMessage
  <2>2. Head(mailbox[tok[w]]) \in Msg /\ Tail(mailbox[tok[w]]) \in Seq(Msg)
    BY <2>1, HeadTailProperties
  <2>3. msg' \in [Workers -> Seq(Msg)] /\ mailbox' \in [Aid -> Seq(Msg)]
    BY <1>17, <2>1, <2>2 DEF TypeOK, TakeMessage
  <2> QED
    BY <1>17, <2>3
       DEF TypeOK, LocalsOK, TakeMessage, Goto, Holders, Proc, registry, WorkerLabel, MainLabel
<1>18. ASSUME NEW w \in Workers, CopyStore(w) PROVE TypeInv'
  BY <1>18 DEF TypeOK, LocalsOK, CopyStore, Goto, Holders, Proc, shared, registry, WorkerLabel, MainLabel
<1>19. ASSUME NEW w \in Workers, EvalBody(w) PROVE TypeInv'
  <2>1. agent[tok[w]].rule \in Rule /\ seen[w] \in Store
    BY <1>19 DEF TypeOK, LocalsOK, Holders, EvalBody
  <2>2. PICK r \in Outcome(agent[tok[w]].rule, seen[w]) :
          out' = [out EXCEPT ![w] = r] /\ AfterBody(w, r)
    BY <1>19 DEF EvalBody
  <2>3. r \in Result
    BY <2>1, <2>2
  <2>4. out' \in [Proc -> Result]
    BY <2>2, <2>3 DEF TypeOK
  <2>5. /\ UNCHANGED <<inflight, registry, store, mailbox, alock, work, done, log, lock,
                       tok, msg, seen, targets, to>>
        /\ pc' = [pc EXCEPT ![w] = IF r.raises THEN "dead" ELSE "write"]
        /\ pc[w] = "eval"
    BY <1>19, <2>2 DEF EvalBody, AfterBody, Goto
  <2>6. \A q \in Proc : q # w => out'[q] = out[q]
    BY <2>2 DEF TypeOK
  <2> QED
    BY <2>4, <2>5, <2>6 DEF TypeOK, LocalsOK, Holders, Proc, registry, WorkerLabel, MainLabel
<1>20. ASSUME NEW w \in Workers, WriteStore(w) PROVE TypeInv'
  <2>1. out[w] \in Result
    BY DEF TypeOK, Proc
  <2>2. store' \in [Aid -> Store]
    BY <1>20, <2>1, ResultRest DEF TypeOK, WriteStore
  <2> QED
    BY <1>20, <2>2
       DEF TypeOK, LocalsOK, WriteStore, Goto, Holders, Proc, registry, WorkerLabel, MainLabel
<1>21. ASSUME NEW w \in Workers, LockGlobal(w) PROVE TypeInv'
  BY <1>21 DEF TypeOK, LocalsOK, LockGlobal, Goto, Holders, Proc, shared, registry, WorkerLabel, MainLabel
<1>22. ASSUME NEW w \in Workers, SpawnOne(w) PROVE TypeInv'
  <2>1. out[w] \in Result /\ out[w].spawned # << >>
    BY <1>22 DEF TypeOK, SpawnOne, Proc
  <2>2. /\ out' \in [Proc -> Result]
        /\ pc' = pc /\ pc[w] = "spawn"
        /\ \A q \in Proc : q # w => out'[q] = out[q]
    BY <1>22, <2>1, ResultRest DEF TypeOK, SpawnOne
  <2>3. CASE UNCHANGED registry
    BY <1>22, <2>2, <2>3 DEF TypeOK, LocalsOK, SpawnOne, Holders, Proc, registry
  <2>4. ASSUME NEW i \in ResolveSpawn(Head(out[w].spawned)),
               NewAgent(Head(out[w].spawned), i)
        PROVE  TypeInv'
    <3>1. i \in Rule
      BY <2>4 DEF ResolveSpawn
    <3>2. Head(out[w].spawned) \in [lib : Lib, name : Name]
      BY <2>1, ResultRest DEF SpawnNode
    <3>3. nextAid' \in Nat /\ DOMAIN agent' = DOMAIN agent \cup {nextAid}
      BY <2>4 DEF NewAgent, TypeOK
    <3>4. agent' \in [0 .. nextAid' - 1 -> [lib : Lib, name : Name, rule : Rule]]
      <4>1. DOMAIN agent = 0 .. nextAid - 1 /\ nextAid \in Nat /\ nextAid' = nextAid + 1
        BY <2>4 DEF NewAgent, TypeOK
      <4>2. DOMAIN agent \cup {nextAid} = 0 .. nextAid' - 1
        BY <4>1
      <4>3. \A a \in DOMAIN agent : agent[a] \in [lib : Lib, name : Name, rule : Rule]
        BY DEF TypeOK
      <4>4. [lib |-> Head(out[w].spawned).lib, name |-> Head(out[w].spawned).name, rule |-> i]
              \in [lib : Lib, name : Name, rule : Rule]
        BY <3>1, <3>2
      <4> QED
        BY <2>4, <4>2, <4>3, <4>4 DEF NewAgent
    <3>5. DOMAIN agent' \subseteq Aid /\ live' \subseteq DOMAIN agent'
      BY <2>4, <3>3 DEF NewAgent, TypeOK
    <3>6. work \in Seq(DOMAIN agent') /\ targets \in [Proc -> SUBSET DOMAIN agent']
      <4>1. DOMAIN agent \subseteq DOMAIN agent'
        BY <3>3
      <4>2. work \in Seq(DOMAIN agent')
        BY <4>1, SeqMonotonic DEF TypeOK
      <4> QED
        BY <4>1, <4>2 DEF TypeOK
    <3>7. /\ \A v \in Holders : tok[v] \in DOMAIN agent'
          /\ \A v \in Workers : pc[v] \in Settling => /\ tok[v] \in DOMAIN agent'
                                                      /\ v # w /\ out[v].emits = << >>
          /\ \A q \in Proc : pc[q] \in {"token", "count"} => to[q] \in DOMAIN agent'
      BY <2>2, <3>3 DEF LocalsOK
    <3>8. UNCHANGED <<store, mailbox, alock, work, inflight, done, log, lock,
                     pc, tok, msg, seen, targets, to>>
      BY <1>22 DEF SpawnOne
    <3>9. TypeOK'
      BY <2>2, <3>3, <3>4, <3>5, <3>6, <3>8 DEF TypeOK
    <3> QED
      BY <2>2, <3>7, <3>8, <3>9 DEF LocalsOK, Holders, Proc
  <2> QED
    BY <1>22, <2>3, <2>4 DEF SpawnOne
<1>23. ASSUME NEW w \in Workers, RetractAll(w) PROVE TypeInv'
  BY <1>23 DEF TypeOK, LocalsOK, RetractAll, Goto, Holders, Proc, shared, registry, WorkerLabel, MainLabel
<1>24. ASSUME NEW w \in Workers, GiveBack(w) PROVE TypeInv'
  <2>1. GivenBack \in Int
    BY DEF TypeOK, GivenBack
  <2> QED
    BY <1>24, <2>1
       DEF TypeOK, LocalsOK, GiveBack, Goto, Holders, Proc, registry, WorkerLabel, MainLabel
<1>29. ASSUME NEW w \in Workers, LookAgain(w) PROVE TypeInv'
  BY <1>29 DEF TypeOK, LocalsOK, LookAgain, Goto, Holders, Proc, shared, registry, WorkerLabel, MainLabel
<1>30. ASSUME NEW w \in Workers, Requeue(w) PROVE TypeInv'
  <2>1. tok[w] \in DOMAIN agent
    BY <1>30 DEF LocalsOK, Requeue
  <2>2. work' \in Seq(DOMAIN agent)
    BY <1>30, <2>1 DEF TypeOK, Requeue
  <2> QED
    BY <1>30, <2>2
       DEF TypeOK, LocalsOK, Requeue, Goto, Holders, Proc, registry, WorkerLabel, MainLabel
<1>31. ASSUME NEW w \in Workers, Recount(w) PROVE TypeInv'
  <2>1. inflight' \in Int
    BY <1>31 DEF TypeOK, Recount
  <2> QED
    BY <1>31, <2>1
       DEF TypeOK, LocalsOK, Recount, Goto, Holders, Proc, registry, WorkerLabel, MainLabel
<1>32. ASSUME NEW w \in Workers, Settle(w) PROVE TypeInv'
  <2>1. out' \in [Proc -> Result]
    <3>1. out' = [out EXCEPT ![w] = NoResult]
      BY <1>32 DEF Settle, Forget
    <3> QED
      BY <3>1, NoResultType DEF TypeOK
  <2>2. /\ tok' \in [Workers -> Int] /\ msg' \in [Workers -> Seq(Msg)]
        /\ seen' \in [Workers -> Store]
    BY <1>32, EmptySeq DEF TypeOK, Settle, Forget
  <2> QED
    BY <1>32, <2>1, <2>2
       DEF TypeOK, LocalsOK, Settle, Forget, Goto, Holders, Proc, registry, WorkerLabel, MainLabel
<1>25. CASE UNCHANGED vars
  BY <1>25 DEF TypeOK, LocalsOK, Holders, vars, shared, local, registry
<1> QED
  BY <1>1, <1>2, <1>3, <1>4, <1>5, <1>6, <1>7, <1>8, <1>9, <1>10, <1>11, <1>12, <1>13, <1>14,
     <1>15, <1>16, <1>17, <1>18, <1>19, <1>20, <1>21, <1>22, <1>23, <1>24, <1>25,
     <1>26, <1>27, <1>28, <1>29, <1>30, <1>31, <1>32
     DEF Next, MainStep, WorkerStep, Deliver, Over, Proc


\* Every reachable state is well typed (all of src/runtime_concurrent.py:47-132).
THEOREM TypeCorrect == Spec => []TypeOK
<1>1. Init => TypeInv
  BY InitTypeInv
<1>2. TypeInv /\ [Next]_vars => TypeInv'
  BY TypeInvStep
<1>3. TypeInv => TypeOK
  BY DEF TypeInv
<1> QED
  BY <1>1, <1>2, <1>3, PTL DEF Spec

LEMMA TypeInvAlways == Spec => []TypeInv
BY InitTypeInv, TypeInvStep, PTL DEF Spec

-----------------------------------------------------------------------------
(* One thread at a time.                                                    *)

\* A step of one thread leaves the others where they are.
LEMMA OthersStay ==
  ASSUME TypeInv, NEW w \in Workers, WorkerStep(w) \/ StartThread(w)
  PROVE  \A q \in Proc : q # w => pc'[q] = pc[q]
<1> USE DEF TypeInv, TypeOK, Goto
<1>1. CASE Deliver(w)
  BY <1>1 DEF Deliver, Route, Put, PutToken, CountToken, Routed
<1>2. CASE \/ StartThread(w) \/ LoopTest(w) \/ Recheck(w) \/ GetToken(w) \/ GetTimeout(w)
           \/ Idle(w)
  BY <1>2 DEF StartThread, LoopTest, Recheck, GetToken, GetTimeout, Idle
<1>3. CASE Lookup(w) \/ DropDeadToken(w) \/ LockAgent(w) \/ CheckMailbox(w)
           \/ DropSurplusToken(w) \/ TakeMessage(w)
  BY <1>3 DEF Lookup, DropDeadToken, LockAgent, CheckMailbox, DropSurplusToken, TakeMessage
<1>4. CASE CopyStore(w) \/ EvalBody(w) \/ WriteStore(w)
  BY <1>4 DEF CopyStore, EvalBody, AfterBody, WriteStore
<1>5. CASE LockGlobal(w) \/ SpawnOne(w) \/ RetractAll(w)
  BY <1>5 DEF LockGlobal, SpawnOne, RetractAll
<1>6. CASE GiveBack(w) \/ LookAgain(w) \/ Requeue(w) \/ Recount(w) \/ Settle(w)
  BY <1>6 DEF GiveBack, LookAgain, Requeue, Recount, Settle
<1> QED
  BY <1>1, <1>2, <1>3, <1>4, <1>5, <1>6 DEF WorkerStep

-----------------------------------------------------------------------------
(* The bootstrap, and the global lock.                                     *)

\* The bootstrap is over before any worker runs.
Booting == {"emit"} \cup Delivering
BootInv == pc[Main] \in Booting => ~done /\ \A w \in Workers : pc[w] = "new"

LEMMA DeliverSteps ==
  ASSUME NEW p \in Proc, Deliver(p)
  PROVE  /\ pc[p] \in Booting /\ \E l \in Booting : pc' = [pc EXCEPT ![p] = l]
         /\ lock' = lock /\ (done' => done)
BY DEF Deliver, Route, Put, PutToken, CountToken, Routed, Goto, Booting, Delivering

LEMMA BootInvStep == TypeInv /\ BootInv /\ [Next]_vars => BootInv'
<1> SUFFICES ASSUME TypeInv, BootInv, [Next]_vars, pc'[Main] \in Booting
             PROVE  ~done' /\ \A w \in Workers : pc'[w] = "new"
  BY DEF BootInv
<1> USE ProcAssumption DEF Proc
<1>1. ASSUME NEW w \in Workers, WorkerStep(w) PROVE FALSE
  <2>1. pc[w] = "new"
    BY <1>1, OthersStay DEF BootInv
  <2> QED
    BY <1>1, <2>1
       DEF WorkerStep, LoopTest, Recheck, GetToken, GetTimeout, Idle, Lookup, DropDeadToken,
           LockAgent, CheckMailbox, DropSurplusToken, TakeMessage, CopyStore, EvalBody,
           WriteStore, LockGlobal, SpawnOne, RetractAll, Deliver, Route, Put, PutToken,
           CountToken, Routed, GiveBack, LookAgain, Requeue, Recount, Settle
<1>2. ASSUME NEW w \in Workers, StartThread(w) PROVE FALSE
  BY <1>2, OthersStay DEF StartThread, Booting, Delivering
<1>3. CASE Booted \/ AllStarted \/ Return
  BY <1>3 DEF Booting, Delivering, Booted, AllStarted, Return, Goto, TypeInv, TypeOK
<1>4. CASE Deliver(Main)
  <2>1. Main \in Proc /\ pc[Main] \in Booting /\ (done' => done)
    BY <1>4, DeliverSteps
  <2>2. \A w \in Workers : pc'[w] = pc[w]
    BY <1>4, DeliverSteps DEF TypeInv, TypeOK
  <2> QED
    BY <2>1, <2>2 DEF BootInv
<1>5. CASE UNCHANGED vars
  BY <1>5 DEF vars, shared, local, BootInv
<1> QED
  BY <1>1, <1>2, <1>3, <1>4, <1>5 DEF Next, MainStep, Over

\* A worker is inside the global lock at these places.
Committing == {"spawn", "emit"} \cup Delivering \cup Settling

\* The global lock belongs to the worker that commits, and to no other.
LockInv == \A w \in Workers : lock = w <=> pc[w] \in Committing

LEMMA LockStep == TypeInv /\ LockInv /\ [Next]_vars => LockInv'
<1> SUFFICES ASSUME TypeInv, LockInv, [Next]_vars PROVE LockInv'
  OBVIOUS
<1> USE ProcAssumption DEF TypeInv, TypeOK, LockInv, Committing, Delivering, Settling, Goto, Proc
<1>1. ASSUME NEW p \in Proc, Deliver(p) PROVE LockInv'
  <2>1. PICK l \in Booting : pc' = [pc EXCEPT ![p] = l]
    BY <1>1, DeliverSteps
  <2>2. lock' = lock /\ pc[p] \in Booting
    BY <1>1, DeliverSteps
  <2> SUFFICES ASSUME NEW w \in Workers PROVE lock' = w <=> pc'[w] \in Committing
    OBVIOUS
  <2>3. pc'[w] \in Committing <=> pc[w] \in Committing
    BY <2>1, <2>2 DEF Booting
  <2>4. lock = w <=> pc[w] \in Committing
    OBVIOUS
  <2> QED
    BY <2>2, <2>3, <2>4
<1>2. CASE Booted \/ AllStarted \/ Return
  BY <1>2 DEF Booted, AllStarted, Return, shared
<1>3. ASSUME NEW w \in Workers, \/ StartThread(w) \/ LoopTest(w) \/ Recheck(w) \/ GetToken(w)
                                \/ GetTimeout(w) \/ Idle(w) \/ Lookup(w) \/ DropDeadToken(w)
      PROVE  LockInv'
  <2>1. lock' = lock /\ pc[w] \notin Committing /\ pc'[w] \notin Committing
    <3>1. CASE StartThread(w) \/ LoopTest(w) \/ Recheck(w) \/ GetToken(w) \/ GetTimeout(w)
      BY <3>1, ZenonT(60) DEF StartThread, LoopTest, Recheck, GetToken, GetTimeout, shared
    <3>2. CASE Idle(w) \/ Lookup(w) \/ DropDeadToken(w)
      BY <3>2, ZenonT(60) DEF Idle, Lookup, DropDeadToken, shared
    <3> QED
      BY <1>3, <3>1, <3>2
  <2>2. \A q \in Proc : q # w => pc'[q] = pc[q]
    BY <1>3, OthersStay DEF WorkerStep
  <2> QED
    BY <2>1, <2>2
<1>4. ASSUME NEW w \in Workers, \/ LockAgent(w) \/ CheckMailbox(w) \/ DropSurplusToken(w)
                                \/ TakeMessage(w) \/ CopyStore(w) \/ EvalBody(w) \/ WriteStore(w)
      PROVE  LockInv'
  <2>1. lock' = lock /\ pc[w] \notin Committing /\ pc'[w] \notin Committing
    <3>1. CASE LockAgent(w) \/ CheckMailbox(w) \/ TakeMessage(w)
      BY <3>1, SMTT(60) DEF LockAgent, CheckMailbox, TakeMessage, shared
    <3>2. CASE DropSurplusToken(w) \/ CopyStore(w) \/ EvalBody(w) \/ WriteStore(w)
      BY <3>2 DEF DropSurplusToken, CopyStore, EvalBody, AfterBody, WriteStore, shared
    <3> QED
      BY <1>4, <3>1, <3>2
  <2>2. \A q \in Proc : q # w => pc'[q] = pc[q]
    BY <1>4, OthersStay DEF WorkerStep
  <2> QED
    BY <2>1, <2>2
<1>5. ASSUME NEW w \in Workers, LockGlobal(w) PROVE LockInv'
  BY <1>5 DEF LockGlobal
<1>6. ASSUME NEW w \in Workers, SpawnOne(w) \/ RetractAll(w) PROVE LockInv'
  BY <1>6 DEF SpawnOne, RetractAll
<1>7. ASSUME NEW w \in Workers, GiveBack(w) \/ LookAgain(w) \/ Requeue(w) \/ Recount(w) PROVE LockInv'
  BY <1>7 DEF GiveBack, LookAgain, Requeue, Recount, shared
<1>10. ASSUME NEW w \in Workers, Settle(w) PROVE LockInv'
  BY <1>10 DEF Settle
<1>8. CASE UNCHANGED vars
  BY <1>8 DEF vars, shared, local
<1>9. CASE Over
  BY <1>8, <1>9 DEF Over
<1> QED
  BY <1>1, <1>2, <1>3, <1>4, <1>5, <1>6, <1>7, <1>8, <1>9, <1>10 DEF Next, MainStep, WorkerStep

-----------------------------------------------------------------------------
(* The token count.                                                        *)

LEMMA HoldersFinite == IsFiniteSet(Holders) /\ Cardinality(Holders) \in Nat
<1>1. Holders \in SUBSET Workers
  BY DEF Holders
<1> QED
  BY <1>1, ProcAssumption, FS_Subset, FS_CardinalityType

LEMMA UncountedFinite == IsFiniteSet(Uncounted) /\ Cardinality(Uncounted) \in Nat
<1>1. Uncounted \in SUBSET Proc
  BY DEF Uncounted
<1>2. IsFiniteSet(Proc)
  BY ProcAssumption, FS_AddElement DEF Proc
<1> QED
  BY <1>1, <1>2, FS_Subset, FS_CardinalityType

\* The equation of InflightExact.
CountEq == inflight + Cardinality(Uncounted) = Len(work) + Cardinality(Holders)

\* Most steps move no token: the queue, the counter, the holders and those who have still
\* to count stay.
TokensStay == UNCHANGED <<work, inflight>> /\ Holders' = Holders /\ Uncounted' = Uncounted

LEMMA TokensStaySteps ==
  ASSUME TypeInv,
         \/ \E p \in Proc : Route(p) \/ Put(p) \/ Routed(p)
         \/ Booted \/ AllStarted \/ Return
         \/ \E w \in Workers :
              \/ StartThread(w) \/ LoopTest(w) \/ Recheck(w) \/ GetTimeout(w) \/ Idle(w) \/ Lookup(w)
              \/ LockAgent(w) \/ CheckMailbox(w) \/ TakeMessage(w) \/ CopyStore(w)
              \/ EvalBody(w) \/ WriteStore(w) \/ LockGlobal(w) \/ SpawnOne(w) \/ RetractAll(w)
              \/ LookAgain(w) \/ Settle(w)
         \/ UNCHANGED vars
  PROVE  TokensStay
<1> USE ProcAssumption DEF TypeInv, TypeOK, TokensStay, Holders, Uncounted, Goto, Proc
<1>1. ASSUME NEW p \in Proc, Route(p) \/ Put(p) \/ Routed(p) PROVE TokensStay
  BY <1>1 DEF Route, Put, Routed
<1>2. CASE Booted \/ AllStarted \/ Return
  BY <1>2 DEF Booted, AllStarted, Return, shared
<1>3. ASSUME NEW w \in Workers,
             StartThread(w) \/ LoopTest(w) \/ Recheck(w) \/ GetTimeout(w) \/ Idle(w)
      PROVE  TokensStay
  BY <1>3, ZenonT(60) DEF StartThread, LoopTest, Recheck, GetTimeout, Idle, shared
<1>4. ASSUME NEW w \in Workers,
             Lookup(w) \/ LockAgent(w) \/ CheckMailbox(w) \/ TakeMessage(w) \/ CopyStore(w)
      PROVE  TokensStay
  BY <1>4 DEF Lookup, LockAgent, CheckMailbox, TakeMessage, CopyStore, shared
<1>5. ASSUME NEW w \in Workers, EvalBody(w)
      PROVE  TokensStay
  BY <1>5 DEF EvalBody, AfterBody
<1>6. ASSUME NEW w \in Workers,
             WriteStore(w) \/ LockGlobal(w) \/ SpawnOne(w) \/ RetractAll(w)
      PROVE  TokensStay
  BY <1>6 DEF WriteStore, LockGlobal, SpawnOne, RetractAll
<1>7. CASE UNCHANGED vars
  BY <1>7 DEF vars, shared, local
<1>8. ASSUME NEW w \in Workers, LookAgain(w) \/ Settle(w) PROVE TokensStay
  BY <1>8 DEF LookAgain, Settle, shared
<1> QED
  BY <1>1, <1>2, <1>3, <1>4, <1>5, <1>6, <1>7, <1>8

LEMMA CountStep == TypeInv /\ CountEq /\ [Next]_vars => CountEq'
<1> SUFFICES ASSUME TypeInv, CountEq, [Next]_vars PROVE CountEq'
  OBVIOUS
<1>1. /\ Cardinality(Holders) \in Nat /\ IsFiniteSet(Holders)
      /\ Cardinality(Uncounted) \in Nat /\ IsFiniteSet(Uncounted)
  BY HoldersFinite, UncountedFinite
<1>2. work \in Seq(DOMAIN agent) /\ Len(work) \in Nat /\ inflight \in Int
  BY DEF TypeInv, TypeOK
<1> USE ProcAssumption
<1>3. CASE TokensStay
  BY <1>3 DEF TokensStay, CountEq
<1>4. ASSUME NEW w \in Workers, GetToken(w) PROVE CountEq'
  <2>0. /\ pc[w] = "get" /\ pc'[w] = "lookup" /\ inflight' = inflight
        /\ \A q \in Proc : q # w => pc'[q] = pc[q]
    BY <1>4 DEF GetToken, Goto, TypeInv, TypeOK, Proc
  <2>1. /\ Holders' = Holders \cup {w} /\ w \notin Holders /\ inflight' = inflight
        /\ Uncounted' = Uncounted
    BY <2>0 DEF Holders, Uncounted, Proc
  <2>2. Len(work') = Len(work) - 1
    BY <1>2, <1>4, HeadTailProperties DEF GetToken
  <2>3. Cardinality(Holders') = Cardinality(Holders) + 1
    BY <1>1, <2>1, FS_AddElement
  <2> QED
    BY <1>1, <1>2, <2>1, <2>2, <2>3 DEF CountEq
<1>5. ASSUME NEW w \in Workers, DropDeadToken(w) \/ DropSurplusToken(w) \/ GiveBack(w)
      PROVE  CountEq'
  <2>1. /\ Holders' = Holders \ {w} /\ w \in Holders /\ Uncounted' = Uncounted
        /\ inflight' = inflight - 1 /\ work' = work
    BY <1>5 DEF DropDeadToken, DropSurplusToken, GiveBack, GivenBack, Goto, Holders, Uncounted,
                TypeInv, TypeOK, Proc
  <2>2. Cardinality(Holders') = Cardinality(Holders) - 1
    BY <1>1, <2>1, FS_RemoveElement
  <2> QED
    BY <1>1, <1>2, <2>1, <2>2 DEF CountEq
\* A token is queued: one more that is not counted.
<1>6. ASSUME NEW p \in Proc, NEW a \in DOMAIN agent, work' = Append(work, a),
             inflight' = inflight, Holders' = Holders, p \notin Uncounted, Uncounted' = Uncounted \cup {p}
      PROVE  CountEq'
  <2>1. Len(work') = Len(work) + 1
    BY <1>2, <1>6
  <2>2. Cardinality(Uncounted') = Cardinality(Uncounted) + 1
    BY <1>1, <1>6, FS_AddElement
  <2>3. inflight' = inflight /\ Holders' = Holders
    BY <1>6
  <2> QED
    BY <1>1, <1>2, <2>1, <2>2, <2>3 DEF CountEq
\* And counted: one less.
<1>7. ASSUME NEW p \in Proc, work' = work, inflight' = inflight + 1,
             Holders' = Holders, p \in Uncounted, Uncounted' = Uncounted \ {p}
      PROVE  CountEq'
  <2>1. Cardinality(Uncounted') = Cardinality(Uncounted) - 1
    BY <1>1, <1>7, FS_RemoveElement
  <2> QED
    BY <1>1, <1>2, <1>7, <2>1 DEF CountEq
<1>8. ASSUME NEW p \in Proc, PutToken(p) PROVE CountEq'
  <2>1. /\ work' = Append(work, to[p]) /\ inflight' = inflight /\ to[p] \in DOMAIN agent
        /\ Holders' = Holders /\ p \notin Uncounted /\ Uncounted' = Uncounted \cup {p}
    BY <1>8, SMTT(60) DEF PutToken, OneTokenMore, Goto, Holders, Uncounted, LocalsOK, TypeInv, TypeOK, Proc
  <2> QED
    BY <1>6, <2>1
<1>9. ASSUME NEW p \in Proc, CountToken(p) PROVE CountEq'
  <2>1. /\ work' = work /\ inflight' = inflight + 1
        /\ Holders' = Holders /\ p \in Uncounted /\ Uncounted' = Uncounted \ {p}
    BY <1>9 DEF CountToken, Goto, Holders, Uncounted, TypeInv, TypeOK, Proc
  <2> QED
    BY <1>7, <2>1
<1>10. ASSUME NEW w \in Workers, Requeue(w) PROVE CountEq'
  <2>1. /\ work' = Append(work, tok[w]) /\ inflight' = inflight /\ w \in Proc
        /\ tok[w] \in DOMAIN agent
        /\ Holders' = Holders /\ w \notin Uncounted /\ Uncounted' = Uncounted \cup {w}
    BY <1>10, SMTT(60) DEF Requeue, Goto, Holders, LocalsOK, Settling, Uncounted, TypeInv, TypeOK, Proc
  <2> QED
    BY <1>6, <2>1
<1>11. ASSUME NEW w \in Workers, Recount(w) PROVE CountEq'
  <2>1. /\ work' = work /\ inflight' = inflight + 1 /\ w \in Proc
        /\ Holders' = Holders /\ w \in Uncounted /\ Uncounted' = Uncounted \ {w}
    BY <1>11 DEF Recount, Goto, Holders, Uncounted, TypeInv, TypeOK, Proc
  <2> QED
    BY <1>7, <2>1
<1> QED
  BY <1>3, <1>4, <1>5, <1>8, <1>9, <1>10, <1>11, TokensStaySteps
     DEF Next, MainStep, WorkerStep, Deliver, Over, Proc

LEMMA CountAlways == Spec => [](TypeInv /\ BootInv /\ LockInv /\ CountEq)
<1>1. Init => BootInv /\ LockInv /\ CountEq
  <2> SUFFICES ASSUME Init PROVE BootInv /\ LockInv /\ CountEq
    OBVIOUS
  <2>1. ~done /\ lock = Nobody /\ \A w \in Workers : pc[w] = "new"
    BY ProcAssumption DEF Init, Proc
  <2>2. Holders = {} /\ Uncounted = {}
    BY ProcAssumption DEF Init, Holders, Uncounted, Proc
  <2>3. Len(work) = 0 /\ inflight = 0
    BY EmptySeq DEF Init
  <2>4. CountEq
    BY <2>2, <2>3, FS_EmptySet DEF CountEq
  <2> QED
    BY <2>1, <2>4, ProcAssumption
       DEF BootInv, LockInv, Committing, Delivering, Settling, Proc
<1> QED
  BY <1>1, BootInvStep, LockStep, CountStep, TypeInvAlways, PTL DEF Spec

\* The counter never drifts, whatever the program, the pool and the schedule: it is the
\* tokens queued and the tokens held, a dead thread's included, less the one that the
\* owner of the lock has queued and is about to count, which another worker may have
\* taken already (src/runtime_concurrent.py:77-78, :103, :108, :127-130).
THEOREM CountIsExact == Spec => []InflightExact
<1>1. TypeInv /\ BootInv /\ LockInv /\ CountEq => InflightExact
  <2> SUFFICES ASSUME TypeInv, BootInv, LockInv, CountEq PROVE InflightExact
    OBVIOUS
  <2>1. \A p \in Uncounted \ {Main} : lock = p
    BY DEF LockInv, Committing, Delivering, Settling, Uncounted, Proc
  <2>2. ASSUME Main \in Uncounted PROVE Uncounted = {Main} /\ Holders = {}
    <3>1. pc[Main] = "count"
      BY <2>2 DEF Uncounted, TypeInv, TypeOK, MainLabel
    <3>2. \A w \in Workers : pc[w] = "new"
      BY <3>1 DEF BootInv, Booting, Delivering
    <3> QED
      BY <2>2, <3>2 DEF Uncounted, Holders, Proc
  <2> QED
    BY <2>1, <2>2 DEF InflightExact, CountEq
<1> QED
  BY <1>1, CountAlways, PTL

-----------------------------------------------------------------------------
(* The event `done`.                                                       *)

\* Once `done` is set nothing is in flight and no worker is committing, and run() has
\* waited for it.
DoneInv ==
  /\ done => inflight = 0 /\ \A w \in Workers : pc[w] \notin Committing
  /\ pc[Main] = "returned" => done
  /\ BootInv

CountInv == TypeInv /\ LockInv /\ InflightExact

LEMMA CountInvAlways == Spec => []CountInv
BY CountAlways, CountIsExact, PTL DEF CountInv

\* Where a worker is that holds no token and no lock.
Resting == {"new", "loop", "recheck", "get", "idle", "exit"}

\* With nobody committing the counter is the truth: while `done` is set there is no token.
LEMMA DoneQuiet ==
  ASSUME CountInv, DoneInv, done
  PROVE  /\ Holders = {} /\ work = << >>
         /\ \A w \in Workers : pc[w] \in Resting
         /\ pc[Main] \notin Booting
<1>1. pc[Main] \notin Booting
  BY DEF DoneInv, BootInv
<1>2. inflight = 0 /\ \A w \in Workers : pc[w] \notin Committing
  BY DEF DoneInv
<1>3. Uncounted = {}
  <2>1. \A w \in Workers : pc[w] \notin {"count", "recount"}
    BY <1>2 DEF Committing, Delivering, Settling
  <2>2. pc[Main] \notin {"count", "recount"}
    BY <1>1 DEF Booting, Delivering, CountInv, TypeInv, TypeOK, MainLabel
  <2> QED
    BY <2>1, <2>2 DEF Uncounted, Proc
<1>4. IsFiniteSet(Holders) /\ Cardinality(Holders) \in Nat /\ work \in Seq(DOMAIN agent)
  BY HoldersFinite DEF CountInv, TypeInv, TypeOK
<1>5. Len(work) + Cardinality(Holders) = 0
  BY <1>2, <1>3, FS_EmptySet DEF CountInv, InflightExact
<1>6. Len(work) = 0 /\ Cardinality(Holders) = 0
  <2>1. Len(work) \in Nat
    BY <1>4
  <2> QED
    BY <1>4, <1>5, <2>1
<1>7. Holders = {} /\ work = << >>
  BY <1>4, <1>6, FS_EmptySet, EmptySeq
<1>8. \A w \in Workers : pc[w] \in Resting
  BY <1>2, <1>7 DEF Holders, Resting, Committing, Settling
<1> QED
  BY <1>1, <1>7, <1>8

\* A worker with a token, be it dead, keeps `done` from being set.
LEMMA HolderKeepsRunning ==
  ASSUME CountInv, DoneInv, NEW w \in Holders
  PROVE  ~done
BY DoneQuiet

\* So no step is left that could do anything once `done` is set.
LEMMA DoneSteps ==
  ASSUME CountInv, DoneInv, [Next]_vars, done
  PROVE  \/ \E w \in Workers :
              StartThread(w) \/ LoopTest(w) \/ Recheck(w) \/ GetTimeout(w) \/ Idle(w)
         \/ AllStarted \/ Return \/ UNCHANGED vars
<1>1. MainStep => \/ \E w \in Workers : StartThread(w)
                  \/ AllStarted \/ Return
  BY DoneQuiet DEF MainStep, Deliver, Route, Put, PutToken, CountToken, Routed, Booted, Booting,
                   Delivering
<1>2. ASSUME NEW w \in Workers, WorkerStep(w)
      PROVE  LoopTest(w) \/ Recheck(w) \/ GetTimeout(w) \/ Idle(w)
  BY <1>2, DoneQuiet
     DEF WorkerStep, GetToken, Lookup, DropDeadToken, LockAgent, CheckMailbox, Resting,
         DropSurplusToken, TakeMessage, CopyStore, EvalBody, WriteStore, LockGlobal,
         SpawnOne, RetractAll, Deliver, Route, Put, PutToken, CountToken, Routed, GiveBack,
         LookAgain, Requeue, Recount, Settle
<1> QED
  BY <1>1, <1>2 DEF Next, Over

LEMMA DoneStays ==
  ASSUME CountInv, DoneInv, [Next]_vars, done
  PROVE  /\ done' /\ inflight' = inflight /\ Holders = {}
         /\ \A w \in Workers : pc'[w] \notin Committing
<1> USE ProcAssumption DEF Committing, Delivering, Settling
<1>0. \A w \in Workers : pc[w] \notin Committing
  BY DEF DoneInv
<1>1. ASSUME NEW w \in Workers,
             StartThread(w) \/ LoopTest(w) \/ Recheck(w) \/ GetTimeout(w) \/ Idle(w)
      PROVE  done' /\ inflight' = inflight /\ \A v \in Workers : pc'[v] \notin Committing
  <2>1. pc'[w] \in {"loop", "recheck", "get", "exit", "idle"}
    BY <1>1 DEF StartThread, LoopTest, Recheck, GetTimeout, Idle, Goto, CountInv, TypeInv, TypeOK, Proc
  <2>2. \A v \in Workers : v # w => pc'[v] = pc[v]
    <3>1. WorkerStep(w) \/ StartThread(w)
      BY <1>1 DEF WorkerStep
    <3> QED
      BY <3>1, OthersStay DEF CountInv, Proc
  <2>3. done' /\ inflight' = inflight
    BY <1>1 DEF StartThread, LoopTest, Recheck, GetTimeout, Idle, shared
  <2> QED
    BY <1>0, <2>1, <2>2, <2>3
<1>2. ASSUME AllStarted \/ Return \/ UNCHANGED vars
      PROVE  done' /\ inflight' = inflight /\ \A v \in Workers : pc'[v] \notin Committing
  BY <1>0, <1>2 DEF AllStarted, Return, vars, shared, local, Goto, CountInv, TypeInv, TypeOK, Proc
<1> QED
  BY <1>1, <1>2, DoneQuiet, DoneSteps

\* `done` is raised only by a thread that found the counter at zero while nobody else
\* was committing.
LEMMA DoneRaised ==
  ASSUME CountInv, BootInv, [Next]_vars, ~done, done'
  PROVE  inflight' = 0 /\ \A w \in Workers : pc'[w] \notin Committing
<1> USE ProcAssumption DEF Committing, Delivering, Settling
<1>1. ASSUME NEW w \in Workers, WorkerStep(w)
      PROVE  inflight' = 0 /\ \A v \in Workers : pc'[v] \notin Committing
  <2>1. Idle(w) \/ Settle(w)
    BY <1>1 DEF WorkerStep, LoopTest, Recheck, GetToken, GetTimeout, Lookup, DropDeadToken,
       LockAgent, CheckMailbox, DropSurplusToken, TakeMessage, CopyStore, EvalBody, WriteStore,
       LockGlobal, SpawnOne, RetractAll, Deliver, Route, Put, PutToken, CountToken, Routed,
       GiveBack, LookAgain, Requeue, Recount, shared
  <2>2. lock \in {Nobody, w} /\ pc'[w] \in {"exit", "loop"}
    <3>1. CASE Idle(w)
      BY <3>1 DEF Idle, Goto, CountInv, TypeInv, TypeOK, Proc
    <3>2. CASE Settle(w)
      <4>1. pc[w] = "settle" /\ pc'[w] = "loop"
        BY <3>2 DEF Settle, Goto, CountInv, TypeInv, TypeOK, Proc
      <4> QED
        BY <4>1 DEF CountInv, LockInv
    <3> QED
      BY <2>1, <3>1, <3>2
  <2>3. \A v \in Workers : v # w => pc'[v] = pc[v]
    BY <1>1, OthersStay DEF CountInv, Proc
  <2>4. \A v \in Workers : v # w => pc[v] \notin Committing
    BY <2>2 DEF CountInv, LockInv, Proc
  <2>5. inflight' = 0
    <3>1. CASE Idle(w)
      BY <3>1 DEF Idle, NothingInFlight
    <3>2. CASE Settle(w)
      BY <3>2 DEF Settle
    <3> QED
      BY <2>1, <3>1, <3>2
  <2> QED
    BY <2>2, <2>3, <2>4, <2>5
<1>2. CASE MainStep
  <2>1. Booted
    BY <1>2 DEF MainStep, StartThread, AllStarted, Return, Deliver, Route, Put, PutToken,
                CountToken, Routed, shared
  <2>2. \A w \in Workers : pc'[w] = "new"
    BY <2>1 DEF Booted, Booting, BootInv, Goto, CountInv, TypeInv, TypeOK, Proc
  <2> QED
    BY <2>1, <2>2 DEF Booted
<1> QED
  BY <1>1, <1>2 DEF Next, Over, vars, shared

LEMMA DoneInvStep == CountInv /\ DoneInv /\ [Next]_vars => DoneInv'
<1> SUFFICES ASSUME CountInv, DoneInv, [Next]_vars PROVE DoneInv'
  OBVIOUS
<1> USE ProcAssumption
<1>1. done' => inflight' = 0 /\ \A w \in Workers : pc'[w] \notin Committing
  <2>1. CASE done
    BY <2>1, DoneStays DEF DoneInv
  <2>2. CASE ~done
    BY <2>2, DoneRaised DEF DoneInv
  <2> QED
    BY <2>1, <2>2
<1>2. BootInv'
  BY BootInvStep DEF CountInv, DoneInv
<1>3. ASSUME pc'[Main] = "returned"
      PROVE  done'
  <2>1. CASE done
    BY <2>1, DoneStays
  <2>2. CASE ~done
    <3>1. pc[Main] # "returned"
      BY <2>2 DEF DoneInv
    <3>2. ASSUME NEW w \in Workers, WorkerStep(w) \/ StartThread(w)
          PROVE  FALSE
      BY <1>3, <3>1, <3>2, OthersStay DEF Proc, CountInv
    <3>3. CASE Deliver(Main) \/ Booted \/ AllStarted
      BY <1>3, <3>1, <3>3
         DEF Deliver, Route, Put, PutToken, CountToken, Routed, Booted, AllStarted, Goto,
             CountInv, TypeInv, TypeOK, Proc
    <3>4. ~Return
      BY <2>2 DEF Return
    <3>5. CASE UNCHANGED vars
      BY <1>3, <3>1, <3>5 DEF vars, local
    <3> QED
      BY <3>2, <3>3, <3>4, <3>5 DEF Next, MainStep, Over
  <2> QED
    BY <2>1, <2>2
<1> QED
  BY <1>1, <1>2, <1>3 DEF DoneInv

LEMMA DoneInvAlways == Spec => [](CountInv /\ DoneInv)
<1>1. Init => DoneInv
  <2> SUFFICES ASSUME Init PROVE DoneInv
    OBVIOUS
  <2>1. ~done /\ pc[Main] = "emit"
    BY DEF Init, Proc
  <2>2. \A w \in Workers : pc[w] = "new"
    BY ProcAssumption DEF Init, Proc
  <2> QED
    BY <2>1, <2>2 DEF DoneInv, BootInv
<1> QED
  BY <1>1, DoneInvStep, CountInvAlways, PTL DEF Spec

\* `done` is set once and for all: the done.clear() of deliver() never undoes a
\* done.set() (src/runtime_concurrent.py:79-80, :97, :132).
THEOREM DoneIsSetOnce == Spec => DoneIsFinal
<1>1. CountInv /\ DoneInv /\ [Next]_vars => [done => done']_vars
  BY DoneStays
<1> QED
  BY <1>1, DoneInvAlways, PTL DEF Spec, DoneIsFinal

\* A run in which some body raised is never reported complete, with however
\* many workers left (src/runtime_concurrent.py:111, :139).
THEOREM RaisedNeverCompletes == Spec => []FailureIsNeverCompletion
<1>1. CountInv /\ DoneInv => FailureIsNeverCompletion
  <2> SUFFICES ASSUME CountInv, DoneInv, NEW w \in Workers, pc[w] = "dead"
               PROVE  ~done /\ pc[Main] # "returned"
    BY DEF FailureIsNeverCompletion
  <2>1. w \in Holders
    BY DEF Holders
  <2>2. ~done
    BY <2>1, HolderKeepsRunning
  <2> QED
    BY <2>2 DEF DoneInv
<1> QED
  BY <1>1, DoneInvAlways, PTL

\* What run() returns is final: after it has returned no thread can emit, spawn
\* or retract any more (src/runtime_concurrent.py:139-151).
THEOREM ReturnIsFinal == Spec => ResultIsFinal
<1>1. CountInv /\ DoneInv /\ [Next]_vars
        => [pc[Main] = "returned" => UNCHANGED <<log, live, inflight>>]_vars
  <2> SUFFICES ASSUME CountInv, DoneInv, [Next]_vars, pc[Main] = "returned"
               PROVE  UNCHANGED <<log, live, inflight>>
    OBVIOUS
  <2>1. done /\ Holders = {} /\ inflight' = inflight
    BY DoneStays DEF DoneInv
  <2>2. ASSUME NEW w \in Workers,
               StartThread(w) \/ LoopTest(w) \/ Recheck(w) \/ GetTimeout(w) \/ Idle(w)
        PROVE  UNCHANGED <<log, live>>
    BY <2>2 DEF StartThread, LoopTest, Recheck, GetTimeout, Idle, shared, registry
  <2>3. CASE AllStarted \/ Return \/ UNCHANGED vars
    BY <2>3 DEF AllStarted, Return, vars, shared, registry
  <2> QED
    BY <2>1, <2>2, <2>3, DoneSteps
<1> QED
  BY <1>1, DoneInvAlways, PTL DEF Spec, ResultIsFinal

=============================================================================
