------------------------- MODULE ActorMailboxProofs -------------------------
(***************************************************************************)
(* Mailboxes and locks of the concurrent runtime, for every program and    *)
(* pool: no message is stranded, nobody waits in a circle, dead rules stay *)
(* idle, and when an update of a store can be lost.                        *)
(***************************************************************************)
EXTENDS ActorRuntimeProofs, WellFoundedInduction

LEMMA AppendOne ==
  ASSUME NEW S, NEW s \in Seq(S), NEW e \in S
  PROVE  /\ Append(s, e) \in Seq(S) /\ Append(s, e) # << >>
         /\ Len(Append(s, e)) = Len(s) + 1
         /\ \A k \in 1 .. Len(s) : Append(s, e)[k] = s[k]
         /\ Append(s, e)[Len(s) + 1] = e
<1>1. Append(s, e) \in Seq(S) /\ Len(Append(s, e)) = Len(s) + 1
  OBVIOUS
<1>2. Append(s, e) # << >>
  BY <1>1, LenProperties, EmptySeq
<1> QED
  BY <1>1, <1>2

\* What deliver() puts in a mailbox is a message.
LEMMA PutMessage ==
  ASSUME TypeInv, NEW p \in Proc, Put(p)
  PROVE  /\ Head(out[p].emits) \in Msg
         /\ \A a \in Aid : Append(mailbox[a], Head(out[p].emits)) # << >>
<1>1. out[p] \in Result /\ out[p].emits # << >>
  BY DEF TypeInv, TypeOK, LocalsOK, Delivering, Put
<1>2. Head(out[p].emits) \in Msg
  BY <1>1, ResultRest
<1>3. \A a \in Aid : mailbox[a] \in Seq(Msg)
  BY DEF TypeInv, TypeOK
<1> QED
  BY <1>2, <1>3, AppendOne

-----------------------------------------------------------------------------
(* The agent's lock.                                                       *)

\* A worker between the `with a.lock` and its end owns the lock of its agent, and
\* a message it is about to take is still there.
MailboxLockInv ==
  /\ \A w \in Workers : pc[w] \in {"check", "surplus", "take"} => alock[tok[w]] = w
  /\ GetNeverBlocks

LEMMA MailboxLockStep == TypeInv /\ MailboxLockInv /\ [Next]_vars => MailboxLockInv'
<1> SUFFICES ASSUME TypeInv, MailboxLockInv, [Next]_vars PROVE MailboxLockInv'
  OBVIOUS
<1> USE ProcAssumption DEF TypeInv, TypeOK, MailboxLockInv, GetNeverBlocks, Goto, Proc
<1>1. ASSUME NEW p \in Proc, Route(p) \/ PutToken(p) \/ CountToken(p) \/ Routed(p)
      PROVE  MailboxLockInv'
  BY <1>1 DEF Route, PutToken, CountToken, Routed
<1>2. ASSUME NEW p \in Proc, Put(p) PROVE MailboxLockInv'
  <2>1. PICK a \in targets[p] :
          mailbox' = [mailbox EXCEPT ![a] = Append(@, Head(out[p].emits))]
    BY <1>2 DEF Put
  <2>2. \A b \in Aid : mailbox[b] # << >> => mailbox'[b] # << >>
    <3>1. a \in Aid /\ mailbox[a] \in Seq(Msg)
      OBVIOUS
    <3>2. Append(mailbox[a], Head(out[p].emits)) # << >>
      BY <1>2, <3>1, PutMessage
    <3> QED
      BY <2>1, <3>2
  <2>3. UNCHANGED <<alock, tok>> /\ pc[p] = "put" /\ pc' = [pc EXCEPT ![p] = "token"]
    BY <1>2 DEF Put
  <2>4. \A w \in Workers : pc[w] = "take" => tok[w] \in Aid
    BY DEF LocalsOK, Holders
  <2> QED
    BY <2>2, <2>3, <2>4
<1>3. CASE Booted \/ AllStarted \/ Return
  BY <1>3 DEF Booted, AllStarted, Return, shared
<1>4. ASSUME NEW w \in Workers,
             \/ StartThread(w) \/ LoopTest(w) \/ Recheck(w) \/ GetTimeout(w) \/ Idle(w) \/ Lookup(w)
      PROVE  MailboxLockInv'
  BY <1>4, ZenonT(60) DEF StartThread, LoopTest, Recheck, GetTimeout, Idle, Lookup, shared
<1>5. ASSUME NEW w \in Workers, GetToken(w) PROVE MailboxLockInv'
  BY <1>5 DEF GetToken
<1>6. ASSUME NEW w \in Workers, DropDeadToken(w) \/ Settle(w) PROVE MailboxLockInv'
  BY <1>6, ZenonT(60) DEF DropDeadToken, Settle, Forget
<1>14. ASSUME NEW w \in Workers, GiveBack(w) \/ LookAgain(w) \/ Requeue(w) \/ Recount(w)
       PROVE  MailboxLockInv'
  BY <1>14 DEF GiveBack, LookAgain, Requeue, Recount, shared
<1>7. ASSUME NEW w \in Workers, LockAgent(w) PROVE MailboxLockInv'
  <2>1. tok[w] \in Aid
    BY <1>7 DEF LockAgent, LocalsOK, Holders
  <2> QED
    BY <1>7, <2>1, SMTT(60) DEF LockAgent, AgentFree
<1>8. ASSUME NEW w \in Workers, CheckMailbox(w) PROVE MailboxLockInv'
  BY <1>8 DEF CheckMailbox, shared
<1>9. ASSUME NEW w \in Workers, DropSurplusToken(w) PROVE MailboxLockInv'
  <2>1. /\ pc[w] = "surplus" /\ pc' = [pc EXCEPT ![w] = "loop"] /\ mailbox' = mailbox
        /\ tok' = [tok EXCEPT ![w] = 0] /\ alock' = [alock EXCEPT ![tok[w]] = Nobody]
    BY <1>9 DEF DropSurplusToken, Forget
  <2>2. ASSUME NEW v \in Workers, pc'[v] \in {"check", "surplus", "take"}
        PROVE  v # w /\ pc'[v] = pc[v] /\ tok'[v] = tok[v] /\ tok[v] # tok[w] /\ tok[v] \in Aid
    <3>1. v # w /\ pc'[v] = pc[v] /\ tok'[v] = tok[v] /\ tok[v] # tok[w]
      BY <2>1, <2>2
    <3> QED
      BY <2>2, <3>1 DEF LocalsOK, Holders
  <2> QED
    BY <2>1, <2>2
<1>10. ASSUME NEW w \in Workers, TakeMessage(w) PROVE MailboxLockInv'
  <2>1. /\ pc[w] = "take" /\ pc' = [pc EXCEPT ![w] = "copy"] /\ tok' = tok
        /\ alock' = [alock EXCEPT ![tok[w]] = Nobody]
        /\ mailbox' = [mailbox EXCEPT ![tok[w]] = Tail(@)]
    BY <1>10 DEF TakeMessage
  <2>2. ASSUME NEW v \in Workers, pc'[v] \in {"check", "surplus", "take"}
        PROVE  v # w /\ pc'[v] = pc[v] /\ tok[v] # tok[w] /\ tok[v] \in Aid
    <3>1. v # w /\ pc'[v] = pc[v] /\ tok[v] # tok[w]
      BY <2>1, <2>2
    <3> QED
      BY <2>2, <3>1 DEF LocalsOK, Holders
  <2> QED
    BY <2>1, <2>2
<1>11. ASSUME NEW w \in Workers, CopyStore(w) \/ WriteStore(w) \/ LockGlobal(w)
                                 \/ SpawnOne(w) \/ RetractAll(w)
       PROVE  MailboxLockInv'
  BY <1>11 DEF CopyStore, WriteStore, LockGlobal, SpawnOne, RetractAll, shared
<1>12. ASSUME NEW w \in Workers, EvalBody(w) PROVE MailboxLockInv'
  BY <1>12 DEF EvalBody, AfterBody
<1>13. CASE UNCHANGED vars
  BY <1>13 DEF vars, shared, local
<1> QED
  BY <1>1, <1>2, <1>3, <1>4, <1>5, <1>6, <1>7, <1>8, <1>9, <1>10, <1>11, <1>12, <1>13,
     <1>14
     DEF Next, MainStep, WorkerStep, Deliver, Over

LEMMA MailboxLockAlways == Spec => []MailboxLockInv
<1>1. Init => MailboxLockInv
  BY ProcAssumption DEF Init, MailboxLockInv, GetNeverBlocks, Proc
<1> QED
  BY <1>1, MailboxLockStep, TypeInvAlways, PTL DEF Spec

\* mailbox.get(), which has no timeout and is called with a.lock held, never
\* finds the mailbox empty: no worker is ever stuck there with the lock
\* (src/runtime_concurrent.py:105-110).
THEOREM GetNeverWaits == Spec => []GetNeverBlocks
<1>1. MailboxLockInv => GetNeverBlocks
  BY DEF MailboxLockInv
<1> QED
  BY <1>1, MailboxLockAlways, PTL

-----------------------------------------------------------------------------
(* Counting the occurrences of a value in a sequence.                      *)

At(s, e) == {k \in DOMAIN s : s[k] = e}

LEMMA AtFinite ==
  ASSUME NEW S, NEW s \in Seq(S), NEW e
  PROVE  IsFiniteSet(At(s, e)) /\ Cardinality(At(s, e)) \in Nat
<1>1. At(s, e) \in SUBSET (1 .. Len(s)) /\ Len(s) \in Nat
  BY LenProperties DEF At
<1>2. IsFiniteSet(1 .. Len(s))
  BY <1>1, FS_Interval
<1> QED
  BY <1>1, <1>2, FS_Subset, FS_CardinalityType

LEMMA AtAppend ==
  ASSUME NEW S, NEW s \in Seq(S), NEW e \in S, NEW x
  PROVE  Cardinality(At(Append(s, e), x))
           = IF x = e THEN Cardinality(At(s, x)) + 1 ELSE Cardinality(At(s, x))
<1>1. /\ Len(s) \in Nat /\ DOMAIN s = 1 .. Len(s)
      /\ DOMAIN Append(s, e) = 1 .. Len(s) + 1
  BY AppendOne, LenProperties
<1>2. At(Append(s, e), x) = IF x = e THEN At(s, x) \cup {Len(s) + 1} ELSE At(s, x)
  BY <1>1, AppendOne DEF At
<1>3. Len(s) + 1 \notin At(s, x)
  BY <1>1 DEF At
<1> QED
  BY <1>2, <1>3, AtFinite, FS_AddElement

LEMMA AtTail ==
  ASSUME NEW S, NEW s \in Seq(S), s # << >>, NEW x
  PROVE  Cardinality(At(Tail(s), x))
           = IF x = Head(s) THEN Cardinality(At(s, x)) - 1 ELSE Cardinality(At(s, x))
<1> DEFINE rest == At(s, x) \ {1}
           f == [k \in rest |-> k - 1]
<1>1. /\ Len(s) \in Nat \ {0} /\ DOMAIN s = 1 .. Len(s) /\ Head(s) = s[1]
      /\ DOMAIN Tail(s) = 1 .. Len(s) - 1
      /\ \A k \in 1 .. Len(s) - 1 : Tail(s)[k] = s[k + 1]
  BY HeadTailProperties, LenProperties, EmptySeq
<1>2. f \in Bijection(rest, At(Tail(s), x))
  <2>1. f \in [rest -> At(Tail(s), x)]
    BY <1>1 DEF At
  <2>2. \A i, j \in rest : f[i] = f[j] => i = j
    BY <1>1 DEF At
  <2>3. \A k \in At(Tail(s), x) : k + 1 \in rest /\ f[k + 1] = k
    BY <1>1 DEF At
  <2> QED
    BY <2>1, <2>2, <2>3 DEF Bijection, Injection, Surjection, IsInjective
<1>3. IsFiniteSet(rest) /\ Cardinality(rest) = IF 1 \in At(s, x) THEN Cardinality(At(s, x)) - 1
                                                              ELSE Cardinality(At(s, x))
  BY AtFinite, FS_RemoveElement
<1>4. Cardinality(At(Tail(s), x)) = Cardinality(rest)
  BY <1>2, <1>3, FS_Bijection DEF ExistsBijection
<1>5. 1 \in At(s, x) <=> x = Head(s)
  BY <1>1 DEF At
<1> QED
  BY <1>3, <1>4, <1>5


-----------------------------------------------------------------------------
(* No message is stranded.                                                 *)

\* MailboxCovered, and what keeps it inductive when an agent is created: the
\* mailbox of an agent that does not exist yet is empty.
CoverInv ==
  /\ MailboxCovered
  /\ \A a \in Aid \ DOMAIN agent : mailbox[a] = << >>

Queued(a) == Cardinality(At(work, a))
Waking(a) == Cardinality(Wakers(a))
Owing(a) == Cardinality(Owed(a))

LEMMA CoverTypes ==
  ASSUME TypeInv, NEW a \in Aid
  PROVE  /\ QueuedTokens(a) = At(work, a) /\ Queued(a) \in Nat
         /\ IsFiniteSet(Wakers(a)) /\ Waking(a) \in Nat
         /\ IsFiniteSet(Owed(a)) /\ Owing(a) \in Nat
         /\ mailbox[a] \in Seq(Msg) /\ Len(mailbox[a]) \in Nat
<1>1. QueuedTokens(a) = At(work, a)
  BY DEF QueuedTokens, At
<1>2. Queued(a) \in Nat
  BY <1>1, AtFinite DEF Queued, TypeInv, TypeOK
<1>3. Wakers(a) \in SUBSET Workers
  BY DEF Wakers
<1>4. IsFiniteSet(Wakers(a)) /\ Waking(a) \in Nat
  BY <1>3, ProcAssumption, FS_Subset, FS_CardinalityType DEF Waking
<1>5. mailbox[a] \in Seq(Msg) /\ Len(mailbox[a]) \in Nat
  BY LenProperties DEF TypeInv, TypeOK
<1>6. Owed(a) \in SUBSET Proc /\ IsFiniteSet(Proc)
  BY ProcAssumption, FS_AddElement DEF Owed, Proc
<1>7. IsFiniteSet(Owed(a)) /\ Owing(a) \in Nat
  BY <1>6, FS_Subset, FS_CardinalityType DEF Owing
<1> QED
  BY <1>1, <1>2, <1>4, <1>5, <1>7

\* The steps that leave every mailbox, the token queue, the wakers and the debts of
\* every live agent alone, and make no agent live.
CoverStays ==
  /\ UNCHANGED <<mailbox, work, agent>>
  /\ live' \subseteq live
  /\ \A a \in live : Wakers(a)' = Wakers(a) /\ Owed(a)' = Owed(a)

LEMMA CoverStaysKeeps ==
  ASSUME CoverInv, CoverStays
  PROVE  CoverInv'
<1>1. \A a \in live' : QueuedTokens(a)' = QueuedTokens(a)
  BY DEF CoverStays, QueuedTokens
<1> QED
  BY <1>1 DEF CoverInv, CoverStays, MailboxCovered

LEMMA CoverStaysSteps ==
  ASSUME TypeInv,
         \/ \E p \in Proc : Route(p) \/ CountToken(p) \/ Routed(p)
         \/ Booted \/ AllStarted \/ Return
         \/ \E w \in Workers :
              \/ StartThread(w) \/ LoopTest(w) \/ Recheck(w) \/ GetTimeout(w) \/ Idle(w)
              \/ Lookup(w) \/ DropDeadToken(w) \/ LockAgent(w) \/ DropSurplusToken(w)
              \/ CopyStore(w) \/ EvalBody(w) \/ WriteStore(w) \/ LockGlobal(w) \/ RetractAll(w)
              \/ GiveBack(w) \/ LookAgain(w) \/ Recount(w) \/ Settle(w)
         \/ UNCHANGED vars
  PROVE  CoverStays
<1> USE ProcAssumption DEF TypeInv, TypeOK, CoverStays, Wakers, Owed, Goto, Proc
<1>1. ASSUME NEW p \in Proc, Route(p) \/ Routed(p) PROVE CoverStays
  BY <1>1, ZenonT(60) DEF Route, Routed, registry
<1>2. CASE Booted \/ AllStarted \/ Return
  BY <1>2 DEF Booted, AllStarted, Return, shared, registry
<1>3. ASSUME NEW w \in Workers,
             StartThread(w) \/ LoopTest(w) \/ Recheck(w) \/ GetTimeout(w) \/ Idle(w)
      PROVE  CoverStays
  BY <1>3 DEF StartThread, LoopTest, Recheck, GetTimeout, Idle, shared, registry
<1>4. ASSUME NEW w \in Workers, Lookup(w) \/ LockAgent(w) PROVE CoverStays
  BY <1>4, ZenonT(60) DEF Lookup, LockAgent, shared, registry
<1>5. ASSUME NEW w \in Workers, DropDeadToken(w) \/ DropSurplusToken(w) PROVE CoverStays
  BY <1>5, ZenonT(60) DEF DropDeadToken, DropSurplusToken, Forget, registry
<1>6. ASSUME NEW w \in Workers, CopyStore(w) \/ WriteStore(w) \/ LockGlobal(w) \/ RetractAll(w)
      PROVE  CoverStays
  BY <1>6 DEF CopyStore, WriteStore, LockGlobal, RetractAll, shared, registry
<1>7. ASSUME NEW w \in Workers, EvalBody(w) PROVE CoverStays
  BY <1>7 DEF EvalBody, AfterBody, registry
<1>9. ASSUME NEW p \in Proc, CountToken(p) PROVE CoverStays
  BY <1>9, ZenonT(60) DEF CountToken, registry
<1>10. ASSUME NEW w \in Workers, GiveBack(w) \/ LookAgain(w) \/ Recount(w) PROVE CoverStays
  BY <1>10, ZenonT(60) DEF GiveBack, LookAgain, Recount, shared, registry
<1>11. ASSUME NEW w \in Workers, Settle(w) PROVE CoverStays
  BY <1>11, ZenonT(60) DEF Settle, Forget, registry
<1>8. CASE UNCHANGED vars
  BY <1>8 DEF vars, shared, local, registry
<1> QED
  BY <1>1, <1>2, <1>3, <1>4, <1>5, <1>6, <1>7, <1>8, <1>9, <1>10, <1>11

LEMMA CoverStep == TypeInv /\ TypeInv' /\ CoverInv /\ [Next]_vars => CoverInv'
<1> SUFFICES ASSUME TypeInv, TypeInv', CoverInv, [Next]_vars PROVE CoverInv'
  OBVIOUS
<1> USE ProcAssumption
<1>0. /\ work \in Seq(DOMAIN agent) /\ DOMAIN agent \subseteq Aid
      /\ live \subseteq DOMAIN agent /\ mailbox \in [Aid -> Seq(Msg)]
  BY DEF TypeInv, TypeOK
<1>1. CASE CoverStays
  BY <1>1, CoverStaysKeeps
<1>2. ASSUME NEW p \in Proc, Put(p) PROVE CoverInv'
  <2>1. PICK b \in targets[p] :
          /\ mailbox' = [mailbox EXCEPT ![b] = Append(@, Head(out[p].emits))]
          /\ to' = [to EXCEPT ![p] = b]
    BY <1>2 DEF Put
  <2>2. /\ b \in DOMAIN agent /\ b \in Aid /\ UNCHANGED <<live, agent, work, tok>>
        /\ pc[p] = "put" /\ pc' = [pc EXCEPT ![p] = "token"]
    BY <1>2, <1>0 DEF Put, Goto, registry, TypeInv, TypeOK
  <2>3. Len(mailbox'[b]) = Len(mailbox[b]) + 1
    BY <1>0, <1>2, <2>1, <2>2, PutMessage, AppendOne
  <2>4. ASSUME NEW a \in live PROVE Len(mailbox'[a]) <= Queued(a)' + Waking(a)' + Owing(a)'
    <3>1. a \in Aid
      BY <1>0
    <3>2. Len(mailbox[a]) <= Queued(a) + Waking(a) + Owing(a)
      BY DEF CoverInv, MailboxCovered, QueuedTokens, At, Queued, Waking, Owing
    <3>3. Waking(a)' = Waking(a) /\ Queued(a)' = Queued(a)
      <4>1. Wakers(a)' = Wakers(a)
        BY <2>2 DEF Wakers, TypeInv, TypeOK, Proc
      <4> QED
        BY <2>2, <4>1 DEF Waking, Queued, At
    <3>4. /\ Owed(a)' = IF a = b THEN Owed(a) \cup {p} ELSE Owed(a)
          /\ p \notin Owed(a)
      <4>1. pc'[p] = "token" /\ to'[p] = b
        BY <2>1, <2>2 DEF TypeInv, TypeOK
      <4>2. \A q \in Proc : q # p => pc'[q] = pc[q] /\ to'[q] = to[q]
        BY <2>1, <2>2 DEF TypeInv, TypeOK
      <4> QED
        BY <2>2, <4>1, <4>2 DEF Owed
    <3>5. Owing(a)' = IF a = b THEN Owing(a) + 1 ELSE Owing(a)
      BY <3>1, <3>4, CoverTypes, FS_AddElement DEF Owing
    <3>6. Len(mailbox'[a]) = IF a = b THEN Len(mailbox[a]) + 1 ELSE Len(mailbox[a])
      BY <1>0, <2>1, <2>3, <3>1
    <3> QED
      BY <3>1, <3>2, <3>3, <3>5, <3>6, CoverTypes
  <2>5. \A a \in Aid \ DOMAIN agent' : mailbox'[a] = << >>
    BY <1>0, <2>1, <2>2 DEF CoverInv
  <2> QED
    BY <2>2, <2>4, <2>5 DEF CoverInv, MailboxCovered, QueuedTokens, At, Queued, Waking, Owing
<1>8. ASSUME NEW p \in Proc, PutToken(p) PROVE CoverInv'
  <2>1. /\ UNCHANGED <<live, agent, mailbox, tok, to>> /\ to[p] \in DOMAIN agent
        /\ pc[p] = "token" /\ pc' = [pc EXCEPT ![p] = "count"]
        /\ work' = Append(work, to[p])
    BY <1>8 DEF PutToken, OneTokenMore, Goto, registry, TypeInv, LocalsOK
  <2>2. ASSUME NEW a \in live PROVE Len(mailbox'[a]) <= Queued(a)' + Waking(a)' + Owing(a)'
    <3>1. a \in Aid
      BY <1>0
    <3>2. Len(mailbox[a]) <= Queued(a) + Waking(a) + Owing(a)
      BY DEF CoverInv, MailboxCovered, QueuedTokens, At, Queued, Waking, Owing
    <3>3. Queued(a)' = IF a = to[p] THEN Queued(a) + 1 ELSE Queued(a)
      BY <1>0, <2>1, AtAppend DEF Queued
    <3>4. /\ Owed(a)' = IF a = to[p] THEN Owed(a) \ {p} ELSE Owed(a)
          /\ a = to[p] => p \in Owed(a)
      BY <2>1 DEF Owed, TypeInv, TypeOK
    <3>5. Owing(a)' = IF a = to[p] THEN Owing(a) - 1 ELSE Owing(a)
      BY <3>1, <3>4, CoverTypes, FS_RemoveElement DEF Owing
    <3>6. Waking(a)' = Waking(a)
      <4>1. Wakers(a)' = Wakers(a)
        BY <2>1 DEF Wakers, TypeInv, TypeOK, Proc
      <4> QED
        BY <4>1 DEF Waking
    <3> QED
      BY <2>1, <3>1, <3>2, <3>3, <3>5, <3>6, CoverTypes
  <2> QED
    BY <2>1, <2>2 DEF CoverInv, MailboxCovered, QueuedTokens, At, Queued, Waking, Owing
<1>3. ASSUME NEW w \in Workers, GetToken(w) PROVE CoverInv'
  <2>1. /\ work # << >> /\ work' = Tail(work) /\ UNCHANGED <<live, agent, mailbox>>
        /\ pc[w] = "get" /\ pc' = [pc EXCEPT ![w] = "lookup"]
        /\ tok' = [tok EXCEPT ![w] = Head(work)] /\ to' = to
    BY <1>3 DEF GetToken, Goto, registry
  <2>2. ASSUME NEW a \in live PROVE Len(mailbox'[a]) <= Queued(a)' + Waking(a)' + Owing(a)'
    <3>1. a \in Aid
      BY <1>0
    <3>2. Len(mailbox[a]) <= Queued(a) + Waking(a) + Owing(a)
      BY DEF CoverInv, MailboxCovered, QueuedTokens, At, Queued, Waking, Owing
    <3>3. Queued(a)' = IF a = Head(work) THEN Queued(a) - 1 ELSE Queued(a)
      BY <1>0, <2>1, AtTail DEF Queued
    <3>4. /\ Wakers(a)' = IF a = Head(work) THEN Wakers(a) \cup {w} ELSE Wakers(a)
          /\ w \notin Wakers(a)
      <4>1. tok'[w] = Head(work) /\ pc'[w] = "lookup"
        BY <2>1 DEF TypeInv, TypeOK, Proc
      <4>2. \A v \in Workers : v # w => tok'[v] = tok[v] /\ pc'[v] = pc[v]
        BY <2>1 DEF TypeInv, TypeOK, Proc
      <4> QED
        BY <2>1, <4>1, <4>2 DEF Wakers
    <3>5. Waking(a)' = IF a = Head(work) THEN Waking(a) + 1 ELSE Waking(a)
      BY <3>1, <3>4, CoverTypes, FS_AddElement DEF Waking
    <3>6. Owing(a)' = Owing(a)
      <4>1. Owed(a)' = Owed(a)
        BY <2>1 DEF Owed, TypeInv, TypeOK
      <4> QED
        BY <4>1 DEF Owing
    <3> QED
      BY <2>1, <3>1, <3>2, <3>3, <3>5, <3>6, CoverTypes
  <2> QED
    BY <2>1, <2>2 DEF CoverInv, MailboxCovered, QueuedTokens, At, Queued, Waking, Owing
<1>4. ASSUME NEW w \in Workers, CheckMailbox(w) PROVE CoverInv'
  <2>1. /\ UNCHANGED <<work, live, agent, mailbox, tok, to>> /\ pc[w] = "check"
        /\ pc' = [pc EXCEPT ![w] = IF mailbox[tok[w]] = << >> THEN "surplus" ELSE "take"]
    BY <1>4 DEF CheckMailbox, Goto, shared, registry
  <2>4. \A a : Owing(a)' = Owing(a)
    <3>1. \A a : Owed(a)' = Owed(a)
      BY <2>1 DEF Owed, TypeInv, TypeOK
    <3> QED
      BY <3>1 DEF Owing
  <2>2. ASSUME NEW a \in live, ~(a = tok[w] /\ mailbox[a] = << >>) PROVE Wakers(a)' = Wakers(a)
    BY <2>1, <2>2 DEF Wakers, TypeInv, TypeOK, Proc
  <2>3. ASSUME NEW a \in live PROVE Len(mailbox'[a]) <= Queued(a)' + Waking(a)' + Owing(a)'
    <3>1. a \in Aid /\ a \in live'
      BY <1>0, <2>1
    <3>2. CASE mailbox[a] = << >>
      <4>1. Queued(a)' \in Nat /\ Waking(a)' \in Nat /\ Owing(a)' \in Nat
        <5>1. IsFiniteSet(Wakers(a)') /\ Cardinality(Wakers(a)') \in Nat
          <6>1. Wakers(a)' \in SUBSET Workers
            BY DEF Wakers
          <6> QED
            BY <6>1, FS_Subset, FS_CardinalityType
        <5> QED
          BY <2>1, <2>4, <3>1, <5>1, CoverTypes DEF Queued, Waking
      <4> QED
        BY <2>1, <3>2, <4>1, EmptySeq
    <3>3. CASE mailbox[a] # << >>
      <4>1. Len(mailbox[a]) <= Queued(a) + Waking(a) + Owing(a)
        BY DEF CoverInv, MailboxCovered, QueuedTokens, At, Queued, Waking, Owing
      <4>2. Queued(a)' = Queued(a) /\ Waking(a)' = Waking(a)
        BY <2>1, <2>2, <3>3 DEF Queued, At, Waking
      <4> QED
        BY <2>1, <2>4, <4>1, <4>2
    <3> QED
      BY <3>2, <3>3
  <2> QED
    BY <2>1, <2>3 DEF CoverInv, MailboxCovered, QueuedTokens, At, Queued, Waking, Owing
<1>5. ASSUME NEW w \in Workers, TakeMessage(w) PROVE CoverInv'
  <2>1. /\ UNCHANGED <<work, live, agent, tok, to>> /\ pc[w] = "take"
        /\ pc' = [pc EXCEPT ![w] = "copy"] /\ mailbox[tok[w]] # << >>
        /\ mailbox' = [mailbox EXCEPT ![tok[w]] = Tail(@)]
    BY <1>5 DEF TakeMessage, Goto, registry
  <2>2. tok[w] \in DOMAIN agent
    BY <2>1 DEF TypeInv, LocalsOK, Holders
  <2>3. ASSUME NEW a \in live PROVE Len(mailbox'[a]) <= Queued(a)' + Waking(a)' + Owing(a)'
    <3>1. a \in Aid
      BY <1>0
    <3>2. Len(mailbox[a]) <= Queued(a) + Waking(a) + Owing(a)
      BY DEF CoverInv, MailboxCovered, QueuedTokens, At, Queued, Waking, Owing
    <3>3. Queued(a)' = Queued(a)
      BY <2>1 DEF Queued, At
    <3>4. /\ Wakers(a)' = IF a = tok[w] THEN Wakers(a) \ {w} ELSE Wakers(a)
          /\ a = tok[w] => w \in Wakers(a)
      BY <2>1 DEF Wakers, TypeInv, TypeOK, Proc
    <3>5. Waking(a)' = IF a = tok[w] THEN Waking(a) - 1 ELSE Waking(a)
      BY <3>1, <3>4, CoverTypes, FS_RemoveElement DEF Waking
    <3>6. Len(mailbox'[a]) = IF a = tok[w] THEN Len(mailbox[a]) - 1 ELSE Len(mailbox[a])
      BY <1>0, <2>1, <3>1, HeadTailProperties
    <3>7. Owing(a)' = Owing(a)
      <4>1. Owed(a)' = Owed(a)
        BY <2>1 DEF Owed, TypeInv, TypeOK
      <4> QED
        BY <4>1 DEF Owing
    <3> QED
      BY <3>1, <3>2, <3>3, <3>5, <3>6, <3>7, CoverTypes
  <2>4. \A a \in Aid \ DOMAIN agent' : mailbox'[a] = << >>
    BY <1>0, <2>1, <2>2 DEF CoverInv
  <2> QED
    BY <2>1, <2>3, <2>4 DEF CoverInv, MailboxCovered, QueuedTokens, At, Queued, Waking, Owing
<1>6. ASSUME NEW w \in Workers, SpawnOne(w) PROVE CoverInv'
  <2>1. UNCHANGED <<mailbox, work, pc, tok, to>>
    BY <1>6 DEF SpawnOne
  <2>2. /\ DOMAIN agent \subseteq DOMAIN agent'
        /\ live' \subseteq live \cup {nextAid}
        /\ nextAid \in live' => nextAid \in live \/ nextAid \in Aid \ DOMAIN agent
    <3>1. CASE UNCHANGED registry
      BY <3>1 DEF registry
    <3>2. ASSUME NEW i, NewAgent(Head(out[w].spawned), i)
          PROVE  /\ DOMAIN agent \subseteq DOMAIN agent'
                 /\ live' = live \cup {nextAid} /\ nextAid \in Aid \ DOMAIN agent
      BY <3>2 DEF NewAgent, TypeInv, TypeOK
    <3> QED
      BY <1>6, <3>1, <3>2 DEF SpawnOne
  <2>3. ASSUME NEW a \in live' PROVE Len(mailbox'[a]) <= Queued(a)' + Waking(a)' + Owing(a)'
    <3>1. /\ Queued(a)' = Queued(a) /\ Waking(a)' = Waking(a) /\ Owing(a)' = Owing(a)
          /\ mailbox'[a] = mailbox[a]
      BY <2>1 DEF Queued, At, Waking, Wakers, Owing, Owed
    <3>2. CASE a \in live
      BY <3>1, <3>2 DEF CoverInv, MailboxCovered, QueuedTokens, At, Queued, Waking, Owing
    <3>3. CASE a \in Aid \ DOMAIN agent
      BY <3>1, <3>3, CoverTypes, EmptySeq DEF CoverInv
    <3> QED
      BY <2>2, <3>2, <3>3
  <2> QED
    BY <2>1, <2>2, <2>3 DEF CoverInv, MailboxCovered, QueuedTokens, At, Queued, Waking, Owing
<1>7. ASSUME NEW w \in Workers, Requeue(w) PROVE CoverInv'
  <2>1. /\ UNCHANGED <<live, agent, mailbox, tok, to>> /\ pc[w] = "requeue"
        /\ pc' = [pc EXCEPT ![w] = "recount"] /\ work' = Append(work, tok[w])
    BY <1>7 DEF Requeue, Goto, registry
  <2>2. tok[w] \in DOMAIN agent
    BY <2>1 DEF TypeInv, LocalsOK, Settling
  <2>3. ASSUME NEW a \in live PROVE Len(mailbox'[a]) <= Queued(a)' + Waking(a)' + Owing(a)'
    <3>1. a \in Aid
      BY <1>0
    <3>2. Len(mailbox[a]) <= Queued(a) + Waking(a) + Owing(a)
      BY DEF CoverInv, MailboxCovered, QueuedTokens, At, Queued, Waking, Owing
    <3>3. Wakers(a)' = Wakers(a) /\ Owed(a)' = Owed(a)
      BY <2>1 DEF Wakers, Owed, TypeInv, TypeOK, Proc
    <3>4. Queued(a)' = Queued(a) \/ Queued(a)' = Queued(a) + 1
      BY <1>0, <2>1, <2>2, AtAppend DEF Queued
    <3> QED
      BY <2>1, <3>1, <3>2, <3>3, <3>4, CoverTypes DEF Waking, Owing
  <2> QED
    BY <2>1, <2>3 DEF CoverInv, MailboxCovered, QueuedTokens, At, Queued, Waking, Owing
<1> QED
  BY <1>1, <1>2, <1>3, <1>4, <1>5, <1>6, <1>7, <1>8, CoverStaysSteps
     DEF Next, MainStep, WorkerStep, Deliver, Over, Proc

LEMMA CoverAlways == Spec => []CoverInv
<1>1. Init => CoverInv
  <2> SUFFICES ASSUME Init PROVE CoverInv
    OBVIOUS
  <2>1. mailbox = [a \in Aid |-> << >>] /\ live \subseteq Aid
    BY AidAssumption DEF Init
  <2>2. TypeInv
    BY InitTypeInv
  <2>3. ASSUME NEW a \in live PROVE Len(mailbox[a]) <= Queued(a) + Waking(a) + Owing(a)
    BY <2>1, <2>2, CoverTypes, EmptySeq
  <2> QED
    BY <2>1, <2>3 DEF CoverInv, MailboxCovered, QueuedTokens, At, Queued, Waking, Owing
<1>2. TypeInv /\ TypeInv' /\ CoverInv /\ [Next]_vars => CoverInv'
  BY CoverStep
<1> QED
  BY <1>1, <1>2, TypeInvAlways, PTL DEF Spec

\* A message that waits at a live agent always has a token on its way to it,
\* even after threads died with theirs (src/runtime_concurrent.py:75-78, :105-110).
THEOREM NoMessageStranded == Spec => []MailboxCovered
<1>1. CoverInv => MailboxCovered
  BY DEF CoverInv
<1> QED
  BY <1>1, CoverAlways, PTL

\* When run() is told that the work is done, it is: no token, no worker with one,
\* and no message at any live agent (src/runtime_concurrent.py:96-97, :131-132).
THEOREM DoneIsQuiet == Spec => []DoneMeansQuiet
<1>1. CountInv /\ DoneInv /\ CoverInv => DoneMeansQuiet
  <2> SUFFICES ASSUME CountInv, DoneInv, CoverInv, done
               PROVE  work = << >> /\ Holders = {} /\ \A a \in live : mailbox[a] = << >>
    BY DEF DoneMeansQuiet
  <2>1. work = << >> /\ Holders = {} /\ \A p \in Proc : pc[p] # "token"
    BY DoneQuiet DEF Resting, Booting, Delivering, Proc
  <2>2. ASSUME NEW a \in live PROVE mailbox[a] = << >>
    <3>1. QueuedTokens(a) = {} /\ Owed(a) = {}
      BY <2>1 DEF QueuedTokens, Owed
    <3>2. Wakers(a) = {}
      BY <2>1 DEF Wakers, Holders
    <3>3. Len(mailbox[a]) <= 0
      <4>1. Len(mailbox[a])
              <= Cardinality(QueuedTokens(a)) + Cardinality(Wakers(a)) + Cardinality(Owed(a))
        BY DEF CoverInv, MailboxCovered
      <4>2. Cardinality({}) = 0
        BY FS_EmptySet
      <4> QED
        BY <3>1, <3>2, <4>1, <4>2
    <3>4. mailbox[a] \in Seq(Msg)
      BY DEF CountInv, TypeInv, TypeOK
    <3> QED
      BY <3>3, <3>4, EmptySeq
  <2> QED
    BY <2>1, <2>2
<1> QED
  BY <1>1, DoneInvAlways, CoverAlways, PTL

-----------------------------------------------------------------------------
(* Who holds a lock, and who waits for it.                                 *)

\* A worker whose effects are all committed gives its token back and lets the lock go.
Finishing(w) == GiveBack(w) \/ LookAgain(w) \/ Requeue(w) \/ Recount(w) \/ Settle(w)

\* A worker is inside the lock of an agent at these places.
InAgent == {"check", "surplus", "take"}

\* The lock of an agent belongs to a worker that holds a token of it and has not yet looked
\* into its mailbox, or not yet taken what it saw there.
AgentLockInv ==
  \A w \in Workers, a \in Aid : alock[a] = w => tok[w] = a /\ pc[w] \in InAgent

LEMMA AgentLockStep == TypeInv /\ AgentLockInv /\ [Next]_vars => AgentLockInv'
<1> SUFFICES ASSUME TypeInv, AgentLockInv, [Next]_vars PROVE AgentLockInv'
  OBVIOUS
<1>0. ASSUME alock' = alock,
             \A w \in Workers : pc[w] \in InAgent => pc'[w] = pc[w] /\ tok'[w] = tok[w]
      PROVE  AgentLockInv'
  BY <1>0 DEF AgentLockInv
<1> USE ProcAssumption DEF TypeInv, TypeOK, InAgent, Goto, Proc
<1>1. ASSUME NEW p \in Proc, Deliver(p) PROVE AgentLockInv'
  BY <1>0, <1>1 DEF Deliver, Route, Put, PutToken, CountToken, Routed
<1>2. CASE Booted \/ AllStarted \/ Return
  BY <1>0, <1>2 DEF Booted, AllStarted, Return, shared
<1>3. ASSUME NEW w \in Workers, \/ StartThread(w) \/ LoopTest(w) \/ Recheck(w) \/ GetToken(w)
                                \/ GetTimeout(w) \/ Idle(w) \/ Lookup(w)
      PROVE  AgentLockInv'
  BY <1>0, <1>3 DEF StartThread, LoopTest, Recheck, GetToken, GetTimeout, Idle, Lookup, shared
<1>12. ASSUME NEW w \in Workers, GiveBack(w) \/ LookAgain(w) \/ Requeue(w) \/ Recount(w)
       PROVE  AgentLockInv'
  BY <1>0, <1>12 DEF GiveBack, LookAgain, Requeue, Recount, shared
<1> USE DEF AgentLockInv
<1>4. ASSUME NEW w \in Workers, DropDeadToken(w) PROVE AgentLockInv'
  BY <1>4 DEF DropDeadToken, Forget
<1>13. ASSUME NEW w \in Workers, Settle(w) PROVE AgentLockInv'
  BY <1>0, <1>13 DEF Settle, Forget
<1>5. ASSUME NEW w \in Workers, LockAgent(w) PROVE AgentLockInv'
  BY <1>5, SMTT(60) DEF LockAgent, AgentFree
<1>6. ASSUME NEW w \in Workers, CheckMailbox(w) PROVE AgentLockInv'
  BY <1>6 DEF CheckMailbox, shared
<1>7. ASSUME NEW w \in Workers, DropSurplusToken(w) PROVE AgentLockInv'
  BY <1>7 DEF DropSurplusToken, Forget
<1>8. ASSUME NEW w \in Workers, TakeMessage(w) PROVE AgentLockInv'
  BY <1>8 DEF TakeMessage
<1>9. ASSUME NEW w \in Workers, CopyStore(w) \/ WriteStore(w) \/ LockGlobal(w)
                                \/ SpawnOne(w) \/ RetractAll(w)
      PROVE  AgentLockInv'
  BY <1>9 DEF CopyStore, WriteStore, LockGlobal, SpawnOne, RetractAll, shared
<1>10. ASSUME NEW w \in Workers, EvalBody(w) PROVE AgentLockInv'
  BY <1>10 DEF EvalBody, AfterBody
<1>11. CASE UNCHANGED vars
  BY <1>11 DEF vars, shared, local
<1> QED
  BY <1>1, <1>2, <1>3, <1>4, <1>5, <1>6, <1>7, <1>8, <1>9, <1>10, <1>11, <1>12, <1>13
     DEF Next, MainStep, WorkerStep, Over

\* What a thread waits for is settled by these.
WaitInv ==
  /\ LockInv /\ AgentLockInv /\ GetNeverBlocks
  /\ \A w \in Workers : pc[w] \in {"recheck", "exit"} => done
  /\ pc[Main] \in {"wait", "returned"} => \A w \in Workers : pc[w] # "new"

\* A worker leaves its loop only when the event is set, and never goes back to its start.
LEMMA ExitStep ==
  ASSUME CountInv, DoneInv, [Next]_vars, NEW w \in Workers
  PROVE  /\ pc'[w] \in {"recheck", "exit"} /\ pc[w] \notin {"recheck", "exit"} => done'
         /\ pc'[w] = "new" => pc[w] = "new"
<1> USE ProcAssumption DEF CountInv, TypeInv, TypeOK, Goto, Proc
<1>1. ASSUME NEW v \in Workers, WorkerStep(v), v # w PROVE pc'[w] = pc[w]
  BY <1>1, OthersStay
<1>2. ASSUME WorkerStep(w) 
      PROVE  /\ pc'[w] \in {"recheck", "exit"} => done' \/ pc[w] = "recheck"
             /\ pc'[w] # "new"
  <2>1. CASE LoopTest(w)
    BY <2>1 DEF LoopTest, shared
  <2>8. CASE Recheck(w)
    BY <2>8 DEF Recheck, shared
  <2>2. CASE Idle(w)
    BY <2>2 DEF Idle
  <2>3. CASE GetToken(w) \/ GetTimeout(w) \/ Lookup(w) \/ DropDeadToken(w)
    BY <2>3 DEF GetToken, GetTimeout, Lookup, DropDeadToken
  <2>4. CASE LockAgent(w) \/ CheckMailbox(w) \/ DropSurplusToken(w) \/ TakeMessage(w)
    BY <2>4 DEF LockAgent, CheckMailbox, DropSurplusToken, TakeMessage
  <2>5. CASE CopyStore(w) \/ EvalBody(w) \/ WriteStore(w)
    BY <2>5 DEF CopyStore, EvalBody, AfterBody, WriteStore
  <2>6. CASE LockGlobal(w) \/ SpawnOne(w) \/ RetractAll(w)
    BY <2>6 DEF LockGlobal, SpawnOne, RetractAll
  <2>7. CASE Deliver(w) \/ Finishing(w)
    BY <2>7 DEF Deliver, Route, Put, PutToken, CountToken, Routed, Finishing, GiveBack, LookAgain,
                Requeue, Recount, Settle
  <2> QED
    BY <1>2, <2>1, <2>2, <2>3, <2>4, <2>5, <2>6, <2>7, <2>8 DEF WorkerStep, Finishing
<1>3. ASSUME NEW v \in Workers, StartThread(v) PROVE pc'[w] = pc[w] \/ pc'[w] = "loop"
  BY <1>3 DEF StartThread
<1>4. CASE Deliver(Main)
  BY <1>4 DEF Deliver, Route, Put, PutToken, CountToken, Routed
<1>5. CASE Booted \/ AllStarted \/ Return
  BY <1>5 DEF Booted, AllStarted, Return
<1>6. CASE UNCHANGED vars
  BY <1>6 DEF vars, local
<1> QED
  BY <1>1, <1>2, <1>3, <1>4, <1>5, <1>6 DEF Next, MainStep, Over

\* The caller waits only once every thread has been started.
LEMMA StartedStep ==
  ASSUME TypeInv, [Next]_vars, pc'[Main] \in {"wait", "returned"}
  PROVE  pc[Main] \in {"wait", "returned"} \/ \A w \in Workers : pc[w] # "new"
<1> USE ProcAssumption DEF TypeInv, TypeOK, Goto, Proc
<1>1. ASSUME NEW w \in Workers, WorkerStep(w) \/ StartThread(w) PROVE pc'[Main] = pc[Main]
  BY <1>1, OthersStay
<1>2. CASE Deliver(Main) \/ Booted
  BY <1>2 DEF Deliver, Route, Put, PutToken, CountToken, Routed, Booted
<1>3. CASE AllStarted \/ Return
  BY <1>3 DEF AllStarted, Return
<1>4. CASE UNCHANGED vars
  BY <1>4 DEF vars, local
<1> QED
  BY <1>1, <1>2, <1>3, <1>4 DEF Next, MainStep, Over

LEMMA WaitInvAlways == Spec => [](CountInv /\ DoneInv /\ WaitInv)
<1> DEFINE Rest == /\ \A w \in Workers : pc[w] \in {"recheck", "exit"} => done
                   /\ pc[Main] \in {"wait", "returned"} => \A w \in Workers : pc[w] # "new"
<1>1. Init => LockInv /\ AgentLockInv /\ Rest
  BY ProcAssumption DEF Init, LockInv, AgentLockInv, Committing, Delivering, Settling, Proc
<1>2. CountInv /\ DoneInv /\ Rest /\ [Next]_vars => Rest'
  <2> SUFFICES ASSUME CountInv, DoneInv, Rest, [Next]_vars PROVE Rest'
    OBVIOUS
  <2>1. done => done'
    BY DoneStays
  <2>2. \A w \in Workers : pc'[w] \in {"recheck", "exit"} => done'
    BY <2>1, ExitStep
  <2>3. pc'[Main] \in {"wait", "returned"} => \A w \in Workers : pc'[w] # "new"
    BY ExitStep, StartedStep DEF CountInv
  <2> QED
    BY <2>2, <2>3
<1>3. WaitInv <=> LockInv /\ AgentLockInv /\ GetNeverBlocks /\ Rest
  BY DEF WaitInv
<1> HIDE DEF Rest
<1> QED
  BY <1>1, <1>2, <1>3, LockStep, AgentLockStep, TypeInvAlways, DoneInvAlways, GetNeverWaits,
     PTL DEF Spec

\* The guards of WorkerStep(w), and of MainStep, at the place where the thread is: whether
\* it can go on, or waits for a lock, an event or a message.
CanServe(S) == S = {} \/ \E a \in S : \A b \in S : a <= b
CanStep(w) ==
  CASE pc[w] \in {"idle", "drop", "surplus", "commit"} -> lock = Nobody
    [] pc[w] = "alock" -> alock[tok[w]] = Nobody
    [] pc[w] = "take" -> mailbox[tok[w]] # << >>
    [] pc[w] = "eval" -> Outcome(agent[tok[w]].rule, seen[w]) # {}
    [] pc[w] = "put" -> CanServe(targets[w])
    [] pc[w] = "spawn" -> \/ out[w].spawned = << >>
                          \/ ResolveSpawn(Head(out[w].spawned)) = {}
                          \/ nextAid \in Aid
    [] pc[w] \in {"new", "dead", "exit"} -> FALSE
    [] OTHER -> TRUE
MainCanStep ==
  CASE pc[Main] = "put" -> CanServe(targets[Main])
    [] pc[Main] = "wait" -> done
    [] pc[Main] = "returned" -> FALSE
    [] OTHER -> TRUE

\* The bound on the agents has not been reached; the code has none.
RoomForAgents == nextAid \in Aid

LEMMA SomeLeast ==
  ASSUME NEW S \in SUBSET Nat
  PROVE  CanServe(S)
<1> SUFFICES ASSUME S # {} PROVE \E a \in S : \A b \in S : a <= b
  BY DEF CanServe
<1> DEFINE Less == {p \in Nat \X Nat : p[1] < p[2]}
<1>1. IsWellFoundedOn(Less, Nat)
  BY NatLessThanWellFounded DEF OpToRel
<1> HIDE DEF Less
<1>2. PICK a \in S : \A b \in S : ~(<<b, a>> \in Less)
  BY <1>1, WFMin
<1>3. \A b \in S : <<b, a>> \in Nat \X Nat
  OBVIOUS
<1>4. \A b \in S : ~(b < a)
  BY <1>2, <1>3 DEF Less
<1> QED
  BY <1>4

LEMMA TargetsCanBeServed ==
  ASSUME TypeInv, NEW p \in Proc
  PROVE  CanServe(targets[p])
<1>1. targets[p] \in SUBSET Nat
  BY DEF TypeInv, TypeOK
<1> QED
  BY <1>1, SomeLeast

\* The evaluator answers something, be it an exception.
LEMMA BodiesAnswer ==
  ASSUME TypeInv, NEW w \in Workers, pc[w] = "eval"
  PROVE  Outcome(agent[tok[w]].rule, seen[w]) # {}
<1>1. tok[w] \in DOMAIN agent
  BY DEF TypeInv, LocalsOK, Holders
<1>2. agent[tok[w]].rule \in Rule /\ seen[w] \in Store
  BY <1>1 DEF TypeInv, TypeOK
<1> QED
  BY <1>2, ProgramAssumption

\* Where a worker that cannot go on is.
LEMMA WhereItWaits ==
  ASSUME TypeInv, GetNeverBlocks, RoomForAgents, NEW w \in Workers, ~CanStep(w)
  PROVE  \/ pc[w] \in {"new", "dead", "exit"}
         \/ pc[w] \in {"idle", "drop", "surplus", "commit"} /\ lock # Nobody
         \/ pc[w] = "alock" /\ alock[tok[w]] # Nobody
<1>1. pc[w] = "take" => mailbox[tok[w]] # << >>
  BY DEF GetNeverBlocks
<1>2. CanServe(targets[w])
  BY TargetsCanBeServed DEF Proc
<1>3. pc[w] = "eval" => Outcome(agent[tok[w]].rule, seen[w]) # {}
  BY BodiesAnswer
<1> QED
  BY <1>1, <1>2, <1>3 DEF CanStep, RoomForAgents

\* No lock is held by a thread that has died or left or waits for another agent, and nobody
\* waits in a circle: the holder of the global lock can always go on, whatever its program
\* spawns, retracts and emits, and the holder of an agent's lock can, or is giving back a
\* surplus token and waits for that holder (src/runtime_concurrent.py:101-132).
LocksComeFree ==
  RoomForAgents =>
    /\ lock # Nobody => lock \in Workers /\ CanStep(lock)
    /\ \A a \in Aid : alock[a] # Nobody =>
         /\ alock[a] \in Workers
         /\ CanStep(alock[a]) \/ (pc[alock[a]] = "surplus" /\ lock # Nobody)

LEMMA LocksFree == TypeInv /\ WaitInv => LocksComeFree
<1> SUFFICES ASSUME TypeInv, WaitInv, RoomForAgents
             PROVE  /\ lock # Nobody => lock \in Workers /\ CanStep(lock)
                    /\ \A a \in Aid : alock[a] # Nobody =>
                         /\ alock[a] \in Workers
                         /\ CanStep(alock[a]) \/ (pc[alock[a]] = "surplus" /\ lock # Nobody)
  BY DEF LocksComeFree
<1>1. ASSUME NEW w \in Workers, pc[w] \in Committing \cup {"check", "take"} PROVE CanStep(w)
  <2>1. GetNeverBlocks
    BY DEF WaitInv
  <2> QED
    BY <1>1, <2>1, WhereItWaits DEF Committing, Delivering, Settling
<1>2. ASSUME lock # Nobody PROVE lock \in Workers /\ CanStep(lock)
  BY <1>1, <1>2 DEF TypeInv, TypeOK, WaitInv, LockInv
<1>3. ASSUME NEW a \in Aid, alock[a] # Nobody
      PROVE  /\ alock[a] \in Workers
             /\ CanStep(alock[a]) \/ (pc[alock[a]] = "surplus" /\ lock # Nobody)
  <2>1. alock[a] \in Workers /\ pc[alock[a]] \in InAgent
    BY <1>3 DEF TypeInv, TypeOK, WaitInv, AgentLockInv
  <2>2. CASE pc[alock[a]] = "surplus"
    BY <2>1, <2>2 DEF CanStep
  <2>3. CASE pc[alock[a]] \in {"check", "take"}
    BY <1>1, <2>1, <2>3
  <2> QED
    BY <2>1, <2>2, <2>3 DEF InAgent
<1> QED
  BY <1>2, <1>3

THEOREM NoCircularWait == Spec => []LocksComeFree
BY LocksFree, WaitInvAlways, TypeInvAlways, PTL

\* The run stands still: neither the caller nor any worker can go on.
StandsStill == RoomForAgents /\ ~MainCanStep /\ \A w \in Workers : ~CanStep(w)

\* There are two ways for a run to stand still and no other: it is over, run() having
\* returned and every worker having left its loop, or a body raised in every single worker,
\* and run() waits for ever (src/runtime_concurrent.py:85-132, :139).
StandsStillForAReason ==
  StandsStill => \/ pc[Main] = "returned" /\ \A w \in Workers : pc[w] = "exit"
                 \/ pc[Main] = "wait" /\ \A w \in Workers : pc[w] = "dead"

THEOREM NoDeadlock == Spec => []StandsStillForAReason
<1>1. CountInv /\ DoneInv /\ WaitInv => StandsStillForAReason
  <2> SUFFICES ASSUME CountInv, DoneInv, WaitInv, StandsStill
               PROVE  \/ pc[Main] = "returned" /\ \A w \in Workers : pc[w] = "exit"
                      \/ pc[Main] = "wait" /\ \A w \in Workers : pc[w] = "dead"
    BY DEF StandsStillForAReason
  <2> USE DEF CountInv
  <2>1. LocksComeFree /\ RoomForAgents
    BY LocksFree DEF StandsStill
  <2>2. lock = Nobody
    BY <2>1 DEF LocksComeFree, StandsStill
  <2>3. \A a \in Aid : alock[a] = Nobody
    BY <2>1, <2>2 DEF LocksComeFree, StandsStill
  <2>4. \A w \in Workers : pc[w] \in {"new", "dead", "exit"}
    <3> SUFFICES ASSUME NEW w \in Workers PROVE pc[w] \in {"new", "dead", "exit"}
      OBVIOUS
    <3>1. pc[w] = "alock" => alock[tok[w]] = Nobody
      BY <2>3 DEF TypeInv, TypeOK, LocalsOK, Holders
    <3>2. ~CanStep(w) /\ GetNeverBlocks
      BY DEF StandsStill, WaitInv
    <3> QED
      BY <2>1, <2>2, <3>1, <3>2, WhereItWaits
  <2>5. pc[Main] \in {"wait", "returned"} /\ (pc[Main] = "wait" => ~done)
    <3>1. CanServe(targets[Main]) /\ pc[Main] \in MainLabel
      BY TargetsCanBeServed DEF TypeInv, TypeOK, Proc
    <3> QED
      BY <3>1 DEF StandsStill, MainCanStep, MainLabel
  <2>6. \A w \in Workers : pc[w] \in {"dead", "exit"}
    BY <2>4, <2>5 DEF WaitInv
  <2>7. ASSUME NEW w \in Workers, pc[w] = "dead" PROVE ~done
    <3>1. w \in Holders
      BY <2>7 DEF Holders
    <3> QED
      BY <3>1, HolderKeepsRunning
  <2>8. CASE done
    BY <2>5, <2>6, <2>7, <2>8
  <2>9. CASE ~done
    BY <2>5, <2>6, <2>9 DEF DoneInv, WaitInv
  <2> QED
    BY <2>8, <2>9
<1> QED
  BY <1>1, WaitInvAlways, PTL

-----------------------------------------------------------------------------
(* Rules that nothing can wake.                                            *)

\* Every rule that accepts one of these messages is in R.
Wakes(messages, R) == \A k \in DOMAIN messages : \A i \in Rule : Accepts(i, messages[k]) => i \in R

\* R has every rule a bootstrap message wakes, and every rule an emit of one of its own wakes.
ClosedUnderEmits(R) ==
  /\ Wakes(Bootstrap, R)
  /\ \A i \in R \cap Rule, s \in Store : \A res \in Outcome(i, s) : Wakes(res.emits, R)

\* The rules a run can come to: the smallest such set.
Alive == {i \in Rule : \A R \in SUBSET Rule : ClosedUnderEmits(R) => i \in R}

LEMMA AliveIsClosed == Alive \subseteq Rule /\ ClosedUnderEmits(Alive)
<1>1. Wakes(Bootstrap, Alive)
  BY DEF Wakes, Alive, ClosedUnderEmits
<1>2. ASSUME NEW i \in Alive \cap Rule, NEW s \in Store, NEW res \in Outcome(i, s)
      PROVE  Wakes(res.emits, Alive)
  <2> SUFFICES ASSUME NEW k \in DOMAIN res.emits, NEW j \in Rule, Accepts(j, res.emits[k]),
                      NEW R \in SUBSET Rule, ClosedUnderEmits(R)
               PROVE  j \in R
    BY DEF Wakes, Alive
  <2>1. i \in R
    BY DEF Alive
  <2>2. Wakes(res.emits, R)
    BY <2>1 DEF ClosedUnderEmits
  <2> QED
    BY <2>2 DEF Wakes
<1> QED
  BY <1>1, <1>2 DEF ClosedUnderEmits, Alive

LEMMA WakesTail ==
  ASSUME NEW messages \in Seq(Msg), messages # << >>, NEW R, Wakes(messages, R)
  PROVE  /\ Wakes(Tail(messages), R)
         /\ \A i \in Rule : Accepts(i, Head(messages)) => i \in R
<1>1. /\ Len(messages) \in Nat \ {0} /\ DOMAIN messages = 1 .. Len(messages)
      /\ Head(messages) = messages[1] /\ DOMAIN Tail(messages) = 1 .. Len(messages) - 1
      /\ \A k \in 1 .. Len(messages) - 1 : Tail(messages)[k] = messages[k + 1]
  BY HeadTailProperties, LenProperties, EmptySeq
<1>2. 1 \in DOMAIN messages /\ \A k \in DOMAIN Tail(messages) : k + 1 \in DOMAIN messages
  BY <1>1
<1> QED
  BY <1>1, <1>2 DEF Wakes

\* What an agent is does not change, whatever happens to it.
LEMMA AgentsStay ==
  ASSUME TypeInv, [Next]_vars
  PROVE  \A a \in DOMAIN agent : a \in DOMAIN agent' /\ agent'[a] = agent[a]
<1>1. ASSUME NEW w \in Workers, SpawnOne(w)
      PROVE  \A a \in DOMAIN agent : a \in DOMAIN agent' /\ agent'[a] = agent[a]
  <2>1. ASSUME NEW i, NEW sp, NewAgent(sp, i)
        PROVE  \A a \in DOMAIN agent : a \in DOMAIN agent' /\ agent'[a] = agent[a]
    <3>1. nextAid \notin DOMAIN agent
      BY DEF TypeInv, TypeOK
    <3> QED
      BY <2>1, <3>1 DEF NewAgent
  <2> QED
    BY <1>1, <2>1 DEF SpawnOne, registry
<1>2. ASSUME NEW p \in Proc, Deliver(p) PROVE agent' = agent
  BY <1>2 DEF Deliver, Route, Put, PutToken, CountToken, Routed, registry
<1>3. CASE Booted \/ AllStarted \/ Return \/ UNCHANGED vars
  BY <1>3 DEF Booted, AllStarted, Return, vars, shared, registry
<1>4. ASSUME NEW w \in Workers, \/ StartThread(w) \/ LoopTest(w) \/ Recheck(w) \/ GetToken(w)
                                \/ GetTimeout(w) \/ Idle(w) \/ Lookup(w) \/ DropDeadToken(w)
      PROVE  agent' = agent
  BY <1>4 DEF StartThread, LoopTest, Recheck, GetToken, GetTimeout, Idle, Lookup, DropDeadToken,
              shared, registry
<1>5. ASSUME NEW w \in Workers, \/ LockAgent(w) \/ CheckMailbox(w) \/ DropSurplusToken(w)
                                \/ TakeMessage(w) \/ CopyStore(w) \/ EvalBody(w) \/ WriteStore(w)
      PROVE  agent' = agent
  BY <1>5 DEF LockAgent, CheckMailbox, DropSurplusToken, TakeMessage, CopyStore, EvalBody,
              WriteStore, shared, registry
<1>6. ASSUME NEW w \in Workers, LockGlobal(w) \/ RetractAll(w) \/ Finishing(w) PROVE agent' = agent
  BY <1>6 DEF LockGlobal, RetractAll, Finishing, GiveBack, LookAgain, Requeue, Recount, Settle,
              shared, registry
<1> QED
  BY <1>1, <1>2, <1>3, <1>4, <1>5, <1>6 DEF Next, MainStep, WorkerStep, Finishing, Over, Proc

MidBody ==
  {"copy", "eval", "write", "commit", "spawn", "emit", "dead"} \cup Delivering \cup Settling

\* Messages are only ever for the rules of R, wherever they are on their way.
AliveInv(R) ==
  /\ \A p \in Proc : Wakes(out[p].emits, R)
  /\ \A p \in Proc : \A a \in targets[p] : agent[a].rule \in R
  /\ \A a \in DOMAIN agent : mailbox[a] # << >> => agent[a].rule \in R
  /\ \A w \in Workers : pc[w] \in MidBody => agent[tok[w]].rule \in R

LEMMA AliveOutStep ==
  ASSUME TypeInv, NEW R, ClosedUnderEmits(R), AliveInv(R), [Next]_vars
  PROVE  \A p \in Proc : Wakes(out'[p].emits, R)
<1> USE ProcAssumption DEF TypeInv, TypeOK, Goto, Proc
<1>0. Wakes(NoResult.emits, R)
  BY DEF Wakes, NoResult
<1>1. ASSUME NEW p \in Proc, Routed(p) PROVE \A q \in Proc : Wakes(out'[q].emits, R)
  <2>1. out[p] \in Result /\ out[p].emits # << >>
    BY <1>1 DEF Routed, LocalsOK, Delivering
  <2>2. Wakes(Tail(out[p].emits), R)
    BY <2>1, ResultRest, WakesTail DEF AliveInv
  <2>3. [out[p] EXCEPT !.emits = Tail(@)].emits = Tail(out[p].emits)
    BY <2>1 DEF Result
  <2>4. out' = [out EXCEPT ![p] = [out[p] EXCEPT !.emits = Tail(@)]]
    BY <1>1 DEF Routed
  <2> QED
    BY <2>2, <2>3, <2>4 DEF AliveInv
<1>2. ASSUME NEW w \in Workers, SpawnOne(w) PROVE \A q \in Proc : Wakes(out'[q].emits, R)
  <2>1. [out[w] EXCEPT !.spawned = Tail(@)].emits = out[w].emits
    BY DEF Result
  <2>2. out' = [out EXCEPT ![w] = [out[w] EXCEPT !.spawned = Tail(@)]]
    BY <1>2 DEF SpawnOne
  <2> QED
    BY <2>1, <2>2 DEF AliveInv
<1>3. ASSUME NEW w \in Workers, EvalBody(w) PROVE \A q \in Proc : Wakes(out'[q].emits, R)
  <2>1. tok[w] \in DOMAIN agent /\ pc[w] = "eval"
    BY <1>3 DEF EvalBody, LocalsOK, Holders
  <2>2. agent[tok[w]].rule \in R \cap Rule
    BY <2>1 DEF AliveInv, MidBody, Delivering, Settling
  <2>3. PICK r \in Outcome(agent[tok[w]].rule, seen[w]) : out' = [out EXCEPT ![w] = r]
    BY <1>3 DEF EvalBody
  <2>4. Wakes(r.emits, R)
    BY <2>2 DEF ClosedUnderEmits
  <2> QED
    BY <2>3, <2>4 DEF AliveInv
<1>4. ASSUME NEW w \in Workers, DropDeadToken(w) \/ DropSurplusToken(w) \/ Finishing(w)
      PROVE  \A q \in Proc : Wakes(out'[q].emits, R)
  BY <1>0, <1>4 DEF DropDeadToken, DropSurplusToken, Finishing, GiveBack, LookAgain, Requeue,
                    Recount, Settle, Forget, AliveInv
<1>5. ASSUME out' = out PROVE \A q \in Proc : Wakes(out'[q].emits, R)
  BY <1>5 DEF AliveInv
<1>6. ASSUME NEW p \in Proc, Route(p) \/ Put(p) \/ PutToken(p) \/ CountToken(p)
      PROVE  out' = out
  BY <1>6 DEF Route, Put, PutToken, CountToken
<1>7. CASE Booted \/ AllStarted \/ Return \/ UNCHANGED vars
  BY <1>5, <1>7 DEF Booted, AllStarted, Return, vars, local
<1>8. ASSUME NEW w \in Workers, \/ StartThread(w) \/ LoopTest(w) \/ Recheck(w) \/ GetToken(w)
                                \/ GetTimeout(w) \/ Idle(w) \/ Lookup(w) \/ LockAgent(w)
                                \/ CheckMailbox(w)
      PROVE  out' = out
  BY <1>8 DEF StartThread, LoopTest, Recheck, GetToken, GetTimeout, Idle, Lookup, LockAgent,
              CheckMailbox
<1>9. ASSUME NEW w \in Workers, \/ TakeMessage(w) \/ CopyStore(w) \/ WriteStore(w)
                                \/ LockGlobal(w) \/ RetractAll(w)
      PROVE  out' = out
  BY <1>9 DEF TakeMessage, CopyStore, WriteStore, LockGlobal, RetractAll
<1> QED
  BY <1>1, <1>2, <1>3, <1>4, <1>5, <1>6, <1>7, <1>8, <1>9 DEF Next, MainStep, WorkerStep,
                                                              Deliver, Finishing, Over

LEMMA AliveTargetsStep ==
  ASSUME TypeInv, NEW R, AliveInv(R), [Next]_vars
  PROVE  \A p \in Proc : \A a \in targets'[p] : agent'[a].rule \in R
<1> USE ProcAssumption DEF TypeInv, TypeOK, Goto, Proc
<1>0. \A a \in DOMAIN agent : agent'[a] = agent[a]
  BY AgentsStay
<1>1. ASSUME NEW p \in Proc, Route(p)
      PROVE  \A q \in Proc : \A a \in targets'[q] : a \in DOMAIN agent /\ agent[a].rule \in R
  <2>1. out[p].emits \in Seq(Msg) /\ out[p].emits # << >> /\ Wakes(out[p].emits, R)
    BY <1>1, ResultRest DEF Route, AliveInv
  <2>2. \A a \in Recipients(Head(out[p].emits)) : a \in DOMAIN agent /\ agent[a].rule \in R
    <3>1. \A a \in live : agent[a].rule \in Rule
      OBVIOUS
    <3> QED
      BY <2>1, <3>1, WakesTail DEF Recipients
  <2>3. targets' = [targets EXCEPT ![p] = Recipients(Head(out[p].emits))]
    BY <1>1 DEF Route
  <2> QED
    BY <2>2, <2>3 DEF AliveInv
<1>2. ASSUME NEW p \in Proc, Put(p) PROVE \A q \in Proc : targets'[q] \subseteq targets[q]
  BY <1>2 DEF Put
<1>3. ASSUME NEW p \in Proc, PutToken(p) \/ CountToken(p) \/ Routed(p)
      PROVE  targets' = targets
  BY <1>3 DEF PutToken, CountToken, Routed
<1>4. UNCHANGED vars \/ Booted \/ AllStarted \/ Return => targets' = targets
  BY DEF Booted, AllStarted, Return, vars, local
<1>5. ASSUME NEW w \in Workers, \/ StartThread(w) \/ LoopTest(w) \/ Recheck(w) \/ GetToken(w)
                                \/ GetTimeout(w) \/ Idle(w) \/ Lookup(w) \/ LockAgent(w)
                                \/ CheckMailbox(w)
      PROVE  targets' = targets
  BY <1>5 DEF StartThread, LoopTest, Recheck, GetToken, GetTimeout, Idle, Lookup, LockAgent,
              CheckMailbox
<1>6. ASSUME NEW w \in Workers, \/ TakeMessage(w) \/ CopyStore(w) \/ WriteStore(w) \/ LockGlobal(w)
                                \/ RetractAll(w) \/ EvalBody(w) \/ SpawnOne(w)
      PROVE  targets' = targets
  BY <1>6 DEF TakeMessage, CopyStore, WriteStore, LockGlobal, RetractAll, EvalBody, SpawnOne
<1>7. ASSUME NEW w \in Workers, DropDeadToken(w) \/ DropSurplusToken(w) \/ Finishing(w)
      PROVE  targets' = targets
  BY <1>7 DEF DropDeadToken, DropSurplusToken, Finishing, GiveBack, LookAgain, Requeue, Recount,
              Settle
<1>8. ASSUME \A q \in Proc : targets'[q] \subseteq targets[q]
      PROVE  \A q \in Proc : \A a \in targets'[q] : a \in DOMAIN agent /\ agent[a].rule \in R
  BY <1>8 DEF AliveInv
<1>9. targets' = targets => \A q \in Proc : targets'[q] \subseteq targets[q]
  OBVIOUS
<1>10. \A q \in Proc : \A a \in targets'[q] : a \in DOMAIN agent /\ agent[a].rule \in R
  <2>1. CASE \E p \in Proc : Route(p) \/ Put(p)
    BY <1>1, <1>2, <1>8, <2>1
  <2>2. CASE targets' = targets
    BY <1>8, <1>9, <2>2
  <2>3. (\E p \in Proc : Route(p) \/ Put(p)) \/ targets' = targets
    BY <1>3, <1>4, <1>5, <1>6, <1>7 DEF Next, MainStep, WorkerStep, Deliver, Finishing, Over
  <2> QED
    BY <2>1, <2>2, <2>3
<1> QED
  BY <1>0, <1>10

LEMMA AliveMailboxStep ==
  ASSUME TypeInv, NEW R, AliveInv(R), CoverInv, [Next]_vars
  PROVE  \A a \in DOMAIN agent' : mailbox'[a] # << >> => agent'[a].rule \in R
<1> USE ProcAssumption DEF TypeInv, TypeOK, Goto, Proc
<1>0. \A a \in DOMAIN agent : agent'[a] = agent[a]
  BY AgentsStay
<1>1. CASE agent' = agent /\ \A a \in DOMAIN agent : mailbox'[a] # << >> => mailbox[a] # << >>
  BY <1>1 DEF AliveInv
<1>2. ASSUME NEW p \in Proc, Put(p)
      PROVE  \A a \in DOMAIN agent' : mailbox'[a] # << >> => agent'[a].rule \in R
  <2>1. PICK b \in targets[p] : mailbox' = [mailbox EXCEPT ![b] = Append(@, Head(out[p].emits))]
    BY <1>2 DEF Put
  <2>2. agent[b].rule \in R /\ agent' = agent
    BY <1>2 DEF AliveInv, Put, registry
  <2> QED
    BY <2>1, <2>2 DEF AliveInv
<1>3. ASSUME NEW w \in Workers, SpawnOne(w)
      PROVE  \A a \in DOMAIN agent' : mailbox'[a] # << >> => agent'[a].rule \in R
  <2>1. mailbox' = mailbox
    BY <1>3 DEF SpawnOne
  <2>2. \A a \in DOMAIN agent' : a \in DOMAIN agent \/ a \in Aid \ DOMAIN agent
    <3>1. ASSUME NEW sp, NEW i, NewAgent(sp, i)
          PROVE  \A a \in DOMAIN agent' : a \in DOMAIN agent \/ a \in Aid \ DOMAIN agent
      BY <3>1 DEF NewAgent
    <3> QED
      BY <1>3, <3>1 DEF SpawnOne, registry
  <2>3. \A a \in Aid \ DOMAIN agent : mailbox[a] = << >>
    BY DEF CoverInv
  <2> QED
    BY <1>0, <2>1, <2>2, <2>3 DEF AliveInv
<1>4. ASSUME NEW w \in Workers, TakeMessage(w)
      PROVE  agent' = agent /\ \A a \in DOMAIN agent : mailbox'[a] # << >> => mailbox[a] # << >>
  BY <1>4 DEF TakeMessage, registry
<1>5. ASSUME NEW p \in Proc, Route(p) \/ PutToken(p) \/ CountToken(p) \/ Routed(p)
      PROVE  mailbox' = mailbox /\ agent' = agent
  BY <1>5 DEF Route, PutToken, CountToken, Routed, registry
<1>6. Booted \/ AllStarted \/ Return \/ UNCHANGED vars => mailbox' = mailbox /\ agent' = agent
  BY DEF Booted, AllStarted, Return, vars, shared, registry
<1>7. ASSUME NEW w \in Workers, \/ StartThread(w) \/ LoopTest(w) \/ Recheck(w) \/ GetToken(w)
                                \/ GetTimeout(w) \/ Idle(w) \/ Lookup(w) \/ LockAgent(w)
                                \/ CheckMailbox(w)
      PROVE  mailbox' = mailbox /\ agent' = agent
  BY <1>7 DEF StartThread, LoopTest, Recheck, GetToken, GetTimeout, Idle, Lookup, LockAgent,
              CheckMailbox,
              shared, registry
<1>8. ASSUME NEW w \in Workers, \/ CopyStore(w) \/ WriteStore(w) \/ LockGlobal(w)
                                \/ RetractAll(w) \/ EvalBody(w)
      PROVE  mailbox' = mailbox /\ agent' = agent
  BY <1>8 DEF CopyStore, WriteStore, LockGlobal, RetractAll, EvalBody, shared, registry
<1>9. ASSUME NEW w \in Workers, DropDeadToken(w) \/ DropSurplusToken(w) \/ Finishing(w)
      PROVE  mailbox' = mailbox /\ agent' = agent
  BY <1>9 DEF DropDeadToken, DropSurplusToken, Finishing, GiveBack, LookAgain, Requeue, Recount,
              Settle, shared, registry
<1> QED
  BY <1>1, <1>2, <1>3, <1>4, <1>5, <1>6, <1>7, <1>8, <1>9 DEF Next, MainStep, WorkerStep,
                                                              Deliver, Finishing, Over

LEMMA AliveWorkerStep ==
  ASSUME TypeInv, NEW R, AliveInv(R), GetNeverBlocks, [Next]_vars
  PROVE  \A w \in Workers : pc'[w] \in MidBody => agent'[tok'[w]].rule \in R
<1> USE ProcAssumption DEF TypeInv, TypeOK, Goto, Proc
<1>0. \A w \in Workers : pc[w] \in MidBody \cup {"take"} => /\ tok[w] \in DOMAIN agent
                                                          /\ agent'[tok[w]] = agent[tok[w]]
  BY AgentsStay DEF LocalsOK, Holders, MidBody, Delivering, Settling
<1>1. ASSUME NEW w \in Workers, pc'[w] \in MidBody, pc[w] \in MidBody, tok'[w] = tok[w]
      PROVE  agent'[tok'[w]].rule \in R
  BY <1>0, <1>1 DEF AliveInv
<1>2. ASSUME NEW w \in Workers, TakeMessage(w) PROVE agent'[tok'[w]].rule \in R
  <2>1. pc[w] = "take" /\ tok' = tok
    BY <1>2 DEF TakeMessage
  <2>2. mailbox[tok[w]] # << >>
    BY <2>1 DEF GetNeverBlocks
  <2> QED
    BY <1>0, <2>1, <2>2 DEF AliveInv
<1>3. ASSUME NEW w \in Workers, WorkerStep(w), pc'[w] \in MidBody
      PROVE  TakeMessage(w) \/ (pc[w] \in MidBody /\ tok'[w] = tok[w])
  <2>1. CASE \/ LoopTest(w) \/ Recheck(w) \/ GetToken(w) \/ GetTimeout(w) \/ Idle(w)
             \/ Lookup(w) \/ DropDeadToken(w)
    <3>1. pc'[w] \in {"recheck", "get", "exit", "lookup", "idle", "loop", "alock", "drop"}
      BY <2>1 DEF LoopTest, Recheck, GetToken, GetTimeout, Idle, Lookup, DropDeadToken
    <3> QED
      BY <1>3, <3>1 DEF MidBody, Delivering, Settling
  <2>2. CASE LockAgent(w) \/ CheckMailbox(w) \/ DropSurplusToken(w)
    <3>1. pc'[w] \in {"check", "surplus", "take", "loop"}
      BY <2>2 DEF LockAgent, CheckMailbox, DropSurplusToken
    <3> QED
      BY <1>3, <3>1 DEF MidBody, Delivering, Settling
  <2>3. CASE CopyStore(w) \/ EvalBody(w) \/ WriteStore(w)
    BY <2>3 DEF CopyStore, EvalBody, WriteStore, MidBody, Delivering, Settling
  <2>4. CASE LockGlobal(w) \/ SpawnOne(w) \/ RetractAll(w)
    BY <2>4 DEF LockGlobal, SpawnOne, RetractAll, MidBody, Delivering, Settling
  <2>5. CASE Deliver(w)
    BY <2>5 DEF Deliver, Route, Put, PutToken, CountToken, Routed, MidBody, Delivering, Settling
  <2>6. CASE Finishing(w)
    <3>1. CASE Settle(w)
      <4>1. pc'[w] = "loop"
        BY <3>1 DEF Settle
      <4> QED
        BY <1>3, <4>1 DEF MidBody, Delivering, Settling
    <3>2. CASE GiveBack(w) \/ LookAgain(w) \/ Requeue(w) \/ Recount(w)
      BY <3>2 DEF GiveBack, LookAgain, Requeue, Recount, MidBody, Delivering, Settling
    <3> QED
      BY <2>6, <3>1, <3>2 DEF Finishing
  <2> QED
    BY <1>3, <2>1, <2>2, <2>3, <2>4, <2>5, <2>6 DEF WorkerStep, Finishing
<1>4. ASSUME NEW w \in Workers, NEW v \in Workers, WorkerStep(v), v # w
      PROVE  pc'[w] = pc[w] /\ tok'[w] = tok[w]
  <2>1. tok'[w] = tok[w]
    <3>1. CASE \/ LoopTest(v) \/ Recheck(v) \/ GetToken(v) \/ GetTimeout(v) \/ Idle(v) \/ Lookup(v)
               \/ DropDeadToken(v) \/ LockAgent(v) \/ CheckMailbox(v) \/ DropSurplusToken(v)
      BY <1>4, <3>1 DEF LoopTest, Recheck, GetToken, GetTimeout, Idle, Lookup, DropDeadToken,
                        LockAgent, CheckMailbox, DropSurplusToken, Forget
    <3>2. CASE \/ TakeMessage(v) \/ CopyStore(v) \/ EvalBody(v) \/ WriteStore(v) \/ LockGlobal(v)
               \/ SpawnOne(v) \/ RetractAll(v)
      BY <1>4, <3>2 DEF TakeMessage, CopyStore, EvalBody, WriteStore, LockGlobal, SpawnOne,
                        RetractAll
    <3>3. CASE Deliver(v)
      BY <1>4, <3>3 DEF Deliver, Route, Put, PutToken, CountToken, Routed
    <3>4. CASE Finishing(v)
      BY <1>4, <3>4 DEF Finishing, GiveBack, LookAgain, Requeue, Recount, Settle, Forget
    <3> QED
      BY <1>4, <3>1, <3>2, <3>3, <3>4 DEF WorkerStep, Finishing
  <2> QED
    BY <1>4, <2>1, OthersStay
<1>5. ASSUME NEW w \in Workers, MainStep \/ UNCHANGED vars
      PROVE  tok'[w] = tok[w] /\ (pc'[w] \in MidBody => pc[w] \in MidBody)
  <2>1. CASE \E v \in Workers : StartThread(v)
    BY <2>1 DEF StartThread, MidBody, Delivering, Settling
  <2>2. CASE Deliver(Main) \/ Booted
    BY <2>2 DEF Deliver, Route, Put, PutToken, CountToken, Routed, Booted
  <2>3. CASE AllStarted \/ Return \/ UNCHANGED vars
    BY <2>3 DEF AllStarted, Return, vars, local
  <2> QED
    BY <1>5, <2>1, <2>2, <2>3 DEF MainStep
<1> SUFFICES ASSUME NEW w \in Workers, pc'[w] \in MidBody PROVE agent'[tok'[w]].rule \in R
  OBVIOUS
<1> QED
  BY <1>1, <1>2, <1>3, <1>4, <1>5 DEF Next, Over

\* A rule that no chain of emits from the bootstrap leads to is never run, in however many
\* copies it is spawned: its agents get no message (src/runtime_concurrent.py:71-81, :115-127;
\* the claim behind "no unreachable rule", typechecker.py:630-656).
OnlyAliveRun ==
  /\ \A a \in DOMAIN agent : mailbox[a] # << >> => agent[a].rule \in Alive
  /\ \A w \in Workers : pc[w] \in MidBody => agent[tok[w]].rule \in Alive

THEOREM DeadRulesStayIdle == Spec => []OnlyAliveRun
<1>1. Init => AliveInv(Alive)
  <2> SUFFICES ASSUME Init PROVE AliveInv(Alive)
    OBVIOUS
  <2>1. \A p \in Proc : out[p].emits = Bootstrap \/ out[p].emits = << >>
    BY DEF Init, NoResult
  <2>2. Wakes(Bootstrap, Alive) /\ Wakes(<< >>, Alive)
    BY AliveIsClosed DEF ClosedUnderEmits, Wakes
  <2>3. \A a \in DOMAIN agent : mailbox[a] = << >>
    BY AidAssumption DEF Init
  <2>4. \A w \in Workers : pc[w] = "new"
    BY ProcAssumption DEF Init, Proc
  <2>5. \A p \in Proc : targets[p] = {}
    BY DEF Init
  <2> QED
    BY <2>1, <2>2, <2>3, <2>4, <2>5 DEF AliveInv, MidBody, Delivering, Settling
<1>2. TypeInv /\ CoverInv /\ GetNeverBlocks /\ AliveInv(Alive) /\ [Next]_vars => AliveInv(Alive)'
  <2> SUFFICES ASSUME TypeInv, CoverInv, GetNeverBlocks, AliveInv(Alive), [Next]_vars
               PROVE  AliveInv(Alive)'
    OBVIOUS
  <2>1. \A p \in Proc : Wakes(out'[p].emits, Alive)
    BY AliveOutStep, AliveIsClosed
  <2>2. \A p \in Proc : \A a \in targets'[p] : agent'[a].rule \in Alive
    BY AliveTargetsStep
  <2>3. \A a \in DOMAIN agent' : mailbox'[a] # << >> => agent'[a].rule \in Alive
    BY AliveMailboxStep
  <2>4. \A w \in Workers : pc'[w] \in MidBody => agent'[tok'[w]].rule \in Alive
    BY AliveWorkerStep
  <2>5. Alive' = Alive
    BY DEF Alive, ClosedUnderEmits, Wakes, Rule, Accepts
  <2> QED
    BY <2>1, <2>2, <2>3, <2>4, <2>5 DEF AliveInv, Wakes, Rule, Accepts
<1>3. AliveInv(Alive) => OnlyAliveRun
  BY DEF AliveInv, OnlyAliveRun
<1> QED
  BY <1>1, <1>2, <1>3, TypeInvAlways, CoverAlways, GetNeverWaits, PTL DEF Spec

-----------------------------------------------------------------------------
(* When the write-back of a store is safe.                                 *)

\* While a body's store is written back, no other worker runs a body of the same agent.
OneBodyPerAgent ==
  \A v, w \in Workers :
    v # w /\ pc[v] = "write" /\ pc[w] \in {"eval", "write"} => tok[v] # tok[w]

\* What a worker computes with is what the agent's store holds.
FreshInv == \A w \in Workers : pc[w] \in {"eval", "write"} => seen[w] = store[tok[w]]

LEMMA FreshStep == TypeInv /\ OneBodyPerAgent /\ FreshInv /\ [Next]_vars => FreshInv'
<1> SUFFICES ASSUME TypeInv, OneBodyPerAgent, FreshInv, [Next]_vars PROVE FreshInv'
  OBVIOUS
<1> USE ProcAssumption DEF TypeInv, TypeOK, Goto, Proc
<1>1. ASSUME store' = store,
             \A w \in Workers : pc'[w] \in {"eval", "write"} =>
               pc[w] \in {"eval", "write"} /\ seen'[w] = seen[w] /\ tok'[w] = tok[w]
      PROVE  FreshInv'
  BY <1>1 DEF FreshInv
<1>2. ASSUME NEW p \in Proc, Deliver(p) PROVE FreshInv'
  BY <1>1, <1>2 DEF Deliver, Route, Put, PutToken, CountToken, Routed
<1>3. CASE Booted \/ AllStarted \/ Return \/ UNCHANGED vars
  BY <1>1, <1>3 DEF Booted, AllStarted, Return, vars, shared, local
<1>4. ASSUME NEW w \in Workers, \/ StartThread(w) \/ LoopTest(w) \/ Recheck(w) \/ GetToken(w)
                                \/ GetTimeout(w) \/ Idle(w) \/ Lookup(w)
      PROVE  FreshInv'
  BY <1>1, <1>4 DEF StartThread, LoopTest, Recheck, GetToken, GetTimeout, Idle, Lookup, shared
<1>5. ASSUME NEW w \in Workers, LockAgent(w) \/ CheckMailbox(w) \/ TakeMessage(w) PROVE FreshInv'
  BY <1>1, <1>5 DEF LockAgent, CheckMailbox, TakeMessage, shared
<1>6. ASSUME NEW w \in Workers, DropDeadToken(w) \/ DropSurplusToken(w) PROVE FreshInv'
  BY <1>1, <1>6 DEF DropDeadToken, DropSurplusToken, Forget
<1>11. ASSUME NEW w \in Workers, GiveBack(w) \/ LookAgain(w) \/ Requeue(w) \/ Recount(w)
       PROVE  FreshInv'
  BY <1>1, <1>11 DEF GiveBack, LookAgain, Requeue, Recount, shared
<1>12. ASSUME NEW w \in Workers, Settle(w) PROVE FreshInv'
  BY <1>1, <1>12 DEF Settle, Forget
<1>7. ASSUME NEW w \in Workers, CopyStore(w) PROVE FreshInv'
  BY <1>7 DEF CopyStore, FreshInv, shared
<1>8. ASSUME NEW w \in Workers, EvalBody(w) PROVE FreshInv'
  BY <1>1, <1>8 DEF EvalBody, AfterBody
<1>9. ASSUME NEW w \in Workers, WriteStore(w) PROVE FreshInv'
  <2>1. \A v \in Workers : v # w /\ pc[v] \in {"eval", "write"} => tok[v] # tok[w]
    BY <1>9 DEF OneBodyPerAgent, WriteStore
  <2> QED
    BY <1>9, <2>1 DEF WriteStore, FreshInv
<1>10. ASSUME NEW w \in Workers, LockGlobal(w) \/ SpawnOne(w) \/ RetractAll(w) PROVE FreshInv'
  BY <1>1, <1>10 DEF LockGlobal, SpawnOne, RetractAll
<1> QED
  BY <1>2, <1>3, <1>4, <1>5, <1>6, <1>7, <1>8, <1>9, <1>10, <1>11,
     <1>12 DEF Next, MainStep, WorkerStep,
                                                               Finishing, Over

\* A lost update takes two bodies of one agent at a time: in a run in which that never
\* happens every result is written over the store it was computed from
\* (src/runtime_concurrent.py:109-112).
THEOREM StaleWriteNeedsTwoBodies == Spec /\ []OneBodyPerAgent => []NoStaleWrite
<1>1. Init => FreshInv
  BY ProcAssumption DEF Init, FreshInv, Proc
<1>2. FreshInv => NoStaleWrite
  BY DEF FreshInv, NoStaleWrite
<1> QED
  BY <1>1, <1>2, FreshStep, TypeInvAlways, PTL DEF Spec

\* With a pool of one worker the runtime is what its header says, race-free by construction
\* (src/runtime_concurrent.py:5-6).
THEOREM OneWorkerIsRaceFree ==
  ASSUME NEW w, Workers = {w}
  PROVE  Spec => []NoStaleWrite
<1>1. TypeInv => OneBodyPerAgent
  BY DEF OneBodyPerAgent
<1> QED
  BY <1>1, StaleWriteNeedsTwoBodies, TypeInvAlways, PTL

=============================================================================
