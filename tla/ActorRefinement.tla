-------------------------- MODULE ActorRefinement ---------------------------
(***************************************************************************)
(* The pool of workers of src/runtime_concurrent.py implements the system  *)
(* of agents of Actors, for every program and any number of workers.  What *)
(* a program answers on any pool can then be shown of Actors alone, whose  *)
(* steps are fewer: that is done for the fan-out sample.                   *)
(***************************************************************************)
EXTENDS ActorMailboxProofs, Fanout

-----------------------------------------------------------------------------
\* What the refinement rests on.
RefineInv == TypeInv /\ CountInv /\ DoneInv /\ DoneMeansQuiet /\ LockInv

LEMMA RefineInvAlways == Spec => []RefineInv
<1>1. WaitInv => LockInv
  BY DEF WaitInv
<1> QED
  BY <1>1, TypeInvAlways, WaitInvAlways, DoneIsQuiet, PTL DEF RefineInv

-----------------------------------------------------------------------------
(* What an observer sees.                                                  *)

LEMMA WhatIs ==
  /\ What("new") = "idle" /\ What("loop") = "idle" /\ What("recheck") = "idle"
  /\ What("get") = "idle" /\ What("idle") = "idle"
  /\ What("lookup") = "idle" /\ What("drop") = "idle" /\ What("alock") = "idle"
  /\ What("check") = "idle" /\ What("surplus") = "idle" /\ What("take") = "idle" /\ What("exit") = "idle"
  /\ What("copy") = "body" /\ What("eval") = "body"
  /\ What("write") = "result" /\ What("commit") = "result"
  /\ What("spawn") = "spawn"
  /\ What("put") = "put" /\ What("token") = "put" /\ What("count") = "put"
  /\ What("emit") = "emit" /\ What("again") = "emit" /\ What("requeue") = "emit"
  /\ What("recount") = "emit" /\ What("settle") = "emit"
  /\ What("dead") = "dead" /\ What("returned") = "returned"
  /\ What("start") = "wait" /\ What("wait") = "wait"
BY DEF What

\* A thread that goes to another label is seen to do what it does there.
LEMMA SeenDoing ==
  ASSUME TypeInv, NEW p \in Proc, NEW label, Goto(p, label)
  PROVE  /\ doingSeen' = [doingSeen EXCEPT ![p] = What(label)]
         /\ doingSeen[p] = What(pc[p]) /\ pc'[p] = label
         /\ \A q \in Proc : q # p => pc'[q] = pc[q]
BY DEF TypeInv, TypeOK, Goto, doingSeen

\* Only a worker that handles a message is seen to be of an agent, and only one whose body
\* is over to have a result.
LEMMA SeenOfOut ==
  ASSUME TypeInv, NEW p \in Proc, NEW label, Goto(p, label)
  PROVE  /\ (\A w \in Workers : w # p => tok'[w] = tok[w])
              => IF p \in Workers
                   THEN ofSeen' = [ofSeen EXCEPT ![p] = IF What(label) = "idle" THEN 0 ELSE tok'[p]]
                   ELSE ofSeen' = ofSeen
         /\ (\A q \in Proc : q # p => out'[q] = out[q])
              => outSeen' = [outSeen EXCEPT ![p] = IF What(label) \in {"idle", "body"} THEN NoResult ELSE out'[p]]
         /\ p \in Workers => ofSeen[p] = IF What(pc[p]) = "idle" THEN 0 ELSE tok[p]
         /\ outSeen[p] = IF What(pc[p]) \in {"idle", "body"} THEN NoResult ELSE out[p]
<1>1. pc'[p] = label /\ \A q \in Proc : q # p => pc'[q] = pc[q]
  BY SeenDoing
<1>2. Workers \subseteq Proc
  BY DEF Proc
<1>3. ASSUME \A w \in Workers : w # p => tok'[w] = tok[w]
      PROVE  IF p \in Workers
               THEN ofSeen' = [ofSeen EXCEPT ![p] = IF What(label) = "idle" THEN 0 ELSE tok'[p]]
               ELSE ofSeen' = ofSeen
  BY <1>1, <1>2, <1>3 DEF ofSeen
<1>4. ASSUME \A q \in Proc : q # p => out'[q] = out[q]
      PROVE  outSeen' = [outSeen EXCEPT ![p] = IF What(label) \in {"idle", "body"} THEN NoResult ELSE out'[p]]
  BY <1>1, <1>4 DEF outSeen
<1> QED
  BY <1>2, <1>3, <1>4 DEF ofSeen, outSeen

\* A step between two labels that look the same, which changes no mailbox, registry, log
\* or targets, and the token and result of a resting worker at most, is not seen.
LEMMA Unseen ==
  ASSUME TypeInv, NEW w \in Proc, NEW label, Goto(w, label), What(label) = What(pc[w]),
         tok' = tok \/ (What(label) = "idle" /\ \A v \in Workers : v # w => tok'[v] = tok[v]),
         out' = out \/ (What(label) \in {"idle", "body"} /\ \A q \in Proc : q # w => out'[q] = out[q]),
         UNCHANGED <<registry, mailbox, log, targets>>
  PROVE  UNCHANGED Abstract!vars
<1>1. doingSeen' = doingSeen
  <2>1. \A q \in Proc : What(pc'[q]) = What(pc[q])
    BY SeenDoing
  <2> QED
    BY <2>1 DEF doingSeen
<1>2. ofSeen' = ofSeen
  BY SeenDoing DEF ofSeen, Proc
<1>3. outSeen' = outSeen
  BY SeenDoing DEF outSeen
<1> QED
  BY <1>1, <1>2, <1>3 DEF Abstract!vars, Abstract!registry, registry

-----------------------------------------------------------------------------
(* Every step of the pool is a step of the agents, or is not seen.         *)

LEMMA DeliverySteps ==
  ASSUME RefineInv, NEW p \in Proc, Deliver(p)
  PROVE  Abstract!Next \/ UNCHANGED Abstract!vars
<1>1. TypeInv /\ Workers \cup {Main} = Proc
  BY DEF RefineInv, Proc
<1>7. CASE PutToken(p) \/ CountToken(p)
  <2>1. PICK label \in {"count", "put"} : Goto(p, label)
    BY <1>7 DEF PutToken, CountToken
  <2>2. /\ pc[p] \in {"token", "count"}
        /\ UNCHANGED <<registry, mailbox, log, tok, out, targets>>
    BY <1>7 DEF PutToken, CountToken, registry
  <2>3. What(label) = What(pc[p])
    BY <2>1, <2>2, WhatIs
  <2> QED
    BY <1>1, <2>1, <2>2, <2>3, Unseen
<1>8. ASSUME Route(p) \/ Put(p) \/ Routed(p) PROVE pc[p] \in {"emit", "put"} /\ What(pc[p]) = pc[p]
  BY <1>8, WhatIs DEF Route, Put, Routed
<1>2. SUFFICES ASSUME Route(p) \/ Put(p) \/ Routed(p), pc[p] \in {"emit", "put"}, What(pc[p]) = pc[p]
               PROVE  Abstract!Next
  BY <1>7, <1>8 DEF Deliver
<1>3. doingSeen[p] = pc[p] /\ outSeen[p] = out[p]
  BY <1>1, <1>2 DEF doingSeen, outSeen
<1>4. CASE Route(p)
  <2>1. /\ pc[p] = "emit" /\ Goto(p, "put") /\ tok' = tok /\ out' = out
        /\ out[p].emits # << >>
        /\ targets' = [targets EXCEPT ![p] = Recipients(Head(out[p].emits))]
        /\ log' = IF p = Main THEN log ELSE Append(log, Head(out[p].emits))
        /\ UNCHANGED <<registry, mailbox>>
    BY <1>4 DEF Route
  <2>2. doingSeen' = [doingSeen EXCEPT ![p] = "put"] /\ ofSeen' = ofSeen /\ outSeen' = outSeen
    <3>1. \A q \in Proc : What(pc'[q]) \in {"idle", "body"} <=> What(pc[q]) \in {"idle", "body"}
      BY <1>1, <1>2, <2>1, SeenDoing, WhatIs
    <3>2. \A q \in Proc : What(pc'[q]) = "idle" <=> What(pc[q]) = "idle"
      BY <1>1, <1>2, <2>1, SeenDoing, WhatIs
    <3>3. doingSeen' = [doingSeen EXCEPT ![p] = "put"]
      BY <1>1, <2>1, SeenDoing, WhatIs
    <3> QED
      BY <1>1, <2>1, <3>1, <3>2, <3>3 DEF ofSeen, outSeen
  <2>3. Abstract!Route(p)
    BY <1>3, <2>1, <2>2 DEF Abstract!Route, Abstract!Becomes, Abstract!Recipients, Recipients,
                            Abstract!registry, registry, Accepts, Abstract!Accepts
  <2> QED
    BY <1>1, <2>3 DEF Abstract!Next, Abstract!Step
<1>5. CASE Put(p)
  <2>1. PICK a \in targets[p] :
          /\ pc[p] = "put"
          /\ mailbox' = [mailbox EXCEPT ![a] = Append(@, Head(out[p].emits))]
          /\ targets' = [targets EXCEPT ![p] = @ \ {a}]
          /\ Goto(p, "token") /\ UNCHANGED <<registry, log, tok, out>>
    BY <1>5 DEF Put
  <2>2. UNCHANGED <<registry, log, doingSeen, ofSeen, outSeen>>
    <3>1. \A q \in Proc : What(pc'[q]) = What(pc[q])
      BY <1>1, <2>1, SeenDoing, WhatIs
    <3> QED
      BY <1>1, <2>1, <3>1 DEF doingSeen, ofSeen, outSeen
  <2>3. Abstract!Put(p)
    BY <1>3, <2>1, <2>2 DEF Abstract!Put, Abstract!registry, registry
  <2> QED
    BY <1>1, <2>3 DEF Abstract!Next, Abstract!Step
<1>6. CASE Routed(p)
  <2>1. /\ pc[p] = "put" /\ Goto(p, "emit") /\ tok' = tok
        /\ targets[p] = {} /\ out' = [out EXCEPT ![p].emits = Tail(@)]
        /\ UNCHANGED <<registry, mailbox, log, targets>>
    BY <1>6 DEF Routed
  <2>2. out \in [Proc -> Result]
    BY <1>1 DEF TypeInv, TypeOK
  <2>3. doingSeen' = [doingSeen EXCEPT ![p] = "emit"] /\ ofSeen' = ofSeen
    <3>1. \A q \in Proc : What(pc'[q]) = "idle" <=> What(pc[q]) = "idle"
      BY <1>1, <1>2, <2>1, SeenDoing, WhatIs
    <3>2. doingSeen' = [doingSeen EXCEPT ![p] = "emit"]
      BY <1>1, <2>1, SeenDoing, WhatIs
    <3> QED
      BY <1>1, <2>1, <3>1, <3>2 DEF ofSeen
  <2>4. outSeen' = [outSeen EXCEPT ![p].emits = Tail(@)]
    <3>1. outSeen' = [outSeen EXCEPT ![p] = out'[p]]
      <4>1. What("emit") \notin {"idle", "body"} /\ \A q \in Proc : q # p => out'[q] = out[q]
        BY <2>1, <2>2, WhatIs
      <4> QED
        BY <1>1, <2>1, <4>1, SeenOfOut
    <3>2. out'[p] = [out[p] EXCEPT !.emits = Tail(@)]
      BY <2>1, <2>2
    <3> QED
      BY <1>3, <3>1, <3>2
  <2>5. Abstract!Routed(p)
    BY <1>3, <2>1, <2>3, <2>4 DEF Abstract!Routed, Abstract!Becomes, Abstract!registry, registry
  <2> QED
    BY <1>1, <2>5 DEF Abstract!Next, Abstract!Step
<1> QED
  BY <1>2, <1>4, <1>5, <1>6

LEMMA CallerSteps ==
  ASSUME RefineInv, Booted \/ AllStarted \/ Return
  PROVE  Abstract!Next \/ UNCHANGED Abstract!vars
<1>1. TypeInv /\ Main \in Proc /\ Main \notin Workers /\ Workers \cup {Main} = Proc
  BY ProcAssumption DEF RefineInv, Proc
<1>2. doingSeen[Main] = What(pc[Main]) /\ (pc[Main] \in {"emit", "wait"} => outSeen[Main] = out[Main] /\ doingSeen[Main] = pc[Main])
  BY <1>1, WhatIs DEF doingSeen, outSeen
<1>3. ASSUME NEW label \in {"start", "wait", "returned"}, Goto(Main, label), pc[Main] \in {"emit", "start", "wait"}, tok' = tok, out' = out
      PROVE  /\ doingSeen' = [doingSeen EXCEPT ![Main] = What(label)]
             /\ ofSeen' = ofSeen /\ outSeen' = outSeen
  <2>1. \A q \in Proc : What(pc'[q]) \in {"idle", "body"} <=> What(pc[q]) \in {"idle", "body"}
    BY <1>1, <1>3, SeenDoing, WhatIs
  <2>2. \A w \in Workers : pc'[w] = pc[w]
    BY <1>1, <1>3, SeenDoing
  <2>3. doingSeen' = [doingSeen EXCEPT ![Main] = What(label)]
    BY <1>1, <1>3, SeenDoing
  <2> QED
    BY <1>3, <2>1, <2>2, <2>3 DEF ofSeen, outSeen
<1>4. CASE Booted
  <2>1. /\ pc[Main] = "emit" /\ out[Main].emits = << >> /\ Goto(Main, "start")
        /\ UNCHANGED <<registry, mailbox, log, tok, out, targets>>
    BY <1>4 DEF Booted
  <2>2. doingSeen' = [doingSeen EXCEPT ![Main] = "wait"] /\ ofSeen' = ofSeen /\ outSeen' = outSeen
    BY <1>3, <2>1, WhatIs
  <2>3. Abstract!Booted
    BY <1>2, <2>1, <2>2 DEF Abstract!Booted, Abstract!Becomes, Abstract!registry, registry
  <2> QED
    BY <2>3 DEF Abstract!Next
<1>5. CASE AllStarted
  <2>1. /\ pc[Main] = "start" /\ Goto(Main, "wait")
        /\ UNCHANGED <<registry, mailbox, log, tok, out, targets>>
    BY <1>5 DEF AllStarted, shared, registry
  <2>2. doingSeen' = [doingSeen EXCEPT ![Main] = "wait"] /\ ofSeen' = ofSeen /\ outSeen' = outSeen
    BY <1>3, <2>1, WhatIs
  <2>3. doingSeen' = doingSeen
    BY <1>2, <2>1, <2>2, WhatIs DEF doingSeen
  <2> QED
    BY <2>1, <2>2, <2>3 DEF Abstract!vars, Abstract!registry, registry
<1>6. CASE Return
  <2>1. /\ pc[Main] = "wait" /\ done /\ Goto(Main, "returned")
        /\ UNCHANGED <<registry, mailbox, log, tok, out, targets>>
    BY <1>6 DEF Return, shared, registry
  <2>2. doingSeen' = [doingSeen EXCEPT ![Main] = "returned"] /\ ofSeen' = ofSeen /\ outSeen' = outSeen
    BY <1>3, <2>1, WhatIs
  <2>3. Holders = {} /\ \A a \in live : mailbox[a] = << >>
    BY <2>1 DEF RefineInv, DoneMeansQuiet
  <2>4. \A w \in Workers : doingSeen[w] = "idle"
    <3>1. \A w \in Workers : pc[w] \in Resting
      BY <2>1, DoneQuiet DEF RefineInv
    <3> QED
      BY <1>1, <3>1, WhatIs DEF doingSeen, Resting
  <2>5. Abstract!Return
    BY <1>2, <2>1, <2>2, <2>3, <2>4 DEF Abstract!Return, Abstract!Becomes, Abstract!registry, registry
  <2> QED
    BY <2>5 DEF Abstract!Next
<1> QED
  BY <1>4, <1>5, <1>6

LEMMA HiddenSteps ==
  ASSUME TypeInv, NEW w \in Workers,
         \/ StartThread(w) \/ LoopTest(w) \/ Recheck(w) \/ GetToken(w) \/ GetTimeout(w) \/ Idle(w)
         \/ Lookup(w) \/ DropDeadToken(w) \/ LockAgent(w) \/ CheckMailbox(w) \/ DropSurplusToken(w)
         \/ CopyStore(w) \/ WriteStore(w)
         \/ GiveBack(w) \/ LookAgain(w) \/ Requeue(w) \/ Recount(w)
  PROVE  UNCHANGED Abstract!vars
<1> USE DEF registry, shared
<1>1. w \in Proc /\ tok \in [Workers -> Int] /\ out \in [Proc -> Result]
  BY DEF Proc, TypeInv, TypeOK
<1>2. ASSUME NEW from, NEW label, pc[w] = from, Goto(w, label), What(from) = What(label),
             \/ tok' = tok /\ out' = out
             \/ What(label) = "idle" /\ (Forget(w) \/ \E a : tok' = [tok EXCEPT ![w] = a] /\ out' = out),
             UNCHANGED <<registry, mailbox, log, targets>>
      PROVE  UNCHANGED Abstract!vars
  <2>1. tok' = tok \/ (What(label) = "idle" /\ \A v \in Workers : v # w => tok'[v] = tok[v])
    BY <1>1, <1>2 DEF Forget
  <2>2. out' = out \/ (What(label) \in {"idle", "body"} /\ \A q \in Proc : q # w => out'[q] = out[q])
    BY <1>1, <1>2 DEF Forget
  <2> HIDE DEF registry, shared
  <2> QED
    BY <1>1, <1>2, <2>1, <2>2, Unseen
<1>3. CASE StartThread(w)
  BY <1>2, <1>3, WhatIs DEF StartThread
<1>4. CASE LoopTest(w)
  <2>1. PICK label \in {"recheck", "get"} : Goto(w, label)
    BY <1>4 DEF LoopTest
  <2> QED
    BY <1>2, <1>4, <2>1, WhatIs DEF LoopTest
<1>15. CASE Recheck(w)
  <2>1. PICK label \in {"get", "exit"} : Goto(w, label)
    BY <1>15 DEF Recheck
  <2> QED
    BY <1>2, <1>15, <2>1, WhatIs DEF Recheck
<1>5. CASE GetToken(w)
  BY <1>2, <1>5, WhatIs DEF GetToken
<1>6. CASE GetTimeout(w)
  BY <1>2, <1>6, WhatIs DEF GetTimeout
<1>7. CASE Idle(w)
  <2>1. PICK label \in {"loop", "exit"} : Goto(w, label)
    BY <1>7 DEF Idle
  <2> QED
    BY <1>2, <1>7, <2>1, WhatIs DEF Idle
<1>8. CASE Lookup(w)
  <2>1. PICK label \in {"alock", "drop"} : Goto(w, label)
    BY <1>8 DEF Lookup
  <2> QED
    BY <1>2, <1>8, <2>1, WhatIs DEF Lookup
<1>9. CASE DropDeadToken(w)
  BY <1>2, <1>9, WhatIs DEF DropDeadToken
<1>10. CASE LockAgent(w)
  BY <1>2, <1>10, WhatIs DEF LockAgent
<1>11. CASE CheckMailbox(w)
  <2>1. PICK label \in {"surplus", "take"} : Goto(w, label)
    BY <1>11 DEF CheckMailbox
  <2> QED
    BY <1>2, <1>11, <2>1, WhatIs DEF CheckMailbox
<1>12. CASE DropSurplusToken(w)
  BY <1>2, <1>12, WhatIs DEF DropSurplusToken
<1>13. CASE CopyStore(w)
  BY <1>2, <1>13, WhatIs DEF CopyStore
<1>14. CASE WriteStore(w)
  BY <1>2, <1>14, WhatIs DEF WriteStore
<1>16. CASE GiveBack(w)
  BY <1>2, <1>16, WhatIs DEF GiveBack
<1>17. CASE LookAgain(w)
  <2>1. PICK label \in {"settle", "requeue"} : Goto(w, label)
    BY <1>17 DEF LookAgain
  <2> QED
    BY <1>2, <1>17, <2>1, WhatIs DEF LookAgain
<1>18. CASE Requeue(w)
  BY <1>2, <1>18, WhatIs DEF Requeue
<1>19. CASE Recount(w)
  BY <1>2, <1>19, WhatIs DEF Recount
<1> QED
  BY <1>3, <1>4, <1>5, <1>6, <1>7, <1>8, <1>9, <1>10, <1>11, <1>12, <1>13, <1>14,
     <1>15, <1>16, <1>17, <1>18, <1>19

LEMMA HandlingSteps ==
  ASSUME RefineInv, NEW w \in Workers,
         \/ TakeMessage(w) \/ EvalBody(w) \/ LockGlobal(w) \/ SpawnOne(w) \/ RetractAll(w) \/ Settle(w)
  PROVE  Abstract!Next
<1> USE DEF registry, Abstract!registry, Abstract!Becomes
<1>1. /\ TypeInv /\ w \in Proc /\ w # Main /\ Main \in Proc /\ Workers \cup {Main} = Proc
      /\ out \in [Proc -> Result] /\ tok \in [Workers -> Int] /\ pc[w] # "new"
  <2>1. pc[w] \in {"take", "eval", "commit", "spawn", "settle"}
    BY DEF TakeMessage, EvalBody, LockGlobal, SpawnOne, RetractAll, Settle
  <2> QED
    BY <2>1, ProcAssumption DEF Proc, RefineInv, TypeInv, TypeOK
<1>2. pc[Main] \notin {"emit", "put", "token", "count"}
  BY <1>1 DEF RefineInv, DoneInv, BootInv, Booting, Delivering
<1>3. doingSeen[w] = What(pc[w]) /\ ofSeen[w] = (IF What(pc[w]) = "idle" THEN 0 ELSE tok[w])
      /\ outSeen[w] = IF What(pc[w]) \in {"idle", "body"} THEN NoResult ELSE out[w]
  BY <1>1 DEF doingSeen, ofSeen, outSeen
<1>4. ASSUME NEW label, Goto(w, label), \A v \in Workers : v # w => tok'[v] = tok[v],
             \A q \in Proc : q # w => out'[q] = out[q]
      PROVE  /\ doingSeen' = [doingSeen EXCEPT ![w] = What(label)]
             /\ ofSeen' = [ofSeen EXCEPT ![w] = IF What(label) = "idle" THEN 0 ELSE tok'[w]]
             /\ outSeen' = [outSeen EXCEPT ![w] = IF What(label) \in {"idle", "body"} THEN NoResult ELSE out'[w]]
  BY <1>1, <1>4, SeenDoing, SeenOfOut
<1>5. ofSeen = [ofSeen EXCEPT ![w] = ofSeen[w]] /\ outSeen = [outSeen EXCEPT ![w] = outSeen[w]]
  BY DEF ofSeen, outSeen
<1> DEFINE Handles == \/ Abstract!Begin(w) \/ Abstract!Body(w) \/ Abstract!Commit(w)
                      \/ Abstract!Spawn(w) \/ Abstract!Retract(w) \/ Abstract!Finish(w)
<1>6. ASSUME TakeMessage(w) PROVE Abstract!Begin(w)
  <2>1. /\ pc[w] = "take" /\ Goto(w, "copy") /\ mailbox[tok[w]] # << >>
        /\ mailbox' = [mailbox EXCEPT ![tok[w]] = Tail(@)]
        /\ UNCHANGED <<registry, log, tok, out, targets>>
    BY <1>6 DEF TakeMessage
  <2>2. tok[w] \in Aid
    <3>1. w \in Holders
      BY <2>1 DEF Holders
    <3> QED
      BY <1>1, <3>1 DEF TypeInv, LocalsOK, TypeOK
  <2>3. doingSeen[Main] = "wait"
    <3>1. pc[Main] # "returned"
      <4>1. w \in Holders
        BY <2>1 DEF Holders
      <4>2. ~done
        BY <4>1, HolderKeepsRunning DEF RefineInv
      <4> QED
        BY <4>2 DEF RefineInv, DoneInv
    <3>2. pc[Main] \in {"start", "wait"}
      BY <1>1, <1>2, <3>1 DEF TypeInv, TypeOK, MainLabel
    <3> QED
      BY <1>1, <3>2, WhatIs DEF doingSeen
  <2>4. /\ doingSeen' = [doingSeen EXCEPT ![w] = "body"]
        /\ ofSeen' = [ofSeen EXCEPT ![w] = tok[w]] /\ outSeen' = [outSeen EXCEPT ![w] = NoResult]
    BY <1>4, <2>1, WhatIs
  <2>5. doingSeen[w] = "idle" /\ outSeen' = outSeen
    BY <1>3, <1>5, <2>1, <2>4, WhatIs
  <2> QED
    BY <2>1, <2>2, <2>3, <2>4, <2>5 DEF Abstract!Begin
<1>7. ASSUME EvalBody(w) PROVE Abstract!Body(w)
  <2>1. PICK r \in Outcome(agent[tok[w]].rule, seen[w]) :
          /\ pc[w] = "eval" /\ out' = [out EXCEPT ![w] = r]
          /\ Goto(w, IF r.raises THEN "dead" ELSE "write")
          /\ UNCHANGED <<registry, mailbox, log, tok, targets>>
    BY <1>7 DEF EvalBody, AfterBody
  <2>2. seen[w] \in Store
    BY <1>1 DEF TypeInv, TypeOK
  <2>3. What(IF r.raises THEN "dead" ELSE "write") = (IF r.raises THEN "dead" ELSE "result")
    BY WhatIs
  <2>4. /\ doingSeen' = [doingSeen EXCEPT ![w] = IF r.raises THEN "dead" ELSE "result"]
        /\ ofSeen' = [ofSeen EXCEPT ![w] = tok[w]] /\ outSeen' = [outSeen EXCEPT ![w] = r]
    BY <1>1, <1>4, <2>1, <2>3
  <2>5. doingSeen[w] = "body" /\ ofSeen[w] = tok[w] /\ ofSeen' = ofSeen
    BY <1>3, <1>5, <2>1, <2>4, WhatIs
  <2> QED
    BY <2>1, <2>2, <2>4, <2>5 DEF Abstract!Body
<1>8. ASSUME LockGlobal(w) PROVE Abstract!Commit(w)
  <2>1. /\ pc[w] = "commit" /\ lock = Nobody /\ Goto(w, "spawn")
        /\ UNCHANGED <<registry, mailbox, log, tok, out, targets>>
    BY <1>8 DEF LockGlobal
  <2>2. ASSUME NEW p \in Proc PROVE doingSeen[p] \notin {"spawn", "emit", "put"}
    <3>1. pc[p] \notin Committing
      <4>1. CASE p = Main
        BY <1>1, <1>2, <4>1 DEF TypeInv, TypeOK, MainLabel, Committing, Delivering, Settling
      <4>2. CASE p \in Workers
        BY <2>1, <4>2, ProcAssumption DEF RefineInv, LockInv, Proc
      <4> QED
        BY <1>1, <4>1, <4>2
    <3>2. What(pc[p]) \in {"spawn", "emit", "put"} => pc[p] \in Committing
      BY DEF What, Committing, Delivering, Settling
    <3> QED
      BY <3>1, <3>2 DEF doingSeen
  <2>3. /\ doingSeen' = [doingSeen EXCEPT ![w] = "spawn"]
        /\ ofSeen' = [ofSeen EXCEPT ![w] = tok[w]] /\ outSeen' = [outSeen EXCEPT ![w] = out[w]]
    BY <1>4, <2>1, WhatIs
  <2>4. doingSeen[w] = "result" /\ ofSeen' = ofSeen /\ outSeen' = outSeen
    BY <1>3, <1>5, <2>1, <2>3, WhatIs
  <2> QED
    BY <1>1, <2>1, <2>2, <2>3, <2>4 DEF Abstract!Commit, Abstract!Committing
<1>9. ASSUME SpawnOne(w) PROVE Abstract!Spawn(w)
  <2> DEFINE sp == Head(out[w].spawned)
  <2>1. /\ pc[w] = "spawn" /\ out[w].spawned # << >>
        /\ \/ \E i \in ResolveSpawn(sp) : NewAgent(sp, i)
           \/ ResolveSpawn(sp) = {} /\ UNCHANGED registry
        /\ out' = [out EXCEPT ![w].spawned = Tail(@)]
        /\ UNCHANGED <<mailbox, log, pc, tok, targets>>
    BY <1>9 DEF SpawnOne
  <2>2. doingSeen' = doingSeen /\ ofSeen' = ofSeen
    BY <2>1 DEF doingSeen, ofSeen
  <2>3. doingSeen[w] = "spawn" /\ outSeen[w] = out[w]
    BY <1>3, <2>1, WhatIs
  <2>4. outSeen' = [outSeen EXCEPT ![w].spawned = Tail(@)]
    <3>1. outSeen' = [outSeen EXCEPT ![w] = out'[w]]
      BY <1>1, <2>1, <2>3, WhatIs DEF outSeen
    <3>2. out'[w] = [out[w] EXCEPT !.spawned = Tail(@)]
      BY <1>1, <2>1
    <3> QED
      BY <2>3, <3>1, <3>2
  <2>5. \A i \in ResolveSpawn(sp) : NewAgent(sp, i) =>
          /\ live' = live \cup {nextAid}
          /\ agent' = [a \in DOMAIN agent \cup {nextAid} |->
                         IF a = nextAid THEN [lib |-> sp.lib, name |-> sp.name, rule |-> i] ELSE agent[a]]
          /\ nextAid' = nextAid + 1
    BY DEF NewAgent
  <2>6. Abstract!ResolveSpawn(sp) = ResolveSpawn(sp)
    BY DEF Abstract!ResolveSpawn, ResolveSpawn, Abstract!Rule, Rule
  <2>7. \/ \E i \in Abstract!ResolveSpawn(sp) :
              /\ live' = live \cup {nextAid}
              /\ agent' = [a \in DOMAIN agent \cup {nextAid} |->
                             IF a = nextAid THEN [lib |-> sp.lib, name |-> sp.name, rule |-> i] ELSE agent[a]]
              /\ nextAid' = nextAid + 1
        \/ Abstract!ResolveSpawn(sp) = {} /\ UNCHANGED Abstract!registry
    <3> HIDE DEF sp
    <3>1. CASE \E i \in ResolveSpawn(sp) : NewAgent(sp, i)
      <4>1. PICK i \in ResolveSpawn(sp) : NewAgent(sp, i)
        BY <3>1
      <4>2. i \in Abstract!ResolveSpawn(sp)
        BY <2>6
      <4> QED
        BY <2>5, <4>1, <4>2
    <3>2. CASE ResolveSpawn(sp) = {} /\ UNCHANGED registry
      BY <2>6, <3>2 DEF registry, Abstract!registry
    <3> QED
      BY <2>1, <3>1, <3>2
  <2>8. sp = Head(outSeen[w].spawned) /\ outSeen[w].spawned # << >>
    BY <2>1, <2>3
  <2>9. UNCHANGED <<mailbox, log, doingSeen, ofSeen, targets>>
    BY <2>1, <2>2
  <2> HIDE DEF sp
  <2> QED
    BY <2>3, <2>4, <2>7, <2>8, <2>9 DEF Abstract!Spawn
<1>10. ASSUME RetractAll(w) PROVE Abstract!Retract(w)
  <2>1. /\ pc[w] = "spawn" /\ out[w].spawned = << >> /\ live' = live \ Retracts(w) /\ Goto(w, "emit")
        /\ UNCHANGED <<nextAid, agent, mailbox, log, tok, out, targets>>
    BY <1>10 DEF RetractAll
  <2>2. /\ doingSeen' = [doingSeen EXCEPT ![w] = "emit"]
        /\ ofSeen' = [ofSeen EXCEPT ![w] = tok[w]] /\ outSeen' = [outSeen EXCEPT ![w] = out[w]]
    BY <1>4, <2>1, WhatIs
  <2>3. doingSeen[w] = "spawn" /\ outSeen[w] = out[w] /\ ofSeen' = ofSeen /\ outSeen' = outSeen
    BY <1>3, <1>5, <2>1, <2>2, WhatIs
  <2>4. live' = {a \in live : agent[a].lib # NoLib \/ agent[a].name \notin outSeen[w].retracted}
    BY <2>1, <2>3 DEF Retracts
  <2> QED
    BY <2>1, <2>2, <2>3, <2>4 DEF Abstract!Retract
<1>11. ASSUME Settle(w) PROVE Abstract!Finish(w)
  <2>5. /\ pc[w] = "settle" /\ Goto(w, "loop") /\ Forget(w)
        /\ UNCHANGED <<registry, mailbox, log, targets>>
    BY <1>11 DEF Settle
  <2>1. out[w].emits = << >>
    BY <1>1, <2>5 DEF TypeInv, LocalsOK, Settling
  <2>2. /\ \A v \in Workers : v # w => tok'[v] = tok[v]
        /\ \A q \in Proc : q # w => out'[q] = out[q]
    BY <1>1, <2>5 DEF Forget
  <2>3. /\ doingSeen' = [doingSeen EXCEPT ![w] = "idle"]
        /\ ofSeen' = [ofSeen EXCEPT ![w] = 0] /\ outSeen' = [outSeen EXCEPT ![w] = NoResult]
    BY <1>4, <2>2, <2>5, WhatIs DEF Forget
  <2>4. doingSeen[w] = "emit" /\ outSeen[w] = out[w]
    BY <1>3, <2>5, WhatIs
  <2> QED
    BY <2>1, <2>3, <2>4, <2>5 DEF Abstract!Finish, NoResult, Abstract!NoResult
<1> QED
  BY <1>6, <1>7, <1>8, <1>9, <1>10, <1>11 DEF Abstract!Next, Abstract!Handle

LEMMA StepIsSeen == RefineInv /\ [Next]_vars => [Abstract!Next]_Abstract!vars
<1> SUFFICES ASSUME RefineInv, [Next]_vars PROVE Abstract!Next \/ UNCHANGED Abstract!vars
  OBVIOUS
<1>1. TypeInv
  BY DEF RefineInv
<1>2. CASE UNCHANGED vars
  BY <1>2 DEF vars, shared, local, Abstract!vars, Abstract!registry, doingSeen, ofSeen, outSeen
<1>3. CASE Over
  BY <1>2, <1>3 DEF Over
<1>4. ASSUME NEW w \in Workers, WorkerStep(w) PROVE Abstract!Next \/ UNCHANGED Abstract!vars
  BY <1>1, <1>4, DeliverySteps, HiddenSteps, HandlingSteps DEF WorkerStep, Proc
<1>5. CASE MainStep
  BY <1>1, <1>5, DeliverySteps, HiddenSteps, CallerSteps DEF MainStep, Proc
<1> QED
  BY <1>2, <1>3, <1>4, <1>5 DEF Next

LEMMA InitIsSeen == Init => Abstract!Init
<1> SUFFICES ASSUME Init PROVE Abstract!Init
  OBVIOUS
<1>1. \A p \in Proc : pc[p] = IF p = Main THEN "emit" ELSE "new"
  BY DEF Init
<1>2. doingSeen = [p \in Workers \cup {Main} |-> IF p = Main THEN "emit" ELSE "idle"]
  BY <1>1, WhatIs DEF doingSeen, Proc
<1>3. ofSeen = [w \in Workers |-> 0]
  BY DEF Init, ofSeen
<1>4. outSeen = [p \in Workers \cup {Main} |-> IF p = Main THEN [NoResult EXCEPT !.emits = Bootstrap]
                                                          ELSE NoResult]
  BY <1>1, WhatIs DEF Init, outSeen, Proc
<1> QED
  BY <1>2, <1>3, <1>4 DEF Init, Abstract!Init, Proc, NoResult, Abstract!NoResult

\* The pool of workers is a system of agents, for every program, every number of workers
\* and every interleaving: whatever it does is something Actors allows.
THEOREM PoolImplementsActors == Spec => ImplementsActors
BY InitIsSeen, StepIsSeen, RefineInvAlways, PTL DEF Spec, ImplementsActors, Abstract!Spec

-----------------------------------------------------------------------------
(* The fan-out sample, on any pool.                                        *)

\* The agent of boss; those of worker are all the others.
BossAid == 1

\* What is still owed an answer: the messages that wait at a worker, the recipients a
\* broadcast has not reached, and the threads that handle a `go` and have not said `done`.
Waiting == UNION {{a} \X (1 .. Len(mailbox[a])) : a \in live \ {BossAid}}
Unserved == UNION {{p} \X targets[p] : p \in Workers}
Answering ==
  {w \in Workers : /\ ofSeen[w] # BossAid
                   /\ \/ doingSeen[w] \in {"body", "result", "spawn"}
                      \/ doingSeen[w] = "emit" /\ outSeen[w].emits # << >>}

Gone == Cardinality(Occurrences("go"))
Answered == Cardinality(Occurrences("done"))

\* Every `go` is answered once by every worker, or will be.
Balance ==
  /\ IsFiniteSet(Waiting) /\ IsFiniteSet(Unserved) /\ IsFiniteSet(Answering)
  /\ Answered + Cardinality(Waiting) + Cardinality(Unserved) + Cardinality(Answering) = Gone * (Copies + 1)

\* No agent is ever retracted, and nothing is for an agent that is not there.
Crew ==
  /\ nextAid \in 2 .. Copies + 2 /\ live = 0 .. nextAid - 1 /\ DOMAIN agent = live
  /\ \A a \in live : agent[a].lib = NoLib /\ agent[a].rule = IF a = BossAid THEN 2 ELSE 1
  /\ \A a \in Aid \ live : mailbox[a] = << >>

\* A thread that handles a `go` emits `done` and nothing else.
AnswersGo(w) ==
  /\ doingSeen[w] \in {"result", "spawn"} =>
       outSeen[w].spawned = << >> /\ outSeen[w].retracted = {} /\ outSeen[w].emits = <<"done">>
  /\ doingSeen[w] = "emit" => outSeen[w].emits \in {<< >>, <<"done">>}
  /\ doingSeen[w] = "put" => outSeen[w].emits = <<"done">> /\ targets[w] = {}

\* The thread that runs boss: first the spawns, then the broadcasts.
Broadcasts(s) == \A k \in DOMAIN s : s[k] = "go"
RunsBoss(w) ==
  /\ doingSeen[w] = "body" => nextAid = 2 /\ Gone = 0
  /\ doingSeen[w] \in {"result", "spawn"} =>
       /\ nextAid + Len(outSeen[w].spawned) = Copies + 2 /\ Gone = 0
       /\ doingSeen[w] = "result" => nextAid = 2
       /\ \A k \in DOMAIN outSeen[w].spawned : outSeen[w].spawned[k] = [lib |-> NoLib, name |-> "worker"]
       /\ outSeen[w].retracted = {}
       /\ Broadcasts(outSeen[w].emits) /\ Len(outSeen[w].emits) = Gos
  /\ doingSeen[w] \in {"emit", "put"} =>
       /\ nextAid = Copies + 2 /\ Broadcasts(outSeen[w].emits)
       /\ Gone + Len(outSeen[w].emits) = IF doingSeen[w] = "emit" THEN Gos ELSE Gos + 1
       /\ doingSeen[w] = "put" => outSeen[w].emits # << >> /\ BossAid \notin targets[w]

Thread(w) ==
  /\ doingSeen[w] \in {"idle", "body", "result", "spawn", "emit", "put"}
  /\ doingSeen[w] = "idle" => ofSeen[w] = 0
  /\ doingSeen[w] # "put" => targets[w] = {}
  /\ targets[w] \subseteq live
  /\ doingSeen[w] = "body" => ofSeen[w] \in live
  /\ IF ofSeen[w] = BossAid THEN RunsBoss(w) ELSE AnswersGo(w)

NobodyWorks == \A w \in Workers : doingSeen[w] = "idle"
Untouched ==
  /\ NobodyWorks /\ nextAid = 2 /\ log = << >>
  /\ \A a \in Aid \ {BossAid} : mailbox[a] = << >>

\* The one message that is not an answer: it is with the caller, waits at boss, is being
\* handled there, or has been.
Calling ==
  /\ Untouched
  /\ \/ doingSeen[Main] = "emit" /\ outSeen[Main].emits = <<"start">> /\ mailbox[BossAid] = << >>
     \/ /\ doingSeen[Main] = "put" /\ outSeen[Main].emits = <<"start">>
        /\ \/ targets[Main] = {BossAid} /\ mailbox[BossAid] = << >>
           \/ targets[Main] = {} /\ Len(mailbox[BossAid]) = 1
     \/ doingSeen[Main] = "emit" /\ outSeen[Main].emits = << >> /\ Len(mailbox[BossAid]) = 1
Called == Untouched /\ doingSeen[Main] = "wait" /\ Len(mailbox[BossAid]) = 1
Bossing ==
  /\ doingSeen[Main] = "wait" /\ mailbox[BossAid] = << >>
  /\ \E w \in Workers : ofSeen[w] = BossAid /\ \A v \in Workers : ofSeen[v] = BossAid => v = w
Settled ==
  /\ mailbox[BossAid] = << >>
  /\ \A w \in Workers : ofSeen[w] # BossAid
  /\ nextAid = Copies + 2 /\ Gone = Gos
  /\ \/ doingSeen[Main] = "wait"
     \/ doingSeen[Main] = "returned" /\ NobodyWorks /\ \A a \in Aid : mailbox[a] = << >>

FanInv == Balance /\ Crew /\ (\A w \in Workers : Thread(w)) /\ (Calling \/ Called \/ Bossing \/ Settled)

LEMMA ProgramIs ==
  ASSUME RunsFanout
  PROVE  /\ Len(Table) = 2 /\ Rule = {1, 2}
         /\ \A m : (Accepts(1, m) <=> m = "go") /\ (Accepts(2, m) <=> m = "start")
         /\ ResolveSpawn([lib |-> NoLib, name |-> "worker"]) = {1}
         /\ \A s \in Store : Outcome(1, s) = {WorkerResult(s)} /\ Outcome(2, s) = {BossResult(s)}
<1>1. Table = FanTable /\ FanTable = <<FanTable[1], FanTable[2]>>
  BY DEF RunsFanout, FanTable
<1>2. Len(Table) = 2 /\ DOMAIN Table = {1, 2}
  BY <1>1
<1>3. /\ Table[1] = [lib |-> NoLib, name |-> "worker", accepts |-> {"go"}]
      /\ Table[2] = [lib |-> NoLib, name |-> "boss", accepts |-> {"start"}]
  BY <1>1 DEF FanTable
<1>4. ResolveSpawn([lib |-> NoLib, name |-> "worker"]) = {1}
  <2>1. {i \in Rule : Table[i].lib = NoLib /\ Table[i].name = "worker"} = {1}
    BY <1>2, <1>3 DEF Rule
  <2> QED
    BY <2>1 DEF ResolveSpawn
<1> QED
  BY <1>2, <1>3, <1>4 DEF Rule, Accepts, RunsFanout, FanOutcome

LEMMA ResultsAre ==
  ASSUME NEW s
  PROVE  /\ WorkerResult(s).spawned = << >> /\ WorkerResult(s).retracted = {}
         /\ WorkerResult(s).emits = <<"done">> /\ WorkerResult(s).raises = FALSE
         /\ BossResult(s).spawned = [k \in 1 .. Copies |-> [lib |-> NoLib, name |-> "worker"]]
         /\ BossResult(s).emits = [k \in 1 .. Gos |-> "go"]
         /\ BossResult(s).retracted = {} /\ BossResult(s).raises = FALSE
BY DEF WorkerResult, BossResult, NoResult

\* What the refinement shows of the variables.
LEMMA SeenTypes ==
  ASSUME TypeInv
  PROVE  /\ log \in Seq(Msg) /\ mailbox \in [Aid -> Seq(Msg)] /\ agent \in [0 .. nextAid - 1 -> [lib : Lib, name : Name, rule : Rule]]
         /\ DOMAIN agent \subseteq Aid /\ live \subseteq DOMAIN agent /\ nextAid \in Nat
         /\ targets \in [Workers \cup {Main} -> SUBSET DOMAIN agent]
         /\ outSeen \in [Workers \cup {Main} -> Result]
         /\ DOMAIN doingSeen = Workers \cup {Main} /\ DOMAIN ofSeen = Workers
BY NoResultType DEF TypeInv, TypeOK, outSeen, doingSeen, ofSeen, Proc

\* An outcome in which lists of spawns and emits only get shorter.
LEMMA ShorterLists ==
  ASSUME NEW r \in Result
  PROVE  /\ r.emits # << >> =>
              /\ Len(r.emits) >= 1 /\ Head(r.emits) = r.emits[1]
              /\ Len(Tail(r.emits)) = Len(r.emits) - 1
              /\ \A k \in DOMAIN Tail(r.emits) : k + 1 \in DOMAIN r.emits /\ Tail(r.emits)[k] = r.emits[k + 1]
         /\ r.spawned # << >> =>
              /\ Len(r.spawned) >= 1 /\ Head(r.spawned) = r.spawned[1] /\ 1 \in DOMAIN r.spawned
              /\ Len(Tail(r.spawned)) = Len(r.spawned) - 1
              /\ \A k \in DOMAIN Tail(r.spawned) : k + 1 \in DOMAIN r.spawned /\ Tail(r.spawned)[k] = r.spawned[k + 1]
         /\ Len(r.emits) \in Nat /\ Len(r.spawned) \in Nat
         /\ (Len(r.emits) = 0 <=> r.emits = << >>) /\ (Len(r.spawned) = 0 <=> r.spawned = << >>)
<1>1. r.emits \in Seq(Msg) /\ r.spawned \in Seq(SpawnNode)
  BY DEF Result
<1> QED
  BY <1>1, HeadTailProperties, LenProperties, EmptySeq

-----------------------------------------------------------------------------
(* What a step does to what is owed.                                       *)

LEMMA WaitingIs ==
  ASSUME NEW x
  PROVE  x \in Waiting <=> \E a \in live \ {BossAid} : \E k \in 1 .. Len(mailbox[a]) : x = <<a, k>>
BY DEF Waiting

LEMMA WaitingSame ==
  ASSUME \A a \in (live \ {BossAid}) \cap (live' \ {BossAid}) : mailbox'[a] = mailbox[a],
         \A a \in live \ live' : Len(mailbox[a]) = 0,
         \A a \in live' \ live : Len(mailbox'[a]) = 0
  PROVE  Waiting' = Waiting
<1>1. \A x : x \in Waiting' <=> \E b \in live' \ {BossAid} : \E k \in 1 .. Len(mailbox'[b]) : x = <<b, k>>
  BY DEF Waiting
<1>2. \A x : x \in Waiting' <=> x \in Waiting
  BY <1>1, WaitingIs
<1> QED
  BY <1>2

LEMMA WaitingPut ==
  ASSUME TypeInv, IsFiniteSet(Waiting), live' = live, NEW a \in live, NEW m \in Msg,
         mailbox' = [mailbox EXCEPT ![a] = Append(@, m)]
  PROVE  /\ IsFiniteSet(Waiting')
         /\ Cardinality(Waiting') = IF a = BossAid THEN Cardinality(Waiting) ELSE Cardinality(Waiting) + 1
<1> DEFINE new == <<a, Len(mailbox[a]) + 1>>
<1>1. a \in Aid /\ mailbox[a] \in Seq(Msg) /\ Len(mailbox[a]) \in Nat
  BY SeenTypes, LenProperties
<1>2. mailbox'[a] = Append(mailbox[a], m) /\ \A b \in live : b # a => mailbox'[b] = mailbox[b]
  BY <1>1, SeenTypes
<1>3. Len(mailbox'[a]) = Len(mailbox[a]) + 1
  BY <1>1, <1>2, AppendOne
<1>4. \A b \in live : \A k : k \in 1 .. Len(mailbox'[b]) <=> (k \in 1 .. Len(mailbox[b]) \/ <<b, k>> = new)
  BY <1>1, <1>2, <1>3
<1>5. \A x : x \in Waiting' <=> \E b \in live \ {BossAid} : \E k \in 1 .. Len(mailbox'[b]) : x = <<b, k>>
  BY DEF Waiting
<1>6. new \notin Waiting
  BY <1>1, WaitingIs
<1>7. CASE a = BossAid
  <2>1. \A b \in live \ {BossAid} : mailbox'[b] = mailbox[b]
    BY <1>2, <1>7
  <2>2. Waiting' = Waiting
    BY <2>1, WaitingSame
  <2> QED
    BY <1>7, <2>2
<1>8. CASE a # BossAid
  <2>1. \A x : x \in Waiting' <=> x \in Waiting \cup {new}
    BY <1>1, <1>3, <1>4, <1>5, <1>8, WaitingIs
  <2>2. Waiting' = Waiting \cup {new}
    BY <2>1
  <2> HIDE DEF new
  <2> QED
    BY <1>6, <1>8, <2>2, FS_AddElement
<1> QED
  BY <1>7, <1>8

LEMMA WaitingTake ==
  ASSUME TypeInv, IsFiniteSet(Waiting), live' = live, NEW a \in live, mailbox[a] # << >>,
         mailbox' = [mailbox EXCEPT ![a] = Tail(@)]
  PROVE  /\ IsFiniteSet(Waiting')
         /\ Cardinality(Waiting') = IF a = BossAid THEN Cardinality(Waiting) ELSE Cardinality(Waiting) - 1
<1> DEFINE last == <<a, Len(mailbox[a])>>
<1>1. a \in Aid /\ mailbox[a] \in Seq(Msg) /\ Len(mailbox[a]) \in Nat \ {0} /\ Len(Tail(mailbox[a])) = Len(mailbox[a]) - 1
  BY SeenTypes, LenProperties, EmptySeq, HeadTailProperties
<1>2. mailbox'[a] = Tail(mailbox[a]) /\ \A b \in live : b # a => mailbox'[b] = mailbox[b]
  BY <1>1, SeenTypes
<1>3. \A k : k \in 1 .. Len(mailbox'[a]) <=> (k \in 1 .. Len(mailbox[a]) /\ k # Len(mailbox[a]))
  <2>1. Len(mailbox'[a]) = Len(mailbox[a]) - 1
    BY <1>1, <1>2
  <2>2. ASSUME NEW n \in Nat \ {0}, NEW k PROVE k \in 1 .. n - 1 <=> (k \in 1 .. n /\ k # n)
    OBVIOUS
  <2> QED
    BY <1>1, <2>1, <2>2
<1>4. \A b \in live : \A k : k \in 1 .. Len(mailbox'[b]) <=> (k \in 1 .. Len(mailbox[b]) /\ <<b, k>> # last)
  BY <1>2, <1>3
<1>5. \A x : x \in Waiting' <=> \E b \in live \ {BossAid} : \E k \in 1 .. Len(mailbox'[b]) : x = <<b, k>>
  BY DEF Waiting
<1>7. CASE a = BossAid
  <2>1. \A b \in live \ {BossAid} : mailbox'[b] = mailbox[b]
    BY <1>2, <1>7
  <2>2. live \ live' = {} /\ live' \ live = {} /\ live' = live
    OBVIOUS
  <2>3. Waiting' = Waiting
    <3> DEFINE same == \A b \in (live \ {BossAid}) \cap (live' \ {BossAid}) : mailbox'[b] = mailbox[b]
    <3>1. same
      BY <2>1, <2>2
    <3>2. \A b \in live \ live' : Len(mailbox[b]) = 0
      BY <2>2
    <3>3. \A b \in live' \ live : Len(mailbox'[b]) = 0
      BY <2>2
    <3> QED
      BY <3>1, <3>2, <3>3, WaitingSame
  <2> QED
    BY <1>7, <2>3
<1>8. CASE a # BossAid
  <2>1. ASSUME NEW x PROVE x \in Waiting' <=> x \in Waiting \ {last}
    <3> HIDE DEF last
    <3>1. x \in Waiting' <=> \E b \in live \ {BossAid} : \E k \in 1 .. Len(mailbox[b]) : <<b, k>> # last /\ x = <<b, k>>
      <4>1. ASSUME x \in Waiting'
            PROVE  \E b \in live \ {BossAid} : \E k \in 1 .. Len(mailbox[b]) : <<b, k>> # last /\ x = <<b, k>>
        <5>1. PICK b \in live \ {BossAid} : \E k \in 1 .. Len(mailbox'[b]) : x = <<b, k>>
          BY <1>5, <4>1
        <5>2. PICK k \in 1 .. Len(mailbox'[b]) : x = <<b, k>>
          BY <5>1
        <5>3. k \in 1 .. Len(mailbox[b]) /\ <<b, k>> # last
          BY <1>4, <5>2
        <5> QED
          BY <5>2, <5>3
      <4>2. ASSUME NEW b \in live \ {BossAid}, NEW k \in 1 .. Len(mailbox[b]), <<b, k>> # last, x = <<b, k>>
            PROVE  x \in Waiting'
        <5>1. k \in 1 .. Len(mailbox'[b])
          BY <1>4, <4>2
        <5> QED
          BY <1>5, <4>2, <5>1
      <4> QED
        BY <4>1, <4>2
    <3>2. x \in Waiting <=> \E b \in live \ {BossAid} : \E k \in 1 .. Len(mailbox[b]) : x = <<b, k>>
      BY WaitingIs
    <3> QED
      BY <3>1, <3>2
  <2>2. Waiting' = Waiting \ {last}
    BY <2>1
  <2>3. last \in Waiting
    BY <1>1, <1>8, WaitingIs
  <2> HIDE DEF last
  <2> QED
    BY <1>8, <2>2, <2>3, FS_RemoveElement
<1> QED
  BY <1>7, <1>8

LEMMA UnservedIs ==
  ASSUME NEW x
  PROVE  x \in Unserved <=> \E w \in Workers : \E a \in targets[w] : x = <<w, a>>
BY DEF Unserved

LEMMA UnservedPut ==
  ASSUME TypeInv, IsFiniteSet(Unserved), NEW p \in Workers, NEW a \in targets[p],
         targets' = [targets EXCEPT ![p] = @ \ {a}]
  PROVE  IsFiniteSet(Unserved') /\ Cardinality(Unserved') = Cardinality(Unserved) - 1
<1>1. targets'[p] = targets[p] \ {a} /\ \A w \in Workers : w # p => targets'[w] = targets[w]
  BY SeenTypes
<1>2. \A x : x \in Unserved' <=> \E w \in Workers : \E b \in targets'[w] : x = <<w, b>>
  BY DEF Unserved
<1>3. \A x : x \in Unserved' <=> x \in Unserved \ {<<p, a>>}
  BY <1>1, <1>2, UnservedIs
<1>4. Unserved' = Unserved \ {<<p, a>>} /\ <<p, a>> \in Unserved
  BY <1>3, UnservedIs
<1> QED
  BY <1>4, FS_RemoveElement

\* A broadcast leaves one recipient to be served per worker of the sample.
LEMMA UnservedRoute ==
  ASSUME TypeInv, IsFiniteSet(Unserved), NEW p \in Workers, targets[p] = {},
         targets' = [targets EXCEPT ![p] = (0 .. Copies + 1) \ {BossAid}]
  PROVE  IsFiniteSet(Unserved') /\ Cardinality(Unserved') = Cardinality(Unserved) + Copies + 1
<1> DEFINE new == (0 .. Copies + 1) \ {BossAid}
           pairs == {p} \X new
<1>1. targets'[p] = new /\ \A w \in Workers : w # p => targets'[w] = targets[w]
  BY SeenTypes
<1>2. IsFiniteSet(new) /\ Cardinality(new) = Copies + 1
  <2>1. IsFiniteSet(0 .. Copies + 1) /\ Cardinality(0 .. Copies + 1) = Copies + 2
    BY FanoutAssumption, FS_Interval
  <2>2. BossAid \in 0 .. Copies + 1
    BY FanoutAssumption DEF BossAid
  <2> DEFINE all == 0 .. Copies + 1
  <2>3. IsFiniteSet(all \ {BossAid}) /\ Cardinality(all \ {BossAid}) = Cardinality(all) - 1
    <3> HIDE DEF all
    <3> QED
      BY <2>1, <2>2, FS_RemoveElement DEF all
  <2> QED
    BY <2>1, <2>3, FanoutAssumption
<1>3. IsFiniteSet(pairs) /\ Cardinality(pairs) = Copies + 1
  <2>1. Cardinality(pairs) = 1 * Cardinality(new) /\ IsFiniteSet(pairs)
    <3>1. IsFiniteSet({p}) /\ Cardinality({p}) = 1
      BY FS_Singleton
    <3> HIDE DEF new
    <3>2. IsFiniteSet({p} \X new) /\ Cardinality({p} \X new) = Cardinality({p}) * Cardinality(new)
      BY <1>2, <3>1, FS_Product
    <3> QED
      BY <3>1, <3>2
  <2> QED
    BY <1>2, <2>1, FanoutAssumption
<1>4. \A x : x \in Unserved' <=> \E w \in Workers : \E b \in targets'[w] : x = <<w, b>>
  BY DEF Unserved
<1> HIDE DEF new
<1>5. \A x : x \in Unserved' <=> x \in Unserved \cup pairs
  BY <1>1, <1>4, UnservedIs
<1>6. Unserved' = Unserved \cup pairs /\ Unserved \cap pairs = {}
  BY <1>5, UnservedIs
<1> HIDE DEF pairs
<1>7. Cardinality(Unserved \cup pairs) = Cardinality(Unserved) + Cardinality(pairs) - Cardinality(Unserved \cap pairs)
  BY <1>3, FS_Union
<1>8. IsFiniteSet(Unserved \cup pairs) /\ Cardinality(Unserved) \in Nat /\ Cardinality({}) = 0
  BY <1>3, FS_Union, FS_CardinalityType, FS_EmptySet
<1>9. Cardinality(Unserved') = Cardinality(Unserved) + Cardinality(pairs) - 0
  BY <1>6, <1>7, <1>8
<1> QED
  BY <1>3, <1>6, <1>8, <1>9, FanoutAssumption

\* One thread begins or stops to owe an answer; or none does.
LEMMA AnsweringStep ==
  ASSUME IsFiniteSet(Answering), NEW w \in Workers,
         \A v \in Workers : v # w => (v \in Answering' <=> v \in Answering)
  PROVE  /\ IsFiniteSet(Answering')
         /\ Cardinality(Answering') = Cardinality(Answering) + (IF w \in Answering' THEN 1 ELSE 0)
                                                             - (IF w \in Answering THEN 1 ELSE 0)
<1>1. Answering \subseteq Workers /\ Answering' \subseteq Workers
  BY DEF Answering
<1>2. Cardinality(Answering) \in Nat
  BY FS_CardinalityType
<1>3. CASE w \in Answering'
  <2>1. Answering' = Answering \cup {w}
    BY <1>1, <1>3
  <2> QED
    BY <1>2, <1>3, <2>1, FS_AddElement
<1>4. CASE w \notin Answering'
  <2>1. Answering' = Answering \ {w}
    BY <1>1, <1>4
  <2> QED
    BY <1>2, <1>4, <2>1, FS_RemoveElement
<1> QED
  BY <1>3, <1>4

LEMMA LogStep ==
  ASSUME TypeInv, NEW m \in Msg, log' = Append(log, m)
  PROVE  /\ Gone' = IF m = "go" THEN Gone + 1 ELSE Gone
         /\ Answered' = IF m = "done" THEN Answered + 1 ELSE Answered
         /\ Gone \in Nat /\ Answered \in Nat
<1>1. log \in Seq(Msg)
  BY SeenTypes
<1>2. \A x : Occurrences(x) = At(log, x) /\ Occurrences(x)' = At(Append(log, m), x)
  BY DEF Occurrences, At
<1> QED
  BY <1>1, <1>2, AtAppend, AtFinite DEF Gone, Answered

LEMMA LogIs ==
  ASSUME TypeInv
  PROVE  Gone \in Nat /\ Answered \in Nat /\ (log = << >> => Gone = 0 /\ Answered = 0)
<1>1. \A x : Occurrences(x) = At(log, x)
  BY DEF Occurrences, At
<1>2. log = << >> => \A x : Occurrences(x) = {}
  BY DEF Occurrences
<1> QED
  BY <1>1, <1>2, SeenTypes, AtFinite, FS_EmptySet DEF Gone, Answered

-----------------------------------------------------------------------------
(* The steps of a thread that handles a message.                           *)

LEMMA AtWork ==
  ASSUME FanInv, NEW w \in Workers, doingSeen[w] # "idle"
  PROVE  /\ doingSeen[Main] = "wait" /\ mailbox[BossAid] = << >> /\ (Bossing \/ Settled)
         /\ ofSeen[w] = BossAid => \A v \in Workers : ofSeen[v] = BossAid => v = w
BY DEF FanInv, Calling, Called, Bossing, Settled, Untouched, NobodyWorks

\* A step of w that keeps it at its message: only boss makes agents and sends `go`.
LEMMA StageStays ==
  ASSUME TypeInv, FanInv, NEW w \in Workers, doingSeen[w] # "idle",
         doingSeen'[Main] = doingSeen[Main], ofSeen' = ofSeen, mailbox'[BossAid] = mailbox[BossAid],
         ofSeen[w] # BossAid => nextAid' = nextAid /\ Gone' = Gone
  PROVE  Bossing' \/ Settled'
<1>1. BossAid' = BossAid /\ Gos' = Gos /\ Copies' = Copies
  BY DEF BossAid
<1>2. CASE Bossing
  BY <1>1, <1>2, AtWork DEF Bossing
<1>3. CASE Settled
  BY <1>1, <1>3, AtWork DEF Settled
<1> QED
  BY <1>2, <1>3, AtWork

LEMMA OthersGoOn ==
  ASSUME FanInv, NEW w \in Workers, NEW v \in Workers \ {w},
         doingSeen'[v] = doingSeen[v], ofSeen'[v] = ofSeen[v], outSeen'[v] = outSeen[v], targets'[v] = targets[v],
         live \subseteq live',
         \/ nextAid' = nextAid /\ Gone' = Gone
         \/ doingSeen[w] # "idle" /\ ofSeen[w] = BossAid
  PROVE  Thread(v)'
<1>1. Thread(v)
  BY DEF FanInv
<1>2. BossAid' = BossAid
  BY DEF BossAid
<1>3. CASE ofSeen[v] = BossAid
  <2>1. nextAid' = nextAid /\ Gone' = Gone
    BY <1>3, AtWork
  <2> QED
    BY <1>1, <1>2, <1>3, <2>1 DEF Thread, RunsBoss, Broadcasts
<1>4. CASE ofSeen[v] # BossAid
  BY <1>1, <1>2, <1>4 DEF Thread, AnswersGo
<1> QED
  BY <1>3, <1>4

\* What is owed stays balanced when one thread moves and the rest is counted.
LEMMA BalanceStep ==
  ASSUME Balance, TypeInv, NEW w \in Workers,
         \A v \in Workers : v # w => doingSeen'[v] = doingSeen[v] /\ ofSeen'[v] = ofSeen[v] /\ outSeen'[v] = outSeen[v],
         IsFiniteSet(Waiting'), IsFiniteSet(Unserved'),
         NEW waiting \in Int, NEW unserved \in Int, NEW gone \in Nat, NEW answered \in Nat,
         Cardinality(Waiting') = Cardinality(Waiting) + waiting,
         Cardinality(Unserved') = Cardinality(Unserved) + unserved,
         Gone' = Gone + gone, Answered' = Answered + answered,
         answered + waiting + unserved + (IF w \in Answering' THEN 1 ELSE 0) - (IF w \in Answering THEN 1 ELSE 0)
           = gone * (Copies + 1)
  PROVE  Balance'
<1>1. \A v \in Workers : v # w => (v \in Answering' <=> v \in Answering)
  BY DEF Answering, BossAid
<1>2. /\ IsFiniteSet(Answering')
      /\ Cardinality(Answering') = Cardinality(Answering) + (IF w \in Answering' THEN 1 ELSE 0)
                                                          - (IF w \in Answering THEN 1 ELSE 0)
  BY <1>1, AnsweringStep DEF Balance
<1>3. /\ Cardinality(Waiting) \in Nat /\ Cardinality(Unserved) \in Nat /\ Cardinality(Answering) \in Nat
      /\ Gone \in Nat /\ Answered \in Nat
  BY FS_CardinalityType, LogIs DEF Balance
<1>4. (Gone + gone) * (Copies + 1) = Gone * (Copies + 1) + gone * (Copies + 1)
  BY <1>3, FanoutAssumption
<1>5. Answered + Cardinality(Waiting) + Cardinality(Unserved) + Cardinality(Answering) = Gone * (Copies + 1)
  BY DEF Balance
<1>6. Gone * (Copies + 1) \in Nat /\ gone * (Copies + 1) \in Nat
  BY <1>3, FanoutAssumption
<1>7. Answered' + Cardinality(Waiting') + Cardinality(Unserved') + Cardinality(Answering') = Gone' * (Copies + 1)
  BY <1>2, <1>3, <1>4, <1>5, <1>6
<1> QED
  BY <1>2, <1>7 DEF Balance

\* Nothing that is counted moves.
LEMMA CountsStay ==
  ASSUME FanInv, TypeInv, UNCHANGED <<live, mailbox, log, targets>>
  PROVE  /\ IsFiniteSet(Waiting') /\ IsFiniteSet(Unserved')
         /\ Cardinality(Waiting') = Cardinality(Waiting) + 0 /\ Cardinality(Unserved') = Cardinality(Unserved) + 0
         /\ Gone' = Gone + 0 /\ Answered' = Answered + 0
<1>1. Waiting' = Waiting /\ Unserved' = Unserved /\ Gone' = Gone /\ Answered' = Answered
  BY DEF Waiting, Unserved, Gone, Answered, Occurrences, BossAid
<1> QED
  BY <1>1, FS_CardinalityType, LogIs DEF FanInv, Balance

LEMMA SameOperators ==
  /\ \A m : Abstract!Recipients(m) = Recipients(m)
  /\ \A sp : Abstract!ResolveSpawn(sp) = ResolveSpawn(sp)
BY DEF Abstract!Recipients, Recipients, Abstract!Accepts, Accepts, Abstract!ResolveSpawn, ResolveSpawn,
       Abstract!Rule, Rule

\* A worker of the sample and its boss, by what they accept.
LEMMA WhoAccepts ==
  ASSUME RunsFanout, Crew
  PROVE  /\ Recipients("go") = live \ {BossAid} /\ Recipients("done") = {} /\ Recipients("start") = {BossAid}
         /\ BossAid \in live /\ BossAid \in Aid
<1>1. BossAid \in live
  BY FanoutAssumption DEF Crew, BossAid
<1>2. \A a \in live : \A m : Accepts(agent[a].rule, m) <=> m = IF a = BossAid THEN "start" ELSE "go"
  BY ProgramIs DEF Crew
<1>3. BossAid \in Aid
  <2>1. Len(Table) = 2
    BY ProgramIs
  <2>2. 0 .. 2 - 1 \subseteq Aid
    BY <2>1, AidAssumption
  <2> QED
    BY <2>2 DEF BossAid
<1> QED
  BY <1>1, <1>2, <1>3 DEF Recipients

LEMMA RouteKeeps ==
  ASSUME RunsFanout, TypeInv, TypeInv', FanInv, NEW w \in Workers, Abstract!Route(w)
  PROVE  FanInv'
<1> DEFINE m == Head(outSeen[w].emits)
<1>1. /\ w # Main /\ w \in Workers \cup {Main} /\ doingSeen[w] = "emit" /\ outSeen[w].emits # << >>
      /\ targets' = [targets EXCEPT ![w] = Recipients(m)]
      /\ log' = Append(log, m) /\ doingSeen' = [doingSeen EXCEPT ![w] = "put"]
      /\ UNCHANGED <<live, nextAid, agent, mailbox, ofSeen, outSeen>>
  BY ProcAssumption, SameOperators DEF Abstract!Route, Abstract!Becomes, Abstract!registry
<1>2. Crew /\ Thread(w) /\ targets[w] = {}
  BY <1>1 DEF FanInv, Thread
<1>3. m \in Msg /\ outSeen[w] \in Result /\ m = outSeen[w].emits[1] /\ Len(outSeen[w].emits) \in Nat /\ 1 \in DOMAIN outSeen[w].emits
  <2>1. outSeen[w] \in Result
    BY <1>1, SeenTypes
  <2> QED
    BY <1>1, <2>1, ResultRest, ShorterLists DEF Result
<1>4. IF ofSeen[w] = BossAid THEN m = "go" /\ nextAid = Copies + 2 ELSE m = "done" /\ outSeen[w].emits = <<"done">>
  BY <1>1, <1>2, <1>3 DEF Thread, RunsBoss, AnswersGo, Broadcasts
<1>5. targets'[w] = Recipients(m) /\ \A v \in Workers : v # w => targets'[v] = targets[v] /\ doingSeen'[v] = doingSeen[v]
  BY <1>1, SeenTypes
<1>6. doingSeen'[w] = "put" /\ doingSeen'[Main] = doingSeen[Main]
  BY <1>1, SeenTypes
<1>7. /\ Gone' = IF m = "go" THEN Gone + 1 ELSE Gone
      /\ Answered' = IF m = "done" THEN Answered + 1 ELSE Answered
      /\ Gone \in Nat /\ Answered \in Nat
  BY <1>1, <1>3, LogStep
<1>8. Bossing' \/ Settled'
  BY <1>1, <1>4, <1>6, <1>7, StageStays
<1>9. Crew'
  BY <1>1, <1>2 DEF Crew, BossAid
<1>10. \A v \in Workers : Thread(v)'
  <2>1. ASSUME NEW v \in Workers \ {w} PROVE Thread(v)'
    BY <1>1, <1>4, <1>5, <1>7, <2>1, OthersGoOn
  <2>2. ASSUME ofSeen[w] = BossAid PROVE Thread(w)'
    <3>1. BossAid \notin targets'[w] /\ targets'[w] \subseteq live'
      BY <1>1, <1>2, <1>4, <1>5, <2>2, WhoAccepts
    <3>2. Gone' + Len(outSeen[w].emits) = Gos + 1
      <4> DEFINE left == Len(outSeen[w].emits)
      <4>1. RunsBoss(w)
        BY <1>2, <2>2 DEF Thread
      <4>2. Gone + left = Gos
        BY <1>1, <4>1 DEF RunsBoss
      <4>3. Gone' = Gone + 1 /\ Gone \in Nat /\ left \in Nat
        BY <1>3, <1>4, <1>7, <2>2
      <4> HIDE DEF m, left
      <4>4. Gone' + left = Gos + 1
        BY <4>2, <4>3, FanoutAssumption
      <4> QED
        BY <4>4 DEF left
    <3> QED
      BY <1>1, <1>2, <1>4, <1>6, <2>2, <3>1, <3>2 DEF Thread, RunsBoss, Broadcasts, BossAid
  <2>3. ASSUME ofSeen[w] # BossAid PROVE Thread(w)'
    <3>1. targets'[w] = {}
      BY <1>2, <1>4, <1>5, <2>3, WhoAccepts
    <3> QED
      BY <1>1, <1>4, <1>6, <2>3, <3>1 DEF Thread, AnswersGo, BossAid
  <2> QED
    BY <2>1, <2>2, <2>3
<1>11. Balance'
  <2>1. Waiting' = Waiting
    BY <1>1 DEF Waiting, BossAid
  <2>2. Balance /\ Cardinality(Waiting) \in Nat /\ Cardinality(Unserved) \in Nat
    BY FS_CardinalityType DEF FanInv, Balance
  <2>3. w \notin Answering' /\ (w \in Answering <=> ofSeen[w] # BossAid)
    BY <1>1, <1>6 DEF Answering, BossAid
  <2>4. CASE ofSeen[w] = BossAid
    <3>1. targets' = [targets EXCEPT ![w] = (0 .. Copies + 1) \ {BossAid}]
      <4>1. live = 0 .. Copies + 1
        BY <1>2, <1>4, <2>4, FanoutAssumption DEF Crew
      <4> QED
        BY <1>1, <1>2, <1>4, <2>4, <4>1, WhoAccepts
    <3>2. IsFiniteSet(Unserved') /\ Cardinality(Unserved') = Cardinality(Unserved) + (Copies + 1)
      <4>1. IsFiniteSet(Unserved)
        BY <2>2 DEF Balance
      <4>2. IsFiniteSet(Unserved') /\ Cardinality(Unserved') = Cardinality(Unserved) + Copies + 1
        BY <1>2, <3>1, <4>1, UnservedRoute
      <4> QED
        BY <2>2, <4>2, FanoutAssumption
    <3>3. Gone' = Gone + 1 /\ Answered' = Answered + 0 /\ Cardinality(Waiting') = Cardinality(Waiting) + 0
      BY <1>4, <1>7, <2>1, <2>2, <2>4
    <3>4. 0 + 0 + (Copies + 1) + 0 - 0 = 1 * (Copies + 1) /\ Copies + 1 \in Int
      BY FanoutAssumption
    <3>5. IsFiniteSet(Waiting') /\ IsFiniteSet(Unserved')
      BY <2>1, <2>2, <3>2 DEF Balance
    <3>6. /\ w \notin Answering' /\ w \notin Answering
          /\ \A v \in Workers : v # w => doingSeen'[v] = doingSeen[v] /\ ofSeen'[v] = ofSeen[v] /\ outSeen'[v] = outSeen[v]
      BY <1>1, <1>5, <2>3, <2>4
    <3>7. PICK more \in Int : more = Copies + 1
      BY FanoutAssumption
    <3>8. Cardinality(Unserved') = Cardinality(Unserved) + more
      BY <3>2, <3>7
    <3>9. 0 + 0 + more + 0 - 0 = 1 * (Copies + 1)
      BY <3>7, FanoutAssumption
    <3> HIDE DEF m
    <3> QED
      BY <2>2, <3>3, <3>5, <3>6, <3>8, <3>9, BalanceStep
  <2>5. CASE ofSeen[w] # BossAid
    <3>1. targets' = targets
      BY <1>1, <1>2, <1>4, <2>5, SeenTypes, WhoAccepts
    <3>2. Unserved' = Unserved
      BY <3>1 DEF Unserved
    <3>3. Gone' = Gone + 0 /\ Answered' = Answered + 1 /\ Cardinality(Waiting') = Cardinality(Waiting) + 0
          /\ Cardinality(Unserved') = Cardinality(Unserved) + 0
      BY <1>4, <1>7, <2>1, <2>2, <2>5, <3>2
    <3>4. 1 + 0 + 0 + 0 - 1 = 0 * (Copies + 1)
      BY FanoutAssumption
    <3>5. IsFiniteSet(Waiting') /\ IsFiniteSet(Unserved')
      BY <2>1, <2>2, <3>2 DEF Balance
    <3> HIDE DEF m
    <3> QED
      BY <1>1, <1>5, <2>2, <2>3, <2>5, <3>3, <3>4, <3>5, BalanceStep
  <2> QED
    BY <2>4, <2>5
<1> QED
  BY <1>8, <1>9, <1>10, <1>11 DEF FanInv

LEMMA PutKeeps ==
  ASSUME RunsFanout, TypeInv, TypeInv', FanInv, NEW w \in Workers, Abstract!Put(w)
  PROVE  FanInv'
<1>1. PICK a \in targets[w] :
        /\ mailbox' = [mailbox EXCEPT ![a] = Append(@, Head(outSeen[w].emits))]
        /\ targets' = [targets EXCEPT ![w] = @ \ {a}]
        /\ doingSeen[w] = "put" /\ UNCHANGED <<live, nextAid, agent, log, doingSeen, ofSeen, outSeen>>
  BY DEF Abstract!Put, Abstract!registry
<1>2. Crew /\ Thread(w) /\ Balance
  BY DEF FanInv
<1>3. ofSeen[w] = BossAid /\ BossAid \notin targets[w] /\ outSeen[w].emits # << >> /\ a \in live
  BY <1>1, <1>2 DEF Thread, AnswersGo, RunsBoss
<1>4. Head(outSeen[w].emits) \in Msg
  <2>1. outSeen[w] \in Result
    BY SeenTypes
  <2> QED
    BY <1>3, <2>1, ResultRest
<1>5. targets'[w] = targets[w] \ {a} /\ \A v \in Workers : v # w => targets'[v] = targets[v]
  BY <1>1, SeenTypes
<1>6. mailbox'[BossAid] = mailbox[BossAid] /\ \A b \in Aid \ live : mailbox'[b] = mailbox[b]
  BY <1>1, <1>3, SeenTypes, WhoAccepts, <1>2
<1>7. Gone' = Gone /\ Answered' = Answered
  BY <1>1 DEF Gone, Answered, Occurrences
<1>8. Bossing' \/ Settled'
  BY <1>1, <1>3, <1>6, StageStays
<1>9. Crew'
  BY <1>1, <1>2, <1>6 DEF Crew, BossAid
<1>10. \A v \in Workers : Thread(v)'
  <2>1. ASSUME NEW v \in Workers \ {w} PROVE Thread(v)'
    BY <1>1, <1>5, <1>7, OthersGoOn
  <2>2. Thread(w)'
    BY <1>1, <1>2, <1>3, <1>5, <1>7 DEF Thread, RunsBoss, Broadcasts, BossAid
  <2> QED
    BY <2>1, <2>2
<1>11. Balance'
  <2>1. IsFiniteSet(Waiting') /\ Cardinality(Waiting') = Cardinality(Waiting) + 1
    BY <1>1, <1>2, <1>3, <1>4, WaitingPut DEF Balance
  <2>2. IsFiniteSet(Unserved') /\ Cardinality(Unserved') = Cardinality(Unserved) - 1
    BY <1>1, <1>2, UnservedPut DEF Balance
  <2>3. w \notin Answering /\ w \notin Answering'
    BY <1>1, <1>3 DEF Answering, BossAid
  <2>4. Gone \in Nat /\ Answered \in Nat /\ Cardinality(Unserved) \in Nat
    BY <1>2, LogIs, FS_CardinalityType DEF Balance
  <2>5. Gone' = Gone + 0 /\ Answered' = Answered + 0 /\ Cardinality(Unserved') = Cardinality(Unserved) + (0 - 1)
    BY <1>7, <2>2, <2>4
  <2>6. 0 + 1 + (0 - 1) + 0 - 0 = 0 * (Copies + 1)
    BY FanoutAssumption
  <2> QED
    BY <1>1, <1>2, <2>1, <2>2, <2>3, <2>5, <2>6, BalanceStep
<1> QED
  BY <1>8, <1>9, <1>10, <1>11 DEF FanInv

LEMMA RoutedKeeps ==
  ASSUME RunsFanout, TypeInv, TypeInv', FanInv, NEW w \in Workers, Abstract!Routed(w)
  PROVE  FanInv'
<1>1. /\ w # Main /\ w \in Workers \cup {Main} /\ doingSeen[w] = "put" /\ targets[w] = {}
      /\ outSeen' = [outSeen EXCEPT ![w].emits = Tail(@)]
      /\ doingSeen' = [doingSeen EXCEPT ![w] = "emit"]
      /\ UNCHANGED <<live, nextAid, agent, mailbox, log, ofSeen, targets>>
  BY ProcAssumption DEF Abstract!Routed, Abstract!Becomes, Abstract!registry
<1>2. Crew /\ Thread(w) /\ Balance
  BY DEF FanInv
<1>3. outSeen[w] \in Result /\ outSeen[w].emits # << >>
  <2>1. outSeen[w].emits # << >> \/ outSeen[w].emits = <<"done">>
    BY <1>1, <1>2 DEF Thread, RunsBoss, AnswersGo
  <2>2. <<"done">> # << >>
    OBVIOUS
  <2> QED
    BY <1>1, <2>1, <2>2, SeenTypes
<1>4. /\ doingSeen'[w] = "emit" /\ outSeen'[w].emits = Tail(outSeen[w].emits)
      /\ doingSeen'[Main] = doingSeen[Main]
      /\ \A v \in Workers : v # w => doingSeen'[v] = doingSeen[v] /\ outSeen'[v] = outSeen[v]
  BY <1>1, <1>3, SeenTypes DEF Result
<1>5. Gone' = Gone /\ Answered' = Answered
  BY <1>1 DEF Gone, Answered, Occurrences
<1>6. Bossing' \/ Settled'
  BY <1>1, <1>4, <1>5, StageStays
<1>7. Crew'
  BY <1>1, <1>2 DEF Crew, BossAid
<1>8. ofSeen[w] # BossAid => outSeen'[w].emits = << >>
  <2>1. ofSeen[w] # BossAid => outSeen[w].emits = <<"done">>
    BY <1>1, <1>2 DEF Thread, AnswersGo
  <2>2. Tail(<<"done">>) = << >>
    OBVIOUS
  <2> QED
    BY <1>4, <2>1, <2>2
<1>9. \A v \in Workers : Thread(v)'
  <2>1. ASSUME NEW v \in Workers \ {w} PROVE Thread(v)'
    BY <1>1, <1>4, <1>5, OthersGoOn
  <2>2. ASSUME ofSeen[w] = BossAid PROVE Thread(w)'
    <3>1. /\ Len(Tail(outSeen[w].emits)) = Len(outSeen[w].emits) - 1 /\ Len(outSeen[w].emits) \in Nat
          /\ Broadcasts(outSeen[w].emits) => Broadcasts(Tail(outSeen[w].emits))
      BY <1>3, ShorterLists DEF Broadcasts
    <3>2. Gone + Len(Tail(outSeen[w].emits)) = Gos
      <4>1. RunsBoss(w)
        BY <1>2, <2>2 DEF Thread
      <4>2. Gone + Len(outSeen[w].emits) = Gos + 1
        BY <1>1, <4>1 DEF RunsBoss
      <4>3. Gone \in Nat
        BY LogIs
      <4> QED
        BY <3>1, <4>2, <4>3, FanoutAssumption
    <3>3. RunsBoss(w)
      BY <1>2, <2>2 DEF Thread
    <3>4. RunsBoss(w)'
      <4>1. outSeen'[w].emits = Tail(outSeen[w].emits) /\ Broadcasts(Tail(outSeen[w].emits)) /\ nextAid' = Copies + 2
        BY <1>1, <1>4, <3>1, <3>3 DEF RunsBoss
      <4> QED
        BY <1>4, <1>5, <3>2, <4>1 DEF RunsBoss, Broadcasts
    <3> QED
      BY <1>1, <1>2, <1>4, <2>2, <3>4 DEF Thread, BossAid
  <2>3. ASSUME ofSeen[w] # BossAid PROVE Thread(w)'
    BY <1>1, <1>4, <1>8, <2>3 DEF Thread, AnswersGo, BossAid
  <2> QED
    BY <2>1, <2>2, <2>3
<1>10. Balance'
  <2>1. w \notin Answering /\ w \notin Answering'
    BY <1>1, <1>4, <1>8 DEF Answering, BossAid
  <2>2. 0 + 0 + 0 + 0 - 0 = 0 * (Copies + 1)
    BY FanoutAssumption
  <2> QED
    BY <1>1, <1>2, <1>4, <2>1, <2>2, CountsStay, BalanceStep
<1> QED
  BY <1>6, <1>7, <1>9, <1>10 DEF FanInv

LEMMA BeginKeeps ==
  ASSUME RunsFanout, TypeInv, TypeInv', FanInv, NEW w \in Workers, Abstract!Begin(w)
  PROVE  FanInv'
<1>1. PICK a \in Aid :
        /\ mailbox[a] # << >> /\ mailbox' = [mailbox EXCEPT ![a] = Tail(@)]
        /\ ofSeen' = [ofSeen EXCEPT ![w] = a]
        /\ w # Main /\ w \in Workers \cup {Main} /\ doingSeen[Main] = "wait" /\ doingSeen[w] = "idle"
        /\ doingSeen' = [doingSeen EXCEPT ![w] = "body"]
        /\ UNCHANGED <<live, nextAid, agent, log, outSeen, targets>>
  BY ProcAssumption DEF Abstract!Begin, Abstract!Becomes, Abstract!registry
<1>2. Crew /\ Thread(w) /\ Balance
  BY DEF FanInv
<1>3. a \in live
  BY <1>1, <1>2 DEF Crew
<1>4. /\ doingSeen'[w] = "body" /\ doingSeen'[Main] = "wait" /\ ofSeen'[w] = a
      /\ \A v \in Workers : v # w => doingSeen'[v] = doingSeen[v] /\ ofSeen'[v] = ofSeen[v]
  BY <1>1, SeenTypes
<1>5. /\ mailbox'[a] = Tail(mailbox[a]) /\ \A b \in Aid : b # a => mailbox'[b] = mailbox[b]
      /\ mailbox[a] \in Seq(Msg) /\ Len(Tail(mailbox[a])) = Len(mailbox[a]) - 1 /\ Len(mailbox[a]) \in Nat
  BY <1>1, SeenTypes, HeadTailProperties, LenProperties
<1>6. Gone' = Gone /\ Answered' = Answered /\ Unserved' = Unserved /\ BossAid' = BossAid
  BY <1>1 DEF Gone, Answered, Occurrences, Unserved, BossAid
<1>7. Crew'
  BY <1>1, <1>2, <1>3, <1>5 DEF Crew, BossAid
<1>8. ASSUME NEW v \in Workers \ {w} PROVE Thread(v)'
  BY <1>1, <1>4, <1>6, OthersGoOn
<1>9. ofSeen[w] = 0 /\ targets[w] = {}
  BY <1>1, <1>2 DEF Thread
<1>10. (Bossing' \/ Settled') /\ Thread(w)'
  <2>1. CASE a = BossAid
    <3>1. Called
      BY <1>1, <2>1 DEF FanInv, Calling, Called, Bossing, Settled
    <3>2. nextAid = 2 /\ Gone = 0 /\ Len(mailbox[BossAid]) = 1 /\ \A v \in Workers : ofSeen[v] = 0
      BY <3>1, LogIs DEF Called, Untouched, NobodyWorks, FanInv, Thread
    <3>3. mailbox'[BossAid] = << >>
      <4>1. Tail(mailbox[a]) \in Seq(Msg) /\ Len(Tail(mailbox[a])) = 0
        BY <1>1, <1>5, <2>1, <3>2, HeadTailProperties
      <4> QED
        BY <1>5, <2>1, <4>1, EmptySeq
    <3>4. Bossing'
      <4>1. \A v \in Workers : ofSeen'[v] = BossAid => v = w
        BY <1>4, <3>2 DEF BossAid
      <4> QED
        BY <1>4, <1>6, <2>1, <3>3, <4>1 DEF Bossing
    <3>5. Thread(w)'
      BY <1>1, <1>3, <1>4, <1>6, <1>9, <2>1, <3>2 DEF Thread, RunsBoss
    <3> QED
      BY <3>4, <3>5
  <2>2. CASE a # BossAid
    <3>1. Bossing \/ Settled
      BY <1>1, <2>2 DEF FanInv, Calling, Called, Untouched
    <3>2. mailbox'[BossAid] = mailbox[BossAid]
      BY <1>2, <1>5, <2>2, WhoAccepts
    <3>3. Bossing' \/ Settled'
      <4>1. CASE Bossing
        <5>1. PICK b \in Workers : ofSeen[b] = BossAid /\ \A v \in Workers : ofSeen[v] = BossAid => v = b
          BY <4>1 DEF Bossing
        <5>2. b # w /\ ofSeen'[b] = BossAid /\ \A v \in Workers : ofSeen'[v] = BossAid => v = b
          BY <1>4, <1>9, <2>2, <5>1 DEF BossAid
        <5> QED
          BY <1>1, <1>4, <1>6, <3>2, <4>1, <5>2 DEF Bossing
      <4>2. CASE Settled
        BY <1>1, <1>4, <1>6, <2>2, <3>2, <4>2 DEF Settled
      <4> QED
        BY <3>1, <4>1, <4>2
    <3>4. Thread(w)'
      BY <1>1, <1>3, <1>4, <1>6, <1>9, <2>2 DEF Thread, AnswersGo
    <3> QED
      BY <3>3, <3>4
  <2> QED
    BY <2>1, <2>2
<1>11. Balance'
  <2>1. /\ IsFiniteSet(Waiting')
        /\ Cardinality(Waiting') = IF a = BossAid THEN Cardinality(Waiting) ELSE Cardinality(Waiting) - 1
    BY <1>1, <1>2, <1>3, WaitingTake DEF Balance
  <2>2. /\ Gone \in Nat /\ Answered \in Nat /\ Cardinality(Unserved) \in Nat /\ Cardinality(Waiting) \in Nat
        /\ IsFiniteSet(Unserved')
    BY <1>2, <1>6, LogIs, FS_CardinalityType DEF Balance
  <2>3. w \notin Answering /\ (w \in Answering' <=> a # BossAid)
    BY <1>1, <1>4, <1>6 DEF Answering
  <2>4. Gone' = Gone + 0 /\ Answered' = Answered + 0 /\ Cardinality(Unserved') = Cardinality(Unserved) + 0
    BY <1>6, <2>2
  <2>5. CASE a = BossAid
    <3>1. Cardinality(Waiting') = Cardinality(Waiting) + 0
      BY <2>1, <2>2, <2>5
    <3>2. 0 + 0 + 0 + 0 - 0 = 0 * (Copies + 1)
      BY FanoutAssumption
    <3> QED
      BY <1>1, <1>2, <1>4, <2>1, <2>2, <2>3, <2>4, <2>5, <3>1, <3>2, BalanceStep
  <2>6. CASE a # BossAid
    <3>1. Cardinality(Waiting') = Cardinality(Waiting) + (0 - 1)
      BY <2>1, <2>2, <2>6
    <3>2. 0 + (0 - 1) + 0 + 1 - 0 = 0 * (Copies + 1)
      BY FanoutAssumption
    <3> QED
      BY <1>1, <1>2, <1>4, <2>1, <2>2, <2>3, <2>4, <2>6, <3>1, <3>2, BalanceStep
  <2> QED
    BY <2>5, <2>6
<1> QED
  BY <1>7, <1>8, <1>10, <1>11 DEF FanInv

LEMMA BodyKeeps ==
  ASSUME RunsFanout, TypeInv, TypeInv', FanInv, NEW w \in Workers, Abstract!Body(w)
  PROVE  FanInv'
<1>1. PICK s \in Store : \E r \in Outcome(agent[ofSeen[w]].rule, s) :
        /\ outSeen' = [outSeen EXCEPT ![w] = r]
        /\ doingSeen' = [doingSeen EXCEPT ![w] = IF r.raises THEN "dead" ELSE "result"]
        /\ w # Main /\ w \in Workers \cup {Main} /\ doingSeen[w] = "body"
        /\ UNCHANGED <<live, nextAid, agent, mailbox, log, ofSeen, targets>>
  BY ProcAssumption DEF Abstract!Body, Abstract!Becomes, Abstract!registry
<1>2. Crew /\ Thread(w) /\ Balance
  BY DEF FanInv
<1>3. agent[ofSeen[w]].rule = IF ofSeen[w] = BossAid THEN 2 ELSE 1
  BY <1>1, <1>2 DEF Thread, Crew
<1>4. PICK r : /\ r = IF ofSeen[w] = BossAid THEN BossResult(s) ELSE WorkerResult(s)
               /\ outSeen' = [outSeen EXCEPT ![w] = r]
               /\ doingSeen' = [doingSeen EXCEPT ![w] = "result"]
  <2>1. PICK r \in Outcome(agent[ofSeen[w]].rule, s) :
          /\ outSeen' = [outSeen EXCEPT ![w] = r]
          /\ doingSeen' = [doingSeen EXCEPT ![w] = IF r.raises THEN "dead" ELSE "result"]
    BY <1>1
  <2>2. r = IF ofSeen[w] = BossAid THEN BossResult(s) ELSE WorkerResult(s)
    BY <1>3, <2>1, ProgramIs
  <2>3. r.raises = FALSE
    BY <2>2, ResultsAre
  <2> QED
    BY <2>1, <2>2, <2>3
<1>5. /\ doingSeen'[w] = "result" /\ doingSeen'[Main] = doingSeen[Main] /\ outSeen'[w] = r
      /\ \A v \in Workers : v # w => doingSeen'[v] = doingSeen[v] /\ outSeen'[v] = outSeen[v]
  BY <1>1, <1>4, SeenTypes
<1>6. Gone' = Gone /\ Answered' = Answered /\ BossAid' = BossAid
  BY <1>1 DEF Gone, Answered, Occurrences, BossAid
<1>7. Bossing' \/ Settled'
  BY <1>1, <1>5, <1>6, StageStays
<1>8. Crew'
  BY <1>1, <1>2, <1>6 DEF Crew
<1>9. \A v \in Workers : Thread(v)'
  <2>1. ASSUME NEW v \in Workers \ {w} PROVE Thread(v)'
    BY <1>1, <1>5, <1>6, OthersGoOn
  <2>2. ASSUME ofSeen[w] = BossAid PROVE Thread(w)'
    <3>1. /\ r.spawned = [k \in 1 .. Copies |-> [lib |-> NoLib, name |-> "worker"]]
          /\ r.emits = [k \in 1 .. Gos |-> "go"] /\ r.retracted = {}
      BY <1>4, <2>2, ResultsAre
    <3>2. /\ Len(r.spawned) = Copies /\ DOMAIN r.spawned = 1 .. Copies
          /\ Len(r.emits) = Gos /\ DOMAIN r.emits = 1 .. Gos
      BY <3>1, FanoutAssumption
    <3>3. nextAid = 2 /\ Gone = 0 /\ targets[w] = {}
      BY <1>1, <1>2, <2>2 DEF Thread, RunsBoss
    <3>4. nextAid + Len(r.spawned) = Copies + 2
      BY <3>2, <3>3, FanoutAssumption
    <3>5. RunsBoss(w)'
      BY <1>1, <1>5, <1>6, <3>1, <3>2, <3>3, <3>4 DEF RunsBoss, Broadcasts
    <3> QED
      BY <1>1, <1>5, <1>6, <2>2, <3>3, <3>5 DEF Thread
  <2>3. ASSUME ofSeen[w] # BossAid PROVE Thread(w)'
    <3>1. r.spawned = << >> /\ r.retracted = {} /\ r.emits = <<"done">>
      BY <1>4, <2>3, ResultsAre
    <3>2. AnswersGo(w)'
      BY <1>5, <3>1 DEF AnswersGo
    <3> QED
      BY <1>1, <1>2, <1>5, <1>6, <2>3, <3>2 DEF Thread
  <2> QED
    BY <2>1, <2>2, <2>3
<1>10. Balance'
  <2>1. w \in Answering <=> w \in Answering'
    BY <1>1, <1>5, <1>6 DEF Answering
  <2>2. 0 + 0 + 0 + (IF w \in Answering THEN 1 ELSE 0) - (IF w \in Answering THEN 1 ELSE 0) = 0 * (Copies + 1)
    BY FanoutAssumption
  <2> QED
    BY <1>1, <1>2, <1>5, <2>1, <2>2, CountsStay, BalanceStep
<1> QED
  BY <1>7, <1>8, <1>9, <1>10 DEF FanInv

LEMMA CommitKeeps ==
  ASSUME RunsFanout, TypeInv, TypeInv', FanInv, NEW w \in Workers, Abstract!Commit(w)
  PROVE  FanInv'
<1>1. /\ w # Main /\ w \in Workers \cup {Main} /\ doingSeen[w] = "result"
      /\ doingSeen' = [doingSeen EXCEPT ![w] = "spawn"]
      /\ UNCHANGED <<live, nextAid, agent, mailbox, log, ofSeen, outSeen, targets>>
  BY ProcAssumption DEF Abstract!Commit, Abstract!Becomes, Abstract!registry
<1>2. Crew /\ Thread(w) /\ Balance
  BY DEF FanInv
<1>3. /\ doingSeen'[w] = "spawn" /\ doingSeen'[Main] = doingSeen[Main]
      /\ \A v \in Workers : v # w => doingSeen'[v] = doingSeen[v]
  BY <1>1, SeenTypes
<1>4. Gone' = Gone /\ Answered' = Answered /\ BossAid' = BossAid
  BY <1>1 DEF Gone, Answered, Occurrences, BossAid
<1>5. Bossing' \/ Settled'
  BY <1>1, <1>3, <1>4, StageStays
<1>6. Crew'
  BY <1>1, <1>2, <1>4 DEF Crew
<1>7. \A v \in Workers : Thread(v)'
  <2>1. ASSUME NEW v \in Workers \ {w} PROVE Thread(v)'
    BY <1>1, <1>3, <1>4, OthersGoOn
  <2>2. Thread(w)'
    BY <1>1, <1>2, <1>3, <1>4 DEF Thread, RunsBoss, AnswersGo, Broadcasts
  <2> QED
    BY <2>1, <2>2
<1>8. Balance'
  <2>1. w \in Answering <=> w \in Answering'
    BY <1>1, <1>3, <1>4 DEF Answering
  <2>2. 0 + 0 + 0 + (IF w \in Answering THEN 1 ELSE 0) - (IF w \in Answering THEN 1 ELSE 0) = 0 * (Copies + 1)
    BY FanoutAssumption
  <2> QED
    BY <1>1, <1>2, <1>3, <2>1, <2>2, CountsStay, BalanceStep
<1> QED
  BY <1>5, <1>6, <1>7, <1>8 DEF FanInv

LEMMA SpawnKeeps ==
  ASSUME RunsFanout, TypeInv, TypeInv', FanInv, NEW w \in Workers, Abstract!Spawn(w)
  PROVE  FanInv'
<1> DEFINE sp == Head(outSeen[w].spawned)
<1>1. /\ w # Main /\ w \in Workers \cup {Main} /\ doingSeen[w] = "spawn" /\ outSeen[w].spawned # << >>
      /\ \/ \E i \in ResolveSpawn(sp) :
              /\ live' = live \cup {nextAid}
              /\ agent' = [a \in DOMAIN agent \cup {nextAid} |->
                             IF a = nextAid THEN [lib |-> sp.lib, name |-> sp.name, rule |-> i] ELSE agent[a]]
              /\ nextAid' = nextAid + 1
         \/ ResolveSpawn(sp) = {} /\ UNCHANGED <<live, nextAid, agent>>
      /\ outSeen' = [outSeen EXCEPT ![w].spawned = Tail(@)]
      /\ UNCHANGED <<mailbox, log, doingSeen, ofSeen, targets>>
  BY ProcAssumption, SameOperators DEF Abstract!Spawn, Abstract!registry
<1>2. Crew /\ Thread(w) /\ Balance
  BY DEF FanInv
<1>3. ofSeen[w] = BossAid /\ RunsBoss(w)
  BY <1>1, <1>2 DEF Thread, AnswersGo
<1>4. outSeen[w] \in Result
  BY <1>1, SeenTypes
<1>5. /\ Len(outSeen[w].spawned) >= 1 /\ Len(outSeen[w].spawned) \in Nat
      /\ Len(Tail(outSeen[w].spawned)) = Len(outSeen[w].spawned) - 1
      /\ sp = [lib |-> NoLib, name |-> "worker"]
      /\ \A k \in DOMAIN Tail(outSeen[w].spawned) : Tail(outSeen[w].spawned)[k] = [lib |-> NoLib, name |-> "worker"]
  BY <1>1, <1>3, <1>4, ShorterLists DEF RunsBoss
<1>6. ResolveSpawn(sp) = {1}
  BY <1>5, ProgramIs
<1>7. /\ live' = live \cup {nextAid} /\ nextAid' = nextAid + 1
      /\ agent' = [a \in DOMAIN agent \cup {nextAid} |->
                     IF a = nextAid THEN [lib |-> NoLib, name |-> "worker", rule |-> 1] ELSE agent[a]]
  <2>1. PICK i \in ResolveSpawn(sp) :
          /\ live' = live \cup {nextAid} /\ nextAid' = nextAid + 1
          /\ agent' = [a \in DOMAIN agent \cup {nextAid} |->
                         IF a = nextAid THEN [lib |-> sp.lib, name |-> sp.name, rule |-> i] ELSE agent[a]]
    BY <1>1, <1>6
  <2>2. i = 1 /\ sp.lib = NoLib /\ sp.name = "worker"
    BY <1>5, <1>6, <2>1
  <2> QED
    BY <2>1, <2>2
<1>8. /\ outSeen'[w] = [outSeen[w] EXCEPT !.spawned = Tail(@)]
      /\ \A v \in Workers : v # w => outSeen'[v] = outSeen[v]
  BY <1>1, SeenTypes
<1>9. /\ outSeen'[w].spawned = Tail(outSeen[w].spawned) /\ outSeen'[w].emits = outSeen[w].emits
      /\ outSeen'[w].retracted = outSeen[w].retracted
  BY <1>4, <1>8 DEF Result
<1> HIDE DEF sp
<1>10. Gone' = Gone /\ Answered' = Answered /\ Unserved' = Unserved /\ BossAid' = BossAid
  BY <1>1 DEF Gone, Answered, Occurrences, Unserved, BossAid
<1>11. nextAid' + Len(Tail(outSeen[w].spawned)) = Copies + 2 /\ nextAid' \in 2 .. Copies + 2
  <2> DEFINE left == Len(outSeen[w].spawned)
             then == Len(Tail(outSeen[w].spawned))
  <2>1. nextAid + left = Copies + 2
    BY <1>1, <1>3 DEF RunsBoss
  <2>2. left \in Nat /\ left >= 1 /\ then = left - 1 /\ nextAid' = nextAid + 1 /\ nextAid \in 2 .. Copies + 2
    BY <1>2, <1>5, <1>7 DEF Crew
  <2> HIDE DEF left, then
  <2>3. nextAid' + then = Copies + 2 /\ nextAid' \in 2 .. Copies + 2
    BY <2>1, <2>2, FanoutAssumption
  <2> QED
    BY <2>3 DEF then
<1>12. nextAid \in Aid \ live /\ mailbox[nextAid] = << >> /\ nextAid # BossAid /\ nextAid \in Nat
  <2>1. DOMAIN agent' \subseteq Aid
    BY DEF TypeInv, TypeOK
  <2>2. DOMAIN agent' = DOMAIN agent \cup {nextAid}
    BY <1>7
  <2>3. nextAid \in Nat /\ nextAid >= 2 /\ nextAid \notin 0 .. nextAid - 1
    BY <1>2 DEF Crew
  <2> QED
    BY <1>2, <2>1, <2>2, <2>3 DEF Crew, BossAid
<1>13. Bossing' \/ Settled'
  BY <1>1, <1>3, <1>10, StageStays
<1>14. Crew'
  <2>1. live' = 0 .. nextAid' - 1
    BY <1>2, <1>7, <1>12 DEF Crew
  <2>2. \A a \in live' : agent'[a].lib = NoLib /\ agent'[a].rule = IF a = BossAid THEN 2 ELSE 1
    BY <1>2, <1>7, <1>12 DEF Crew
  <2>3. DOMAIN agent' = live' /\ \A a \in Aid \ live' : mailbox'[a] = << >>
    BY <1>1, <1>2, <1>7 DEF Crew
  <2> QED
    BY <1>10, <1>11, <2>1, <2>2, <2>3 DEF Crew
<1>15. \A v \in Workers : Thread(v)'
  <2>1. ASSUME NEW v \in Workers \ {w} PROVE Thread(v)'
    BY <1>1, <1>3, <1>7, <1>8, OthersGoOn
  <2>2. RunsBoss(w)'
    BY <1>1, <1>3, <1>5, <1>9, <1>10, <1>11 DEF RunsBoss, Broadcasts
  <2>3. Thread(w)'
    BY <1>1, <1>2, <1>3, <1>7, <1>10, <2>2 DEF Thread
  <2> QED
    BY <2>1, <2>3
<1>16. Balance'
  <2>1. Waiting' = Waiting
    <3>1. Len(mailbox'[nextAid]) = 0
      BY <1>1, <1>12
    <3> QED
      BY <1>1, <1>7, <3>1, WaitingSame
  <2>2. /\ IsFiniteSet(Waiting') /\ IsFiniteSet(Unserved')
        /\ Cardinality(Waiting') = Cardinality(Waiting) + 0 /\ Cardinality(Unserved') = Cardinality(Unserved) + 0
        /\ Gone' = Gone + 0 /\ Answered' = Answered + 0
    BY <1>2, <1>10, <2>1, FS_CardinalityType, LogIs DEF Balance
  <2>3. w \notin Answering /\ w \notin Answering'
    BY <1>1, <1>3, <1>10 DEF Answering
  <2>4. 0 + 0 + 0 + 0 - 0 = 0 * (Copies + 1)
    BY FanoutAssumption
  <2>5. \A v \in Workers : v # w => doingSeen'[v] = doingSeen[v] /\ ofSeen'[v] = ofSeen[v] /\ outSeen'[v] = outSeen[v]
    BY <1>1, <1>8
  <2> QED
    BY <1>2, <2>2, <2>3, <2>4, <2>5, BalanceStep
<1> QED
  BY <1>13, <1>14, <1>15, <1>16 DEF FanInv

LEMMA RetractKeeps ==
  ASSUME RunsFanout, TypeInv, TypeInv', FanInv, NEW w \in Workers, Abstract!Retract(w)
  PROVE  FanInv'
<1>1. /\ w # Main /\ w \in Workers \cup {Main} /\ doingSeen[w] = "spawn" /\ outSeen[w].spawned = << >>
      /\ live' = {a \in live : agent[a].lib # NoLib \/ agent[a].name \notin outSeen[w].retracted}
      /\ doingSeen' = [doingSeen EXCEPT ![w] = "emit"]
      /\ UNCHANGED <<nextAid, agent, mailbox, log, ofSeen, outSeen, targets>>
  BY ProcAssumption DEF Abstract!Retract, Abstract!Becomes
<1>2. Crew /\ Thread(w) /\ Balance
  BY DEF FanInv
<1>3. outSeen[w].retracted = {}
  BY <1>1, <1>2 DEF Thread, AnswersGo, RunsBoss
<1>4. live' = live
  BY <1>1, <1>3
<1>5. /\ doingSeen'[w] = "emit" /\ doingSeen'[Main] = doingSeen[Main]
      /\ \A v \in Workers : v # w => doingSeen'[v] = doingSeen[v]
  BY <1>1, SeenTypes
<1>6. Gone' = Gone /\ Answered' = Answered /\ BossAid' = BossAid
  BY <1>1 DEF Gone, Answered, Occurrences, BossAid
<1>7. Bossing' \/ Settled'
  BY <1>1, <1>5, <1>6, StageStays
<1>8. Crew'
  BY <1>1, <1>2, <1>4, <1>6 DEF Crew
<1>9. \A v \in Workers : Thread(v)'
  <2>1. ASSUME NEW v \in Workers \ {w} PROVE Thread(v)'
    BY <1>1, <1>4, <1>5, <1>6, OthersGoOn
  <2>2. ASSUME ofSeen[w] = BossAid PROVE Thread(w)'
    <3>1. RunsBoss(w)
      BY <1>2, <2>2 DEF Thread
    <3>2. /\ nextAid + Len(outSeen[w].spawned) = Copies + 2 /\ Gone = 0
          /\ Broadcasts(outSeen[w].emits) /\ Len(outSeen[w].emits) = Gos
      BY <1>1, <3>1 DEF RunsBoss
    <3>3. Len(<< >>) = 0 /\ nextAid \in Nat
      BY <1>2, SeenTypes
    <3>4. nextAid = Copies + 2
      BY <1>1, <3>2, <3>3, FanoutAssumption
    <3>5. Gone + Len(outSeen[w].emits) = Gos
      BY <3>2, FanoutAssumption
    <3>6. RunsBoss(w)'
      BY <1>1, <1>5, <1>6, <3>2, <3>4, <3>5 DEF RunsBoss, Broadcasts
    <3> QED
      BY <1>1, <1>2, <1>4, <1>5, <1>6, <2>2, <3>6 DEF Thread
  <2>3. ASSUME ofSeen[w] # BossAid PROVE Thread(w)'
    BY <1>1, <1>2, <1>4, <1>5, <1>6, <2>3 DEF Thread, AnswersGo
  <2> QED
    BY <2>1, <2>2, <2>3
<1>10. Balance'
  <2>1. w \in Answering <=> w \in Answering'
    <3>1. ofSeen[w] # BossAid => outSeen[w].emits = <<"done">>
      BY <1>1, <1>2 DEF Thread, AnswersGo
    <3>2. <<"done">> # << >>
      OBVIOUS
    <3> QED
      BY <1>1, <1>5, <1>6, <3>1, <3>2 DEF Answering
  <2>2. 0 + 0 + 0 + (IF w \in Answering THEN 1 ELSE 0) - (IF w \in Answering THEN 1 ELSE 0) = 0 * (Copies + 1)
    BY FanoutAssumption
  <2> QED
    BY <1>1, <1>2, <1>4, <1>5, <2>1, <2>2, CountsStay, BalanceStep
<1> QED
  BY <1>7, <1>8, <1>9, <1>10 DEF FanInv

LEMMA FinishKeeps ==
  ASSUME RunsFanout, TypeInv, TypeInv', FanInv, NEW w \in Workers, Abstract!Finish(w)
  PROVE  FanInv'
<1>1. /\ w # Main /\ w \in Workers \cup {Main} /\ doingSeen[w] = "emit" /\ outSeen[w].emits = << >>
      /\ ofSeen' = [ofSeen EXCEPT ![w] = 0]
      /\ outSeen' = [outSeen EXCEPT ![w] = Abstract!NoResult]
      /\ doingSeen' = [doingSeen EXCEPT ![w] = "idle"]
      /\ UNCHANGED <<live, nextAid, agent, mailbox, log, targets>>
  BY ProcAssumption DEF Abstract!Finish, Abstract!Becomes, Abstract!registry
<1>2. Crew /\ Thread(w) /\ Balance
  BY DEF FanInv
<1>3. /\ doingSeen'[w] = "idle" /\ doingSeen'[Main] = doingSeen[Main] /\ ofSeen'[w] = 0
      /\ \A v \in Workers : v # w => doingSeen'[v] = doingSeen[v] /\ ofSeen'[v] = ofSeen[v] /\ outSeen'[v] = outSeen[v]
  BY <1>1, SeenTypes
<1>4. Gone' = Gone /\ Answered' = Answered /\ BossAid' = BossAid /\ BossAid # 0
  BY <1>1 DEF Gone, Answered, Occurrences, BossAid
<1>5. doingSeen[Main] = "wait" /\ mailbox[BossAid] = << >> /\ targets[w] = {}
  BY <1>1, <1>2, AtWork DEF Thread
<1>6. Bossing' \/ Settled'
  <2>1. CASE ofSeen[w] = BossAid
    <3>1. RunsBoss(w)
      BY <1>2, <2>1 DEF Thread
    <3>2. nextAid = Copies + 2 /\ Gone + Len(outSeen[w].emits) = Gos
      BY <1>1, <3>1 DEF RunsBoss
    <3>3. Len(<< >>) = 0 /\ Gone \in Nat
      BY LogIs
    <3>4. Gone = Gos
      BY <1>1, <3>2, <3>3, FanoutAssumption
    <3>5. \A v \in Workers : ofSeen'[v] # BossAid
      BY <1>1, <1>3, <1>4, <2>1, AtWork
    <3> QED
      BY <1>1, <1>3, <1>4, <1>5, <3>2, <3>4, <3>5 DEF Settled
  <2>2. CASE ofSeen[w] # BossAid /\ Bossing
    <3>1. PICK b \in Workers : ofSeen[b] = BossAid /\ \A v \in Workers : ofSeen[v] = BossAid => v = b
      BY <2>2 DEF Bossing
    <3>2. b # w /\ ofSeen'[b] = BossAid /\ \A v \in Workers : ofSeen'[v] = BossAid => v = b
      BY <1>3, <1>4, <2>2, <3>1
    <3> QED
      BY <1>1, <1>3, <1>4, <1>5, <3>2 DEF Bossing
  <2>3. CASE Settled
    BY <1>1, <1>3, <1>4, <1>5, <2>3 DEF Settled
  <2> QED
    BY <1>1, <2>1, <2>2, <2>3, AtWork
<1>7. Crew'
  BY <1>1, <1>2, <1>4 DEF Crew
<1>8. \A v \in Workers : Thread(v)'
  <2>1. ASSUME NEW v \in Workers \ {w} PROVE Thread(v)'
    BY <1>1, <1>3, <1>4, OthersGoOn
  <2>2. Thread(w)'
    BY <1>1, <1>2, <1>3, <1>4, <1>5 DEF Thread, AnswersGo
  <2> QED
    BY <2>1, <2>2
<1>9. Balance'
  <2>1. w \notin Answering /\ w \notin Answering'
    BY <1>1, <1>3, <1>4 DEF Answering
  <2>2. 0 + 0 + 0 + 0 - 0 = 0 * (Copies + 1)
    BY FanoutAssumption
  <2> QED
    BY <1>1, <1>2, <1>3, <2>1, <2>2, CountsStay, BalanceStep
<1> QED
  BY <1>6, <1>7, <1>8, <1>9 DEF FanInv

\* While the caller hands `start` over, nobody else does anything.
LEMMA NobodyElse ==
  ASSUME TypeInv, FanInv, Untouched, BossAid \in live, UNCHANGED <<live, nextAid, agent, log, ofSeen>>,
         \A v \in Workers : doingSeen'[v] = doingSeen[v] /\ targets'[v] = targets[v] /\ outSeen'[v] = outSeen[v],
         \A a \in Aid \ {BossAid} : mailbox'[a] = mailbox[a]
  PROVE  Balance' /\ Crew' /\ (\A w \in Workers : Thread(w)') /\ Untouched'
<1>1. Crew /\ Balance /\ BossAid' = BossAid /\ live \subseteq Aid
  BY SeenTypes DEF FanInv, BossAid
<1>2. Gone' = Gone /\ Answered' = Answered
  BY DEF Gone, Answered, Occurrences
<1>3. Waiting' = Waiting /\ Unserved' = Unserved
  BY <1>1 DEF Waiting, Unserved
<1>4. Answering' = Answering
  BY <1>1 DEF Answering
<1>5. Crew'
  BY <1>1 DEF Crew
<1>6. Untouched'
  BY <1>1 DEF Untouched, NobodyWorks
<1>7. ASSUME NEW v \in Workers PROVE Thread(v)'
  <2>1. Thread(v) /\ doingSeen[v] = "idle"
    BY DEF FanInv, Untouched, NobodyWorks
  <2> QED
    BY <1>1, <2>1 DEF Thread, AnswersGo, BossAid
<1> QED
  BY <1>1, <1>2, <1>3, <1>4, <1>5, <1>6, <1>7 DEF Balance

LEMMA CallerKeeps ==
  ASSUME RunsFanout, TypeInv, TypeInv', FanInv,
         Abstract!Step(Main) \/ Abstract!Booted \/ Abstract!Return
  PROVE  FanInv'
<1>1. /\ Crew /\ Main \in Workers \cup {Main} /\ Main \notin Workers /\ BossAid \in live /\ BossAid \in Aid
      /\ BossAid' = BossAid
  BY ProcAssumption, WhoAccepts DEF FanInv, BossAid
<1>2. CASE Abstract!Route(Main)
  <2>1. /\ doingSeen[Main] = "emit" /\ outSeen[Main].emits # << >>
        /\ targets' = [targets EXCEPT ![Main] = Recipients(Head(outSeen[Main].emits))]
        /\ doingSeen' = [doingSeen EXCEPT ![Main] = "put"]
        /\ UNCHANGED <<live, nextAid, agent, mailbox, log, ofSeen, outSeen>>
    BY <1>2, SameOperators DEF Abstract!Route, Abstract!Becomes, Abstract!registry
  <2>2. Untouched /\ outSeen[Main].emits = <<"start">> /\ mailbox[BossAid] = << >>
    BY <2>1 DEF FanInv, Calling, Called, Bossing, Settled
  <2>3. doingSeen'[Main] = "put" /\ \A v \in Workers : doingSeen'[v] = doingSeen[v] /\ targets'[v] = targets[v]
    BY <1>1, <2>1, SeenTypes
  <2>4. targets'[Main] = {BossAid}
    <3>1. Head(<<"start">>) = "start"
      OBVIOUS
    <3> QED
      BY <1>1, <2>1, <2>2, <3>1, SeenTypes, WhoAccepts
  <2>5. Balance' /\ Crew' /\ (\A w \in Workers : Thread(w)') /\ Untouched'
    BY <1>1, <2>1, <2>2, <2>3, NobodyElse
  <2>6. Calling'
    BY <1>1, <2>1, <2>2, <2>3, <2>4, <2>5 DEF Calling
  <2> QED
    BY <2>5, <2>6 DEF FanInv
<1>3. CASE Abstract!Put(Main)
  <2>1. PICK a \in targets[Main] :
          /\ mailbox' = [mailbox EXCEPT ![a] = Append(@, Head(outSeen[Main].emits))]
          /\ targets' = [targets EXCEPT ![Main] = @ \ {a}]
          /\ doingSeen[Main] = "put" /\ UNCHANGED <<live, nextAid, agent, log, doingSeen, ofSeen, outSeen>>
    BY <1>3 DEF Abstract!Put, Abstract!registry
  <2>2. Untouched /\ outSeen[Main].emits = <<"start">> /\ targets[Main] = {BossAid} /\ mailbox[BossAid] = << >> /\ a = BossAid
    BY <2>1 DEF FanInv, Calling, Called, Bossing, Settled
  <2>3. targets'[Main] = {} /\ \A v \in Workers : targets'[v] = targets[v]
    BY <1>1, <2>1, <2>2, SeenTypes
  <2>4. Len(mailbox'[BossAid]) = 1 /\ \A b \in Aid \ {BossAid} : mailbox'[b] = mailbox[b]
    <3>1. mailbox'[BossAid] = Append(<< >>, Head(outSeen[Main].emits))
      BY <1>1, <2>1, <2>2, SeenTypes
    <3>2. \A m : Len(Append(<< >>, m)) = 1
      OBVIOUS
    <3> QED
      BY <2>1, <2>2, <3>1, <3>2, SeenTypes
  <2>5. Balance' /\ Crew' /\ (\A w \in Workers : Thread(w)') /\ Untouched'
    BY <1>1, <2>1, <2>2, <2>3, <2>4, NobodyElse
  <2>6. Calling'
    BY <1>1, <2>1, <2>2, <2>3, <2>4, <2>5 DEF Calling
  <2> QED
    BY <2>5, <2>6 DEF FanInv
<1>4. CASE Abstract!Routed(Main)
  <2>1. /\ doingSeen[Main] = "put" /\ targets[Main] = {}
        /\ outSeen' = [outSeen EXCEPT ![Main].emits = Tail(@)]
        /\ doingSeen' = [doingSeen EXCEPT ![Main] = "emit"]
        /\ UNCHANGED <<live, nextAid, agent, mailbox, log, ofSeen, targets>>
    BY <1>4 DEF Abstract!Routed, Abstract!Becomes, Abstract!registry
  <2>2. Untouched /\ outSeen[Main].emits = <<"start">> /\ Len(mailbox[BossAid]) = 1
    BY <2>1 DEF FanInv, Calling, Called, Bossing, Settled
  <2>3. doingSeen'[Main] = "emit" /\ \A v \in Workers : doingSeen'[v] = doingSeen[v] /\ outSeen'[v] = outSeen[v]
    BY <1>1, <2>1, SeenTypes
  <2>4. outSeen'[Main].emits = << >>
    <3>1. outSeen'[Main].emits = Tail(<<"start">>)
      BY <1>1, <2>1, <2>2, SeenTypes DEF Result
    <3>2. Tail(<<"start">>) = << >>
      OBVIOUS
    <3> QED
      BY <3>1, <3>2
  <2>5. Balance' /\ Crew' /\ (\A w \in Workers : Thread(w)') /\ Untouched'
    BY <1>1, <2>1, <2>2, <2>3, NobodyElse
  <2>6. Calling'
    BY <1>1, <2>1, <2>2, <2>3, <2>4, <2>5 DEF Calling
  <2> QED
    BY <2>5, <2>6 DEF FanInv
<1>5. CASE Abstract!Booted
  <2>1. /\ doingSeen[Main] = "emit" /\ outSeen[Main].emits = << >>
        /\ doingSeen' = [doingSeen EXCEPT ![Main] = "wait"]
        /\ UNCHANGED <<live, nextAid, agent, mailbox, log, ofSeen, outSeen, targets>>
    BY <1>5 DEF Abstract!Booted, Abstract!Becomes, Abstract!registry
  <2>2. << >> # <<"start">>
    OBVIOUS
  <2>3. Untouched /\ Len(mailbox[BossAid]) = 1
    BY <2>1, <2>2 DEF FanInv, Calling, Called, Bossing, Settled
  <2>4. doingSeen'[Main] = "wait" /\ \A v \in Workers : doingSeen'[v] = doingSeen[v]
    BY <1>1, <2>1, SeenTypes
  <2>5. Balance' /\ Crew' /\ (\A w \in Workers : Thread(w)') /\ Untouched'
    BY <1>1, <2>1, <2>3, <2>4, NobodyElse
  <2>6. Called'
    BY <1>1, <2>1, <2>3, <2>4, <2>5 DEF Called
  <2> QED
    BY <2>5, <2>6 DEF FanInv
<1>6. CASE Abstract!Return
  <2>1. /\ doingSeen[Main] = "wait" /\ NobodyWorks /\ \A a \in live : mailbox[a] = << >>
        /\ doingSeen' = [doingSeen EXCEPT ![Main] = "returned"]
        /\ UNCHANGED <<live, nextAid, agent, mailbox, log, ofSeen, outSeen, targets>>
    BY <1>6 DEF Abstract!Return, Abstract!Becomes, Abstract!registry, NobodyWorks
  <2>2. \A w \in Workers : ofSeen[w] = 0 /\ targets[w] = {}
    BY <2>1 DEF FanInv, Thread, NobodyWorks
  <2>3. Len(mailbox[BossAid]) = 0
    BY <1>1, <2>1
  <2>4. Settled
    BY <2>1, <2>2, <2>3 DEF FanInv, Calling, Called, Bossing, BossAid
  <2>5. doingSeen'[Main] = "returned" /\ \A v \in Workers : doingSeen'[v] = doingSeen[v]
    BY <1>1, <2>1, SeenTypes
  <2>6. Gone' = Gone /\ Answered' = Answered /\ Waiting' = Waiting /\ Unserved' = Unserved
    BY <2>1 DEF Gone, Answered, Occurrences, Waiting, Unserved, BossAid
  <2>7. Answering' = Answering
    BY <1>1, <2>1, <2>5 DEF Answering
  <2>8. Balance' /\ Crew'
    BY <1>1, <2>1, <2>6, <2>7 DEF FanInv, Balance, Crew
  <2>9. ASSUME NEW v \in Workers PROVE Thread(v)'
    <3>1. Thread(v) /\ doingSeen'[v] = "idle"
      BY <2>1, <2>5 DEF FanInv, NobodyWorks
    <3> QED
      BY <1>1, <2>1, <2>2, <3>1 DEF Thread, AnswersGo, BossAid
  <2>10. Settled'
    <3>1. \A a \in Aid : mailbox[a] = << >>
      BY <1>1, <2>1 DEF Crew
    <3> QED
      BY <1>1, <2>1, <2>4, <2>5, <2>6, <3>1 DEF Settled, NobodyWorks
  <2> QED
    BY <2>8, <2>9, <2>10 DEF FanInv
<1> QED
  BY <1>2, <1>3, <1>4, <1>5, <1>6 DEF Abstract!Step

LEMMA FanInvStep ==
  ASSUME RunsFanout, TypeInv, TypeInv', FanInv, [Abstract!Next]_Abstract!vars
  PROVE  FanInv'
<1>1. CASE UNCHANGED Abstract!vars
  <2>1. UNCHANGED <<live, nextAid, agent, mailbox, log, doingSeen, ofSeen, outSeen, targets>> /\ BossAid' = BossAid
    BY <1>1 DEF Abstract!vars, Abstract!registry, BossAid
  <2>2. Waiting' = Waiting /\ Unserved' = Unserved /\ Answering' = Answering /\ Gone' = Gone /\ Answered' = Answered
    BY <2>1 DEF Waiting, Unserved, Answering, Answered, Gone, Occurrences
  <2>3. Balance' /\ Crew'
    BY <2>1, <2>2 DEF FanInv, Balance, Crew
  <2>4. \A w \in Workers : Thread(w)'
    BY <2>1, <2>2 DEF FanInv, Thread, AnswersGo, RunsBoss, Broadcasts
  <2>5. (Calling \/ Called \/ Bossing \/ Settled)'
    BY <2>1, <2>2 DEF FanInv, Calling, Called, Bossing, Settled, Untouched, NobodyWorks
  <2> QED
    BY <2>3, <2>4, <2>5 DEF FanInv
<1>2. CASE \E w \in Workers : Abstract!Step(w) \/ Abstract!Handle(w)
  BY <1>2, RouteKeeps, PutKeeps, RoutedKeeps, BeginKeeps, BodyKeeps, CommitKeeps, SpawnKeeps, RetractKeeps,
     FinishKeeps DEF Abstract!Step, Abstract!Handle
<1>3. CASE Abstract!Step(Main) \/ Abstract!Booted \/ Abstract!Return
  BY <1>3, CallerKeeps
<1> QED
  BY <1>1, <1>2, <1>3 DEF Abstract!Next

LEMMA FanInvInit ==
  ASSUME RunsFanout, TypeInv, Abstract!Init
  PROVE  FanInv
<1>1. Len(Table) = 2 /\ Main \notin Workers
  BY ProgramIs, ProcAssumption
<1>2. /\ Table[1] = [lib |-> NoLib, name |-> "worker", accepts |-> {"go"}]
      /\ Table[2] = [lib |-> NoLib, name |-> "boss", accepts |-> {"start"}]
  BY DEF RunsFanout, FanTable
<1>3. /\ live = {0, 1} /\ nextAid = 2
      /\ agent = [a \in live |-> [lib |-> Table[a + 1].lib, name |-> Table[a + 1].name, rule |-> a + 1]]
      /\ \A a \in Aid : mailbox[a] = << >>
      /\ log = << >>
      /\ \A w \in Workers : doingSeen[w] = "idle" /\ ofSeen[w] = 0 /\ targets[w] = {}
      /\ doingSeen[Main] = "emit" /\ outSeen[Main].emits = <<"start">>
  <2>1. 0 .. 2 - 1 = {0, 1}
    OBVIOUS
  <2>2. [Abstract!NoResult EXCEPT !.emits = Bootstrap].emits = Bootstrap /\ Bootstrap = <<"start">>
    BY DEF Abstract!NoResult, RunsFanout, FanBootstrap
  <2> QED
    BY <1>1, <2>1, <2>2 DEF Abstract!Init
<1>4. Gone = 0 /\ Answered = 0
  <2>1. DOMAIN log = {}
    BY <1>3
  <2>2. Occurrences("go") = {} /\ Occurrences("done") = {}
    BY <2>1 DEF Occurrences
  <2> QED
    BY <2>2, FS_EmptySet DEF Gone, Answered
<1>5. Balance
  <2>1. Waiting = {}
    <3>1. \A a \in live : a \in Aid /\ Len(mailbox[a]) = 0
      BY <1>3, SeenTypes
    <3>2. \A a \in live \ {BossAid} : {a} \X (1 .. Len(mailbox[a])) = {}
      BY <3>1
    <3> QED
      BY <3>2 DEF Waiting
  <2>2. Unserved = {} /\ Answering = {}
    BY <1>3 DEF Unserved, Answering
  <2>3. 0 + 0 + 0 + 0 = 0 * (Copies + 1)
    BY FanoutAssumption
  <2> QED
    BY <1>4, <2>1, <2>2, <2>3, FS_EmptySet DEF Balance
<1>6. Crew
  <2>1. live = 0 .. nextAid - 1 /\ DOMAIN agent = live /\ nextAid \in 2 .. Copies + 2
    BY <1>3, FanoutAssumption
  <2>2. \A a \in live : agent[a].lib = NoLib /\ agent[a].rule = IF a = BossAid THEN 2 ELSE 1
    BY <1>2, <1>3 DEF BossAid
  <2> QED
    BY <1>3, <2>1, <2>2 DEF Crew
<1>7. \A w \in Workers : Thread(w)
  BY <1>3 DEF Thread, AnswersGo, BossAid
<1>8. Calling
  <2>1. BossAid \in Aid
    BY <1>6, WhoAccepts
  <2> QED
    BY <1>3, <2>1 DEF Calling, Untouched, NobodyWorks
<1> QED
  BY <1>5, <1>6, <1>7, <1>8 DEF FanInv

\* The caller has returned: nothing waits, nothing is on its way, and nobody is at work.
LEMMA FanInvAnswers ==
  ASSUME RunsFanout, RefineInv, FanInv
  PROVE  FanAnswers
<1> SUFFICES ASSUME pc[Main] = "returned" PROVE FanAnswers
  BY DEF FanAnswers
<1>1. TypeInv /\ Main \in Proc
  BY DEF RefineInv, Proc
<1>2. doingSeen[Main] = "returned"
  BY <1>1, WhatIs DEF doingSeen
<1>3. Settled /\ NobodyWorks /\ \A a \in Aid : mailbox[a] = << >>
  BY <1>2 DEF FanInv, Calling, Called, Bossing, Settled
<1>4. Crew /\ Balance /\ \A w \in Workers : Thread(w)
  BY DEF FanInv
<1>5. Waiting = {}
  <2>1. \A a \in live : Len(mailbox[a]) = 0
    BY <1>1, <1>3, SeenTypes
  <2>2. \A a \in live \ {BossAid} : {a} \X (1 .. Len(mailbox[a])) = {}
    BY <2>1
  <2> QED
    BY <2>2 DEF Waiting
<1>6. Unserved = {} /\ Answering = {}
  BY <1>3, <1>4 DEF Unserved, Answering, NobodyWorks, Thread
<1>7. Cardinality({}) = 0 /\ Gone = Gos /\ nextAid = Copies + 2
  BY <1>3, FS_EmptySet DEF Settled
<1>8. Answered = Gos * (Copies + 1)
  <2>1. Answered + 0 + 0 + 0 = Gos * (Copies + 1)
    BY <1>4, <1>5, <1>6, <1>7 DEF Balance
  <2> QED
    BY <2>1, LogIs, <1>1
<1>9. Cardinality(live) = Copies + 2
  <2>1. live = 0 .. (Copies + 1)
    BY <1>4, <1>7, FanoutAssumption DEF Crew
  <2>2. Cardinality(0 .. (Copies + 1)) = (Copies + 1) - 0 + 1
    BY FanoutAssumption, FS_Interval
  <2> QED
    BY <2>1, <2>2, FanoutAssumption
<1> QED
  BY <1>7, <1>8, <1>9 DEF FanAnswers, Gone, Answered

\* Whatever the pool, the number of copies and the number of broadcasts: when the caller
\* returns, every worker, the freshly spawned included, has answered every `go` exactly once
\* (test_concurrent.py:36-43, :49-55).
THEOREM FanOutAnswers ==
  ASSUME RunsFanout
  PROVE  Spec => []FanAnswers
<1>1. Init /\ TypeInv => FanInv
  BY InitIsSeen, FanInvInit
<1>2. RefineInv /\ RefineInv' /\ FanInv /\ [Next]_vars => FanInv'
  BY StepIsSeen, FanInvStep DEF RefineInv
<1>3. RefineInv /\ FanInv => FanAnswers
  BY FanInvAnswers
<1>4. RefineInv => TypeInv
  BY DEF RefineInv
<1> QED
  BY <1>1, <1>2, <1>3, <1>4, RefineInvAlways, PTL DEF Spec

=============================================================================
