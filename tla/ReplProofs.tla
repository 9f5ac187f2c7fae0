----------------------------- MODULE ReplProofs -----------------------------
(***************************************************************************)
(* What holds of every session, whatever the files contain, whatever the   *)
(* rules do and however many commands and edits there are.                 *)
(***************************************************************************)
EXTENDS Repl, SequenceTheorems, WellFoundedInduction, TLAPS

\* The rules the body of a turn spawns.
New(res) ==
  {Append1(res.spawned[k], "spawned", Inert, nextId + k - 1) : k \in DOMAIN res.spawned}

\* The types of what a step reads, besides those of TypeOK.
TypeInv ==
  /\ TypeOK
  /\ cur \subseteq File /\ last \subseteq File
  /\ shown \in [File -> SUBSET Version]
  /\ kept \subseteq Nat
  /\ \A s \in saved : s.store \in Store /\ s.queue \in Seq(Msg) /\ s.steps \in 0 .. MaxSteps

-----------------------------------------------------------------------------
(* Lemmas about the rules a step brings in.                                *)

LEMMA InstalledRules ==
  ASSUME NEW f \in File, NEW v \in Version, ~Broken(f, v), nextId \in Nat
  PROVE  /\ Len(Text(f, v)) \in Nat
         /\ \A r \in FromText(f, v) :
              /\ r.id \in Nat /\ nextId <= r.id /\ r.id < nextId + Len(Text(f, v))
              /\ r.source = f
              /\ r.node \in Node
              /\ \E k \in DOMAIN Text(f, v) : r.node = Text(f, v)[k]
         /\ \A r, s \in FromText(f, v) : r.id = s.id => r = s
<1> DEFINE text == Text(f, v)
<1>1. text \in Seq(Node)
  BY TextAssumption
<1>2. /\ Len(text) \in Nat
      /\ DOMAIN text = 1 .. Len(text)
      /\ \A k \in 1 .. Len(text) : text[k] \in Node
  BY <1>1, LenProperties, ElementOfSeq
<1> HIDE DEF text
<1>3. \A r \in FromText(f, v) :
        \E k \in 1 .. Len(text) : r = Append1(text[k].name, f, text[k], nextId + k - 1)
  BY <1>2 DEF FromText, text
<1>4. \A r \in FromText(f, v) :
        /\ r.id \in Nat /\ nextId <= r.id /\ r.id < nextId + Len(text)
        /\ r.source = f
        /\ r.node \in Node
        /\ \E k \in 1 .. Len(text) : r.node = text[k]
  BY <1>2, <1>3 DEF Append1
<1>5. \A r, s \in FromText(f, v) : r.id = s.id => r = s
  BY <1>2, <1>3 DEF Append1
<1> QED
  BY <1>2, <1>4, <1>5 DEF text

LEMMA SpawnedRules ==
  ASSUME nextId \in Nat, NEW res, Len(res.spawned) \in Nat, DOMAIN res.spawned = 1 .. Len(res.spawned)
  PROVE  /\ \A r \in New(res) :
              /\ r.id \in Nat /\ nextId <= r.id /\ r.id < nextId + Len(res.spawned)
              /\ r.source = "spawned"
              /\ r.node = Inert
         /\ \A r, s \in New(res) : r.id = s.id => r = s
<1> DEFINE sp == res.spawned
<1> HIDE DEF sp
<1>1. Len(sp) \in Nat /\ DOMAIN sp = 1 .. Len(sp)
  BY DEF sp
<1>2. \A r \in New(res) : \E k \in 1 .. Len(sp) : r = Append1(sp[k], "spawned", Inert, nextId + k - 1)
  BY <1>1 DEF New, sp
<1>3. \A r \in New(res) :
        r.id \in Nat /\ nextId <= r.id /\ r.id < nextId + Len(sp) /\ r.source = "spawned" /\ r.node = Inert
  BY <1>1, <1>2 DEF Append1
<1>4. \A r, s \in New(res) : r.id = s.id => r = s
  BY <1>1, <1>2 DEF Append1
<1> QED
  BY <1>3, <1>4 DEF sp

\* A turn ends in one of two ways: nothing but the message is gone, or a rule reacted.
Reacts(res) ==
  /\ rules' = {x \in rules \cup New(res) : x.name \notin res.retracted}
  /\ nextId' = nextId + Len(res.spawned)
  /\ kept' = {x \in kept : \E y \in rules' : y.id = x}
  /\ UNCHANGED shown

TypedResult(res) ==
  /\ res.store \in Store
  /\ res.emits \in Seq(Msg)
  /\ Len(res.spawned) \in Nat /\ DOMAIN res.spawned = 1 .. Len(res.spawned)

LEMMA TurnCases ==
  ASSUME TypeInv, NEW back, Turn(back)
  PROVE  \/ UNCHANGED <<rules, nextId, sigma, kept, shown>> /\ queue' = Tail(queue)
         \/ \E res : /\ TypedResult(res) /\ Reacts(res)
                     /\ sigma' = res.store /\ queue' = Tail(queue) \o res.emits
<1>1. CASE Candidates(Head(queue)) = {} /\ UNCHANGED <<rules, nextId, sigma, kept>> /\ queue' = Tail(queue)
  BY <1>1 DEF Turn
<1>2. ASSUME NEW r \in First(Head(queue)), NEW res \in Outcome(r.node, sigma), res.raises,
             UNCHANGED <<rules, nextId, sigma, kept>>, queue' = Tail(queue)
      PROVE  UNCHANGED <<rules, nextId, sigma, kept, shown>> /\ queue' = Tail(queue)
  BY <1>2 DEF Turn
<1>3. ASSUME NEW r \in First(Head(queue)), NEW res \in Outcome(r.node, sigma), ~res.raises,
             LET left == {x \in rules \cup New(res) : x.name \notin res.retracted}
             IN  /\ sigma' = res.store
                 /\ queue' = Tail(queue) \o res.emits
                 /\ rules' = left
                 /\ nextId' = nextId + Len(res.spawned)
                 /\ kept' = {x \in kept : \E y \in left : y.id = x}
      PROVE  TypedResult(res) /\ Reacts(res) /\ sigma' = res.store /\ queue' = Tail(queue) \o res.emits
  <2>1. r \in rules /\ Head(queue) \in r.node.accepts
    BY DEF First, Candidates
  <2>2. r.node \in Node
    BY <2>1 DEF TypeInv, TypeOK, Inert
  <2>3. TypedResult(res)
    BY <1>3, <2>2, OutcomeAssumption DEF TypeInv, TypeOK, TypedResult
  <2>4. UNCHANGED shown
    BY DEF Turn
  <2> QED
    BY <1>3, <2>3, <2>4 DEF Reacts
<1> QED
  BY <1>1, <1>2, <1>3 DEF Turn, TakenOff, New

-----------------------------------------------------------------------------
(* Types.                                                                  *)

LEMMA TypeInvInit == Init => TypeInv
<1> SUFFICES ASSUME Init PROVE TypeInv
  OBVIOUS
<1>1. hashes = << >> /\ DOMAIN hashes = {}
  BY DEF Init
<1>2. 0 \in 0 .. MaxSteps
  BY SessionAssumption
<1> QED
  BY <1>1, <1>2, StoreAssumption DEF Init, TypeInv, TypeOK

\* A turn, whatever it goes back to.
LEMMA TypeInvTurn ==
  ASSUME TypeInv, NEW back \in {"prompt", "run"}, Turn(back)
  PROVE  TypeInv'
<1>1. /\ steps' = steps + 1 /\ steps < MaxSteps /\ queue # << >>
      /\ pc' \in {"prompt", "run", "dead"}
      /\ UNCHANGED <<disk, files, saved, cur, todo, shown>>
  BY DEF Turn, MayStep
<1>2. steps' \in 0 .. MaxSteps
  BY <1>1, SessionAssumption DEF TypeInv, TypeOK
<1>3. Tail(queue) \in Seq(Msg)
  BY <1>1, HeadTailProperties DEF TypeInv, TypeOK
<1>4. CASE UNCHANGED <<rules, nextId, sigma, kept, shown>> /\ queue' = Tail(queue)
  BY <1>1, <1>2, <1>3, <1>4 DEF TypeInv, TypeOK, files
<1>5. ASSUME NEW res, TypedResult(res), Reacts(res),
             sigma' = res.store, queue' = Tail(queue) \o res.emits
      PROVE  TypeInv'
  <2>1. \A r \in rules' : r.id \in Nat /\ r.source \in Source /\ r.node \in Node \cup {Inert}
    <3>1. \A r \in New(res) : r.id \in Nat /\ r.source = "spawned" /\ r.node = Inert
      BY <1>5, SpawnedRules DEF TypeInv, TypeOK, TypedResult
    <3> QED
      BY <1>5, <3>1 DEF Reacts, TypeInv, TypeOK, Source
  <2>2. nextId' \in Nat /\ sigma' \in Store /\ kept' \subseteq Nat
    <3>1. nextId \in Nat /\ Len(res.spawned) \in Nat
      BY <1>5 DEF TypedResult, TypeInv, TypeOK
    <3>2. nextId' \in Nat
      BY <1>5, <3>1 DEF Reacts
    <3>3. kept' \subseteq kept
      BY <1>5 DEF Reacts
    <3>4. sigma' \in Store
      BY <1>5 DEF TypedResult
    <3> QED
      BY <3>2, <3>3, <3>4 DEF TypeInv
  <2>3. queue' \in Seq(Msg)
    BY <1>3, <1>5, ConcatProperties DEF TypedResult
  <2> QED
    BY <1>1, <1>2, <2>1, <2>2, <2>3 DEF TypeInv, TypeOK, files
<1> QED
  BY <1>4, <1>5, TurnCases

LEMMA TypeInvReload ==
  ASSUME TypeInv, NEW f \in File, HotReload(f), todo' \subseteq DOMAIN hashes
  PROVE  TypeInv'
<1>1. disk[f] \in Version
  BY DEF TypeInv, TypeOK
<1>2. UNCHANGED <<disk, session, files, saved, kept>> /\ \A r \in OthersThan(f) : r \in rules
  BY DEF HotReload, OthersThan
<1>3. CASE Broken(f, disk[f])
  BY <1>2, <1>3 DEF HotReload, TypeInv, TypeOK, session, files
<1>4. CASE ~Broken(f, disk[f])
  <2>1. /\ rules' = OthersThan(f) \cup FromText(f, disk[f])
        /\ nextId' = nextId + Len(Text(f, disk[f]))
        /\ cur' = {f} /\ pc' = "hash"
        /\ shown' = [shown EXCEPT ![f] = {disk[f]}]
    BY <1>4 DEF HotReload, Install
  <2>2. /\ Len(Text(f, disk[f])) \in Nat
        /\ \A r \in FromText(f, disk[f]) : r.id \in Nat /\ r.source = f /\ r.node \in Node
    BY <1>1, <1>4, InstalledRules DEF TypeInv, TypeOK
  <2>3. /\ nextId' \in Nat
        /\ \A r \in rules' : r.id \in Nat /\ r.source \in Source /\ r.node \in Node \cup {Inert}
    BY <1>2, <2>1, <2>2 DEF TypeInv, TypeOK, Source
  <2>4. shown' \in [File -> SUBSET Version]
    BY <1>1, <2>1 DEF TypeInv
  <2> QED
    BY <1>2, <2>1, <2>3, <2>4 DEF TypeInv, TypeOK, session, files
<1> QED
  BY <1>3, <1>4

LEMMA TypeInvLoad ==
  ASSUME TypeInv, NEW f \in File, LoadCommand(f)
  PROVE  TypeInv'
<1>1. disk[f] \in Version
  BY DEF TypeInv, TypeOK
<1>2. UNCHANGED <<disk, session, hashes, saved, todo, kept>>
  BY DEF LoadCommand
<1>3. CASE Broken(f, disk[f])
  BY <1>2, <1>3 DEF LoadCommand, TypeInv, TypeOK, session
<1>4. CASE ~Broken(f, disk[f])
  <2>1. /\ rules' = rules \cup FromText(f, disk[f])
        /\ nextId' = nextId + Len(Text(f, disk[f]))
        /\ cur' = {f} /\ pc' = "hash"
        /\ shown' = [shown EXCEPT ![f] = @ \cup {disk[f]}]
        /\ watching' = watching \cup {f} /\ last' = {f}
    BY <1>4 DEF LoadCommand, Install
  <2>2. /\ Len(Text(f, disk[f])) \in Nat
        /\ \A r \in FromText(f, disk[f]) : r.id \in Nat /\ r.source = f /\ r.node \in Node
    BY <1>1, <1>4, InstalledRules DEF TypeInv, TypeOK
  <2>3. /\ nextId' \in Nat
        /\ \A r \in rules' : r.id \in Nat /\ r.source \in Source /\ r.node \in Node \cup {Inert}
    BY <2>1, <2>2 DEF TypeInv, TypeOK, Source
  <2>4. shown' \in [File -> SUBSET Version]
    BY <1>1, <2>1 DEF TypeInv
  <2> QED
    BY <1>2, <2>1, <2>3, <2>4 DEF TypeInv, TypeOK, session
<1> QED
  BY <1>3, <1>4

LEMMA TypeInvNext == TypeInv /\ [Next]_vars => TypeInv'
<1> SUFFICES ASSUME TypeInv, [Next]_vars PROVE TypeInv'
  OBVIOUS
<1> USE DEF TypeInv, TypeOK
<1>1. CASE RunTurn
  <2>1. Turn("run")
    BY <1>1 DEF RunTurn
  <2> QED
    BY <2>1, TypeInvTurn
<1>2. CASE RunSpins \/ UNCHANGED vars
  BY <1>2 DEF RunSpins, vars, session, files
<1>3. CASE RunEnds
  BY <1>3 DEF RunEnds, session, files
<1>4. CASE TakeHash
  BY <1>4 DEF TakeHash, session
<1>5. ASSUME NEW f \in File, CheckFile(f) PROVE TypeInv'
  <2>1. /\ cur' \subseteq File /\ todo' \subseteq todo
        /\ pc' \in {"prompt", "watch", "reload"}
    BY <1>5 DEF CheckFile
  <2>2. UNCHANGED <<disk, rules, nextId, session, files, saved, shown, kept>>
    BY <1>5 DEF CheckFile
  <2> QED
    BY <2>1, <2>2 DEF session, files
<1>6. CASE StepCommand
  <2>1. Turn("prompt")
    BY <1>6 DEF StepCommand
  <2> QED
    BY <2>1, TypeInvTurn
<1>7. ASSUME NEW n, RunCommand(n) PROVE TypeInv'
  BY <1>7 DEF RunCommand, session, files
<1>8. CASE EmitCommand
  BY <1>8, AppendProperties DEF EmitCommand, Command, files
<1>9. CASE AddCommand
  <2>1. PICK n \in Typed : rules' = rules \cup {Append1(n.name, "interactive", n, nextId)}
    BY <1>9 DEF AddCommand
  <2>2. \A r \in rules' : r.id \in Nat /\ r.source \in Source /\ r.node \in Node \cup {Inert}
    BY <2>1, SessionAssumption DEF Append1, Source
  <2> QED
    BY <1>9, <2>2 DEF AddCommand, session, files
<1>10. CASE RetractCommand
  BY <1>10 DEF RetractCommand, session, files
<1>11. ASSUME NEW f \in File, LoadCommand(f) PROVE TypeInv'
  BY <1>11, TypeInvLoad
<1>12. ASSUME NEW f \in File, WatchCommand(f) PROVE TypeInv'
  BY <1>12 DEF WatchCommand, session
<1>13. ASSUME NEW f \in File, Edit(f) PROVE TypeInv'
  BY <1>13 DEF Edit, session, files
<1>14. CASE ReloadCommand
  <2>1. PICK f \in File : HotReload(f) /\ todo' \subseteq DOMAIN hashes
    BY <1>14 DEF ReloadCommand
  <2> QED
    BY <2>1, TypeInvReload
<1>15. CASE UnwatchCommand
  BY <1>15 DEF UnwatchCommand, session
<1>16. ASSUME NEW n \in Typed, EffectLine(n) PROVE TypeInv'
  <2>1. PICK res \in Outcome(n, sigma) :
          IF res.raises THEN UNCHANGED <<sigma, queue>>
          ELSE sigma' = res.store /\ queue' = queue \o res.emits
    BY <1>16 DEF EffectLine
  <2>2. sigma' \in Store /\ queue' \in Seq(Msg)
    <3>1. CASE res.raises
      BY <2>1, <3>1
    <3>2. CASE ~res.raises
      <4>1. n \in Node
        BY SessionAssumption
      <4>2. res.store \in Store /\ res.emits \in Seq(Msg)
        BY <3>2, <4>1, OutcomeAssumption
      <4>3. queue \o res.emits \in Seq(Msg)
        BY <4>2, ConcatProperties
      <4> QED
        BY <2>1, <3>2, <4>2, <4>3
    <3> QED
      BY <3>1, <3>2
  <2>3. todo' \subseteq DOMAIN hashes /\ pc' \in {"watch", "prompt"}
    BY <1>16 DEF EffectLine
  <2> QED
    BY <1>16, <2>2, <2>3 DEF EffectLine, files
<1>17. CASE CheckpointCommand
  BY <1>17, StoreAssumption DEF CheckpointCommand, Snapshot, session, files
<1>18. CASE RestoreCommand
  BY <1>18 DEF RestoreCommand, files
<1>19. CASE ReloadWatched
  <2>1. PICK f \in File : HotReload(f) /\ todo' \subseteq DOMAIN hashes
    BY <1>19 DEF ReloadWatched
  <2> QED
    BY <2>1, TypeInvReload
<1> QED
  BY <1>1, <1>2, <1>3, <1>4, <1>5, <1>6, <1>7, <1>8, <1>9, <1>10, <1>11, <1>12, <1>13, <1>14,
     <1>15, <1>16, <1>17, <1>18, <1>19 DEF Next, Working, UserActs

\* Every variable of a session keeps its type, and the step count never passes the limit,
\* whatever a restore brings back (repl.py:38-51, :98-112, :204-212).
THEOREM TypeCorrect == Spec => []TypeOK
<1>1. Spec => []TypeInv
  BY TypeInvInit, TypeInvNext, PTL DEF Spec
<1>2. TypeInv => TypeOK
  BY DEF TypeInv
<1> QED
  BY <1>1, <1>2, PTL

-----------------------------------------------------------------------------
(* What a step does to the rules.                                          *)

Adds(n) ==
  /\ rules' = rules \cup {Append1(n.name, "interactive", n, nextId)}
  /\ nextId' = nextId + 1
  /\ kept' = kept \cup {nextId}
  /\ UNCHANGED shown

Retracted(name) ==
  /\ rules' = {r \in rules : r.name # name}
  /\ kept' = {x \in kept : \E r \in rules : r.id = x /\ r.name # name}
  /\ UNCHANGED <<nextId, shown>>

\* The rules left, and those of a text that parses.
Installs(f, left, versions) ==
  /\ ~Broken(f, disk[f])
  /\ rules' = left \cup FromText(f, disk[f])
  /\ nextId' = nextId + Len(Text(f, disk[f]))
  /\ shown' = [shown EXCEPT ![f] = versions]
  /\ UNCHANGED kept

Drops(f) == rules' = OthersThan(f) /\ UNCHANGED <<nextId, kept, shown>>

LEMMA RuleSteps ==
  ASSUME TypeInv, [Next]_vars
  PROVE  \/ UNCHANGED <<rules, nextId, kept, shown>>
         \/ \E res : TypedResult(res) /\ Reacts(res)
         \/ \E n \in Typed : Adds(n)
         \/ \E name : Retracted(name)
         \/ \E f \in File : Installs(f, rules, shown[f] \cup {disk[f]})
         \/ \E f \in File : Installs(f, OthersThan(f), {disk[f]})
         \/ \E f \in File : Drops(f)
<1> DEFINE Same == UNCHANGED <<rules, nextId, kept, shown>>
           Rule(r) == TypedResult(r) /\ Reacts(r)
<1>1. ASSUME NEW back, Turn(back) PROVE Same \/ \E res : Rule(res)
  BY <1>1, TurnCases
<1>2. ASSUME NEW f \in File, HotReload(f) PROVE Installs(f, OthersThan(f), {disk[f]}) \/ Drops(f)
  BY <1>2 DEF HotReload, Install, Installs, Drops
<1>3. CASE RunTurn \/ StepCommand
  <2>1. Turn("run") \/ Turn("prompt")
    BY <1>3 DEF RunTurn, StepCommand
  <2> QED
    BY <1>1, <2>1
<1>4. CASE RunSpins \/ RunEnds \/ TakeHash \/ EmitCommand \/ UnwatchCommand \/ CheckpointCommand
           \/ RestoreCommand \/ UNCHANGED vars
  <2>1. Same
    BY <1>4 DEF RunSpins, RunEnds, TakeHash, EmitCommand, UnwatchCommand, CheckpointCommand,
                RestoreCommand, vars
  <2> QED
    BY <2>1
<1>5. ASSUME NEW f \in File, CheckFile(f) PROVE Same
  BY <1>5 DEF CheckFile
<1>6. ASSUME NEW n, RunCommand(n) PROVE Same
  BY <1>6 DEF RunCommand
<1>7. ASSUME NEW f \in File, WatchCommand(f) \/ Edit(f) PROVE Same
  BY <1>7 DEF WatchCommand, Edit
<1>8. ASSUME NEW n \in Typed, EffectLine(n) PROVE Same
  BY <1>8 DEF EffectLine
<1>9. CASE AddCommand
  <2>1. \E n \in Typed : Adds(n)
    BY <1>9 DEF AddCommand, Adds
  <2> QED
    BY <2>1
<1>10. CASE RetractCommand
  <2>1. \E name : Retracted(name)
    BY <1>10 DEF RetractCommand, Retracted
  <2> QED
    BY <2>1
<1>11. ASSUME NEW f \in File, LoadCommand(f)
       PROVE  Same \/ Installs(f, rules, shown[f] \cup {disk[f]})
  BY <1>11 DEF LoadCommand, Install, Installs
<1>12. CASE ReloadCommand \/ ReloadWatched
  <2>1. PICK f \in File : HotReload(f)
    BY <1>12 DEF ReloadCommand, ReloadWatched, TypeInv
  <2> QED
    BY <1>2, <2>1
<1>13. CASE \E f \in File : CheckFile(f)
  BY <1>5, <1>13
<1>14. CASE RunCommand(1) \/ RunCommand(MaxSteps) \/ (\E f \in File : WatchCommand(f) \/ Edit(f))
            \/ \E n \in Typed : EffectLine(n)
  <2>1. Same
    BY <1>6, <1>7, <1>8, <1>14
  <2> QED
    BY <2>1
<1>15. CASE \E f \in File : LoadCommand(f)
  BY <1>11, <1>15
<1> QED
  BY <1>3, <1>4, <1>9, <1>10, <1>12, <1>13, <1>14, <1>15 DEF Next, Working, UserActs

-----------------------------------------------------------------------------
(* The ids.                                                                *)

LEMMA IdsStep == TypeInv /\ IdsAreFresh /\ [Next]_vars => IdsAreFresh'
<1> SUFFICES ASSUME TypeInv, IdsAreFresh, [Next]_vars PROVE IdsAreFresh'
  OBVIOUS
<1>1. nextId \in Nat /\ \A r \in rules : r.id \in Nat
  BY DEF TypeInv, TypeOK
<1>2. CASE UNCHANGED <<rules, nextId, kept, shown>>
  BY <1>2 DEF IdsAreFresh
<1>3. ASSUME NEW res, TypedResult(res), Reacts(res) PROVE IdsAreFresh'
  <2>1. /\ Len(res.spawned) \in Nat
        /\ \A r \in New(res) : r.id \in Nat /\ nextId <= r.id /\ r.id < nextId + Len(res.spawned)
        /\ \A r, s \in New(res) : r.id = s.id => r = s
    BY <1>1, <1>3, SpawnedRules DEF TypedResult
  <2>2. rules' \subseteq rules \cup New(res) /\ nextId' = nextId + Len(res.spawned)
    BY <1>3 DEF Reacts
  <2>3. \A r \in rules' : r.id < nextId'
    BY <1>1, <2>1, <2>2 DEF IdsAreFresh
  <2>4. \A r, s \in rules' : r.id = s.id => r = s
    BY <1>1, <2>1, <2>2 DEF IdsAreFresh
  <2> QED
    BY <2>3, <2>4 DEF IdsAreFresh
<1>4. ASSUME NEW n \in Typed, Adds(n) PROVE IdsAreFresh'
  BY <1>1, <1>4 DEF Adds, Append1, IdsAreFresh
<1>5. ASSUME NEW name, Retracted(name) PROVE IdsAreFresh'
  BY <1>5 DEF Retracted, IdsAreFresh
<1>6. ASSUME NEW f \in File, NEW left, NEW versions, left \subseteq rules, Installs(f, left, versions)
      PROVE  IdsAreFresh'
  <2>1. disk[f] \in Version /\ ~Broken(f, disk[f])
    BY <1>6 DEF Installs, TypeInv, TypeOK
  <2>2. /\ Len(Text(f, disk[f])) \in Nat
        /\ \A r \in FromText(f, disk[f]) :
             r.id \in Nat /\ nextId <= r.id /\ r.id < nextId + Len(Text(f, disk[f]))
        /\ \A r, s \in FromText(f, disk[f]) : r.id = s.id => r = s
    BY <1>1, <2>1, InstalledRules
  <2>3. rules' \subseteq rules \cup FromText(f, disk[f]) /\ nextId' = nextId + Len(Text(f, disk[f]))
    BY <1>6 DEF Installs
  <2>4. \A r \in rules' : r.id < nextId'
    BY <1>1, <2>2, <2>3 DEF IdsAreFresh
  <2>5. \A r, s \in rules' : r.id = s.id => r = s
    BY <1>1, <2>2, <2>3 DEF IdsAreFresh
  <2> QED
    BY <2>4, <2>5 DEF IdsAreFresh
<1>7. ASSUME NEW f \in File, Drops(f) PROVE IdsAreFresh'
  BY <1>7 DEF Drops, OthersThan, IdsAreFresh
<1>8. \A f \in File : OthersThan(f) \subseteq rules
  BY DEF OthersThan
<1> QED
  BY <1>2, <1>3, <1>4, <1>5, <1>6, <1>7, <1>8, RuleSteps

\* No two entries of the rule list ever share an id, and the next one is new, however rules
\* are loaded, reloaded, added and spawned (repl.py:62-94, :123-133).
THEOREM IdsStayFresh == Spec => []IdsAreFresh
<1>1. Init => IdsAreFresh
  BY DEF Init, IdsAreFresh
<1>2. Spec => []TypeInv
  BY TypeInvInit, TypeInvNext, PTL DEF Spec
<1> QED
  BY <1>1, <1>2, IdsStep, PTL DEF Spec

-----------------------------------------------------------------------------
(* Rules typed by hand.                                                    *)

LEMMA TypedRulesStep == TypeInv /\ IdsAreFresh /\ TypedRulesStay /\ [Next]_vars => TypedRulesStay'
<1> SUFFICES ASSUME TypeInv, IdsAreFresh, TypedRulesStay, [Next]_vars PROVE TypedRulesStay'
  OBVIOUS
<1>1. nextId \in Nat /\ \A r \in rules : r.id \in Nat
  BY DEF TypeInv, TypeOK
<1>2. CASE UNCHANGED <<rules, nextId, kept, shown>>
  BY <1>2 DEF TypedRulesStay
<1>3. ASSUME NEW res, TypedResult(res), Reacts(res) PROVE TypedRulesStay'
  <2>1. SUFFICES ASSUME NEW x \in kept' PROVE \E r \in rules' : r.id = x /\ r.source = "interactive"
    BY DEF TypedRulesStay
  <2>2. PICK r \in rules : r.id = x /\ r.source = "interactive"
    BY <1>3 DEF Reacts, TypedRulesStay
  <2>3. PICK y \in rules' : y.id = x
    BY <1>3 DEF Reacts
  <2>4. y \notin New(res)
    <3>1. \A z \in New(res) : z.id \in Nat /\ nextId <= z.id
      BY <1>1, <1>3, SpawnedRules DEF TypedResult
    <3>2. x \in Nat /\ x < nextId
      BY <1>1, <2>2 DEF IdsAreFresh
    <3> QED
      BY <1>1, <2>3, <3>1, <3>2
  <2>5. y = r
    BY <1>3, <2>2, <2>3, <2>4 DEF Reacts, IdsAreFresh
  <2> QED
    BY <2>2, <2>3, <2>5
<1>4. ASSUME NEW n \in Typed, Adds(n) PROVE TypedRulesStay'
  <2>1. LET new == Append1(n.name, "interactive", n, nextId)
        IN  new \in rules' /\ new.id = nextId /\ new.source = "interactive"
    BY <1>4 DEF Adds, Append1
  <2> QED
    BY <1>4, <2>1 DEF Adds, TypedRulesStay
<1>5. ASSUME NEW name, Retracted(name) PROVE TypedRulesStay'
  <2>1. SUFFICES ASSUME NEW x \in kept' PROVE \E r \in rules' : r.id = x /\ r.source = "interactive"
    BY DEF TypedRulesStay
  <2>2. PICK r \in rules : r.id = x /\ r.source = "interactive"
    BY <1>5 DEF Retracted, TypedRulesStay
  <2>3. PICK y \in rules : y.id = x /\ y.name # name
    BY <1>5 DEF Retracted
  <2>4. y = r
    BY <2>2, <2>3 DEF IdsAreFresh
  <2> QED
    BY <1>5, <2>2, <2>3, <2>4 DEF Retracted
<1>6. ASSUME NEW f \in File, NEW left, NEW versions, Installs(f, left, versions),
             \A r \in rules : r.source = "interactive" => r \in left
      PROVE  TypedRulesStay'
  BY <1>6 DEF Installs, TypedRulesStay
<1>7. ASSUME NEW f \in File, Drops(f) PROVE TypedRulesStay'
  BY <1>7, SourceAssumption DEF Drops, OthersThan, TypedRulesStay
<1>8. \A f \in File : \A r \in rules : r.source = "interactive" => r \in OthersThan(f)
  BY SourceAssumption DEF OthersThan
<1> QED
  BY <1>2, <1>3, <1>4, <1>5, <1>6, <1>7, <1>8, RuleSteps

\* A rule typed by hand is in the list until its name is retracted: no load, reload, watch or
\* restore removes it (repl.py:78, :128, :185-189).
THEOREM TypedRulesSurvive == Spec => []TypedRulesStay
<1>1. Init => TypedRulesStay
  BY DEF Init, TypedRulesStay
<1>2. Spec => []TypeInv
  BY TypeInvInit, TypeInvNext, PTL DEF Spec
<1> QED
  BY <1>1, <1>2, IdsStayFresh, TypedRulesStep, PTL DEF Spec

-----------------------------------------------------------------------------
(* The rules of the files.                                                 *)

LEMMA FileRulesStep == TypeInv /\ FileRulesAreCurrent /\ [Next]_vars => FileRulesAreCurrent'
<1> SUFFICES ASSUME TypeInv, FileRulesAreCurrent, [Next]_vars PROVE FileRulesAreCurrent'
  OBVIOUS
<1> DEFINE Current(r, versions) ==
             \E v \in versions : \E k \in DOMAIN Text(r.source, v) : r.node = Text(r.source, v)[k]
<1>1. \A r \in rules : r.source \in File => Current(r, shown[r.source])
  BY DEF FileRulesAreCurrent
<1>2. SUFFICES \A r \in rules' : r.source \in File => Current(r, shown'[r.source])
  BY DEF FileRulesAreCurrent
<1>3. nextId \in Nat /\ shown \in [File -> SUBSET Version]
  BY DEF TypeInv, TypeOK
<1> HIDE DEF Current
<1>4. CASE UNCHANGED <<rules, nextId, kept, shown>>
  BY <1>1, <1>4
<1>5. ASSUME NEW res, TypedResult(res), Reacts(res)
      PROVE  \A r \in rules' : r.source \in File => Current(r, shown'[r.source])
  <2>1. \A r \in New(res) : r.source \notin File
    BY <1>3, <1>5, SpawnedRules, SourceAssumption DEF TypedResult
  <2> QED
    BY <1>1, <1>5, <2>1 DEF Reacts
<1>6. ASSUME NEW n \in Typed, Adds(n)
      PROVE  \A r \in rules' : r.source \in File => Current(r, shown'[r.source])
  <2>1. Append1(n.name, "interactive", n, nextId).source \notin File
    BY SourceAssumption DEF Append1
  <2> QED
    BY <1>1, <1>6, <2>1 DEF Adds
<1>7. ASSUME NEW name, Retracted(name)
      PROVE  \A r \in rules' : r.source \in File => Current(r, shown'[r.source])
  BY <1>1, <1>7 DEF Retracted
<1>8. ASSUME NEW f \in File, NEW left, NEW versions, Installs(f, left, versions), left \subseteq rules,
             disk[f] \in versions,
             \A r \in left : r.source = f => shown[f] \subseteq versions
      PROVE  \A r \in rules' : r.source \in File => Current(r, shown'[r.source])
  <2>1. disk[f] \in Version /\ ~Broken(f, disk[f])
    BY <1>8 DEF Installs, TypeInv, TypeOK
  <2>2. shown'[f] = versions /\ \A g \in File \ {f} : shown'[g] = shown[g]
    BY <1>3, <1>8 DEF Installs
  <2>3. ASSUME NEW r \in FromText(f, disk[f]) PROVE Current(r, shown'[r.source])
    <3>1. r.source = f /\ \E k \in DOMAIN Text(f, disk[f]) : r.node = Text(f, disk[f])[k]
      BY <1>3, <2>1, InstalledRules
    <3> QED
      BY <1>8, <2>2, <3>1 DEF Current
  <2>4. ASSUME NEW r \in left, r.source \in File PROVE Current(r, shown'[r.source])
    <3>1. r \in rules /\ Current(r, shown[r.source])
      BY <1>1, <1>8, <2>4
    <3>2. shown[r.source] \subseteq shown'[r.source]
      BY <1>8, <2>2, <2>4
    <3> QED
      BY <3>1, <3>2 DEF Current
  <2> QED
    BY <1>8, <2>3, <2>4 DEF Installs
<1>9. ASSUME NEW f \in File, Drops(f)
      PROVE  \A r \in rules' : r.source \in File => Current(r, shown'[r.source])
  BY <1>1, <1>9 DEF Drops, OthersThan
<1>10. \A f \in File : OthersThan(f) \subseteq rules /\ \A r \in OthersThan(f) : r.source # f
  BY DEF OthersThan
<1>11. ASSUME NEW f \in File, Installs(f, rules, shown[f] \cup {disk[f]})
       PROVE  \A r \in rules' : r.source \in File => Current(r, shown'[r.source])
  <2>1. rules \subseteq rules /\ disk[f] \in shown[f] \cup {disk[f]} /\ shown[f] \subseteq shown[f] \cup {disk[f]}
    OBVIOUS
  <2> QED
    BY <1>8, <1>11, <2>1
<1>12. ASSUME NEW f \in File, Installs(f, OthersThan(f), {disk[f]})
       PROVE  \A r \in rules' : r.source \in File => Current(r, shown'[r.source])
  <2>1. disk[f] \in {disk[f]}
    OBVIOUS
  <2> QED
    BY <1>8, <1>10, <1>12, <2>1
<1> QED
  BY <1>4, <1>5, <1>6, <1>7, <1>9, <1>11, <1>12, RuleSteps

\* A rule of a file is one of a text read since the last reload of that file: nothing of an
\* older text is left (repl.py:54-96, :214-221).
THEOREM FileRulesStayCurrent == Spec => []FileRulesAreCurrent
<1>1. Init => FileRulesAreCurrent
  BY DEF Init, FileRulesAreCurrent
<1>2. Spec => []TypeInv
  BY TypeInvInit, TypeInvNext, PTL DEF Spec
<1> QED
  BY <1>1, <1>2, FileRulesStep, PTL DEF Spec

-----------------------------------------------------------------------------
(* The loop of `:run`.                                                     *)

\* A turn of `:run` ends it, or counts one step of those it was given and of those the
\* session has left; besides, the user may edit a file (repl.py:97-107, :141-146).
RunCounts ==
  [][pc = "run" => \/ pc' # "run"
                   \/ steps < budget /\ steps' = steps + 1 /\ steps' <= MaxSteps /\ budget' = budget
                   \/ edits' = edits + 1 /\ UNCHANGED <<steps, budget, queue>>]_vars

THEOREM RunTurnsCount == Spec => RunCounts
<1>1. TypeInv /\ [Next]_vars =>
        [pc = "run" => \/ pc' # "run"
                       \/ steps < budget /\ steps' = steps + 1 /\ steps' <= MaxSteps /\ budget' = budget
                       \/ edits' = edits + 1 /\ UNCHANGED <<steps, budget, queue>>]_vars
  <2> SUFFICES ASSUME TypeInv, Next, pc = "run", pc' = "run", ~UNCHANGED vars
               PROVE  \/ steps < budget /\ steps' = steps + 1 /\ steps' <= MaxSteps /\ budget' = budget
                      \/ edits' = edits + 1 /\ UNCHANGED <<steps, budget, queue>>
    OBVIOUS
  <2>1. CASE RunTurn
    <3>1. steps < budget /\ steps < MaxSteps /\ steps' = steps + 1 /\ budget' = budget
      BY <2>1 DEF RunTurn, Running, Turn, MayStep
    <3>2. steps \in Nat /\ MaxSteps \in Nat
      BY SessionAssumption DEF TypeInv, TypeOK
    <3> QED
      BY <3>1, <3>2
  <2>2. CASE \E f \in File : Edit(f)
    BY <2>2 DEF Edit, session
  <2>3. ~RunSpins /\ ~RunEnds /\ ~ReloadWatched /\ ~TakeHash /\ \A f \in File : ~CheckFile(f)
    BY DEF RunSpins, RunEnds, ReloadWatched, TakeHash, CheckFile
  <2>4. /\ ~StepCommand /\ ~RunCommand(1) /\ ~RunCommand(MaxSteps) /\ ~EmitCommand /\ ~AddCommand
        /\ ~RetractCommand /\ ~ReloadCommand /\ ~UnwatchCommand /\ ~CheckpointCommand /\ ~RestoreCommand
    BY DEF Command, StepCommand, RunCommand, EmitCommand, AddCommand, RetractCommand, ReloadCommand,
           UnwatchCommand, CheckpointCommand, RestoreCommand
  <2>5. (\A f \in File : ~LoadCommand(f) /\ ~WatchCommand(f)) /\ \A n \in Typed : ~EffectLine(n)
    BY DEF Command, LoadCommand, WatchCommand, EffectLine
  <2> QED
    BY <2>1, <2>2, <2>3, <2>4, <2>5 DEF Next, Working, UserActs
<1>2. Spec => []TypeInv
  BY TypeInvInit, TypeInvNext, PTL DEF Spec
<1> QED
  BY <1>1, <1>2, PTL DEF Spec, RunCounts

\* However rules were loaded, added, spawned and dropped, a message somebody matches has
\* a first match (repl.py:111-115).
LEMMA SomeFirst ==
  ASSUME TypeOK, NEW m, Candidates(m) # {}
  PROVE  First(m) # {}
<1> DEFINE Less == {p \in Nat \X Nat : p[1] < p[2]}
           Ids == {r.id : r \in Candidates(m)}
<1>1. IsWellFoundedOn(Less, Nat)
  BY NatLessThanWellFounded DEF OpToRel
<1>2. Ids \subseteq Nat /\ Ids # {}
  BY DEF Candidates, TypeOK
<1> HIDE DEF Less
<1>3. PICK n \in Ids : \A k \in Ids : ~(<<k, n>> \in Less)
  BY <1>1, <1>2, WFMin
<1>4. ASSUME NEW k \in Ids PROVE n <= k
  <2>1. n \in Nat /\ k \in Nat /\ ~(<<k, n>> \in Less)
    BY <1>2, <1>3
  <2> QED
    BY <2>1 DEF Less
<1>5. PICK r \in Candidates(m) : r.id = n
  OBVIOUS
<1>6. \A c \in Candidates(m) : c.id \in Ids
  OBVIOUS
<1> QED
  BY <1>4, <1>5, <1>6 DEF First

\* While `:run` runs it can go on: it ends, or a turn is possible, or the limit of the
\* session is reached and messages are left. That is the one way in which it hangs.
RunGoesOn ==
  pc = "run" =>
    \/ ~Running
    \/ steps = MaxSteps /\ queue # << >>
    \/ MayStep /\ Candidates(Head(queue)) = {}
    \/ MayStep /\ \E r \in First(Head(queue)) : Outcome(r.node, sigma) # {}

THEOREM RunHangsAtTheLimitOnly ==
  ASSUME \A n \in Node, s \in Store : Outcome(n, s) # {}
  PROVE  Spec => []RunGoesOn
<1>1. TypeInv => RunGoesOn
  <2> SUFFICES ASSUME TypeInv, Running, steps # MaxSteps
               PROVE  /\ MayStep
                      /\ Candidates(Head(queue)) # {} => \E r \in First(Head(queue)) : Outcome(r.node, sigma) # {}
    BY DEF RunGoesOn, Running
  <2>1. MayStep
    BY SessionAssumption DEF TypeInv, TypeOK, Running, MayStep
  <2>2. ASSUME Candidates(Head(queue)) # {}
        PROVE  \E r \in First(Head(queue)) : Outcome(r.node, sigma) # {}
    <3>1. PICK r \in First(Head(queue)) : TRUE
      BY <2>2, SomeFirst DEF TypeInv
    <3>2. r.node \in Node /\ sigma \in Store
      BY <3>1 DEF First, Candidates, TypeInv, TypeOK, Inert
    <3> QED
      BY <3>1, <3>2
  <2> QED
    BY <2>1, <2>2
<1>2. Spec => []TypeInv
  BY TypeInvInit, TypeInvNext, PTL DEF Spec
<1> QED
  BY <1>1, <1>2, PTL

=============================================================================
