-------------------------- MODULE SeqMachineProofs --------------------------
(***************************************************************************)
(* What holds of both sequential machines for every program, every store   *)
(* and every step limit.                                                   *)
(***************************************************************************)
EXTENDS SeqMachine, FiniteSetTheorems, SequenceTheorems, WellFoundedInduction, TLAPS

-----------------------------------------------------------------------------
(* Lemmas about the table and about what a body may return.                *)

LEMMA TableFacts ==
  /\ Len(Table) \in Nat
  /\ Rule = 1 .. Len(Table)
  /\ \A i \in Rule : Table[i].name \in Name /\ Table[i].lib \in Lib
<1>1. Len(Table) \in Nat /\ Rule = 1 .. Len(Table)
  BY TableAssumption, LenProperties DEF Rule
<1>2. \A i \in 1 .. Len(Table) : Table[i] \in [lib : Lib, name : Name, accepts : SUBSET Msg]
  BY TableAssumption, ElementOfSeq
<1> QED
  BY <1>1, <1>2

\* resolve_spawn answers at most one rule, and one of the name it was asked for.
LEMMA ResolvesToOne ==
  ASSUME NEW sp
  PROVE  /\ ResolveSpawn(sp) \subseteq {i \in Rule : Table[i].name = sp.name}
         /\ \A i, j \in ResolveSpawn(sp) : i = j
<1> DEFINE exact == {i \in Rule : Table[i].lib = sp.lib /\ Table[i].name = sp.name}
           named == {i \in Rule : Table[i].name = sp.name}
           first == {i \in named : \A j \in named : i <= j}
<1>1. \A i, j \in exact : i = j
  BY TableAssumption
<1>2. \A i, j \in first : i = j
  BY TableFacts
<1>3. ResolveSpawn(sp) = exact \/ ResolveSpawn(sp) = first
  BY DEF ResolveSpawn
<1> QED
  BY <1>1, <1>2, <1>3

LEMMA ResultParts ==
  ASSUME NEW i \in Rule, NEW m \in Msg, Accepts(i, m), NEW s \in Store,
         NEW res \in Outcome(i, Bind(i, m, s))
  PROVE  /\ res.store \in Store
         /\ res.emits \in Seq(Msg)
         /\ res.spawned \in Seq(SpawnNode)
         /\ res.retracted \in SUBSET Name
<1>1. Bind(i, m, s) \in Store
  BY BindAssumption
<1>2. res \in Result
  BY <1>1, ProgramAssumption
<1> QED
  BY <1>2 DEF Result

\* What an installed copy is: a rule of the table under its own name.
LEMMA ResolvedRule ==
  ASSUME NEW spawned, NEW k \in Resolved(spawned)
  PROVE  LET i == CHOOSE i \in ResolveSpawn(spawned[k]) : TRUE
         IN  i \in Rule /\ Table[i].name = spawned[k].name /\ ResolveSpawn(spawned[k]) = {i}
<1>1. ResolveSpawn(spawned[k]) # {}
  BY DEF Resolved
<1>2. PICK i : i = CHOOSE j \in ResolveSpawn(spawned[k]) : TRUE
  OBVIOUS
<1>3. i \in ResolveSpawn(spawned[k])
  BY <1>1, <1>2
<1> QED
  BY <1>2, <1>3, ResolvesToOne

\* The positions of a spawn list, counted: later ones get larger ids.
LEMMA ResolvedCount ==
  ASSUME NEW spawned \in Seq(SpawnNode)
  PROVE  /\ Resolved(spawned) \subseteq Nat
         /\ Cardinality(Resolved(spawned)) \in Nat
         /\ \A k \in Resolved(spawned) :
              LET before == Cardinality({j \in Resolved(spawned) : j < k})
              IN  before \in Nat /\ before < Cardinality(Resolved(spawned))
         /\ \A k, l \in Resolved(spawned) :
              k < l => Cardinality({j \in Resolved(spawned) : j < k})
                         < Cardinality({j \in Resolved(spawned) : j < l})
<1> DEFINE R == Resolved(spawned)
           Before(k) == {j \in R : j < k}
<1>1. R \subseteq 1 .. Len(spawned) /\ Len(spawned) \in Nat
  BY LenProperties DEF Resolved
<1> HIDE DEF R
<1>2. IsFiniteSet(R)
  <2>1. IsFiniteSet(1 .. Len(spawned))
    BY <1>1, FS_Interval
  <2>2. R \in SUBSET (1 .. Len(spawned))
    BY <1>1
  <2> QED
    BY <2>1, <2>2, FS_Subset
<1>3. \A k \in R : IsFiniteSet(Before(k)) /\ Cardinality(Before(k)) \in Nat
  BY <1>2, FS_Subset, FS_CardinalityType
<1>4. Cardinality(R) \in Nat /\ R \subseteq Nat
  BY <1>1, <1>2, FS_CardinalityType
<1>5. ASSUME NEW k \in R PROVE Cardinality(Before(k)) < Cardinality(R)
  <2>1. Before(k) \in SUBSET R /\ Before(k) # R
    BY <1>4
  <2> QED
    BY <2>1, <1>2, <1>3, <1>4, FS_Subset
<1>6. ASSUME NEW k \in R, NEW l \in R, k < l
      PROVE  Cardinality(Before(k)) < Cardinality(Before(l))
  <2>0. \A j \in R : j < k => j < l
    <3>1. \A j, x, y \in Nat : j < x /\ x < y => j < y
      OBVIOUS
    <3> QED
      BY <1>4, <1>6, <3>1
  <2>1. Before(k) \in SUBSET Before(l)
    BY <2>0
  <2>2. k \in Before(l) /\ k \notin Before(k)
    BY <1>4, <1>6
  <2>3. Before(k) # Before(l)
    BY <2>2
  <2>4. IsFiniteSet(Before(l)) /\ Cardinality(Before(k)) \in Nat /\ Cardinality(Before(l)) \in Nat
    BY <1>3
  <2> HIDE DEF Before
  <2>5. /\ Cardinality(Before(k)) <= Cardinality(Before(l))
        /\ Cardinality(Before(l)) = Cardinality(Before(k)) => Before(l) = Before(k)
    BY <2>1, <2>4, FS_Subset
  <2> QED
    BY <2>3, <2>4, <2>5
<1>7. \A k \in R : Cardinality(Before(k)) < Cardinality(R)
  BY <1>5
<1>8. \A k, l \in R : k < l => Cardinality(Before(k)) < Cardinality(Before(l))
  BY <1>6
<1> QED
  BY <1>3, <1>4, <1>7, <1>8 DEF R

\* What a list of Spawn nodes installs: entries with fresh ids in increasing
\* order, one for each node that resolves.
LEMMA NewRulesFacts ==
  ASSUME NEW spawned \in Seq(SpawnNode), rid \in Nat
  PROVE  /\ NewRules(spawned) \subseteq Installed
         /\ \A r \in NewRules(spawned) :
              /\ rid <= r.id /\ r.id < rid + Cardinality(Resolved(spawned))
              /\ Table[r.node].name = r.name
         /\ \A r, s \in NewRules(spawned) : r.id = s.id => r = s
         /\ {r.node : r \in NewRules(spawned)}
              = UNION {ResolveSpawn(spawned[k]) : k \in DOMAIN spawned}
<1> DEFINE R == Resolved(spawned)
           Before(k) == Cardinality({j \in R : j < k})
           Node(k) == CHOOSE i \in ResolveSpawn(spawned[k]) : TRUE
           Entry(k) == [id |-> rid + Before(k), name |-> spawned[k].name, node |-> Node(k)]
<1>1. NewRules(spawned) = {Entry(k) : k \in R}
  BY DEF NewRules
<1>2. \A k \in R : /\ Node(k) \in Rule /\ Table[Node(k)].name = spawned[k].name
                  /\ ResolveSpawn(spawned[k]) = {Node(k)}
  BY ResolvedRule
<1>3. \A k \in R : Before(k) \in Nat /\ Before(k) < Cardinality(R)
  BY ResolvedCount
<1>4. \A k, l \in R : k < l => Before(k) < Before(l)
  BY ResolvedCount
<1>5. R \subseteq Nat /\ Cardinality(R) \in Nat
  BY ResolvedCount
<1>6. R = {k \in DOMAIN spawned : ResolveSpawn(spawned[k]) # {}}
  BY DEF Resolved
<1> HIDE DEF R, Before, Node
<1>7. \A k \in R : spawned[k].name \in Name
  BY <1>2, TableFacts
<1>8. NewRules(spawned) \subseteq Installed
  <2>1. \A k \in R : Entry(k) \in Installed
    BY <1>2, <1>3, <1>7 DEF Installed
  <2> QED
    BY <1>1, <2>1
<1>9. \A r \in NewRules(spawned) :
        /\ rid <= r.id /\ r.id < rid + Cardinality(R)
        /\ Table[r.node].name = r.name
  <2>1. \A k \in R : rid <= rid + Before(k) /\ rid + Before(k) < rid + Cardinality(R)
    BY <1>3, <1>5
  <2> QED
    BY <1>1, <1>2, <2>1
<1>10. \A r, s \in NewRules(spawned) : r.id = s.id => r = s
  <2>1. \A k, l \in R : rid + Before(k) = rid + Before(l) => k = l
    <3>1. \A k, l \in R : rid + Before(k) = rid + Before(l) => Before(k) = Before(l)
      BY <1>3
    <3>2. \A k, l \in R : Before(k) = Before(l) => ~(k < l) /\ ~(l < k)
      BY <1>3, <1>4
    <3>3. \A k, l \in R : k = l \/ k < l \/ l < k
      BY <1>5
    <3> QED
      BY <3>1, <3>2, <3>3
  <2> QED
    BY <1>1, <2>1
<1>11. {r.node : r \in NewRules(spawned)} = {Node(k) : k \in R}
  <2>1. \A k \in R : Entry(k).node = Node(k)
    OBVIOUS
  <2> HIDE DEF Entry
  <2> QED
    BY <1>1, <2>1
<1>12. {Node(k) : k \in R} = UNION {ResolveSpawn(spawned[k]) : k \in DOMAIN spawned}
  <2>1. \A k \in DOMAIN spawned : k \notin R => ResolveSpawn(spawned[k]) = {}
    BY <1>6
  <2>2. \A k \in R : k \in DOMAIN spawned /\ ResolveSpawn(spawned[k]) = {Node(k)}
    BY <1>2, <1>6
  <2>3. ASSUME NEW x PROVE x \in {Node(k) : k \in R}
                            <=> \E k \in DOMAIN spawned : x \in ResolveSpawn(spawned[k])
    BY <2>1, <2>2
  <2> QED
    BY <2>3
<1> QED
  BY <1>8, <1>9, <1>10, <1>11, <1>12 DEF R

-----------------------------------------------------------------------------
(* The rule list.                                                          *)

\* Every entry carries the name of the rule it is a copy of.
NamedByTable == \A r \in q : Table[r.node].name = r.name

\* While a name has not been retracted, the entry the table gave it is there.
OriginalsStay ==
  \A i \in Rule : Table[i].name \notin gone =>
    [id |-> i - 1, name |-> Table[i].name, node |-> i] \in q

RuleInv == TypeOK /\ FirstIsUnique /\ NamedByTable /\ OriginalsStay

LEMMA InitRuleInv == Init => RuleInv
<1> SUFFICES ASSUME Init PROVE RuleInv
  OBVIOUS
<1> DEFINE Entry(i) == [id |-> i - 1, name |-> Table[i].name, node |-> i]
<1>1. q = {Entry(i) : i \in Rule} /\ rid = Len(Table)
  BY DEF Init
<1>2. \A i \in Rule : i \in Nat /\ i - 1 \in Nat /\ i - 1 < Len(Table)
  BY TableFacts
<1>3. \A i \in Rule : Entry(i) \in Installed
  BY <1>2, TableFacts DEF Installed
<1>4. TypeOK
  <2>1. sigma \in Store /\ mu \in Seq(Msg) /\ log \in Seq(Msg)
    BY ProgramAssumption, EmptySeq DEF Init
  <2> QED
    BY <1>1, <1>3, <2>1, TableFacts DEF Init, TypeOK
<1>5. FirstIsUnique
  <2>1. \A i, j \in Rule : i - 1 = j - 1 => i = j
    BY <1>2
  <2> QED
    BY <1>1, <1>2, <2>1 DEF FirstIsUnique
<1>6. NamedByTable /\ OriginalsStay
  BY <1>1 DEF NamedByTable, OriginalsStay
<1> QED
  BY <1>4, <1>5, <1>6 DEF RuleInv

\* The rule a turn runs, and what its body hands back.
LEMMA FiredRule ==
  ASSUME TypeOK, mu # << >>, NEW r \in First(Head(mu))
  PROVE  /\ Head(mu) \in Msg /\ Tail(mu) \in Seq(Msg)
         /\ r \in q /\ r.node \in Rule /\ Accepts(r.node, Head(mu))
         /\ \A res \in Outcome(r.node, Bind(r.node, Head(mu), sigma)) :
              /\ res.store \in Store
              /\ res.emits \in Seq(Msg)
              /\ res.spawned \in Seq(SpawnNode)
              /\ res.retracted \in SUBSET Name
<1>1. Head(mu) \in Msg /\ Tail(mu) \in Seq(Msg)
  BY HeadTailProperties DEF TypeOK
<1>2. r \in q /\ Accepts(r.node, Head(mu))
  BY DEF First, Candidates
<1>3. r.node \in Rule /\ sigma \in Store
  BY <1>2 DEF TypeOK, Installed
<1> QED
  BY <1>1, <1>2, <1>3, ResultParts

LEMMA FireKeepsRuleInv ==
  ASSUME RuleInv, mu # << >>, FireRule(Head(mu))
  PROVE  RuleInv'
<1> USE DEF RuleInv
<1>1. PICK r \in First(Head(mu)) :
        \E res \in Outcome(r.node, Bind(r.node, Head(mu), sigma)) :
          /\ sigma' = res.store
          /\ mu' = Tail(mu) \o res.emits
          /\ log' = log \o res.emits
          /\ q' = Left(q \cup NewRules(res.spawned), res.retracted)
          /\ rid' = rid + Cardinality(Resolved(res.spawned))
          /\ gone' = gone \cup res.retracted
          /\ steps' = steps + 1
          /\ phase' = phase /\ port' = port
  BY DEF FireRule, Requeued, Reinstalled
<1>2. PICK res \in Outcome(r.node, Bind(r.node, Head(mu), sigma)) :
          /\ sigma' = res.store
          /\ mu' = Tail(mu) \o res.emits
          /\ log' = log \o res.emits
          /\ q' = Left(q \cup NewRules(res.spawned), res.retracted)
          /\ rid' = rid + Cardinality(Resolved(res.spawned))
          /\ gone' = gone \cup res.retracted
          /\ steps' = steps + 1
          /\ phase' = phase /\ port' = port
  BY <1>1
<1>3. /\ Tail(mu) \in Seq(Msg) /\ res.store \in Store /\ res.emits \in Seq(Msg)
      /\ res.spawned \in Seq(SpawnNode)
  BY FiredRule
<1>4. rid \in Nat
  BY DEF TypeOK
<1> DEFINE New == NewRules(res.spawned)
           Count == Cardinality(Resolved(res.spawned))
<1>5. /\ New \subseteq Installed
      /\ \A s \in New : rid <= s.id /\ s.id < rid + Count /\ Table[s.node].name = s.name
      /\ \A s, t \in New : s.id = t.id => s = t
  BY <1>3, <1>4, NewRulesFacts
<1>6. Count \in Nat
  BY <1>3, ResolvedCount
<1>7. q' \subseteq q \cup New
  BY <1>2 DEF Left
<1> HIDE DEF New, Count
<1>8. TypeOK'
  <2>1. q' \subseteq Installed
    BY <1>5, <1>7 DEF TypeOK
  <2>2. rid' \in Nat /\ steps' \in Nat
    BY <1>2, <1>4, <1>6 DEF TypeOK, Count
  <2>3. mu' \in Seq(Msg) /\ log' \in Seq(Msg)
    BY <1>2, <1>3, ConcatProperties DEF TypeOK
  <2> QED
    BY <1>2, <1>3, <2>1, <2>2, <2>3 DEF TypeOK
<1>9. FirstIsUnique'
  <2>1. rid' = rid + Count
    BY <1>2 DEF Count
  <2>2. \A s \in q : s.id \in Nat /\ s.id < rid
    BY DEF TypeOK, Installed, FirstIsUnique
  <2>3. \A s \in New : s.id \in Nat
    BY <1>5 DEF Installed
  <2>4. \A s \in q \cup New : s.id < rid'
    <3>1. \A n \in Nat : n < rid => n < rid + Count
      BY <1>4, <1>6
    <3> QED
      BY <1>5, <2>1, <2>2, <3>1
  <2>5. \A s \in q, t \in New : s.id # t.id
    <3>1. \A n, k \in Nat : n < rid /\ rid <= k => n # k
      BY <1>4
    <3> QED
      BY <1>5, <2>2, <2>3, <3>1
  <2>6. \A s, t \in q : s.id = t.id => s = t
    BY DEF FirstIsUnique
  <2>7. \A s, t \in q \cup New : s.id = t.id => s = t
    BY <1>5, <2>5, <2>6
  <2> QED
    BY <1>7, <2>4, <2>7 DEF FirstIsUnique
<1>10. NamedByTable'
  BY <1>5, <1>7 DEF NamedByTable
<1>11. OriginalsStay'
  <2> SUFFICES ASSUME NEW i \in Rule, Table[i].name \notin gone'
               PROVE  [id |-> i - 1, name |-> Table[i].name, node |-> i] \in q'
    BY DEF OriginalsStay
  <2>1. Table[i].name \notin gone /\ Table[i].name \notin res.retracted
    BY <1>2
  <2>2. [id |-> i - 1, name |-> Table[i].name, node |-> i] \in q
    BY <2>1 DEF OriginalsStay
  <2> QED
    BY <1>2, <2>1, <2>2 DEF Left
<1> QED
  BY <1>8, <1>9, <1>10, <1>11

LEMMA RuleInvStep == RuleInv /\ [Next]_vars => RuleInv'
<1> SUFFICES ASSUME RuleInv, [Next]_vars PROVE RuleInv'
  OBVIOUS
<1>1. CASE PyFire \/ RsFire
  BY <1>1, FireKeepsRuleInv DEF PyFire, RsFire, PyTurn, RsTurn
<1>2. ASSUME UNCHANGED <<port, q, rid, gone, sigma, log>>,
             mu' \in Seq(Msg), steps' \in Nat, phase' \in {"run", "stopped", "raised"}
      PROVE  RuleInv'
  BY <1>2 DEF RuleInv, TypeOK, FirstIsUnique, NamedByTable, OriginalsStay
<1>3. /\ mu \in Seq(Msg) /\ steps \in Nat /\ phase \in {"run", "stopped", "raised"}
      /\ mu # << >> => Tail(mu) \in Seq(Msg)
      /\ steps + 1 \in Nat
  BY HeadTailProperties DEF RuleInv, TypeOK
<1>4. CASE PyDrop \/ RsDrop
  BY <1>2, <1>3, <1>4 DEF PyDrop, RsDrop, PyTurn, RsTurn, DropMessage
<1>5. CASE PyRaise \/ RsRaise
  BY <1>2, <1>3, <1>5 DEF PyRaise, RsRaise, PyTurn, RsTurn, RaiseOut
<1>6. CASE PyStop \/ RsLimit \/ RsEmpty
  BY <1>2, <1>3, <1>6 DEF PyStop, RsLimit, RsEmpty, Stop
<1>7. CASE Ended \/ UNCHANGED vars
  BY <1>2, <1>3, <1>7 DEF Ended, vars
<1> QED
  BY <1>1, <1>4, <1>5, <1>6, <1>7 DEF Next

LEMMA RuleInvAlways == Spec => []RuleInv
BY InitRuleInv, RuleInvStep, PTL DEF Spec

\* Every variable keeps its type, whatever the program (interpreter.py:729-785,
\* interp.rs:1394-1480).
THEOREM SeqTypeCorrect == Spec => []TypeOK
<1>1. RuleInv => TypeOK
  BY DEF RuleInv
<1> QED
  BY <1>1, RuleInvAlways, PTL

\* Ids stay unique through any sequence of spawns and retracts, so the choice of
\* the first matching rule is deterministic (interpreter.py:755-756, :772-779).
THEOREM FirstIsOneRule == Spec => []FirstIsUnique
<1>1. RuleInv => FirstIsUnique
  BY DEF RuleInv
<1> QED
  BY <1>1, RuleInvAlways, PTL

\* A copy never reacts before its name has been retracted: the original is still in
\* the list, matches whatever the copy matches, and has a smaller id
\* (interpreter.py:749-756, :772-779).
THEOREM CopiesAreInert == Spec => []SpawnIsInert
<1>1. RuleInv => SpawnIsInert
  <2> SUFFICES ASSUME RuleInv, NEW m \in Msg, NEW r \in First(m), r.name \notin gone
               PROVE  r.id < Len(Table)
    BY DEF SpawnIsInert
  <2>1. r \in q /\ Accepts(r.node, m) /\ \A c \in Candidates(m) : r.id <= c.id
    BY DEF First, Candidates
  <2>2. r.node \in Rule /\ r.id \in Nat /\ Table[r.node].name = r.name
    BY <2>1 DEF RuleInv, TypeOK, Installed, NamedByTable
  <2> DEFINE orig == [id |-> r.node - 1, name |-> Table[r.node].name, node |-> r.node]
  <2>3. orig \in q
    BY <2>2 DEF RuleInv, OriginalsStay
  <2>4. orig \in Candidates(m) /\ orig.id = r.node - 1
    BY <2>1, <2>3 DEF Candidates
  <2>5. r.id <= r.node - 1
    BY <2>1, <2>4
  <2> QED
    BY <2>2, <2>5, TableFacts
<1> QED
  BY <1>1, RuleInvAlways, PTL

-----------------------------------------------------------------------------
(* The queue.                                                              *)

\* Taking the head of what is left of a sequence, then adding to its end.
LEMMA RestOfLonger ==
  ASSUME NEW s \in Seq(Msg), NEW e \in Seq(Msg), NEW n \in Nat, n < Len(s)
  PROVE  /\ Tail(SubSeq(s, n + 1, Len(s))) \o e = SubSeq(s \o e, n + 2, Len(s \o e))
         /\ n + 1 <= Len(s \o e)
<1>1. Len(s) \in Nat /\ Len(e) \in Nat /\ s \o e \in Seq(Msg) /\ Len(s \o e) = Len(s) + Len(e)
  BY LenProperties, ConcatProperties
<1>2. Tail(SubSeq(s, n + 1, Len(s))) = SubSeq(s, n + 2, Len(s))
  <2>1. n + 1 \in 1 .. Len(s) /\ Len(s) \in n + 1 .. Len(s) /\ n + 1 + 1 = n + 2
    BY <1>1
  <2>2. Tail(SubSeq(s, n + 1, Len(s))) = SubSeq(s, n + 1 + 1, Len(s))
    BY <2>1, HeadTailOfSubSeq
  <2> QED
    BY <2>1, <2>2
<1> DEFINE a == SubSeq(s, n + 2, Len(s))
           b == SubSeq(s \o e, n + 2, Len(s \o e))
<1>3. /\ a \in Seq(Msg) /\ Len(a) = Len(s) - n - 1
      /\ \A i \in 1 .. Len(s) - n - 1 : a[i] = s[n + 1 + i]
  <2>1. \A i \in n + 2 .. Len(s) : s[i] \in Msg
    BY <1>1, ElementOfSeq
  <2>2. n + 2 \in Int /\ Len(s) \in Int
    BY <1>1
  <2>3. /\ a \in Seq(Msg) /\ Len(a) = IF n + 2 <= Len(s) THEN Len(s) - (n + 2) + 1 ELSE 0
        /\ \A i \in 1 .. Len(s) - (n + 2) + 1 : a[i] = s[n + 2 + i - 1]
    BY <2>1, <2>2, SubSeqProperties
  <2> HIDE DEF a
  <2> QED
    BY <1>1, <2>3
<1>4. /\ b \in Seq(Msg) /\ Len(b) = Len(s) + Len(e) - n - 1
      /\ \A i \in 1 .. Len(s) + Len(e) - n - 1 : b[i] = (s \o e)[n + 1 + i]
  <2>1. \A i \in n + 2 .. Len(s \o e) : (s \o e)[i] \in Msg
    BY <1>1, ElementOfSeq
  <2>2. n + 2 \in Int /\ Len(s \o e) \in Int
    BY <1>1
  <2>3. /\ b \in Seq(Msg)
        /\ Len(b) = IF n + 2 <= Len(s \o e) THEN Len(s \o e) - (n + 2) + 1 ELSE 0
        /\ \A i \in 1 .. Len(s \o e) - (n + 2) + 1 : b[i] = (s \o e)[n + 2 + i - 1]
    BY <2>1, <2>2, SubSeqProperties
  <2> HIDE DEF b
  <2> QED
    BY <1>1, <2>3
<1> HIDE DEF a, b
<1>5. a \o e = b
  <2>1. /\ a \o e \in Seq(Msg) /\ Len(a \o e) = Len(a) + Len(e)
        /\ \A i \in 1 .. Len(a) + Len(e) : (a \o e)[i] = IF i <= Len(a) THEN a[i] ELSE e[i - Len(a)]
    BY <1>3, ConcatProperties
  <2>2. \A i \in 1 .. Len(s) + Len(e) : (s \o e)[i] = IF i <= Len(s) THEN s[i] ELSE e[i - Len(s)]
    BY ConcatProperties
  <2>3. \A i \in 1 .. Len(s) + Len(e) - n - 1 : (a \o e)[i] = b[i]
    <3> SUFFICES ASSUME NEW i \in 1 .. Len(s) + Len(e) - n - 1 PROVE (a \o e)[i] = b[i]
      OBVIOUS
    <3>1. b[i] = (s \o e)[n + 1 + i] /\ n + 1 + i \in 1 .. Len(s) + Len(e)
      BY <1>1, <1>4
    <3>2. (a \o e)[i] = IF i <= Len(s) - n - 1 THEN a[i] ELSE e[i - (Len(s) - n - 1)]
      BY <1>1, <1>3, <2>1
    <3>3. CASE i <= Len(s) - n - 1
      <4>1. n + 1 + i <= Len(s) /\ i \in 1 .. Len(s) - n - 1
        BY <1>1, <3>3
      <4>2. (s \o e)[n + 1 + i] = s[n + 1 + i]
        BY <2>2, <3>1, <4>1
      <4>3. a[i] = s[n + 1 + i]
        BY <1>3, <4>1
      <4> QED
        BY <3>1, <3>2, <3>3, <4>2, <4>3
    <3>4. CASE ~(i <= Len(s) - n - 1)
      <4>1. ~(n + 1 + i <= Len(s)) /\ n + 1 + i - Len(s) = i - (Len(s) - n - 1)
        BY <1>1, <3>4
      <4>2. (s \o e)[n + 1 + i] = e[n + 1 + i - Len(s)]
        BY <2>2, <3>1, <4>1
      <4>3. (a \o e)[i] = e[i - (Len(s) - n - 1)]
        BY <3>2, <3>4
      <4> QED
        BY <3>1, <4>1, <4>2, <4>3
    <3> QED
      BY <3>3, <3>4
  <2>4. Len(a \o e) = Len(b) /\ Len(b) = Len(s) + Len(e) - n - 1
    BY <1>1, <1>3, <1>4, <2>1
  <2> QED
    BY <1>4, <2>1, <2>3, <2>4, SeqEqual
<1>6. n + 1 <= Len(s \o e)
  BY <1>1
<1> QED
  BY <1>2, <1>5, <1>6 DEF a, b

OrderInv == TakenInOrder /\ steps <= Len(Received)

LEMMA ReceivedType == TypeOK => Received \in Seq(Msg) /\ Len(Received) \in Nat
BY ProgramAssumption, ConcatProperties, LenProperties DEF TypeOK, Received

LEMMA InitOrderInv == Init => OrderInv
<1> SUFFICES ASSUME Init PROVE OrderInv
  OBVIOUS
<1>1. Received = Bootstrap /\ mu = Bootstrap /\ steps = 0
  BY ProgramAssumption, ConcatEmptySeq DEF Init, Received
<1>2. SubSeq(Bootstrap, 1, Len(Bootstrap)) = Bootstrap /\ Len(Bootstrap) \in Nat
  BY ProgramAssumption, SubSeqFull, LenProperties
<1> QED
  BY <1>1, <1>2 DEF OrderInv, TakenInOrder

\* One turn: the head of the queue is taken, what is emitted goes to its end.
LEMMA TurnKeepsOrder ==
  ASSUME TypeOK, OrderInv, phase = "run", mu # << >>, NEW e \in Seq(Msg),
         mu' = Tail(mu) \o e, log' = log \o e, steps' = steps + 1
  PROVE  OrderInv'
<1>1. Received \in Seq(Msg) /\ Len(Received) \in Nat /\ steps \in Nat /\ log \in Seq(Msg)
  BY ReceivedType DEF TypeOK
<1>2. mu = SubSeq(Received, steps + 1, Len(Received)) /\ steps <= Len(Received)
  BY DEF OrderInv, TakenInOrder
<1>3. steps < Len(Received)
  <2> SUFFICES ASSUME steps = Len(Received) PROVE FALSE
    BY <1>1, <1>2
  <2>1. SubSeq(Received, steps + 1, Len(Received)) = << >>
    BY <1>1, SubSeqEmpty
  <2> QED
    BY <1>2, <2>1
<1>4. Received' = Received \o e
  <2>1. Received' = Bootstrap \o (log \o e)
    BY DEF Received
  <2>2. (Bootstrap \o log) \o e = Bootstrap \o (log \o e)
    BY <1>1, ProgramAssumption, ConcatAssociative, SMTT(30)
  <2> QED
    BY <2>1, <2>2 DEF Received
<1>5. /\ mu' = SubSeq(Received \o e, steps + 2, Len(Received \o e))
      /\ steps + 1 <= Len(Received \o e)
  BY <1>1, <1>2, <1>3, RestOfLonger
<1>6. steps' + 1 = steps + 2
  BY <1>1
<1> QED
  BY <1>4, <1>5, <1>6 DEF OrderInv, TakenInOrder

LEMMA OrderInvStep == TypeOK /\ OrderInv /\ [Next]_vars => OrderInv'
<1> SUFFICES ASSUME TypeOK, OrderInv, [Next]_vars PROVE OrderInv'
  OBVIOUS
<1>1. CASE PyFire \/ RsFire
  <2>1. phase = "run" /\ mu # << >> /\ FireRule(Head(mu))
    BY <1>1 DEF PyFire, RsFire, PyTurn, RsTurn
  <2>2. PICK r \in First(Head(mu)) :
          \E res \in Outcome(r.node, Bind(r.node, Head(mu), sigma)) :
            mu' = Tail(mu) \o res.emits /\ log' = log \o res.emits /\ steps' = steps + 1
    BY <2>1 DEF FireRule, Requeued
  <2>3. PICK res \in Outcome(r.node, Bind(r.node, Head(mu), sigma)) :
            mu' = Tail(mu) \o res.emits /\ log' = log \o res.emits /\ steps' = steps + 1
    BY <2>2
  <2>4. res.emits \in Seq(Msg)
    BY <2>1, FiredRule
  <2> QED
    BY <2>1, <2>3, <2>4, TurnKeepsOrder
<1>2. CASE PyDrop \/ RsDrop \/ PyRaise \/ RsRaise
  <2>1. /\ phase = "run" /\ mu # << >>
        /\ mu' = Tail(mu) /\ log' = log /\ steps' = steps + 1
    BY <1>2 DEF PyDrop, RsDrop, PyRaise, RsRaise, PyTurn, RsTurn, DropMessage, RaiseOut
  <2>2. Tail(mu) \in Seq(Msg) /\ log \in Seq(Msg)
    BY <2>1, HeadTailProperties DEF TypeOK
  <2>3. mu' = Tail(mu) \o << >> /\ log' = log \o << >> /\ << >> \in Seq(Msg)
    BY <2>1, <2>2, ConcatEmptySeq, EmptySeq
  <2> QED
    BY <2>1, <2>3, TurnKeepsOrder
<1>3. CASE PyStop \/ RsEmpty
  BY <1>3 DEF PyStop, RsEmpty, Stop, OrderInv, TakenInOrder, Received
<1>4. CASE RsLimit
  BY <1>4 DEF RsLimit, Stop, OrderInv, TakenInOrder, Received
<1>5. CASE Ended \/ UNCHANGED vars
  BY <1>5 DEF Ended, vars, OrderInv, TakenInOrder, Received
<1> QED
  BY <1>1, <1>2, <1>3, <1>4, <1>5 DEF Next

\* Every message is taken once, in the order it was received (interpreter.py:744-771,
\* interp.rs:1409-1462).
THEOREM TakenOnceInOrder == Spec => []TakenInOrder
<1>1. RuleInv => TypeOK
  BY DEF RuleInv
<1>2. OrderInv => TakenInOrder
  BY DEF OrderInv
<1> QED
  BY <1>1, <1>2, RuleInvAlways, InitOrderInv, OrderInvStep, PTL DEF Spec

-----------------------------------------------------------------------------
(* The end of a run.                                                       *)

LimitInv == EndsForAReason /\ steps <= MaxSteps

LEMMA LimitInvStep == TypeOK /\ LimitInv /\ [Next]_vars => LimitInv'
<1> SUFFICES ASSUME TypeOK, LimitInv, [Next]_vars PROVE LimitInv'
  OBVIOUS
<1> USE LimitAssumption DEF LimitInv, EndsForAReason, TypeOK
<1>1. CASE PyFire \/ RsFire \/ PyDrop \/ RsDrop \/ PyRaise \/ RsRaise
  <2>1. phase = "run" /\ steps < MaxSteps /\ steps' = steps + 1 /\ phase' \in {"run", "raised"}
    BY <1>1 DEF PyFire, RsFire, PyDrop, RsDrop, PyRaise, RsRaise, PyTurn, RsTurn,
                FireRule, DropMessage, RaiseOut
  <2> QED
    BY <2>1
<1>2. CASE PyStop \/ RsLimit \/ RsEmpty
  BY <1>2 DEF PyStop, RsLimit, RsEmpty, Stop
<1>3. CASE Ended \/ UNCHANGED vars
  BY <1>3 DEF Ended, vars
<1> QED
  BY <1>1, <1>2, <1>3 DEF Next

\* A run that did not raise either drained its queue or used up its steps
\* (interpreter.py:744, interp.rs:1409-1412).
THEOREM EndHasAReason == Spec => []EndsForAReason
<1>1. Init => LimitInv
  BY LimitAssumption DEF Init, LimitInv, EndsForAReason
<1>2. RuleInv => TypeOK
  BY DEF RuleInv
<1>3. LimitInv => EndsForAReason
  BY DEF LimitInv
<1> QED
  BY <1>1, <1>2, <1>3, RuleInvAlways, LimitInvStep, PTL DEF Spec

-----------------------------------------------------------------------------
(* Both loops implement the delta machine.                                 *)

LEMMA InitMapsToInit == Init => Abstract!DInit
<1> SUFFICES ASSUME Init PROVE Abstract!DInit
  OBVIOUS
<1> DEFINE Entry(i) == [id |-> i - 1, name |-> Table[i].name, node |-> i]
<1>1. {r.node : r \in q} = Rule
  <2>1. q = {Entry(i) : i \in Rule}
    BY DEF Init
  <2>2. \A i \in Rule : Entry(i).node = i
    OBVIOUS
  <2> HIDE DEF Entry
  <2> QED
    BY <2>1, <2>2
<1> QED
  BY <1>1 DEF Init, Abstract!DInit, Abstract!Rule, Rule

\* A firing turn is a reaction: the order of the list and the ids are forgotten.
LEMMA FireMapsToReact ==
  ASSUME RuleInv, phase = "run", mu # << >>, FireRule(Head(mu))
  PROVE  Abstract!ReactStep
<1>1. PICK r \in First(Head(mu)) :
        \E res \in Outcome(r.node, Bind(r.node, Head(mu), sigma)) :
          /\ ~res.raises
          /\ sigma' = res.store
          /\ mu' = Tail(mu) \o res.emits
          /\ log' = log \o res.emits
          /\ q' = Left(q \cup NewRules(res.spawned), res.retracted)
  BY DEF FireRule, Requeued, Reinstalled
<1>2. PICK res \in Outcome(r.node, Bind(r.node, Head(mu), sigma)) :
          /\ ~res.raises
          /\ sigma' = res.store
          /\ mu' = Tail(mu) \o res.emits
          /\ log' = log \o res.emits
          /\ q' = Left(q \cup NewRules(res.spawned), res.retracted)
  BY <1>1
<1>3. r \in q /\ Accepts(r.node, Head(mu)) /\ res.spawned \in Seq(SpawnNode)
  BY FiredRule DEF RuleInv
<1> DEFINE New == NewRules(res.spawned)
           Nodes(rules) == {x.node : x \in rules}
           Spawned == UNION {ResolveSpawn(res.spawned[k]) : k \in DOMAIN res.spawned}
<1>4. /\ Nodes(New) = Spawned
      /\ \A x \in New : Table[x.node].name = x.name
  BY <1>3, NewRulesFacts DEF RuleInv, TypeOK
<1>5. \A x \in q : Table[x.node].name = x.name
  BY DEF RuleInv, NamedByTable
<1> HIDE DEF New, Spawned
<1>6. q' = {x \in q \cup New : x.name \notin res.retracted}
  BY <1>2 DEF Left, New
<1>7. Nodes(q') = {j \in Nodes(q) \cup Spawned : Table[j].name \notin res.retracted}
  <2>1. Nodes(q') = {j \in Nodes(q) \cup Nodes(New) : Table[j].name \notin res.retracted}
    BY <1>4, <1>5, <1>6
  <2> QED
    BY <1>4, <2>1
<1>8. Nodes(q)' = Nodes(q')
  OBVIOUS
<1>9. phase' = phase
  BY DEF FireRule
<1> QED
  BY <1>2, <1>3, <1>7, <1>8, <1>9 DEF Abstract!ReactStep, Abstract!Matching, Abstract!Spawns,
     Abstract!ResolveSpawn, ResolveSpawn, Abstract!Accepts, Accepts, Spawned, Abstract!Rule, Rule

\* Every step of either loop is a step of the delta machine or leaves it alone.
LEMMA StepMapsToStep ==
  RuleInv /\ [Next]_vars => [Abstract!DNext]_(Abstract!dvars)
<1> SUFFICES ASSUME RuleInv, [Next]_vars PROVE [Abstract!DNext]_(Abstract!dvars)
  OBVIOUS
<1> USE DEF Abstract!DNext
<1>1. CASE PyFire \/ RsFire
  BY <1>1, FireMapsToReact DEF PyFire, RsFire, PyTurn, RsTurn
<1>2. CASE PyDrop \/ RsDrop
  <2>1. phase = "run" /\ mu # << >> /\ DropMessage(Head(mu))
    BY <1>2 DEF PyDrop, RsDrop, PyTurn, RsTurn
  <2>2. Abstract!Matching = {}
    BY <2>1 DEF DropMessage, Candidates, Abstract!Matching, Abstract!Accepts, Accepts
  <2> QED
    BY <2>1, <2>2 DEF DropMessage, Abstract!DropStep
<1>3. CASE PyRaise \/ RsRaise
  <2>1. phase = "run" /\ mu # << >> /\ RaiseOut(Head(mu))
    BY <1>3 DEF PyRaise, RsRaise, PyTurn, RsTurn
  <2>2. PICK r \in First(Head(mu)) :
          \E res \in Outcome(r.node, Bind(r.node, Head(mu), sigma)) : res.raises
    BY <2>1 DEF RaiseOut
  <2>3. r.node \in Abstract!Matching
    BY <2>2 DEF First, Candidates, Abstract!Matching, Abstract!Accepts, Accepts
  <2>4. /\ mu' = Tail(mu) /\ phase' = "raised" /\ log' = log
        /\ sigma' = sigma /\ {x.node : x \in q}' = {x.node : x \in q}
    BY <2>1 DEF RaiseOut
  <2> QED
    BY <2>1, <2>2, <2>3, <2>4 DEF Abstract!RaiseStep
<1>4. CASE PyStop \/ RsEmpty \/ RsLimit
  BY <1>4 DEF PyStop, RsEmpty, RsLimit, Stop, Abstract!StopStep
<1>5. CASE Ended \/ UNCHANGED vars
  BY <1>5 DEF Ended, vars, Abstract!dvars
<1> QED
  BY <1>1, <1>2, <1>3, <1>4, <1>5 DEF Next

\* Neither loop does anything the delta machine may not do (interpreter.py:3-15
\* against :744-779, interp.rs:1409-1470).
THEOREM LoopImplementsDelta == Spec => ImplementsDelta
BY RuleInvAlways, InitMapsToInit, StepMapsToStep, PTL DEF Spec, ImplementsDelta, Abstract!DSpec

-----------------------------------------------------------------------------
(* Rules that nothing can wake.                                            *)

\* Every rule that accepts one of these messages is in R.
Wakes(messages, R) == \A k \in DOMAIN messages : \A i \in Rule : Accepts(i, messages[k]) => i \in R

\* R has every rule a bootstrap message wakes, and every rule woken by what one of its own
\* may emit on a message it accepts.
ClosedUnderEmits(R) ==
  /\ Wakes(Bootstrap, R)
  /\ \A i \in R \cap Rule, m \in Msg, s \in Store :
       Accepts(i, m) => \A res \in Outcome(i, Bind(i, m, s)) : Wakes(res.emits, R)

\* The rules a run can come to: the smallest such set.
Alive == {i \in Rule : \A R \in SUBSET Rule : ClosedUnderEmits(R) => i \in R}

LEMMA AliveIsClosed == ClosedUnderEmits(Alive)
<1>1. Wakes(Bootstrap, Alive)
  BY DEF Wakes, Alive, ClosedUnderEmits
<1>2. ASSUME NEW i \in Alive \cap Rule, NEW m \in Msg, NEW s \in Store, Accepts(i, m),
             NEW res \in Outcome(i, Bind(i, m, s))
      PROVE  Wakes(res.emits, Alive)
  <2> SUFFICES ASSUME NEW k \in DOMAIN res.emits, NEW j \in Rule, Accepts(j, res.emits[k]),
                      NEW R \in SUBSET Rule, ClosedUnderEmits(R)
               PROVE  j \in R
    BY DEF Wakes, Alive
  <2>1. i \in R
    BY DEF Alive
  <2>2. Wakes(res.emits, R)
    BY <1>2, <2>1 DEF ClosedUnderEmits
  <2> QED
    BY <2>2 DEF Wakes
<1> QED
  BY <1>1, <1>2 DEF ClosedUnderEmits

LEMMA WakesHeadTail ==
  ASSUME NEW messages \in Seq(Msg), messages # << >>, NEW R, Wakes(messages, R)
  PROVE  /\ Wakes(Tail(messages), R)
         /\ \A i \in Rule : Accepts(i, Head(messages)) => i \in R
<1>1. /\ Len(messages) \in Nat \ {0} /\ DOMAIN messages = 1 .. Len(messages)
      /\ Head(messages) = messages[1] /\ DOMAIN Tail(messages) = 1 .. Len(messages) - 1
      /\ \A k \in 1 .. Len(messages) - 1 : Tail(messages)[k] = messages[k + 1]
  BY HeadTailProperties, LenProperties, EmptySeq
<1>2. 1 \in DOMAIN messages /\ \A k \in DOMAIN Tail(messages) : k + 1 \in DOMAIN messages
  BY <1>1
<1> QED
  BY <1>1, <1>2 DEF Wakes

LEMMA WakesConcat ==
  ASSUME NEW s \in Seq(Msg), NEW t \in Seq(Msg), NEW R, Wakes(s, R), Wakes(t, R)
  PROVE  Wakes(s \o t, R)
<1>1. /\ Len(s) \in Nat /\ Len(t) \in Nat /\ DOMAIN s = 1 .. Len(s) /\ DOMAIN t = 1 .. Len(t)
      /\ s \o t \in Seq(Msg) /\ DOMAIN (s \o t) = 1 .. Len(s) + Len(t)
      /\ \A i \in 1 .. Len(s) + Len(t) : (s \o t)[i] = IF i <= Len(s) THEN s[i] ELSE t[i - Len(s)]
  BY LenProperties, ConcatProperties
<1>2. ASSUME NEW k \in DOMAIN (s \o t)
      PROVE  \/ k \in DOMAIN s /\ (s \o t)[k] = s[k]
             \/ k - Len(s) \in DOMAIN t /\ (s \o t)[k] = t[k - Len(s)]
  BY <1>1
<1> QED
  BY <1>2 DEF Wakes

\* The rules the next turn may run.
Reacting ==
  IF phase = "run" /\ mu # << >> /\ steps < MaxSteps THEN {r.node : r \in First(Head(mu))} ELSE {}

\* A rule that no chain of emits from the bootstrap leads to never reacts, in however many
\* copies it is spawned: the machine may as well do without it (interpreter.py:744-779;
\* the claim behind "no unreachable rule", typechecker.py:630-656).
OnlyAliveReact == Reacting \subseteq Alive

THEOREM DeadRulesNeverRun == Spec => []OnlyAliveReact
<1> DEFINE Inv == Wakes(mu, Alive)
<1>1. Init => Inv
  BY AliveIsClosed DEF Init, ClosedUnderEmits
<1>2. RuleInv /\ Inv => OnlyAliveReact
  <2> SUFFICES ASSUME TypeOK, Inv, mu # << >>, NEW r \in First(Head(mu)) PROVE r.node \in Alive
    BY DEF RuleInv, OnlyAliveReact, Reacting
  <2>1. r.node \in Rule /\ Accepts(r.node, Head(mu))
    BY FiredRule
  <2> QED
    BY <2>1, WakesHeadTail DEF TypeOK
<1>3. RuleInv /\ Inv /\ [Next]_vars => Inv'
  <2> SUFFICES ASSUME RuleInv, Inv, [Next]_vars PROVE Wakes(mu', Alive)
    BY DEF Wakes, Alive, ClosedUnderEmits, Rule, Accepts
  <2>1. ASSUME mu' = mu \/ (mu # << >> /\ mu' = Tail(mu)) PROVE Wakes(mu', Alive)
    BY <2>1, WakesHeadTail DEF RuleInv, TypeOK
  <2>2. CASE PyFire \/ RsFire
    <3>1. mu # << >> /\ FireRule(Head(mu)) /\ TypeOK
      BY <2>2 DEF PyFire, RsFire, PyTurn, RsTurn, RuleInv
    <3>2. PICK r \in First(Head(mu)) :
            \E res \in Outcome(r.node, Bind(r.node, Head(mu), sigma)) : mu' = Tail(mu) \o res.emits
      BY <3>1 DEF FireRule, Requeued
    <3>3. PICK res \in Outcome(r.node, Bind(r.node, Head(mu), sigma)) : mu' = Tail(mu) \o res.emits
      BY <3>2
    <3>4. /\ r.node \in Rule /\ Accepts(r.node, Head(mu)) /\ Head(mu) \in Msg /\ sigma \in Store
          /\ Tail(mu) \in Seq(Msg) /\ res.emits \in Seq(Msg)
      BY <3>1, FiredRule DEF TypeOK
    <3>5. r.node \in Alive /\ Wakes(Tail(mu), Alive)
      BY <3>1, <3>4, WakesHeadTail DEF TypeOK
    <3>6. Wakes(res.emits, Alive)
      BY <3>4, <3>5, AliveIsClosed DEF ClosedUnderEmits
    <3> QED
      BY <3>3, <3>4, <3>5, <3>6, WakesConcat
  <2>3. CASE PyDrop \/ RsDrop \/ PyRaise \/ RsRaise
    BY <2>1, <2>3 DEF PyDrop, RsDrop, PyRaise, RsRaise, PyTurn, RsTurn, DropMessage, RaiseOut
  <2>4. CASE PyStop \/ RsLimit \/ RsEmpty \/ Ended \/ UNCHANGED vars
    BY <2>1, <2>4 DEF PyStop, RsLimit, RsEmpty, Stop, Ended, vars
  <2> QED
    BY <2>2, <2>3, <2>4 DEF Next
<1> HIDE DEF Inv
<1> QED
  BY <1>1, <1>2, <1>3, RuleInvAlways, PTL DEF Spec

-----------------------------------------------------------------------------
(* A run comes to its end: what stands behind Halts.                       *)

\* Every step of a run ends it, or takes one more message, of which there are no more
\* than the step limit.
EveryTurnCounts ==
  [][phase = "run" => phase' # "run" \/ (steps' = steps + 1 /\ steps' <= MaxSteps)]_vars

THEOREM TurnsAreBounded == Spec => EveryTurnCounts
<1>1. RuleInv /\ [Next]_vars =>
        [phase = "run" => phase' # "run" \/ (steps' = steps + 1 /\ steps' <= MaxSteps)]_vars
  <2> SUFFICES ASSUME RuleInv, Next, phase = "run"
               PROVE  phase' # "run" \/ (steps' = steps + 1 /\ steps' <= MaxSteps)
    OBVIOUS
  <2>1. steps \in Nat /\ MaxSteps \in Nat
    BY LimitAssumption DEF RuleInv, TypeOK
  <2>2. CASE PyFire \/ RsFire \/ PyDrop \/ RsDrop \/ PyRaise \/ RsRaise
    BY <2>1, <2>2 DEF PyFire, RsFire, PyDrop, RsDrop, PyRaise, RsRaise, PyTurn, RsTurn,
                      FireRule, DropMessage, RaiseOut
  <2>3. CASE PyStop \/ RsLimit \/ RsEmpty
    BY <2>3 DEF PyStop, RsLimit, RsEmpty, Stop
  <2> QED
    BY <2>2, <2>3 DEF Next, Ended
<1> QED
  BY <1>1, RuleInvAlways, PTL DEF Spec, EveryTurnCounts

\* While the machine runs it can go on: the loop ends, or the message at the head is one
\* nobody matches, or a first rule matches it and its body answers. These are the guards
\* of the actions of Next.
NeverStuck ==
  phase = "run" =>
    \/ mu = << >>
    \/ steps >= MaxSteps
    \/ Candidates(Head(mu)) = {}
    \/ \E r \in First(Head(mu)) : Outcome(r.node, Bind(r.node, Head(mu), sigma)) # {}

\* However rules are spawned and retracted, a message somebody matches has a first match
\* (interpreter.py:735-739).
LEMMA SomeFirst ==
  ASSUME TypeOK, NEW m, Candidates(m) # {}
  PROVE  First(m) # {}
<1> DEFINE Less == {p \in Nat \X Nat : p[1] < p[2]}
           Ids == {r.id : r \in Candidates(m)}
<1>1. IsWellFoundedOn(Less, Nat)
  BY NatLessThanWellFounded DEF OpToRel
<1>2. Ids \subseteq Nat /\ Ids # {}
  BY DEF Candidates, TypeOK, Installed
<1> HIDE DEF Less
<1>3. PICK n \in Ids : \A k \in Ids : ~(<<k, n>> \in Less)
  BY <1>1, <1>2, WFMin
<1>4. ASSUME NEW k \in Ids PROVE n <= k
  <2>1. n \in Nat /\ k \in Nat /\ ~(<<k, n>> \in Less)
    BY <1>2, <1>3
  <2> QED
    BY <2>1 DEF Less
<1>5. PICK r \in Candidates(m) : r.id = n
  OBVIOUS
<1>6. \A c \in Candidates(m) : c.id \in Ids
  OBVIOUS
<1> QED
  BY <1>4, <1>5, <1>6 DEF First

THEOREM AlwaysATurn == Spec => []NeverStuck
<1>1. RuleInv => NeverStuck
  <2> SUFFICES ASSUME TypeOK, mu # << >>, Candidates(Head(mu)) # {}
               PROVE  \E r \in First(Head(mu)) : Outcome(r.node, Bind(r.node, Head(mu), sigma)) # {}
    BY DEF RuleInv, NeverStuck
  <2>1. PICK r \in First(Head(mu)) : TRUE
    BY SomeFirst
  <2>2. r.node \in Rule /\ Accepts(r.node, Head(mu)) /\ Head(mu) \in Msg /\ sigma \in Store
    BY FiredRule DEF TypeOK
  <2>3. Bind(r.node, Head(mu), sigma) \in Store
    BY <2>2, BindAssumption
  <2> QED
    BY <2>1, <2>2, <2>3, ProgramAssumption
<1> QED
  BY <1>1, RuleInvAlways, PTL

=============================================================================
