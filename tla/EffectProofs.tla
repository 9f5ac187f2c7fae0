---------------------------- MODULE EffectProofs ----------------------------
(***************************************************************************)
(* What holds of sequences, par and forall whatever the effects in them    *)
(* do: an effect is any function from stores to outcomes, which is all the *)
(* evaluators see of the effects they put together.                        *)
(***************************************************************************)
EXTENDS Effects, SequenceTheorems, WellFoundedInduction, TLAPS

CONSTANTS Names, Values, Copies   \* of variables and rules; the copies spawn makes

Store == UNION {[D -> Values] : D \in SUBSET Names}
Outcome ==
  [kind : {"ok", "err", "crash"}, store : Store, emits : Seq(Values), spawned : Seq(Copies),
   retracted : SUBSET Names]
Effect == [Store -> Outcome]

\* A block of effects.
Block(effects, s) == InTurn(Len(effects), s, LAMBDA k, s1 : effects[k][s1])
Assign(x, v) == [s \in Store |-> Done(Bound(s, x, v))]
ForAll(port, x, items, body, s) == ForItems(port, x, items, s, LAMBDA s1 : body[s1])

-----------------------------------------------------------------------------
(* Induction.                                                              *)

LEMMA LeastNumber ==
  ASSUME NEW S \in SUBSET Nat, S # {}
  PROVE  \E m \in S : \A s \in S : m <= s
<1> DEFINE Less == {p \in Nat \X Nat : p[1] < p[2]}
<1>1. IsWellFoundedOn(Less, Nat)
  BY NatLessThanWellFounded DEF OpToRel
<1> HIDE DEF Less
<1>2. PICK m \in S : \A s \in S : ~(<<s, m>> \in Less)
  BY <1>1, WFMin
<1>3. \A s \in S : <<s, m>> \in Nat \X Nat
  OBVIOUS
<1>4. \A s \in S : ~(s < m)
  BY <1>2, <1>3 DEF Less
<1> QED
  BY <1>4

\* A set of numbers that begins at 0 and goes on up to n is all of them.
LEMMA UpTo ==
  ASSUME NEW n \in Nat, NEW S, 0 \in S, \A k \in 1 .. n : k - 1 \in S => k \in S
  PROVE  \A k \in 0 .. n : k \in S
<1> DEFINE Missed == {k \in 0 .. n : k \notin S}
<1> SUFFICES ASSUME Missed # {} PROVE FALSE
  OBVIOUS
<1>1. PICK m \in Missed : \A k \in Missed : m <= k
  <2>1. Missed \in SUBSET Nat
    OBVIOUS
  <2> QED
    BY <2>1, LeastNumber
<1>2. m # 0 /\ m \in 0 .. n
  OBVIOUS
<1>3. m \in 1 .. n /\ m - 1 \in 0 .. n
  BY <1>2
<1>4. m - 1 \notin Missed
  BY <1>1, <1>3
<1> QED
  BY <1>3, <1>4

\* A function can be defined by recursion over the steps 1 .. n.
Recurs(n, A, a, h, f) ==
  f \in [0 .. n -> A] /\ f[0] = a /\ \A k \in 1 .. n : f[k] = h[k][f[k - 1]]

LEMMA Recursion ==
  ASSUME NEW n \in Nat, NEW A, NEW a \in A, NEW h, h \in [1 .. n -> [A -> A]]
  PROVE  \E f : Recurs(n, A, a, h, f)
<1> DEFINE Up(m, f) == f \in [0 .. m -> A] /\ f[0] = a /\ \A k \in 1 .. m : f[k] = h[k][f[k - 1]]
           S == {m \in 0 .. n : \E f : Up(m, f)}
<1>1. 0 \in S
  <2>1. Up(0, [k \in 0 .. 0 |-> a])
    <3>1. 1 .. 0 = {} /\ 0 \in 0 .. 0
      OBVIOUS
    <3> QED
      BY <3>1
  <2>2. 0 \in 0 .. n
    OBVIOUS
  <2> HIDE DEF Up
  <2> QED
    BY <2>1, <2>2
<1>2. ASSUME NEW m \in 1 .. n, m - 1 \in S PROVE m \in S
  <2>1. PICK f : Up(m - 1, f)
    BY <1>2
  <2>2. /\ m \in Nat \ {0} /\ m \in 0 .. n /\ m - 1 \in 0 .. m - 1
        /\ 0 \in 0 .. m - 1 /\ 0 # m
    OBVIOUS
  <2>3. f \in [0 .. m - 1 -> A] /\ f[0] = a /\ \A k \in 1 .. m - 1 : f[k] = h[k][f[k - 1]]
    BY <2>1
  <2> HIDE DEF Up
  <2>4. h[m][f[m - 1]] \in A
    BY <2>2, <2>3
  <2> DEFINE g == [k \in 0 .. m |-> IF k = m THEN h[m][f[m - 1]] ELSE f[k]]
  <2>5. ASSUME NEW k \in 0 .. m, k # m PROVE k \in 0 .. m - 1
    BY <2>5, <2>2
  <2>6. g \in [0 .. m -> A]
    BY <2>3, <2>4, <2>5
  <2>7. g[0] = a
    BY <2>2, <2>3
  <2>8. ASSUME NEW k \in 1 .. m PROVE g[k] = h[k][g[k - 1]]
    <3>1. k \in 0 .. m /\ k - 1 \in 0 .. m /\ k - 1 # m
      BY <2>2
    <3>2. g[k - 1] = f[k - 1]
      BY <3>1
    <3>3. CASE k = m
      BY <3>1, <3>2, <3>3
    <3>4. CASE k # m
      <4>1. k \in 1 .. m - 1
        BY <2>2, <3>4
      <4> QED
        BY <2>3, <3>1, <3>2, <3>4, <4>1
    <3> QED
      BY <3>3, <3>4
  <2> HIDE DEF g
  <2>9. Up(m, g)
    BY <2>6, <2>7, <2>8 DEF Up
  <2> QED
    BY <2>2, <2>9
<1>3. n \in S
  <2> HIDE DEF S
  <2>1. \A k \in 1 .. n : k - 1 \in S => k \in S
    BY <1>2
  <2>2. \A k \in 0 .. n : k \in S
    BY <1>1, <2>1, UpTo
  <2> QED
    BY <2>2
<1> QED
  BY <1>3 DEF Recurs

-----------------------------------------------------------------------------
(* Stores and outcomes.                                                    *)

LEMMA StoreIs ==
  ASSUME NEW s \in Store
  PROVE  s \in [DOMAIN s -> Values] /\ DOMAIN s \in SUBSET Names
BY DEF Store

LEMMA IsStore ==
  ASSUME NEW D \in SUBSET Names, NEW s \in [D -> Values]
  PROVE  s \in Store
BY DEF Store

LEMMA BoundIs ==
  ASSUME NEW s \in Store, NEW x \in Names, NEW v \in Values
  PROVE  /\ Bound(s, x, v) \in Store
         /\ Bound(s, x, v) = [y \in DOMAIN s \cup {x} |-> IF y = x THEN v ELSE s[y]]
<1>1. Bound(s, x, v) = [y \in DOMAIN s \cup {x} |-> IF y = x THEN v ELSE s[y]]
  BY DEF Bound, Above
<1>2. Bound(s, x, v) \in [DOMAIN s \cup {x} -> Values]
  BY <1>1, StoreIs
<1>3. DOMAIN s \cup {x} \in SUBSET Names
  BY StoreIs
<1> QED
  BY <1>1, <1>2, <1>3, IsStore

LEMMA WithoutIs ==
  ASSUME NEW s \in Store, NEW x
  PROVE  /\ Without(s, x) \in Store
         /\ Without(s, x) = [y \in DOMAIN s \ {x} |-> s[y]]
<1>1. Without(s, x) = [y \in DOMAIN s \ {x} |-> s[y]]
  BY DEF Without, Restrict
<1>2. Without(s, x) \in [DOMAIN s \ {x} -> Values]
  BY <1>1, StoreIs
<1>3. DOMAIN s \ {x} \in SUBSET Names
  BY StoreIs
<1> QED
  BY <1>1, <1>2, <1>3, IsStore

LEMMA WithoutTwice ==
  ASSUME NEW s \in Store, NEW x
  PROVE  Without(Without(s, x), x) = Without(s, x)
<1> DEFINE t == Without(s, x)
<1>1. t \in Store /\ t = [y \in DOMAIN s \ {x} |-> s[y]]
  BY WithoutIs
<1>2. Without(t, x) = [y \in DOMAIN t \ {x} |-> t[y]]
  BY <1>1, WithoutIs
<1> HIDE DEF t
<1>3. DOMAIN t \ {x} = DOMAIN t
  BY <1>1
<1>4. t = [y \in DOMAIN t |-> t[y]]
  BY <1>1
<1>5. Without(t, x) = t
  BY <1>2, <1>3, <1>4
<1> QED
  BY <1>5 DEF t

LEMMA DoneIs ==
  ASSUME NEW s \in Store
  PROVE  Done(s) \in Outcome /\ Done(s).kind = "ok" /\ Done(s).store = s
         /\ Done(s).emits = << >> /\ Done(s).spawned = << >> /\ Done(s).retracted = {}
BY EmptySeq DEF Done, Outcome

LEMMA JoinIs ==
  ASSUME NEW r \in Outcome, NEW t \in Outcome
  PROVE  /\ Join(r, t) \in Outcome
         /\ Join(r, t).kind = t.kind /\ Join(r, t).store = t.store
         /\ Join(r, t).emits = r.emits \o t.emits
         /\ Join(r, t).spawned = r.spawned \o t.spawned
         /\ Join(r, t).retracted = r.retracted \cup t.retracted
<1>1. r.emits \o t.emits \in Seq(Values) /\ r.spawned \o t.spawned \in Seq(Copies)
  BY ConcatProperties DEF Outcome
<1> QED
  BY <1>1 DEF Join, Outcome

LEMMA OutcomeIs ==
  ASSUME NEW r \in Outcome
  PROVE  /\ r.kind \in {"ok", "err", "crash"} /\ r.store \in Store
         /\ r.emits \in Seq(Values) /\ r.spawned \in Seq(Copies) /\ r.retracted \in SUBSET Names
BY DEF Outcome

LEMMA SameOutcome ==
  ASSUME NEW r \in Outcome, NEW t \in Outcome,
         r.kind = t.kind, r.store = t.store, r.emits = t.emits, r.spawned = t.spawned,
         r.retracted = t.retracted
  PROVE  r = t
BY DEF Outcome

LEMMA JoinAssociative ==
  ASSUME NEW r \in Outcome, NEW t \in Outcome, NEW u \in Outcome
  PROVE  Join(Join(r, t), u) = Join(r, Join(t, u))
<1> DEFINE rt == Join(r, t)
           tu == Join(t, u)
           left == Join(rt, u)
           right == Join(r, tu)
<1>1. /\ rt \in Outcome /\ rt.emits = r.emits \o t.emits /\ rt.spawned = r.spawned \o t.spawned
      /\ rt.retracted = r.retracted \cup t.retracted
  BY JoinIs
<1>2. /\ tu \in Outcome /\ tu.kind = u.kind /\ tu.store = u.store
      /\ tu.emits = t.emits \o u.emits /\ tu.spawned = t.spawned \o u.spawned
      /\ tu.retracted = t.retracted \cup u.retracted
  BY JoinIs
<1> HIDE DEF rt, tu
<1>3. /\ left \in Outcome /\ left.kind = u.kind /\ left.store = u.store
      /\ left.emits = rt.emits \o u.emits /\ left.spawned = rt.spawned \o u.spawned
      /\ left.retracted = rt.retracted \cup u.retracted
  BY <1>1, JoinIs
<1>4. /\ right \in Outcome /\ right.kind = tu.kind /\ right.store = tu.store
      /\ right.emits = r.emits \o tu.emits /\ right.spawned = r.spawned \o tu.spawned
      /\ right.retracted = r.retracted \cup tu.retracted
  <2>1. tu \in Outcome
    BY <1>2
  <2>2. \A q \in Outcome : /\ Join(r, q) \in Outcome /\ Join(r, q).kind = q.kind
                          /\ Join(r, q).store = q.store /\ Join(r, q).emits = r.emits \o q.emits
                          /\ Join(r, q).spawned = r.spawned \o q.spawned
                          /\ Join(r, q).retracted = r.retracted \cup q.retracted
    BY JoinIs, Zenon
  <2> QED
    BY <2>1, <2>2, Zenon
<1> HIDE DEF left, right
<1>5. left.emits = right.emits
  <2>1. (r.emits \o t.emits) \o u.emits = r.emits \o (t.emits \o u.emits)
    <3>1. r.emits \in Seq(Values) /\ t.emits \in Seq(Values) /\ u.emits \in Seq(Values)
      BY OutcomeIs
    <3>2. \A a, b, c \in Seq(Values) : (a \o b) \o c = a \o (b \o c)
      BY ConcatAssociative
    <3> QED
      BY <3>1, <3>2, Zenon
  <2> QED
    BY <1>1, <1>2, <1>3, <1>4, <2>1, Zenon
<1>6. left.spawned = right.spawned
  <2>1. (r.spawned \o t.spawned) \o u.spawned = r.spawned \o (t.spawned \o u.spawned)
    <3>1. r.spawned \in Seq(Copies) /\ t.spawned \in Seq(Copies) /\ u.spawned \in Seq(Copies)
      BY OutcomeIs
    <3>2. \A a, b, c \in Seq(Copies) : (a \o b) \o c = a \o (b \o c)
      BY ConcatAssociative
    <3> QED
      BY <3>1, <3>2, Zenon
  <2> QED
    BY <1>1, <1>2, <1>3, <1>4, <2>1, Zenon
<1>7. left.retracted = right.retracted
  BY <1>1, <1>2, <1>3, <1>4
<1>8. left = right
  BY <1>2, <1>3, <1>4, <1>5, <1>6, <1>7, SameOutcome
<1> QED
  BY <1>8 DEF left, right, rt, tu

LEMMA JoinDone ==
  ASSUME NEW s \in Store, NEW r \in Outcome
  PROVE  Join(Done(s), r) = r
<1> DEFINE d == Done(s)
           j == Join(d, r)
<1>1. d \in Outcome /\ d.emits = << >> /\ d.spawned = << >> /\ d.retracted = {}
  BY DoneIs
<1> HIDE DEF d
<1>2. /\ j \in Outcome /\ j.kind = r.kind /\ j.store = r.store
      /\ j.emits = d.emits \o r.emits /\ j.spawned = d.spawned \o r.spawned
      /\ j.retracted = d.retracted \cup r.retracted
  BY <1>1, JoinIs
<1> HIDE DEF j
<1>3. << >> \o r.emits = r.emits /\ << >> \o r.spawned = r.spawned
  BY OutcomeIs, ConcatEmptySeq
<1>4. j.emits = r.emits /\ j.spawned = r.spawned /\ j.retracted = r.retracted
  BY <1>1, <1>2, <1>3
<1>5. j = r
  BY <1>2, <1>4, SameOutcome
<1> QED
  BY <1>5 DEF j, d

LEMMA JoinNothing ==
  ASSUME NEW r \in Outcome, NEW s \in Store
  PROVE  Join(r, Done(s)) = [r EXCEPT !.kind = "ok", !.store = s]
<1> DEFINE d == Done(s)
           j == Join(r, d)
           e == [r EXCEPT !.kind = "ok", !.store = s]
<1>1. d \in Outcome /\ d.kind = "ok" /\ d.store = s /\ d.emits = << >> /\ d.spawned = << >> /\ d.retracted = {}
  BY DoneIs
<1> HIDE DEF d
<1>2. /\ j \in Outcome /\ j.kind = d.kind /\ j.store = d.store
      /\ j.emits = r.emits \o d.emits /\ j.spawned = r.spawned \o d.spawned
      /\ j.retracted = r.retracted \cup d.retracted
  BY <1>1, JoinIs
<1>3. /\ e \in Outcome /\ e.kind = "ok" /\ e.store = s /\ e.emits = r.emits /\ e.spawned = r.spawned
      /\ e.retracted = r.retracted
  BY DEF Outcome
<1> HIDE DEF j, e
<1>4. r.emits \o << >> = r.emits /\ r.spawned \o << >> = r.spawned
  BY OutcomeIs, ConcatEmptySeq
<1>5. j.emits = r.emits /\ j.spawned = r.spawned /\ j.retracted = r.retracted
  BY <1>1, <1>2, <1>4
<1>6. j = e
  BY <1>1, <1>2, <1>3, <1>5, SameOutcome
<1> QED
  BY <1>6 DEF j, e, d

-----------------------------------------------------------------------------
(* Steps in turn.                                                          *)

Follows(n, s, g, w) ==
  /\ w[0] = Done(s)
  /\ \A k \in 1 .. n : w[k] = IF w[k - 1].kind = "ok" THEN Join(w[k - 1], g[k][w[k - 1].store])
                                                      ELSE w[k - 1]
Chain(n, s, g, w) == w \in [0 .. n -> Outcome] /\ Follows(n, s, g, w)

LEMMA ChainExists ==
  ASSUME NEW n \in Nat, NEW s \in Store, NEW g \in [1 .. n -> Effect]
  PROVE  \E w : Chain(n, s, g, w)
<1> DEFINE next(k, r) == IF r.kind = "ok" THEN Join(r, g[k][r.store]) ELSE r
<1>1. ASSUME NEW k \in 1 .. n, NEW r \in Outcome PROVE next(k, r) \in Outcome
  <2>1. g[k][r.store] \in Outcome
    BY OutcomeIs DEF Effect
  <2> QED
    BY <2>1, JoinIs
<1> HIDE DEF next
<1>2. PICK h \in [1 .. n -> [Outcome -> Outcome]] : \A k \in 1 .. n : \A r \in Outcome : h[k][r] = next(k, r)
  <2> DEFINE h0 == [k \in 1 .. n |-> [r \in Outcome |-> next(k, r)]]
  <2>1. h0 \in [1 .. n -> [Outcome -> Outcome]]
    BY <1>1
  <2>2. \A k \in 1 .. n : \A r \in Outcome : h0[k][r] = next(k, r)
    OBVIOUS
  <2> QED
    BY <2>1, <2>2
<1>3. PICK d \in Outcome : d = Done(s)
  BY DoneIs
<1>4. PICK w : Recurs(n, Outcome, d, h, w)
  BY Recursion
<1>5. w \in [0 .. n -> Outcome] /\ w[0] = Done(s) /\ \A k \in 1 .. n : w[k] = h[k][w[k - 1]]
  BY <1>3, <1>4 DEF Recurs
<1>6. \A k \in 1 .. n : w[k] = next(k, w[k - 1])
  <2>1. \A k \in 1 .. n : k - 1 \in 0 .. n
    OBVIOUS
  <2> QED
    BY <1>2, <1>5, <2>1
<1> QED
  BY <1>5, <1>6 DEF Chain, Follows, next

\* There is one way only to take the steps in turn.
LEMMA ChainUnique ==
  ASSUME NEW n \in Nat, NEW s \in Store, NEW g \in [1 .. n -> Effect],
         NEW w, Chain(n, s, g, w),
         NEW v, Follows(n, s, g, v)
  PROVE  \A k \in 0 .. n : v[k] = w[k]
<1> DEFINE S == {k \in 0 .. n : v[k] = w[k]}
<1>1. 0 \in S
  BY DEF Chain, Follows
<1>2. ASSUME NEW k \in 1 .. n, k - 1 \in S PROVE k \in S
  <2>1. v[k - 1] = w[k - 1] /\ k \in 0 .. n
    BY <1>2
  <2> QED
    BY <2>1 DEF Chain, Follows
<1> HIDE DEF S
<1>3. \A k \in 1 .. n : k - 1 \in S => k \in S
  BY <1>2
<1>4. \A k \in 0 .. n : k \in S
  BY <1>1, <1>3, UpTo
<1> QED
  BY <1>4 DEF S

\* What InTurn gives is where the chain of a block ends.
LEMMA BlockIs ==
  ASSUME NEW effects \in Seq(Effect), NEW s \in Store
  PROVE  \E w : Chain(Len(effects), s, effects, w) /\ Block(effects, s) = w[Len(effects)]
<1> DEFINE n == Len(effects)
           W(w) == [k \in 0 .. n |-> IF k = 0 THEN Done(s)
                                     ELSE IF w[k - 1].kind = "ok"
                                            THEN Join(w[k - 1], effects[k][w[k - 1].store])
                                            ELSE w[k - 1]]
           c == CHOOSE w : w = W(w)
<1>1. n \in Nat /\ effects \in [1 .. n -> Effect]
  BY LenProperties
<1>2. Block(effects, s) = c[n]
  BY DEF Block, InTurn, AndThen
<1> HIDE DEF n
<1>3. PICK w : Chain(n, s, effects, w)
  BY <1>1, ChainExists
<1>4. w = W(w)
  <2>1. w \in [0 .. n -> Outcome] /\ w[0] = Done(s)
    BY <1>3 DEF Chain, Follows
  <2>2. ASSUME NEW k \in 0 .. n PROVE w[k] = W(w)[k]
    <3>1. CASE k = 0
      BY <2>1, <3>1
    <3>2. CASE k # 0
      <4>1. k \in 1 .. n
        BY <1>1, <3>2
      <4> QED
        BY <1>3, <3>2, <4>1 DEF Chain, Follows
    <3> QED
      BY <3>1, <3>2
  <2> QED
    BY <2>1, <2>2
<1> HIDE DEF W
<1>5. c = W(c)
  BY <1>4, Zenon
<1> HIDE DEF c
<1>6. \A k \in 0 .. n : c[k] = IF k = 0 THEN Done(s)
                               ELSE IF c[k - 1].kind = "ok"
                                      THEN Join(c[k - 1], effects[k][c[k - 1].store])
                                      ELSE c[k - 1]
  BY <1>5, Zenon DEF W
<1>7. c[0] = Done(s) /\ \A k \in 1 .. n : c[k] = IF c[k - 1].kind = "ok"
                                                  THEN Join(c[k - 1], effects[k][c[k - 1].store])
                                                  ELSE c[k - 1]
  <2>1. 0 \in 0 .. n /\ \A k \in 1 .. n : k \in 0 .. n /\ k # 0
    BY <1>1
  <2> QED
    BY <1>6, <2>1
<1>8. c[n] = w[n]
  <2>1. n \in 0 .. n
    BY <1>1
  <2>2. \A k \in 0 .. n : c[k] = w[k]
    BY <1>1, <1>3, <1>7, ChainUnique DEF Follows
  <2> QED
    BY <2>1, <2>2
<1> QED
  BY <1>2, <1>3, <1>8 DEF n

LEMMA AboveIs ==
  ASSUME NEW s \in Store, NEW t \in Store
  PROVE  Above(s, t) \in Store
<1>1. Above(s, t) \in [DOMAIN s \cup DOMAIN t -> Values]
  BY StoreIs DEF Above
<1>2. DOMAIN s \cup DOMAIN t \in SUBSET Names
  BY StoreIs
<1> QED
  BY <1>1, <1>2, IsStore

LEMMA IterationIs ==
  ASSUME NEW port, NEW s, NEW cur \in Store, NEW x, NEW r \in Outcome
  PROVE  LET i == Iteration(port, s, cur, x, r)
         IN  /\ i \in Outcome /\ i.kind = r.kind /\ i.emits = r.emits /\ i.spawned = r.spawned
             /\ i.retracted = r.retracted
             /\ i.store = IF r.kind = "ok" THEN AfterIteration(port, s, cur, r.store, x) ELSE r.store
<1> DEFINE after == AfterIteration(port, s, cur, r.store, x)
<1>1. after \in Store
  <2>1. r.store \in Store
    BY OutcomeIs
  <2>2. Without(r.store, x) \in Store
    BY <2>1, WithoutIs
  <2>3. Above(Without(r.store, x), cur) \in Store
    BY <2>2, AboveIs
  <2> QED
    BY <2>2, <2>3 DEF AfterIteration, AfterIterationPy, AfterIterationRs
<1>2. Iteration(port, s, cur, x, r) = IF r.kind = "ok" THEN [r EXCEPT !.store = after] ELSE r
  BY DEF Iteration
<1> HIDE DEF after
<1> QED
  BY <1>1, <1>2 DEF Outcome, after

\* The iterations of a forall as effects.
Iterations(port, x, items, body, s) ==
  [k \in 1 .. Len(items) |->
     [cur \in Store |-> Iteration(port, s, cur, x, body[Bound(cur, x, items[k])])]]

LEMMA IterationsAre ==
  ASSUME NEW port, NEW x \in Names, NEW items \in Seq(Values), NEW body \in Effect, NEW s \in Store
  PROVE  /\ Iterations(port, x, items, body, s) \in [1 .. Len(items) -> Effect]
         /\ \A k \in 1 .. Len(items) : \A cur \in Store :
              /\ Bound(cur, x, items[k]) \in Store
              /\ body[Bound(cur, x, items[k])] \in Outcome
              /\ Iterations(port, x, items, body, s)[k][cur]
                   = Iteration(port, s, cur, x, body[Bound(cur, x, items[k])])
<1>1. ASSUME NEW k \in 1 .. Len(items), NEW cur \in Store
      PROVE  /\ Bound(cur, x, items[k]) \in Store
             /\ body[Bound(cur, x, items[k])] \in Outcome
             /\ Iteration(port, s, cur, x, body[Bound(cur, x, items[k])]) \in Outcome
  <2>1. items[k] \in Values
    BY ElementOfSeq
  <2>2. Bound(cur, x, items[k]) \in Store
    BY <2>1, BoundIs
  <2>3. body[Bound(cur, x, items[k])] \in Outcome
    BY <2>2 DEF Effect
  <2> QED
    BY <2>2, <2>3, IterationIs
<1> QED
  BY <1>1 DEF Iterations, Effect

LEMMA ForAllIs ==
  ASSUME NEW port, NEW x \in Names, NEW items \in Seq(Values), NEW body \in Effect, NEW s \in Store
  PROVE  \E w : /\ Chain(Len(items), s, Iterations(port, x, items, body, s), w)
                /\ ForAll(port, x, items, body, s) = w[Len(items)]
<1> DEFINE n == Len(items)
           g == Iterations(port, x, items, body, s)
           It(k, cur) == Iteration(port, s, cur, x, body[Bound(cur, x, items[k])])
           W(w) == [k \in 0 .. n |-> IF k = 0 THEN Done(s)
                                     ELSE IF w[k - 1].kind = "ok"
                                            THEN Join(w[k - 1], It(k, w[k - 1].store))
                                            ELSE w[k - 1]]
           c == CHOOSE w : w = W(w)
<1>1. n \in Nat /\ g \in [1 .. n -> Effect]
  BY LenProperties, IterationsAre
<1>2. ForAll(port, x, items, body, s) = c[n]
  BY DEF ForAll, ForItems, InTurn, AndThen
<1>3. \A k \in 1 .. n : \A cur \in Store : g[k][cur] = It(k, cur)
  BY IterationsAre
<1> HIDE DEF n, g, It
<1>4. PICK w : Chain(n, s, g, w)
  BY <1>1, ChainExists
<1>5. w \in [0 .. n -> Outcome] /\ w[0] = Done(s)
  BY <1>4 DEF Chain, Follows
<1>6. w = W(w)
  <2>1. ASSUME NEW k \in 0 .. n PROVE w[k] = W(w)[k]
    <3>1. CASE k = 0
      BY <1>5, <3>1
    <3>2. CASE k # 0
      <4>1. k \in 1 .. n /\ k - 1 \in 0 .. n
        BY <1>1, <3>2
      <4>2. g[k][w[k - 1].store] = It(k, w[k - 1].store)
        BY <1>3, <1>5, <4>1, OutcomeIs
      <4> QED
        BY <1>4, <3>2, <4>1, <4>2 DEF Chain, Follows
    <3> QED
      BY <3>1, <3>2
  <2> QED
    BY <1>5, <2>1
<1> HIDE DEF W
<1>7. c = W(c)
  BY <1>6, Zenon
<1> HIDE DEF c
<1>8. \A k \in 0 .. n : c[k] = IF k = 0 THEN Done(s)
                               ELSE IF c[k - 1].kind = "ok"
                                      THEN Join(c[k - 1], It(k, c[k - 1].store))
                                      ELSE c[k - 1]
  BY <1>7 DEF W
<1> DEFINE S == {k \in 0 .. n : c[k] = w[k]}
<1>9. 0 \in S
  BY <1>1, <1>5, <1>8
<1>10. ASSUME NEW k \in 1 .. n, k - 1 \in S PROVE k \in S
  <2>1. k \in 0 .. n /\ k # 0 /\ k - 1 \in 0 .. n /\ c[k - 1] = w[k - 1]
    BY <1>10, <1>1
  <2>2. g[k][w[k - 1].store] = It(k, w[k - 1].store)
    BY <1>3, <1>5, <2>1, OutcomeIs
  <2>3. c[k] = w[k]
    BY <1>4, <1>8, <2>1, <2>2 DEF Chain, Follows
  <2> QED
    BY <2>1, <2>3
<1>11. c[n] = w[n]
  <2> HIDE DEF S
  <2>1. \A k \in 1 .. n : k - 1 \in S => k \in S
    BY <1>10
  <2>2. \A k \in 0 .. n : k \in S
    BY <1>1, <1>9, <2>1, UpTo
  <2>3. n \in 0 .. n
    BY <1>1
  <2> QED
    BY <2>2, <2>3 DEF S
<1> QED
  BY <1>2, <1>4, <1>11 DEF n, g

-----------------------------------------------------------------------------
(* Par.                                                                    *)

NoNone(s) == \A x \in DOMAIN s : s[x] # NoneV

\* What == is supposed to be; that equal values are one value is more than it is.
SameIsEquality ==
  /\ \A v \in Values : Same(v, v)
  /\ \A v, w \in Values : Same(v, w) => Same(w, v)

SameStore(s, t) == DOMAIN s = DOMAIN t /\ \A x \in DOMAIN s : Same(s[x], t[x])

LEMMA MergeIs ==
  ASSUME NEW port, NEW s, NEW sa, NEW sb
  PROVE  LET m == Merge(port, s, sa, sb)
             Either(x) == IF port = "py" THEN EitherPy(sa, sb, x) ELSE EitherRs(sa, sb, x)
             both == DOMAIN sa \cup DOMAIN sb
         IN  m = [x \in both \cup DOMAIN s |-> IF x \in both THEN Either(x) ELSE s[x]]
BY DEF Merge, Above

\* Where par neither fails nor refuses, this is what it gives.
LEMMA ParIs ==
  ASSUME NEW port, NEW s \in Store, NEW ra \in Outcome, NEW rb \in Outcome,
         ra.kind = "ok", rb.kind = "ok"
  PROVE  LET p == ParResult(port, s, ra, rb)
         IN  IF Clash(port, ra.store, rb.store) = {}
               THEN /\ p.kind = "ok" /\ p.store = Merge(port, s, ra.store, rb.store)
                    /\ p.retracted = ra.retracted \cup rb.retracted
               ELSE p = Failed("err", s)
<1> DEFINE m == Merge(port, s, ra.store, rb.store)
           r == [rb EXCEPT !.store = m]
<1>1. r.kind = "ok" /\ r.store = m /\ r.retracted = rb.retracted
      /\ Join(ra, r).kind = "ok" /\ Join(ra, r).store = m
      /\ Join(ra, r).retracted = ra.retracted \cup rb.retracted
  <2> HIDE DEF m
  <2> QED
    BY DEF Outcome, Join
<1> HIDE DEF r, m
<1>2. ParResult(port, s, ra, rb)
        = IF Clash(port, ra.store, rb.store) # {} THEN Failed("err", s) ELSE Join(ra, r)
  BY DEF ParResult, r, m
<1> QED
  BY <1>1, <1>2 DEF m

\* A par has no order: with its branches the other way round it leaves an equal store and
\* retracts the same names, or refuses just the same; only the order of the emits and the
\* spawns differs (interpreter.py:522-532, interp.rs:1058-1096).  The stores are equal as
\* the language compares values: of 1 and 1.0 each order keeps its first.
THEOREM ParHasNoOrder ==
  ASSUME NEW port, NEW s \in Store, NEW ra \in Outcome, NEW rb \in Outcome,
         ra.kind = "ok", rb.kind = "ok", SameIsEquality
  PROVE  LET p == ParResult(port, s, ra, rb)
             q == ParResult(port, s, rb, ra)
         IN  p.kind = q.kind /\ SameStore(p.store, q.store) /\ p.retracted = q.retracted
<1> DEFINE sa == ra.store
           sb == rb.store
           p == ParResult(port, s, ra, rb)
           q == ParResult(port, s, rb, ra)
<1>1. Clash(port, sa, sb) = Clash(port, sb, sa)
  <2>0. \A x \in DOMAIN sa \cap DOMAIN sb : Same(sa[x], sb[x]) <=> Same(sb[x], sa[x])
    BY OutcomeIs, StoreIs DEF SameIsEquality
  <2> HIDE DEF sa, sb
  <2>1. ClashPy(sa, sb) = ClashPy(sb, sa)
    BY <2>0 DEF ClashPy
  <2>2. ClashRs(sa, sb) = ClashRs(sb, sa)
    BY <2>0 DEF ClashRs
  <2> QED
    BY <2>1, <2>2 DEF Clash
<1>2. CASE Clash(port, sa, sb) # {}
  <2>1. p = Failed("err", s) /\ q = Failed("err", s)
    BY <1>1, <1>2, ParIs
  <2>2. Failed("err", s).store = s
    BY DEF Failed, Done
  <2>3. SameStore(s, s)
    BY StoreIs DEF SameStore, SameIsEquality
  <2> QED
    BY <2>1, <2>2, <2>3
<1>3. CASE Clash(port, sa, sb) = {}
  <2>1. /\ p.kind = "ok" /\ p.store = Merge(port, s, sa, sb) /\ p.retracted = ra.retracted \cup rb.retracted
        /\ q.kind = "ok" /\ q.store = Merge(port, s, sb, sa) /\ q.retracted = rb.retracted \cup ra.retracted
    <3>1. p.kind = "ok" /\ p.store = Merge(port, s, sa, sb) /\ p.retracted = ra.retracted \cup rb.retracted
      BY <1>3, ParIs
    <3>2. q.kind = "ok" /\ q.store = Merge(port, s, sb, sa) /\ q.retracted = rb.retracted \cup ra.retracted
      BY <1>1, <1>3, ParIs
    <3> QED
      BY <3>1, <3>2
  <2>2. /\ \A x \in DOMAIN sa : sa[x] \in Values /\ Same(sa[x], sa[x])
        /\ \A x \in DOMAIN sb : sb[x] \in Values /\ Same(sb[x], sb[x])
        /\ \A x \in DOMAIN s : Same(s[x], s[x])
    BY OutcomeIs, StoreIs DEF SameIsEquality
  <2> HIDE DEF p, q, sa, sb
  <2>3. ASSUME NEW x \in DOMAIN sa \cup DOMAIN sb, port = "py"
        PROVE  Same(EitherPy(sa, sb, x), EitherPy(sb, sa, x))
    <3>1. x \notin ClashPy(sa, sb)
      BY <1>3, <2>3 DEF Clash
    <3>2. CASE x \in DOMAIN sa \cap DOMAIN sb
      BY <2>2, <3>1, <3>2 DEF EitherPy, GetPy, ClashPy
    <3>3. CASE x \notin DOMAIN sa \cap DOMAIN sb
      BY <2>2, <3>3 DEF EitherPy, GetPy
    <3> QED
      BY <3>2, <3>3
  <2>4. ASSUME NEW x \in DOMAIN sa \cup DOMAIN sb, port # "py"
        PROVE  Same(EitherRs(sa, sb, x), EitherRs(sb, sa, x))
    <3>1. x \notin ClashRs(sa, sb)
      BY <1>3, <2>4 DEF Clash
    <3> QED
      BY <2>2, <3>1 DEF EitherRs, ClashRs
  <2>5. SameStore(Merge(port, s, sa, sb), Merge(port, s, sb, sa))
    BY <2>2, <2>3, <2>4, MergeIs DEF SameStore
  <2> QED
    BY <2>1, <2>5 DEF p, q
<1> QED
  BY <1>2, <1>3

\* A par whose branches change different names, of which the first drops none, and whose
\* second branch does after the first what it does alone, leaves a store equal to that of
\* running them one after the other, or refuses (interpreter.py:522-532).  Python takes a
\* name bound to None for a missing one, which this leaves out.
THEOREM ParIsInSequence ==
  ASSUME NEW port, NEW s \in Store, NEW ra \in Outcome, NEW rb \in Outcome, NEW t \in Outcome,
         ra.kind = "ok", rb.kind = "ok", t.kind = "ok",
         Changes(s, ra) \cap Changes(s, rb) = {},
         DoesTheSame(s, rb, ra.store, t),
         DOMAIN s \subseteq DOMAIN ra.store,
         port = "py" => NoNone(ra.store) /\ NoNone(rb.store),
         ParResult(port, s, ra, rb).kind = "ok", SameIsEquality
  PROVE  SameStore(ParResult(port, s, ra, rb).store, t.store)
<1> DEFINE sa == ra.store
           sb == rb.store
           st == t.store
           Either(x) == IF port = "py" THEN EitherPy(sa, sb, x) ELSE EitherRs(sa, sb, x)
<1>1. Clash(port, sa, sb) = {} /\ ParResult(port, s, ra, rb).store = Merge(port, s, sa, sb)
  <2> DEFINE p == ParResult(port, s, ra, rb)
  <2>1. IF Clash(port, sa, sb) = {} THEN p.store = Merge(port, s, sa, sb) ELSE p = Failed("err", s)
    BY ParIs
  <2>2. Failed("err", s).kind = "err" /\ p.kind = "ok"
    BY DEF Failed, Done
  <2> HIDE DEF p
  <2>3. Clash(port, sa, sb) = {} /\ p.store = Merge(port, s, sa, sb)
    BY <2>1, <2>2
  <2> QED
    BY <2>3 DEF p
<1>2. st \in [DOMAIN st -> Values]
  BY OutcomeIs, StoreIs
<1>3. \A x : x \in Changes(s, ra) <=> x \in DOMAIN s \cup DOMAIN sa /\ ~(x \in DOMAIN s /\ x \in DOMAIN sa /\ s[x] = sa[x])
  BY DEF Changes
<1>4. \A x : x \in Changes(s, rb) <=> x \in DOMAIN s \cup DOMAIN sb /\ ~(x \in DOMAIN s /\ x \in DOMAIN sb /\ s[x] = sb[x])
  BY DEF Changes
<1>5. \A x : x \in Changes(s, rb) <=> x \in DOMAIN sa \cup DOMAIN st /\ ~(x \in DOMAIN sa /\ x \in DOMAIN st /\ sa[x] = st[x])
  BY DEF Changes, DoesTheSame
<1>6. \A x \in Changes(s, rb) : x \in DOMAIN sb /\ x \in DOMAIN st /\ sb[x] = st[x]
  BY DEF DoesTheSame
<1>7. \A x \in DOMAIN sa \cap DOMAIN sb : Same(sa[x], sb[x])
  BY <1>1 DEF Clash, ClashPy, ClashRs, NoNone
<1>8. \A x \in DOMAIN sa \cup DOMAIN sb : Either(x) = IF x \in DOMAIN sa THEN sa[x] ELSE sb[x]
  BY DEF EitherPy, EitherRs, GetPy, NoNone
<1> HIDE DEF sa, sb, st, Either
<1>9. DOMAIN s \subseteq DOMAIN sa
  BY DEF sa
<1>10. Changes(s, ra) \cap Changes(s, rb) = {}
  OBVIOUS
<1>11. DOMAIN sa \cup DOMAIN sb = DOMAIN st
  BY <1>3, <1>4, <1>5, <1>6, <1>9, <1>10
<1>12. ASSUME NEW x \in DOMAIN st PROVE Same(Either(x), st[x])
  <2>0. Same(st[x], st[x])
    BY <1>2, <1>12 DEF SameIsEquality
  <2>1. CASE x \in DOMAIN sa
    <3>1. CASE x \notin Changes(s, rb)
      BY <1>5, <1>8, <1>11, <2>0, <2>1, <3>1
    <3>2. CASE x \in Changes(s, rb)
      BY <1>6, <1>7, <1>8, <1>11, <2>1, <3>2
    <3> QED
      BY <3>1, <3>2
  <2>2. CASE x \notin DOMAIN sa
    BY <1>5, <1>6, <1>8, <1>11, <2>0, <2>2
  <2> QED
    BY <2>1, <2>2
<1>13. Merge(port, s, sa, sb) = [x \in DOMAIN sa \cup DOMAIN sb \cup DOMAIN s |->
                                   IF x \in DOMAIN sa \cup DOMAIN sb THEN Either(x) ELSE s[x]]
  BY MergeIs DEF Either
<1>14. Merge(port, s, sa, sb) = [x \in DOMAIN st |-> Either(x)]
  BY <1>9, <1>11, <1>13
<1>15. SameStore(Merge(port, s, sa, sb), st)
  BY <1>12, <1>14 DEF SameStore
<1> QED
  BY <1>1, <1>15 DEF st

\* A par only adds variables, whatever its branches are: what one of them makes of a
\* variable that was there, the other has to make an equal value of, or par refuses; so
\* unless both assign to it, it keeps a value equal to the one it had.  Neither branch can
\* have dropped it and, in Python, nobody binds it to None (interpreter.py:527-530,
\* interp.rs:1064-1076).
THEOREM ParOnlyAdds ==
  ASSUME NEW port, NEW s \in Store, NEW ra \in Outcome, NEW rb \in Outcome,
         ra.kind = "ok", rb.kind = "ok",
         NEW x \in DOMAIN s \cap DOMAIN ra.store \cap DOMAIN rb.store,
         port = "py" => NoneV \notin {ra.store[x], rb.store[x]},
         ParResult(port, s, ra, rb).kind = "ok", SameIsEquality
  PROVE  LET left == ParResult(port, s, ra, rb).store[x]
         IN  /\ Same(left, ra.store[x]) /\ Same(left, rb.store[x])
             /\ x \notin Changes(s, ra) \cap Changes(s, rb) => Same(left, s[x])
<1>1. Clash(port, ra.store, rb.store) = {}
      /\ ParResult(port, s, ra, rb).store = Merge(port, s, ra.store, rb.store)
  <2> DEFINE p == ParResult(port, s, ra, rb)
             m == Merge(port, s, ra.store, rb.store)
  <2>1. IF Clash(port, ra.store, rb.store) = {} THEN p.store = m ELSE p = Failed("err", s)
    BY ParIs
  <2>2. Failed("err", s).kind = "err" /\ p.kind = "ok"
    BY DEF Failed, Done
  <2> HIDE DEF p
  <2>3. Clash(port, ra.store, rb.store) = {} /\ p.store = m
    BY <2>1, <2>2
  <2> QED
    BY <2>3 DEF p
<1>2. Same(ra.store[x], rb.store[x]) /\ Same(ra.store[x], ra.store[x])
  <2>1. ra.store[x] \in Values
    BY OutcomeIs, StoreIs
  <2> QED
    BY <1>1, <2>1 DEF Clash, ClashPy, ClashRs, SameIsEquality
<1>3. Merge(port, s, ra.store, rb.store)[x] = ra.store[x]
  <2>1. port = "py" => EitherPy(ra.store, rb.store, x) = ra.store[x]
    BY DEF EitherPy, GetPy
  <2>2. EitherRs(ra.store, rb.store, x) = ra.store[x]
    BY DEF EitherRs
  <2> QED
    BY <2>1, <2>2, MergeIs
<1>4. x \notin Changes(s, ra) => s[x] = ra.store[x]
  BY DEF Changes
<1>5. x \notin Changes(s, rb) => s[x] = rb.store[x]
  BY DEF Changes
<1> QED
  BY <1>1, <1>2, <1>3, <1>4, <1>5

\* The port merges as the original does, where no variable is bound to None
\* (interpreter.py:526-531, interp.rs:1064-1082).
THEOREM PortsMergeAlike ==
  ASSUME NEW s, NEW ra, NEW rb, NoNone(ra.store), NoNone(rb.store)
  PROVE  ParResult("py", s, ra, rb) = ParResult("rs", s, ra, rb)
<1>1. Clash("py", ra.store, rb.store) = Clash("rs", ra.store, rb.store)
  BY DEF Clash, ClashPy, ClashRs, NoNone
<1>2. \A x \in DOMAIN ra.store \cup DOMAIN rb.store :
        EitherPy(ra.store, rb.store, x) = EitherRs(ra.store, rb.store, x)
  BY DEF EitherPy, EitherRs, GetPy, NoNone
<1>3. Merge("py", s, ra.store, rb.store) = Merge("rs", s, ra.store, rb.store)
  <2> DEFINE both == DOMAIN ra.store \cup DOMAIN rb.store
  <2>1. [x \in both |-> EitherPy(ra.store, rb.store, x)] = [x \in both |-> EitherRs(ra.store, rb.store, x)]
    BY <1>2
  <2> QED
    BY <2>1 DEF Merge
<1> QED
  BY <1>1, <1>3 DEF ParResult

-----------------------------------------------------------------------------
(* Blocks.                                                                 *)

\* Two blocks on end are one: a failure in the first leaves out all of the second, and
\* otherwise the second goes on from the store the first left and adds to its emits,
\* spawns and retracts.  So the way a sequence is bracketed does not matter
\* (interpreter.py:489-500, interp.rs:965-983).
THEOREM BlocksFlatten ==
  ASSUME NEW fs \in Seq(Effect), NEW gs \in Seq(Effect), NEW s \in Store
  PROVE  Block(fs \o gs, s)
           = LET r == Block(fs, s)
             IN  IF r.kind = "ok" THEN Join(r, Block(gs, r.store)) ELSE r
<1> DEFINE n == Len(fs)
           m == Len(gs)
           hs == fs \o gs
           r == Block(fs, s)
<1>1. /\ n \in Nat /\ m \in Nat /\ hs \in Seq(Effect) /\ Len(hs) = n + m
      /\ fs \in [1 .. n -> Effect] /\ gs \in [1 .. m -> Effect]
      /\ \A k \in 1 .. n : hs[k] = fs[k]
      /\ \A k \in 1 .. m : hs[n + k] = gs[k]
  <2>1. \A k \in 1 .. m : n + k \in 1 .. n + m /\ ~(n + k <= n) /\ (n + k) - n = k
    BY LenProperties
  <2>2. \A k \in 1 .. n : k \in 1 .. n + m /\ k <= n
    BY LenProperties
  <2> QED
    BY <2>1, <2>2, LenProperties, ConcatProperties
<1>2. PICK w : Chain(n + m, s, hs, w) /\ Block(hs, s) = w[n + m]
  BY <1>1, BlockIs
<1>3. PICK u : Chain(n, s, fs, u) /\ r = u[n]
  BY BlockIs
<1> HIDE DEF n, m, hs, r
<1>4. /\ w \in [0 .. n + m -> Outcome] /\ w[0] = Done(s)
      /\ \A k \in 1 .. n + m : w[k] = IF w[k - 1].kind = "ok" THEN Join(w[k - 1], hs[k][w[k - 1].store])
                                                            ELSE w[k - 1]
  BY <1>2 DEF Chain, Follows
<1>5. r \in Outcome /\ r.store \in Store
  <2>1. n \in 0 .. n
    BY <1>1
  <2> QED
    BY <1>3, <2>1, OutcomeIs DEF Chain, Follows
<1>6. w[n] = r
  <2>1. \A k \in 1 .. n : k \in 1 .. n + m
    BY <1>1
  <2>2. Follows(n, s, fs, w)
    BY <1>1, <1>4, <2>1 DEF Follows
  <2>3. \A k \in 0 .. n : w[k] = u[k]
    BY <1>1, <1>3, <2>2, ChainUnique
  <2> QED
    BY <1>1, <1>3, <2>3
<1>7. \A k \in 1 .. m : /\ n + k \in 1 .. n + m /\ (n + k) - 1 = n + (k - 1)
                        /\ w[n + k] = IF w[n + (k - 1)].kind = "ok"
                                        THEN Join(w[n + (k - 1)], gs[k][w[n + (k - 1)].store])
                                        ELSE w[n + (k - 1)]
  <2>1. \A k \in 1 .. m : n + k \in 1 .. n + m /\ (n + k) - 1 = n + (k - 1)
    BY <1>1
  <2> QED
    BY <1>1, <1>4, <2>1
<1>8. n + 0 = n /\ m \in 0 .. m /\ \A k \in 1 .. m : k \in 0 .. m /\ k - 1 \in 0 .. m
  BY <1>1
<1>9. CASE r.kind # "ok"
  <2> DEFINE S == {k \in 0 .. m : w[n + k] = r}
  <2>1. 0 \in S
    BY <1>1, <1>6, <1>8
  <2>2. \A k \in 1 .. m : k - 1 \in S => k \in S
    BY <1>7, <1>8, <1>9
  <2> HIDE DEF S
  <2>3. \A k \in 0 .. m : k \in S
    BY <1>1, <2>1, <2>2, UpTo
  <2>4. w[n + m] = r
    BY <1>8, <2>3 DEF S
  <2> QED
    BY <1>2, <1>9, <2>4 DEF hs, r
<1>10. CASE r.kind = "ok"
  <2>1. PICK v : Chain(m, r.store, gs, v) /\ Block(gs, r.store) = v[m]
    BY <1>5, BlockIs DEF m
  <2>2. /\ v \in [0 .. m -> Outcome] /\ v[0] = Done(r.store)
        /\ \A k \in 1 .. m : v[k] = IF v[k - 1].kind = "ok" THEN Join(v[k - 1], gs[k][v[k - 1].store])
                                                            ELSE v[k - 1]
    BY <2>1 DEF Chain, Follows
  <2> DEFINE S == {k \in 0 .. m : w[n + k] = Join(r, v[k])}
  <2>3. 0 \in S
    <3>1. Join(r, Done(r.store)) = [r EXCEPT !.kind = "ok", !.store = r.store]
      BY <1>5, JoinNothing
    <3>2. [r EXCEPT !.kind = "ok", !.store = r.store] = r
      BY <1>5, <1>10 DEF Outcome
    <3>3. 0 \in 0 .. m
      BY <1>1
    <3> QED
      BY <1>6, <1>8, <2>2, <3>1, <3>2, <3>3
  <2>4. ASSUME NEW k \in 1 .. m, k - 1 \in S PROVE k \in S
    <3> DEFINE before == w[n + (k - 1)]
               part == v[k - 1]
               step == gs[k][part.store]
    <3>1. part \in Outcome /\ before = Join(r, part)
      BY <1>8, <2>2, <2>4
    <3>2. v[k] = (IF part.kind = "ok" THEN Join(part, step) ELSE part)
      BY <2>2
    <3>3. w[n + k] = (IF before.kind = "ok" THEN Join(before, gs[k][before.store]) ELSE before)
      BY <1>7
    <3>4. step \in Outcome
      BY <1>1, <3>1, OutcomeIs DEF Effect
    <3> HIDE DEF before, part
    <3>5. before.kind = part.kind /\ before.store = part.store
      BY <1>5, <3>1, JoinIs
    <3>6. w[n + k] = (IF part.kind = "ok" THEN Join(before, step) ELSE before)
      BY <3>3, <3>5
    <3> HIDE DEF step
    <3>7. Join(before, step) = Join(r, Join(part, step))
      BY <1>5, <3>1, <3>4, JoinAssociative
    <3>8. w[n + k] = Join(r, v[k])
      BY <3>1, <3>2, <3>6, <3>7
    <3> QED
      BY <1>8, <3>8
  <2> HIDE DEF S
  <2>5. \A k \in 1 .. m : k - 1 \in S => k \in S
    BY <2>4
  <2>6. \A k \in 0 .. m : k \in S
    BY <1>1, <2>3, <2>5, UpTo
  <2>7. w[n + m] = Join(r, v[m])
    BY <1>8, <2>6 DEF S
  <2>8. Block(hs, s) = Join(r, Block(gs, r.store))
    BY <1>2, <2>1, <2>7
  <2> QED
    BY <1>10, <2>8 DEF hs, r
<1> QED
  BY <1>9, <1>10

-----------------------------------------------------------------------------
(* Forall.                                                                 *)

LEMMA BoundOver ==
  ASSUME NEW s \in Store, NEW t \in Store, NEW x \in Names, NEW v \in Values,
         Without(s, x) = Without(t, x)
  PROVE  Bound(s, x, v) = Bound(t, x, v)
<1>1. [y \in DOMAIN s \ {x} |-> s[y]] = [y \in DOMAIN t \ {x} |-> t[y]]
  <2>1. Without(s, x) = [y \in DOMAIN s \ {x} |-> s[y]]
    BY WithoutIs
  <2>2. Without(t, x) = [y \in DOMAIN t \ {x} |-> t[y]]
    BY WithoutIs
  <2> QED
    BY <2>1, <2>2
<1>2. DOMAIN s \ {x} = DOMAIN t \ {x} /\ \A y \in DOMAIN s \ {x} : s[y] = t[y]
  BY <1>1
<1>3. DOMAIN s \cup {x} = DOMAIN t \cup {x}
  BY <1>2
<1>4. ASSUME NEW y \in DOMAIN s \cup {x}, y # x PROVE s[y] = t[y]
  BY <1>2, <1>4
<1>5. [y \in DOMAIN s \cup {x} |-> IF y = x THEN v ELSE s[y]]
        = [y \in DOMAIN t \cup {x} |-> IF y = x THEN v ELSE t[y]]
  BY <1>3, <1>4
<1>6. /\ Bound(s, x, v) = [y \in DOMAIN s \cup {x} |-> IF y = x THEN v ELSE s[y]]
      /\ Bound(t, x, v) = [y \in DOMAIN t \cup {x} |-> IF y = x THEN v ELSE t[y]]
  BY BoundIs
<1> QED
  BY <1>5, <1>6

\* The body of a forall written out once per item, after the item's assignment.
Unrolled(x, items, body) ==
  [k \in 1 .. 2 * Len(items) |-> IF k % 2 = 1 THEN Assign(x, items[(k + 1) \div 2]) ELSE body]

LEMMA AssignIs ==
  ASSUME NEW x \in Names, NEW v \in Values
  PROVE  Assign(x, v) \in Effect /\ \A s \in Store : Assign(x, v)[s] = Done(Bound(s, x, v))
<1>1. \A s \in Store : Done(Bound(s, x, v)) \in Outcome
  BY BoundIs, DoneIs
<1> QED
  BY <1>1 DEF Assign, Effect

LEMMA UnrolledIs ==
  ASSUME NEW x \in Names, NEW items \in Seq(Values), NEW body \in Effect
  PROVE  LET u == Unrolled(x, items, body)
         IN  /\ u \in Seq(Effect) /\ Len(u) = 2 * Len(items)
             /\ \A j \in 1 .. Len(items) : u[2 * j - 1] = Assign(x, items[j]) /\ u[2 * j] = body
<1> DEFINE n == Len(items)
           u == Unrolled(x, items, body)
<1>1. n \in Nat /\ \A j \in 1 .. n : items[j] \in Values
  BY LenProperties, ElementOfSeq
<1>2. u = [k \in 1 .. 2 * n |-> IF k % 2 = 1 THEN Assign(x, items[(k + 1) \div 2]) ELSE body]
  BY DEF Unrolled
<1> HIDE DEF n, u
<1>3. ASSUME NEW k \in 1 .. 2 * n PROVE u[k] \in Effect
  <2>1. CASE k % 2 = 1
    <3>1. (k + 1) \div 2 \in 1 .. n
      BY <1>1, <2>1
    <3> QED
      BY <1>1, <1>2, <2>1, <3>1, AssignIs
  <2>2. CASE k % 2 # 1
    BY <1>2, <2>2
  <2> QED
    BY <2>1, <2>2
<1>4. u \in [1 .. 2 * n -> Effect] /\ 2 * n \in Nat
  BY <1>1, <1>2, <1>3
<1>5. u \in Seq(Effect) /\ Len(u) = 2 * n
  <2>1. u \in Seq(Effect)
    BY <1>4, SeqDef
  <2> QED
    BY <1>4, <2>1, LenProperties
<1>6. ASSUME NEW j \in 1 .. n PROVE u[2 * j - 1] = Assign(x, items[j]) /\ u[2 * j] = body
  <2>1. /\ 2 * j - 1 \in 1 .. 2 * n /\ 2 * j \in 1 .. 2 * n
        /\ (2 * j - 1) % 2 = 1 /\ (2 * j) % 2 # 1 /\ ((2 * j - 1) + 1) \div 2 = j
    BY <1>1
  <2> QED
    BY <1>2, <2>1
<1> QED
  BY <1>5, <1>6 DEF n, u

\* A forall is its body written out once per item, each after an assignment of the item to
\* the loop variable: it fails when they fail, has their emits, spawns and retracts in their
\* order, and leaves their store but for the loop variable, which does not outlive it
\* (interpreter.py:551-565).
THEOREM ForAllUnrolled ==
  ASSUME NEW x \in Names, NEW items \in Seq(Values), NEW body \in Effect, NEW s \in Store
  PROVE  LET f == ForAll("py", x, items, body, s)
             u == Block(Unrolled(x, items, body), s)
         IN  /\ f.kind = u.kind /\ f.emits = u.emits /\ f.spawned = u.spawned
             /\ f.retracted = u.retracted
             /\ f.kind = "ok" => Without(f.store, x) = Without(u.store, x)
<1> DEFINE n == Len(items)
           g == Iterations("py", x, items, body, s)
           h == Unrolled(x, items, body)
           Alike(p, q) == /\ p.kind = q.kind /\ p.emits = q.emits /\ p.spawned = q.spawned
                          /\ p.retracted = q.retracted
                          /\ p.kind = "ok" => Without(p.store, x) = Without(q.store, x)
<1>1. /\ n \in Nat /\ 2 * n \in Nat /\ h \in Seq(Effect) /\ Len(h) = 2 * n
      /\ \A j \in 1 .. n : h[2 * j - 1] = Assign(x, items[j]) /\ h[2 * j] = body
  BY LenProperties, UnrolledIs
<1>2. \A j \in 1 .. n : items[j] \in Values
  BY ElementOfSeq
<1>3. PICK f : Chain(n, s, g, f) /\ ForAll("py", x, items, body, s) = f[n]
  BY ForAllIs
<1>4. PICK u : Chain(2 * n, s, h, u) /\ Block(h, s) = u[2 * n]
  BY <1>1, BlockIs
<1>5. \A j \in 1 .. n : \A cur \in Store :
        /\ Bound(cur, x, items[j]) \in Store /\ body[Bound(cur, x, items[j])] \in Outcome
        /\ g[j][cur] = Iteration("py", s, cur, x, body[Bound(cur, x, items[j])])
  BY IterationsAre
<1> HIDE DEF n, g, h
<1>6. /\ f \in [0 .. n -> Outcome] /\ f[0] = Done(s)
      /\ \A j \in 1 .. n : f[j] = IF f[j - 1].kind = "ok" THEN Join(f[j - 1], g[j][f[j - 1].store])
                                                          ELSE f[j - 1]
  BY <1>3 DEF Chain, Follows
<1>7. /\ u \in [0 .. 2 * n -> Outcome] /\ u[0] = Done(s)
      /\ \A k \in 1 .. 2 * n : u[k] = IF u[k - 1].kind = "ok" THEN Join(u[k - 1], h[k][u[k - 1].store])
                                                              ELSE u[k - 1]
  BY <1>4 DEF Chain, Follows
<1> DEFINE S == {j \in 0 .. n : Alike(f[j], u[2 * j])}
<1>8. 0 \in S
  <2>1. 0 \in 0 .. n /\ 2 * 0 = 0
    BY <1>1
  <2> QED
    BY <1>6, <1>7, <2>1
<1>9. ASSUME NEW j \in 1 .. n, j - 1 \in S PROVE j \in S
  <2> DEFINE p == f[j - 1]
             q == u[2 * (j - 1)]
             mid == u[2 * j - 1]
             v == items[j]
  <2>1. /\ j - 1 \in 0 .. n /\ j \in 0 .. n /\ 2 * j - 1 \in 1 .. 2 * n /\ 2 * j \in 1 .. 2 * n
        /\ 2 * (j - 1) \in 0 .. 2 * n /\ (2 * j - 1) - 1 = 2 * (j - 1)
    BY <1>1
  <2>2. p \in Outcome /\ q \in Outcome /\ Alike(p, q)
    BY <1>6, <1>7, <1>9, <2>1
  <2>3. f[j] = (IF p.kind = "ok" THEN Join(p, g[j][p.store]) ELSE p)
    BY <1>6
  <2>4. mid = (IF q.kind = "ok" THEN Join(q, Assign(x, v)[q.store]) ELSE q)
    BY <1>1, <1>7, <2>1
  <2>5. u[2 * j] = (IF mid.kind = "ok" THEN Join(mid, body[mid.store]) ELSE mid)
    BY <1>1, <1>7, <2>1
  <2>6. v \in Values
    BY <1>2
  <2> HIDE DEF mid
  <2>7. CASE p.kind # "ok"
    <3>1. f[j] = p /\ u[2 * j] = q
      BY <2>2, <2>3, <2>4, <2>5, <2>7
    <3> QED
      BY <2>1, <2>2, <3>1
  <2>8. CASE p.kind = "ok"
    <3> DEFINE b == Bound(p.store, x, v)
               r == body[b]
               i == Iteration("py", s, p.store, x, r)
    <3>1. p.store \in Store /\ q.store \in Store
      BY <2>2, OutcomeIs
    <3>2. b = Bound(q.store, x, v)
      BY <2>2, <2>6, <2>8, <3>1, BoundOver
    <3>3. b \in Store /\ r \in Outcome /\ g[j][p.store] = i
      BY <1>5, <3>1
    <3>4. mid = [q EXCEPT !.kind = "ok", !.store = b]
      <4>1. q.kind = "ok"
        BY <2>2, <2>8
      <4>2. Assign(x, v)[q.store] = Done(b)
        BY <2>6, <3>1, <3>2, AssignIs
      <4> HIDE DEF b
      <4> QED
        BY <2>2, <2>4, <3>3, <4>1, <4>2, JoinNothing
    <3> HIDE DEF b, p, q, v
    <3>5. /\ mid \in Outcome /\ mid.kind = "ok" /\ mid.store = b /\ mid.emits = p.emits
          /\ mid.spawned = p.spawned /\ mid.retracted = p.retracted
      BY <2>2, <3>3, <3>4 DEF Outcome
    <3>6. u[2 * j] = Join(mid, r)
      BY <2>5, <3>5
    <3>7. f[j] = Join(p, i)
      BY <2>3, <2>8, <3>3
    <3>8. /\ i \in Outcome /\ i.kind = r.kind /\ i.emits = r.emits /\ i.spawned = r.spawned
          /\ i.retracted = r.retracted
          /\ r.kind = "ok" => i.store = Without(r.store, x)
      <4>1. AfterIteration("py", s, p.store, r.store, x) = Without(r.store, x)
        BY DEF AfterIteration, AfterIterationPy
      <4> HIDE DEF r
      <4> QED
        BY <3>1, <3>3, <4>1, IterationIs
    <3> HIDE DEF r, i
    <3>9. /\ f[j].kind = i.kind /\ f[j].store = i.store /\ f[j].emits = p.emits \o i.emits
          /\ f[j].spawned = p.spawned \o i.spawned /\ f[j].retracted = p.retracted \cup i.retracted
      <4>1. LET o == Join(p, i)
            IN  /\ o.kind = i.kind /\ o.store = i.store /\ o.emits = p.emits \o i.emits
                /\ o.spawned = p.spawned \o i.spawned /\ o.retracted = p.retracted \cup i.retracted
        BY <2>2, <3>8, JoinIs
      <4> QED
        BY <3>7, <4>1
    <3>10. /\ u[2 * j].kind = r.kind /\ u[2 * j].store = r.store /\ u[2 * j].emits = mid.emits \o r.emits
           /\ u[2 * j].spawned = mid.spawned \o r.spawned
           /\ u[2 * j].retracted = mid.retracted \cup r.retracted
      <4>1. LET o == Join(mid, r)
            IN  /\ o.kind = r.kind /\ o.store = r.store /\ o.emits = mid.emits \o r.emits
                /\ o.spawned = mid.spawned \o r.spawned /\ o.retracted = mid.retracted \cup r.retracted
        BY <3>3, <3>5, JoinIs
      <4> QED
        BY <3>6, <4>1
    <3>11. r.kind = "ok" => Without(i.store, x) = Without(r.store, x)
      <4> SUFFICES ASSUME r.kind = "ok" PROVE Without(i.store, x) = Without(r.store, x)
        OBVIOUS
      <4>1. r.store \in Store /\ i.store = Without(r.store, x)
        BY <3>3, <3>8, OutcomeIs
      <4> QED
        BY <4>1, WithoutTwice
    <3>12. Alike(f[j], u[2 * j])
      BY <3>5, <3>8, <3>9, <3>10, <3>11
    <3> QED
      BY <2>1, <3>12
  <2> QED
    BY <2>7, <2>8
<1>10. Alike(f[n], u[2 * n])
  <2> HIDE DEF S
  <2>1. \A j \in 1 .. n : j - 1 \in S => j \in S
    BY <1>9
  <2>2. \A j \in 0 .. n : j \in S
    BY <1>1, <1>8, <2>1, UpTo
  <2>3. n \in 0 .. n
    BY <1>1
  <2> HIDE DEF Alike
  <2> QED
    BY <2>2, <2>3 DEF S
<1> QED
  BY <1>3, <1>4, <1>10 DEF h

\* The port runs a forall as the original does, where no variable that is already there
\* has the name of the loop variable and the body drops no variable: Python drops the loop
\* variable after each iteration, the port copies the others over the store it had
\* (interpreter.py:551-565, interp.rs:1128-1165).
THEOREM PortsLoopAlike ==
  ASSUME NEW x \in Names, NEW items \in Seq(Values), NEW body \in Effect, NEW s \in Store,
         x \notin DOMAIN s,
         \A c \in Store : body[c].kind = "ok" => DOMAIN c \subseteq DOMAIN body[c].store
  PROVE  ForAll("py", x, items, body, s) = ForAll("rs", x, items, body, s)
<1> DEFINE n == Len(items)
           g == Iterations("py", x, items, body, s)
           h == Iterations("rs", x, items, body, s)
<1>1. n \in Nat /\ g \in [1 .. n -> Effect]
  BY LenProperties, IterationsAre
<1>2. PICK f : Chain(n, s, g, f) /\ ForAll("py", x, items, body, s) = f[n]
  BY ForAllIs
<1>3. PICK e : Chain(n, s, h, e) /\ ForAll("rs", x, items, body, s) = e[n]
  BY ForAllIs
\* An iteration leaves the same in both.
<1>4. ASSUME NEW j \in 1 .. n, NEW cur \in Store, x \notin DOMAIN cur
      PROVE  /\ g[j][cur] = h[j][cur] /\ g[j][cur] \in Outcome
             /\ g[j][cur].kind = "ok" => x \notin DOMAIN g[j][cur].store
  <2> DEFINE b == Bound(cur, x, items[j])
             r == body[b]
             ip == Iteration("py", s, cur, x, r)
             ir == Iteration("rs", s, cur, x, r)
  <2>1. b \in Store /\ r \in Outcome /\ g[j][cur] = ip /\ h[j][cur] = ir
    <3>1. b \in Store /\ r \in Outcome /\ g[j][cur] = ip
      BY IterationsAre
    <3>2. h[j][cur] = ir
      BY DEF Iterations
    <3> QED
      BY <3>1, <3>2
  <2>2. DOMAIN cur \subseteq DOMAIN b
    <3>1. items[j] \in Values
      BY ElementOfSeq
    <3>2. b = [y \in DOMAIN cur \cup {x} |-> IF y = x THEN items[j] ELSE cur[y]]
      BY <3>1, BoundIs
    <3> HIDE DEF b
    <3> QED
      BY <3>2
  <2>3. r.kind = "ok" => DOMAIN cur \subseteq DOMAIN r.store
    BY <2>1, <2>2
  <2> HIDE DEF b, r
  <2> DEFINE w == Without(r.store, x)
  <2>4. w \in Store /\ DOMAIN w = DOMAIN r.store \ {x}
    <3>1. r.store \in Store
      BY <2>1, OutcomeIs
    <3>2. w \in Store /\ w = [y \in DOMAIN r.store \ {x} |-> r.store[y]]
      BY <3>1, WithoutIs
    <3> HIDE DEF w
    <3> QED
      BY <3>2
  <2>5. r.kind = "ok" => Above(w, cur) = w
    <3> HIDE DEF w
    <3> SUFFICES ASSUME r.kind = "ok" PROVE Above(w, cur) = w
      OBVIOUS
    <3>1. DOMAIN w \cup DOMAIN cur = DOMAIN w
      BY <1>4, <2>3, <2>4
    <3>2. Above(w, cur) = [y \in DOMAIN w |-> w[y]]
      BY <3>1 DEF Above
    <3>3. w = [y \in DOMAIN w |-> w[y]]
      BY <2>4, StoreIs
    <3> QED
      BY <3>2, <3>3
  <2>6. /\ AfterIteration("py", s, cur, r.store, x) = w
        /\ AfterIteration("rs", s, cur, r.store, x) = Above(w, cur)
    BY DEF AfterIteration, AfterIterationPy, AfterIterationRs
  <2>7. ip = ir
    <3>1. CASE r.kind = "ok"
      BY <2>5, <2>6, <3>1 DEF Iteration
    <3>2. CASE r.kind # "ok"
      BY <3>2 DEF Iteration
    <3> QED
      BY <3>1, <3>2
  <2>8. ip \in Outcome /\ ip.kind = r.kind /\ (r.kind = "ok" => ip.store = w)
    <3> HIDE DEF w
    <3> QED
      BY <2>1, <2>6, IterationIs
  <2> HIDE DEF ip, ir, w
  <2> QED
    BY <2>1, <2>4, <2>7, <2>8
<1> HIDE DEF n, g, h
<1>5. /\ f \in [0 .. n -> Outcome] /\ f[0] = Done(s)
      /\ \A j \in 1 .. n : f[j] = IF f[j - 1].kind = "ok" THEN Join(f[j - 1], g[j][f[j - 1].store])
                                                          ELSE f[j - 1]
  BY <1>2 DEF Chain, Follows
<1>6. /\ e[0] = Done(s)
      /\ \A j \in 1 .. n : e[j] = IF e[j - 1].kind = "ok" THEN Join(e[j - 1], h[j][e[j - 1].store])
                                                          ELSE e[j - 1]
  BY <1>3 DEF Chain, Follows
<1> DEFINE S == {j \in 0 .. n : f[j] = e[j] /\ (f[j].kind = "ok" => x \notin DOMAIN f[j].store)}
<1>7. 0 \in S
  BY <1>1, <1>5, <1>6, DoneIs
<1>8. ASSUME NEW j \in 1 .. n, j - 1 \in S PROVE j \in S
  <2> DEFINE p == f[j - 1]
             o == g[j][p.store]
  <2>1. j - 1 \in 0 .. n /\ j \in 0 .. n
    BY <1>1
  <2>2. p \in Outcome /\ p.store \in Store /\ p = e[j - 1] /\ (p.kind = "ok" => x \notin DOMAIN p.store)
    BY <1>5, <1>8, <2>1, OutcomeIs
  <2>3. /\ f[j] = (IF p.kind = "ok" THEN Join(p, o) ELSE p)
        /\ e[j] = (IF p.kind = "ok" THEN Join(p, h[j][p.store]) ELSE p)
    BY <1>5, <1>6, <2>2
  <2> HIDE DEF p
  <2>4. CASE p.kind # "ok"
    BY <2>1, <2>3, <2>4
  <2>5. CASE p.kind = "ok"
    <3>1. /\ o = h[j][p.store] /\ o \in Outcome /\ (o.kind = "ok" => x \notin DOMAIN o.store)
      BY <1>4, <2>2, <2>5
    <3> HIDE DEF o
    <3>2. Join(p, o).kind = o.kind /\ Join(p, o).store = o.store
      <4>1. p \in Outcome /\ o \in Outcome
        BY <2>2, <3>1
      <4> QED
        BY <4>1, JoinIs
    <3> QED
      BY <2>1, <2>3, <2>5, <3>1, <3>2
  <2> QED
    BY <2>4, <2>5
<1>9. f[n] = e[n]
  <2> HIDE DEF S
  <2>1. \A j \in 1 .. n : j - 1 \in S => j \in S
    BY <1>8
  <2>2. \A j \in 0 .. n : j \in S
    BY <1>1, <1>7, <2>1, UpTo
  <2>3. n \in 0 .. n
    BY <1>1
  <2> QED
    BY <2>2, <2>3 DEF S
<1> QED
  BY <1>2, <1>3, <1>9

=============================================================================
