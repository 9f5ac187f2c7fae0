------------------------------ MODULE Effects -------------------------------
(***************************************************************************)
(* What effects leave behind and how it is put together: the sequence, the *)
(* par and the forall of eval_eff in src/interpreter.py and                *)
(* src/src/interp.rs.  What a single effect does is left open: here an     *)
(* effect is any operator from stores to outcomes.                         *)
(*                                                                         *)
(* A store is a function from names to values.  An outcome has a kind, the *)
(* store that is reached, the emits and spawns in order and the retracted  *)
(* names.  A failed evaluation keeps what it had reached, which is what    *)
(* TryCatch has to throw away.                                             *)
(***************************************************************************)
EXTENDS Integers, Sequences, Functions

CONSTANT Same(_, _)   \* the == of the language, which is coarser than being one value

NoneV == <<"none", 0>>

\* "err" is what try catches (InterpreterError, EvalError); "crash" any other Python
\* exception.
Done(s) == [kind |-> "ok", store |-> s, emits |-> << >>, spawned |-> << >>, retracted |-> {}]
Failed(kind, s) == [Done(s) EXCEPT !.kind = kind]

\* The effects of r followed by those of t, which ran on the store r left.
Join(r, t) ==
  [t EXCEPT !.emits = r.emits \o @, !.spawned = r.spawned \o @,
            !.retracted = r.retracted \cup @]
AndThen(r, Rest(_)) == IF r.kind = "ok" THEN Join(r, Rest(r.store)) ELSE r

\* Steps 1 .. n, each on the store the one before left, up to the first that fails.
InTurn(n, s, Step(_, _)) ==
  LET upTo[k \in 0 .. n] ==
        IF k = 0 THEN Done(s) ELSE AndThen(upTo[k - 1], LAMBDA s1 : Step(k, s1))
  IN  upTo[n]

\* What s says, and t where s says nothing.
Above(s, t) == [x \in DOMAIN s \cup DOMAIN t |-> IF x \in DOMAIN s THEN s[x] ELSE t[x]]
Bound(s, x, v) == Above([y \in {x} |-> v], s)
Without(s, x) == Restrict(s, DOMAIN s \ {x})

-----------------------------------------------------------------------------
(* Par: both branches run on the same store, then their stores are merged. *)

\* dict.get answers None for a missing name, so a name bound to None counts as
\* missing.
GetPy(s, x) == IF x \in DOMAIN s THEN s[x] ELSE NoneV
EitherPy(sa, sb, x) == IF GetPy(sa, x) # NoneV THEN GetPy(sa, x) ELSE GetPy(sb, x)
EitherRs(sa, sb, x) == IF x \in DOMAIN sa THEN sa[x] ELSE sb[x]

NoClash(sa, sb) == {}
ClashPy(sa, sb) ==
  {x \in DOMAIN sa \cap DOMAIN sb : NoneV \notin {sa[x], sb[x]} /\ ~Same(sa[x], sb[x])}
ClashRs(sa, sb) == {x \in DOMAIN sa \cap DOMAIN sb : ~Same(sa[x], sb[x])}
Clash(port, sa, sb) == IF port = "py" THEN ClashPy(sa, sb) ELSE ClashRs(sa, sb)

Merge(port, s, sa, sb) ==
  Above([x \in DOMAIN sa \cup DOMAIN sb |->
           IF port = "py" THEN EitherPy(sa, sb, x) ELSE EitherRs(sa, sb, x)], s)

ParResult(port, s, ra, rb) ==
  IF ra.kind # "ok" THEN ra
  ELSE IF rb.kind # "ok" THEN rb
  ELSE IF Clash(port, ra.store, rb.store) # {} THEN Failed("err", s)
  ELSE Join(ra, [rb EXCEPT !.store = Merge(port, s, ra.store, rb.store)])

-----------------------------------------------------------------------------
(* ForEach: what an iteration leaves for the next one.  Python drops the   *)
(* loop variable; Rust copies everything else over the store it had.       *)

StartOver(s, cur, nxt, x) == Without(s, x)
AfterIterationPy(s, cur, nxt, x) == Without(nxt, x)
AfterIterationRs(s, cur, nxt, x) == Above(Without(nxt, x), cur)
AfterIteration(port, s, cur, nxt, x) ==
  IF port = "py" THEN AfterIterationPy(s, cur, nxt, x) ELSE AfterIterationRs(s, cur, nxt, x)

Iteration(port, s, cur, x, r) ==
  IF r.kind = "ok" THEN [r EXCEPT !.store = AfterIteration(port, s, cur, @, x)] ELSE r

\* The body once per item, from store s.
ForItems(port, x, items, s, Body(_)) ==
  InTurn(Len(items), s, LAMBDA k, cur : Iteration(port, s, cur, x, Body(Bound(cur, x, items[k]))))

-----------------------------------------------------------------------------
\* What r, which ran on store s, has changed of it; a name can also be gone.
Changes(s, r) ==
  {x \in DOMAIN s \cup DOMAIN r.store : ~(x \in DOMAIN s \cap DOMAIN r.store /\ s[x] = r.store[x])}

\* r has done to s what t has done to its store u.
DoesTheSame(s, r, u, t) ==
  Changes(s, r) = Changes(u, t) /\ \A x \in Changes(s, r) : x \in DOMAIN r.store /\ x \in DOMAIN t.store
                                                            /\ r.store[x] = t.store[x]

=============================================================================
