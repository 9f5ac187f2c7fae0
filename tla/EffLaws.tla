------------------------------ MODULE EffLaws -------------------------------
(***************************************************************************)
(* Laws of the effect language, checked on every program of a bounded size *)
(* and every store of a small set.  A state is one program and one store;  *)
(* a step puts the program into a larger one, in every syntactic form.     *)
(* Expressions do not grow: the samples are effects with one expression    *)
(* each, or few.                                                           *)
(***************************************************************************)
EXTENDS EffSemantics, Checker

CONSTANTS
  Leaves,     \* the effects programs are built from
  Samples,    \* effects taken as they are
  Beside,     \* those of the leaves put beside a program to make it larger
  Guards,     \* the conditions of if and loop
  Colls,      \* the collections of forall: expressions
  LoopVar,    \* the variable of forall
  CatchVar,   \* the variable of catch
  Stores,     \* the stores programs run on
  MaxDepth    \* how deep programs grow

VARIABLES node, depth, store

vars == <<node, depth, store>>

Init ==
  /\ \/ node \in Leaves /\ depth = 1
     \/ node \in Samples /\ depth = MaxDepth
  /\ store \in Stores

Grow(bigger) ==
  /\ depth < MaxDepth
  /\ node' \in bigger
  /\ depth' = depth + 1
  /\ UNCHANGED store

InPair == Grow({Pair(op, node, l) : op \in {"seq", "par", "choice"}, l \in Beside}
               \cup {Pair(op, l, node) : op \in {"seq", "par", "choice"}, l \in Beside})
InBlock == Grow({Block(<<node, l>>) : l \in Beside} \cup {Block(<<node>>), Block(<< >>)})
InIf == Grow({IfElse(g, node, l) : g \in Guards, l \in Beside})
InLoop == Grow({Loop(g, node) : g \in Guards})
InForAll == Grow({ForEach(LoopVar, e, node) : e \in Colls})
InTry == Grow({TryCatch(node, CatchVar, l) : l \in Beside} \cup {TryCatch(l, CatchVar, node) : l \in Beside})

Next == InPair \/ InBlock \/ InIf \/ InLoop \/ InForAll \/ InTry

Spec == Init /\ [][Next]_vars

-----------------------------------------------------------------------------
\* The expressions an expression is made of; the name of what is called is none.
PartsOf(e) ==
  CASE e.ex = "bin" -> {e.l, e.r}
    [] e.ex = "un" -> {e.e}
    [] e.ex \in {"list", "tuple"} -> ToSet(e.items)
    [] e.ex = "attr" -> {e.obj}
    [] e.ex = "index" -> {e.obj, e.key}
    [] e.ex = "fun" -> {e.body}
    [] e.ex = "match" -> {e.scrut} \cup {c.body : c \in ToSet(e.cases)}
    [] e.ex = "call" -> ToSet(e.args) \cup (IF e.f.ex = "name" THEN {} ELSE {e.f})
    [] OTHER -> {}
RECURSIVE Inside(_)
Inside(e) == {e} \cup UNION {Inside(part) : part \in PartsOf(e)}

Py(n) == EvalEff("py", n, store)
Rs(n) == EvalEff("rs", n, store)

\* What a, b, the par of both and the sequence of both come to.
InEitherOrder(a, b, both, ab) ==
  /\ both.kind = "ok" /\ ab.kind = "ok"
  /\ Changes(store, a) \cap Changes(store, b) = {}
  /\ DoesTheSame(store, b, a.store, ab)
  /\ DOMAIN store \subseteq DOMAIN a.store
  /\ NoneV \notin Range(a.store) \cup Range(b.store)
  => both.store = ab.store

\* par has no order: where its branches change different names, drop none, bind none to
\* None, and the second does after the first what it does alone, par gives the store of
\* running them one after the other or refuses (interpreter.py:522-532).
ParIsEitherOrder ==
  node.op = "par" => InEitherOrder(Py(node.a), Py(node.b), Py(node), Py(Pair("seq", node.a, node.b)))

\* Nothing of a body that failed survives its try: any other failing body in its
\* place gives the same result (interpreter.py:566-572).
TryForgetsTheBody ==
  node.op = "try" /\ Py(node.a).kind = "err" => Py(node) = Py(TryCatch(Raise(IntLit(0)), node.x, node.b))

\* The body after each item in turn, and what r, a forall, has to be if u is that.
Unrolled(items, body) ==
  Block([k \in 1 .. 2 * Len(items) |->
           IF k % 2 = 1 THEN Assign(LoopVar, Lit(items[(k + 1) \div 2])) ELSE body])

LoopsOver(items, r, u) ==
  /\ r.kind = u.kind /\ r.emits = u.emits
  /\ r.spawned = u.spawned /\ r.retracted = u.retracted
  /\ r.kind = "ok" => /\ Without(r.store, LoopVar) = Without(u.store, LoopVar)
                      /\ LoopVar \in DOMAIN r.store => items = << >>

\* forall is its body written out once per item; only the loop variable does not outlive
\* it, and a variable of that name from before the loop is gone too, unless there was no
\* item (interpreter.py:551-565).
ForAllIsUnrolled ==
  node.op = "forall" =>
    \A c \in {Evaluate("py", node.e, store)} :
      c.kind = "ok" /\ c.val[1] = "list" => LoopsOver(c.val[2], Py(node), Py(Unrolled(c.val[2], node.body)))

\* Every variable assigned again, and a function of one parameter.
Changed == Block(SetToSeq({Assign(x, StrLit("a")) : x \in DOMAIN store \cup {"x", "y"}}))
Made(e) == Assign("f", Fun(<<"a">>, <<NoAnn>>, NoAnn, e))

SameEmits(r, t) == r.kind = t.kind /\ r.emits = t.emits

\* A function sees the variables as they were when it was made, and its parameters:
\* whatever is assigned before it is called, it answers what its body is worth there
\* (interpreter.py:385-386, :440-454).
ClosuresKeepTheirScope ==
  node.op = "emit" =>
    \A port \in {"py", "rs"} :
      SameEmits(EvalEff(port, Block(<<Made(node.e), Changed, Emit(Call(Name("f"), <<IntLit(0)>>))>>), store),
                EvalEff(port, Block(<<Assign("a", IntLit(0)), node>>), store))

\* What Python does and the port refuses: lists and tuples have an order, tuples are
\* added and repeated, a truth value is a number of times, a function is a tuple, and a
\* module nobody knows answers None.
RefusedFor(e, kinds) ==
  LET Calls(names) == e.ex = "call" /\ e.f.ex = "name" /\ e.f.x \in names
  IN  \/ e.ex = "bin" /\ e.op \in DOMAIN Outcomes /\ kinds \cap {"list", "tuple"} # {}
      \/ e.ex = "bin" /\ e.op \in {"+", "*"} /\ "tuple" \in kinds
      \/ e.ex = "bin" /\ e.op = "*" /\ "bool" \in kinds /\ kinds \cap {"list", "text"} # {}
      \/ e.ex \in {"attr", "index"} /\ "fun" \in kinds
      \/ Calls({"len"}) /\ "fun" \in kinds
      \/ Calls({"min", "max"}) /\ kinds \cap {"list", "tuple"} # {}
      \/ Calls({"range"}) /\ "bool" \in kinds
      \/ e.ex = "call" /\ e.f.ex = "attr" /\ e.f.obj.ex = "name" /\ e.f.obj.x \notin {"console", "py"}
Kinds(v) == {v[1], KindOf("py", v)}
Refused(e, s) ==
  \E kinds \in {UNION {Kinds(Evaluate("py", f, s).val) : f \in PartsOf(e)}} : RefusedFor(e, kinds)

\* What they write of a function is not the same text.
WritesFunction(e) == e.ex = "call" /\ e.f = Name("str") /\ Name("f") \in ToSet(e.args)

RefusesSome ==
  \E m \in Within(node), s \in {store, Py(node).store} :
    \E e \in UNION {Inside(m[field]) : field \in DOMAIN m \cap {"e", "guard"}} :
      Refused(e, s) \/ WritesFunction(e)
HidesVariable == \E m \in Within(node) : m.op = "forall" /\ m.x \in DOMAIN store
BindsNone(r) == r.kind = "ok" /\ NoneV \in Range(r.store)
BindsNoneInPar == \E m \in Within(node) : m.op = "par" /\ \E n \in Within(m) : BindsNone(Py(n))

\* What the port makes of a program with a variable to hide or a None in a par.
GivesBack(py, rs) == rs = [py EXCEPT !.store = Bound(@, LoopVar, store[LoopVar])]
Alike(py, rs) ==
  \/ py.kind = "crash"
  \/ rs.kind = py.kind /\ (py.kind = "ok" => rs = py)
  \/ HidesVariable /\ (node.op = "forall" /\ py.kind = "ok" => GivesBack(py, rs))
  \/ BindsNoneInPar /\ (node.op = "par" /\ py.kind = "ok" => rs.kind = "err")
  \/ RefusesSome

\* The port evaluates every program as the original does, but for exceptions Python does
\* not call errors of the program, for what a failure leaves behind, and for three
\* disagreements: what the port refuses; the variable a forall hides, which the port gives
\* back; and a name bound to None in a par, where the port sees a conflict
\* (interpreter.py:489-579, interp.rs:579-681, :957-1189).
PortsAgree == Alike(Py(node), Rs(node))

=============================================================================
