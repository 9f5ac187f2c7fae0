---------------------------- MODULE EffSemantics ----------------------------
(***************************************************************************)
(* The effect evaluator: eval_eff and evaluate of src/interpreter.py, and  *)
(* their port in src/src/interp.rs.  Where the two differ, the definition  *)
(* ends in Py or Rs and the operator that uses it takes the port as a      *)
(* parameter.                                                              *)
(*                                                                         *)
(* Values are tagged pairs.  There are no floats, one text stands for every *)
(* message of an error, and no program compares functions.  Annotations    *)
(* are not enforced, as when the programs are started without              *)
(* --enforce-types.                                                        *)
(***************************************************************************)
EXTENDS SequencesExt, FiniteSetsExt, Effects, Syntax

CONSTANT LoopLimit   \* 100000 in the code

ASSUME LoopLimitAssumption == LoopLimit \in Nat

IntV(n) == <<"int", n>>
BoolV(b) == <<"bool", IF b THEN 1 ELSE 0>>
TextV(t) == <<"text", t>>
ListV(items) == <<"list", items>>
TupleV(items) == <<"tuple", items>>
SymV(name) == <<"sym", name>>
ClosureV(e, s) == <<"fun", [params |-> e.params, anns |-> e.anns, body |-> e.body, env |-> s]>>
OpaqueV == <<"opaque", 0>>   \* an object of Python the language has no name for
MessageV == TextV("message")

IsTruthy(v) == v \notin {IntV(0), BoolV(FALSE), TextV(""), NoneV, ListV(<< >>), TupleV(<< >>)}

\* A truth value is a number of its own, equal to 0 or 1.
IsNumber(v) == v[1] \in {"int", "bool"}
RECURSIVE SameValue(_, _)
SameValue(v, w) ==
  IF {v[1], w[1]} \subseteq {"list", "tuple"}
    THEN v[1] = w[1] /\ Len(v[2]) = Len(w[2]) /\ \A k \in DOMAIN v[2] : SameValue(v[2][k], w[2][k])
    ELSE v = w \/ (IsNumber(v) /\ IsNumber(w) /\ v[2] = w[2])

\* Outcomes of an expression.
Val(v) == [kind |-> "ok", val |-> v]
Err == [kind |-> "err", val |-> NoneV]
Crash == [kind |-> "crash", val |-> NoneV]
OnValue(r, Use(_)) == IF r.kind = "ok" THEN Use(r.val) ELSE r
WithValue(r, s, Use(_)) == IF r.kind = "ok" THEN Use(r.val) ELSE Failed(r.kind, s)

-----------------------------------------------------------------------------
(* Expressions.                                                            *)

\* Python raises TypeError or ValueError, which no try of the language catches; Rust Interp.
TypeErrorPy == Crash
TypeErrorRs == Err
TypeErrorOf(port) == IF port = "py" THEN TypeErrorPy ELSE TypeErrorRs

\* In Python a function is a tuple of five, and whatever takes a tuple takes it.
KindOf(port, v) == IF v[1] = "fun" /\ port = "py" THEN "tuple" ELSE v[1]
Items(v) ==
  IF v[1] # "fun" THEN v[2]
  ELSE LET f == v[2]
       IN  <<TextV("closure"), ListV([k \in DOMAIN f.params |-> TextV(f.params[k])]), OpaqueV,
             ListV([k \in DOMAIN f.anns |-> IF f.anns[k] = NoAnn THEN NoneV ELSE OpaqueV]), OpaqueV>>

\* What can stand for a number of times or the end of a range: in the port no truth value.
IsCount(port, v) == v[1] = "int" \/ (v[1] = "bool" /\ port = "py")

\* What + appends to one another and * repeats, besides numbers; the port forgets tuples.
Appendable(port) == {"list", "text"} \cup (IF port = "py" THEN {"tuple"} ELSE {})
Content(v) == IF v[1] = "text" THEN v[2] ELSE Items(v)
Repeated(port, v, n) ==
  LET times[k \in Nat] == IF k = 0 THEN SubSeq(Content(v), 1, 0) ELSE times[k - 1] \o Content(v)
  IN  <<KindOf(port, v), times[Max({0, n})]>>

FloorDiv(a, b) == IF b > 0 THEN a \div b ELSE (-a) \div (-b)

Arithmetic(port, op, l, r) ==
  LET kl == KindOf(port, l)
      kr == KindOf(port, r)
  IN  CASE op = "/" /\ Same(r, IntV(0)) -> Err
        [] IsNumber(l) /\ IsNumber(r) ->
             Val(IntV(CASE op = "+" -> l[2] + r[2]
                        [] op = "-" -> l[2] - r[2]
                        [] op = "*" -> l[2] * r[2]
                        [] op = "/" -> FloorDiv(l[2], r[2])))
        [] op = "+" /\ kl = kr /\ kl \in Appendable(port) ->
             Val(<<kl, Content(l) \o Content(r)>>)
        [] op = "*" /\ IsCount(port, r) /\ kl \in Appendable(port) -> Val(Repeated(port, l, r[2]))
        [] op = "*" /\ IsCount(port, l) /\ kr \in Appendable(port) -> Val(Repeated(port, r, l[2]))
        [] OTHER -> TypeErrorOf(port)

\* The characters of a text, by their place among all.
Alphabet == " '(),-.0123456789ABCDEFGHIJKLMNOPQRSTUVWXYZ[]^abcdefghijklmnopqrstuvwxyz"
Letters(t) ==
  [k \in 1 .. Len(t) |-> IntV(CHOOSE i \in 1 .. Len(Alphabet) : SubSeq(Alphabet, i, i) = SubSeq(t, k, k))]

\* Numbers and texts are ordered; in Python also lists and tuples, by the first items that
\* differ.
RECURSIVE Order(_, _, _)
Order(port, l, r) ==
  LET Cmp(a, b) == CASE a < b -> "less" [] a > b -> "more" [] OTHER -> "same"
      Parts(v) == IF v[1] = "text" THEN Letters(v[2]) ELSE v[2]
      Lexical(s, t) ==
        LET differ == {k \in 1 .. Min({Len(s), Len(t)}) : ~Same(s[k], t[k])}
        IN  IF differ = {} THEN Cmp(Len(s), Len(t)) ELSE Order(port, s[Min(differ)], t[Min(differ)])
      inParts == {"text"} \cup (IF port = "py" THEN {"list", "tuple"} ELSE {})
  IN  CASE IsNumber(l) /\ IsNumber(r) -> Cmp(l[2], r[2])
        [] l[1] = r[1] /\ l[1] \in inParts -> Lexical(Parts(l), Parts(r))
        [] OTHER -> "none"

Outcomes ==
  ("<" :> {"less"}) @@ (">" :> {"more"}) @@ ("<=" :> {"less", "same"}) @@ (">=" :> {"more", "same"})

Binary(port, op, l, r) ==
  CASE op \in {"+", "-", "*", "/"} -> Arithmetic(port, op, l, r)
    [] op = "==" -> Val(BoolV(Same(l, r)))
    [] op = "!=" -> Val(BoolV(~Same(l, r)))
    [] op = "and" -> Val(BoolV(IsTruthy(l) /\ IsTruthy(r)))
    [] op = "or" -> Val(BoolV(IsTruthy(l) \/ IsTruthy(r)))
    [] op \in DOMAIN Outcomes ->
         LET IsOneOf(order, wanted) == IF order = "none" THEN TypeErrorOf(port) ELSE Val(BoolV(order \in wanted))
         IN  IsOneOf(Order(port, l, r), Outcomes[op])

Unary(port, op, v) ==
  CASE op = "not" -> Val(BoolV(~IsTruthy(v)))
    [] op = "-" -> IF IsNumber(v) THEN Val(IntV(-v[2])) ELSE TypeErrorOf(port)

\* Of the attributes only .kind is one: the tag of a tuple, a symbol itself.
Attribute(port, v, attr) ==
  CASE attr = "kind" /\ v[1] = "sym" -> Val(v)
    [] attr = "kind" /\ KindOf(port, v) = "tuple" /\ Items(v) # << >> -> Val(Items(v)[1])
    [] OTHER -> Err

\* A negative index counts from the end.
ItemAt(port, v, key) ==
  LET items == Items(v)
      k == IF key[2] < 0 THEN Len(items) + key[2] + 1 ELSE key[2] + 1
  IN  IF KindOf(port, v) \notin {"list", "tuple"} THEN Err
      ELSE IF IsNumber(key) /\ k \in DOMAIN items THEN Val(items[k])
      ELSE TypeErrorOf(port)

\* The bindings of a case that matches, in a set; a tuple has to have the length of the
\* pattern, a tag alone matches a tuple of any length.
MatchValue(pat, v) ==
  LET tagged(tag) == v[1] = "tuple" /\ v[2] # << >> /\ v[2][1] = SymV(tag)
      bound == {k \in 2 .. Len(pat.items) : pat.items[k].x # "_"}
  IN  IF pat.ex = "name"
        THEN IF pat.x = "_" \/ v = SymV(pat.x) \/ tagged(pat.x) THEN {<< >>} ELSE {}
        ELSE IF tagged(pat.items[1].x) /\ Len(pat.items) = Len(v[2])
               THEN {[x \in {pat.items[k].x : k \in bound} |->
                        v[2][Max({k \in bound : pat.items[k].x = x})]]}
               ELSE {}

\* The cases that match, and of these the first.
Answering(cases, v) == {k \in DOMAIN cases : MatchValue(cases[k].pat, v) # {}}

Builtins == {"range", "len", "abs", "min", "max", "str", "int"}   \* and float
ArityFits(name, n) == CASE name = "range" -> n = 2 [] name \in {"min", "max"} -> n >= 2 [] OTHER -> n = 1

\* The first of the smallest, or of the largest, of args.
RECURSIVE Best(_, _, _)
Best(port, wanted, args) ==
  LET rest == Best(port, wanted, Front(args))
      order == Order(port, Last(args), rest.val)
  IN  IF Len(args) = 1 THEN Val(args[1])
      ELSE IF rest.kind # "ok" THEN rest
      ELSE IF order = "none" THEN TypeErrorOf(port)
      ELSE Val(IF order = wanted THEN Last(args) ELSE rest.val)

\* What str makes of a value; within a list or a tuple texts are in quotes.
RECURSIVE Written(_, _)
Written(port, v) ==
  LET Quoted(w) == IF w[1] = "text" THEN "'" \o w[2] \o "'" ELSE Written(port, w)
      joined == FoldLeft(LAMBDA t, w : t \o (IF t = "" THEN "" ELSE ", ") \o Quoted(w), "", Items(v))
  IN  CASE v[1] = "text" -> v[2]
        [] v[1] = "int" -> ToString(v[2])
        [] v[1] = "bool" -> IF v[2] = 1 THEN "True" ELSE "False"
        [] v[1] = "sym" -> "^" \o v[2]
        [] v = NoneV -> "None"
        [] v = OpaqueV -> "..."
        [] v[1] = "fun" /\ port = "rs" -> "('closure', ...)"
        [] v[1] = "list" -> "[" \o joined \o "]"
        [] KindOf(port, v) = "tuple" -> "(" \o joined \o (IF Len(Items(v)) = 1 THEN ",)" ELSE ")")

\* The number a value is or a text spells, if any; a longer one is none here.
Readable == -99 .. 99
Numbers(v) ==
  CASE IsNumber(v) -> {v[2]}
    [] v[1] = "text" -> {n \in Readable : ToString(n) = v[2]}
    [] OTHER -> {}

CallBuiltin(port, name, args) ==
  LET v == args[1]
  IN  CASE ~ArityFits(name, Len(args)) -> Err
        [] name = "str" -> Val(TextV(Written(port, v)))
        [] name \in {"min", "max"} -> Best(port, IF name = "min" THEN "less" ELSE "more", args)
        [] name = "len" /\ KindOf(port, v) \in {"list", "tuple", "text"} -> Val(IntV(Len(Content(v))))
        [] name = "range" /\ \A k \in 1 .. 2 : IsCount(port, args[k]) ->
             Val(ListV([k \in 1 .. args[2][2] - v[2] |-> IntV(v[2] + k - 1)]))
        [] name = "abs" /\ IsNumber(v) -> Val(IntV(Max({v[2], -v[2]})))
        [] name = "int" /\ Numbers(v) # {} -> Val(IntV(Min(Numbers(v))))
        [] OTHER -> TypeErrorOf(port)

\* Of the library only printing is kept.  In Python a call into an unknown module is None:
\* the raise for it stands behind a return.
CallModule(port, mod, func, args) ==
  CASE mod = "py" -> Err
    [] mod = "console" -> IF func \notin {"print", "println"} \/ args = << >> THEN Err
                          ELSE Val(IF Len(args) = 1 THEN args[1] ELSE TupleV(args))
    [] OTHER -> IF port = "py" THEN Val(NoneV) ELSE Err

Capitals == LET abc == "ABCDEFGHIJKLMNOPQRSTUVWXYZ" IN {SubSeq(abc, k, k) : k \in 1 .. Len(abc)}
IsConstructor(e) == e.ex = "name" /\ SubSeq(e.x, 1, 1) \in Capitals

\* The values of several expressions, or the first failure among them.
Collect(vs) ==
  LET bad == {k \in DOMAIN vs : vs[k].kind # "ok"}
  IN  IF bad = {} THEN Val([k \in DOMAIN vs |-> vs[k].val]) ELSE vs[Min(bad)]

\* A function runs on the store it was made in.
CallersEnv(f, s) == s
CallEnv(f, s) == f.env

RECURSIVE Evaluate(_, _, _), CallExpr(_, _, _)
EvalAll(port, es, s) == Collect([k \in DOMAIN es |-> Evaluate(port, es[k], s)])

\* An unbound name is a symbol.
Evaluate(port, e, s) ==
  CASE e.ex = "lit" -> Val(e.v)
    [] e.ex = "name" -> Val(IF e.x \in DOMAIN s THEN s[e.x] ELSE SymV(e.x))
    [] e.ex = "fun" -> Val(ClosureV(e, s))
    [] e.ex = "un" -> OnValue(Evaluate(port, e.e, s), LAMBDA v : Unary(port, e.op, v))
    [] e.ex = "bin" -> OnValue(EvalAll(port, <<e.l, e.r>>, s), LAMBDA vs : Binary(port, e.op, vs[1], vs[2]))
    [] e.ex \in {"list", "tuple"} -> OnValue(EvalAll(port, e.items, s), LAMBDA vs : Val(<<e.ex, vs>>))
    [] e.ex = "attr" -> OnValue(Evaluate(port, e.obj, s),
                                LAMBDA v : IF e.obj = Name("py") THEN Err ELSE Attribute(port, v, e.attr))
    [] e.ex = "index" -> OnValue(EvalAll(port, <<e.obj, e.key>>, s), LAMBDA vs : ItemAt(port, vs[1], vs[2]))
    [] e.ex = "match" ->
         LET Answer(v, ks) ==
               IF ks = {} THEN Val(NoneV)
               ELSE LET case == e.cases[Min(ks)]
                    IN  Evaluate(port, case.body, (CHOOSE b \in MatchValue(case.pat, v) : TRUE) @@ s)
         IN  OnValue(Evaluate(port, e.scrut, s), LAMBDA v : Answer(v, Answering(e.cases, v)))
    [] e.ex = "call" -> CallExpr(port, e, s)

\* A call of a name means, in this order: a library module, a built-in function, a
\* constructor if it starts with a capital; what the name is bound to comes last.
CallExpr(port, e, s) ==
  LET ToModule == e.f.ex = "attr" /\ e.f.obj.ex = "name"
      ToBuiltin == e.f.ex = "name" /\ e.f.x \in Builtins
      WithArgs(Use(_)) == OnValue(EvalAll(port, e.args, s), Use)
      Params(fun, args) == [x \in ToSet(fun.params) |-> args[Max({k \in DOMAIN args : fun.params[k] = x})]]
      Apply(fun, args) ==
        IF Len(args) # Len(fun.params) THEN Err
        ELSE Evaluate(port, fun.body, Params(fun, args) @@ CallEnv(fun, s))
  IN  IF ToModule THEN WithArgs(LAMBDA args : CallModule(port, e.f.obj.x, e.f.attr, args))
      ELSE OnValue(Evaluate(port, e.f, s), LAMBDA f :
             CASE ToBuiltin -> WithArgs(LAMBDA args : CallBuiltin(port, e.f.x, args))
               [] ~ToBuiltin /\ IsConstructor(e.f) -> WithArgs(LAMBDA args : Val(TupleV(<<SymV(e.f.x)>> \o args)))
               [] ~ToBuiltin /\ ~IsConstructor(e.f) ->
                    IF f[1] # "fun" THEN Err ELSE WithArgs(LAMBDA args : Apply(f[2], args)))

-----------------------------------------------------------------------------
\* TryCatch: the catch body runs on the store the try began with.
ReachedStore(s, r) == r.store
CatchStore(s, r) == s

\* A loop that does not end by itself ends in an error.
LimitReached(s) == Failed("err", s)

-----------------------------------------------------------------------------
RECURSIVE EvalEff(_, _, _), Iterate(_, _, _, _)

\* stmts in order, from store s.
EvalBlock(port, stmts, s) == InTurn(Len(stmts), s, LAMBDA k, s1 : EvalEff(port, stmts[k], s1))

\* The body of forall for each of items.
EvalForEach(port, n, items, s) ==
  ForItems(port, n.x, items, s, LAMBDA s1 : EvalEff(port, n.body, s1))

\* The while loop, after k turns.
Iterate(port, n, s, k) ==
  WithValue(Evaluate(port, n.guard, s), s, LAMBDA g :
    CASE ~IsTruthy(g) -> Done(s)
      [] IsTruthy(g) /\ k = LoopLimit -> LimitReached(s)
      [] IsTruthy(g) /\ k < LoopLimit ->
           AndThen(EvalEff(port, n.body, s), LAMBDA s1 : Iterate(port, n, s1, k + 1)))

\* The handler of a try, if its body ended in r.
Handle(port, n, s, r) ==
  IF r.kind # "err" THEN r ELSE EvalEff(port, n.b, Bound(CatchStore(s, r), n.x, MessageV))

\* An effect with an expression, which is worth v.  The value of a call is dropped.
EvalWith(port, n, s, v) ==
  CASE n.op = "assign" -> Done(Bound(s, n.x, v))
    [] n.op = "emit" -> [Done(s) EXCEPT !.emits = <<v>>]
    [] n.op = "call" -> Done(s)
    [] n.op = "raise" -> Failed("err", s)
    [] n.op = "if" -> EvalEff(port, IF IsTruthy(v) THEN n.a ELSE n.b, s)
    [] n.op = "forall" ->
         IF v[1] # "list" THEN Failed("err", s)
         ELSE EvalForEach(port, n, v[2], s)

EvalEff(port, n, s) ==
  CASE n.op = "block" -> EvalBlock(port, n.stmts, s)
    [] n.op = "spawn" -> [Done(s) EXCEPT !.spawned = <<[lib |-> n.lib, name |-> n.x]>>]
    [] n.op = "retract" -> [Done(s) EXCEPT !.retracted = {n.x}]
    [] n.op \in {"assign", "emit", "call", "raise", "forall"} ->
         WithValue(Evaluate(port, n.e, s), s, LAMBDA v : EvalWith(port, n, s, v))
    [] n.op = "if" -> WithValue(Evaluate(port, n.guard, s), s, LAMBDA v : EvalWith(port, n, s, v))
    [] n.op = "seq" -> EvalBlock(port, <<n.a, n.b>>, s)
    [] n.op = "par" -> ParResult(port, s, EvalEff(port, n.a, s), EvalEff(port, n.b, s))
    \* Nothing raises ChoiceFail: the second branch is never tried.
    [] n.op = "choice" -> EvalEff(port, n.a, s)
    [] n.op = "loop" -> Iterate(port, n, s, 0)
    [] n.op = "try" -> Handle(port, n, s, EvalEff(port, n.a, s))

=============================================================================
