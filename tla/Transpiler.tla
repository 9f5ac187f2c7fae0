----------------------------- MODULE Transpiler -----------------------------
(***************************************************************************)
(* The transpiler: src/compiler.py and its port src/src/compiler.rs, which *)
(* write the same text but for tuples of one item.  A body is modelled by  *)
(* what the Python code written for it does when it runs: to the global    *)
(* store, which it changes in place, and to the messages it appends to the *)
(* global queue.                                                           *)
(*                                                                         *)
(* A failure is any exception of Python; "hang" is a while loop that went  *)
(* on for LoopLimit turns, since the code written has no limit.  No forall *)
(* runs over a text and no text is indexed, no variable has the name of a  *)
(* word of Python, and of the library only printing is kept.  What Python  *)
(* makes of a built-in function with too few or too many arguments, where  *)
(* the evaluator raises an error, is not kept.                             *)
(***************************************************************************)
EXTENDS EffSemantics

Ran(s, emits) == [kind |-> "ok", store |-> s, emits |-> emits]
Raised(s) == [Ran(s, << >>) EXCEPT !.kind = "crash"]
Hung(s) == [Ran(s, << >>) EXCEPT !.kind = "hang"]
Then(r, t) == [t EXCEPT !.emits = r.emits \o @]

-----------------------------------------------------------------------------
(* The text: spawn and retract write no line, choice writes its first      *)
(* branch only.  A header with no line under it is a syntax error, and so  *)
(* is an unsupported expression unless it ends its line: it is written as  *)
(* 0 and a comment.  Then the whole script does not load.                  *)

SecondBranch(n) == n.b
FirstBranch(n) == n.a

\* A match, or a function that is not what a name is assigned; for the Python writer also
\* the call of what is not a name.
IsBare(port, e) ==
  \/ e.ex \in {"match", "fun"}
  \/ /\ port = "py" /\ e.ex = "call" /\ e.f.ex # "name"
     /\ e.f.ex = "attr" => e.f.obj.ex # "name"

RECURSIVE IsWritten(_, _)
IsWritten(port, e) ==
  /\ ~IsBare(port, e)
  /\ CASE e.ex = "un" -> IsWritten(port, e.e)
       [] e.ex = "bin" -> IsWritten(port, e.l) /\ IsWritten(port, e.r)
       [] e.ex \in {"list", "tuple"} -> \A k \in DOMAIN e.items : IsWritten(port, e.items[k])
       [] e.ex = "attr" -> IsWritten(port, e.obj)
       [] e.ex = "index" -> IsWritten(port, e.obj) /\ IsWritten(port, e.key)
       [] e.ex = "call" -> /\ \A k \in DOMAIN e.args : IsWritten(port, e.args[k])
                           /\ e.f.ex = "name" \/ IsWritten(port, e.f)
       [] OTHER -> TRUE

EndsItsLine(port, e) == IsBare(port, e) \/ IsWritten(port, e)
AssignLoads(port, e) ==
  EndsItsLine(port, e) /\ (e.ex = "fun" => EndsItsLine(port, e.body))

RECURSIVE NoLines(_), Loads(_, _)
NoLines(n) ==
  CASE n.op = "block" -> \A k \in DOMAIN n.stmts : NoLines(n.stmts[k])
    [] n.op \in {"seq", "par"} -> NoLines(n.a) /\ NoLines(n.b)
    [] n.op = "choice" -> NoLines(FirstBranch(n))
    [] OTHER -> n.op \in {"spawn", "retract"}

Loads(port, n) ==
  CASE n.op = "block" -> \A k \in DOMAIN n.stmts : Loads(port, n.stmts[k])
    [] n.op \in {"seq", "par"} -> Loads(port, n.a) /\ Loads(port, n.b)
    [] n.op = "choice" -> Loads(port, FirstBranch(n))
    [] n.op = "assign" -> AssignLoads(port, n.e)
    [] n.op = "call" -> EndsItsLine(port, n.e)
    [] n.op \in {"emit", "raise"} -> IsWritten(port, n.e)
    [] n.op = "if" -> /\ IsWritten(port, n.guard)
                      /\ \A m \in {n.a, n.b} : Loads(port, m) /\ ~NoLines(m)
    [] n.op = "try" -> \A m \in {n.a, n.b} : Loads(port, m) /\ ~NoLines(m)
    [] n.op = "loop" -> IsWritten(port, n.guard) /\ Loads(port, n.body) /\ ~NoLines(n.body)
    [] n.op = "forall" -> IsWritten(port, n.e) /\ Loads(port, n.body) /\ ~NoLines(n.body)
    [] OTHER -> TRUE

-----------------------------------------------------------------------------
(* Expressions: store.get(name, 0), and Python's own operators.            *)

Spelled == [x \in {"true", "True", "false", "False"} |-> BoolV(x \in {"true", "True"})]
Lookup(s, x) ==
  IF x \in DOMAIN Spelled THEN Spelled[x] ELSE IF x \in DOMAIN s THEN s[x] ELSE IntV(0)

\* One character of Python: a digit, or a parameter of one letter.
OneCharacter(e, locals) ==
  \/ e.ex = "lit" /\ e.v \in {IntV(k) : k \in 0 .. 9}
  \/ e.ex = "name" /\ e.x \in DOMAIN locals /\ Len(e.x) = 1

\* For the comma of a one-item tuple the Python writer looks at the length of the text
\* of the items, not at their number.
CommaPy(items, locals) == Len(items) # 1 \/ OneCharacter(items[1], locals)
CommaRs(items, locals) == TRUE
Comma(port, items, locals) ==
  IF port = "py" THEN CommaPy(items, locals) ELSE CommaRs(items, locals)

\* A function becomes a def, which reads the store of the moment it is called at.
DefV(e) == <<"def", [params |-> e.params, body |-> e.body]>>

\* "and" and "or" of Python answer one of their operands, and look at the second only if
\* they have to.
Lazily(op, v) == IF op = "and" THEN ~IsTruthy(v) ELSE IsTruthy(v)

Printing(e) == e.f.ex = "attr" /\ e.f.obj = Name("console") /\ e.f.attr \in {"print", "println"}

\* locals are the parameters of the def the expression stands in; a call looks for its
\* function in the store alone.
RECURSIVE RunExpr(_, _, _, _), RunCall(_, _, _, _)
RunExpr(port, e, s, locals) ==
  LET Run(f) == RunExpr(port, f, s, locals)
  IN  CASE e.ex = "lit" -> Val(e.v)
        [] e.ex = "name" -> Val(IF e.x \in DOMAIN locals /\ e.x \notin DOMAIN Spelled THEN locals[e.x]
                                ELSE Lookup(s, e.x))
        [] e.ex = "un" -> LET v == Run(e.e)
                          IN  IF v.kind = "ok" THEN Unary("py", e.op, v.val) ELSE v
        [] e.ex = "bin" ->
             LET l == Run(e.l)
                 r == Run(e.r)
             IN  IF l.kind # "ok" THEN l
                 ELSE IF e.op \in {"and", "or"} THEN IF Lazily(e.op, l.val) THEN l ELSE r
                 ELSE IF r.kind # "ok" THEN r
                 ELSE Binary("py", e.op, l.val, r.val)
        [] e.ex = "tuple" /\ ~Comma(port, e.items, locals) -> Run(e.items[1])
        [] e.ex \in {"list", "tuple"} ->
             LET vs == Collect([k \in DOMAIN e.items |-> Run(e.items[k])])
             IN  IF vs.kind = "ok" THEN Val(<<e.ex, vs.val>>) ELSE vs
        [] e.ex = "attr" -> Crash   \* nothing in the store has attributes
        [] e.ex = "index" -> LET vs == Collect(<<Run(e.obj), Run(e.key)>>)
                             IN  IF vs.kind = "ok" THEN ItemAt("py", vs.val[1], vs.val[2]) ELSE vs
        [] e.ex = "call" -> RunCall(port, e, s, locals)

RunCall(port, e, s, locals) ==
  LET args == Collect([k \in DOMAIN e.args |-> RunExpr(port, e.args[k], s, locals)])
      def == s[e.f.x][2]
      Params == [x \in ToSet(def.params) |-> args.val[SelectLastInSeq(def.params, LAMBDA y : y = x)]]
  IN  IF args.kind # "ok" THEN args
      ELSE IF Printing(e) THEN Val(NoneV)
      ELSE IF e.f.ex # "name" THEN Crash
      ELSE IF e.f.x \in Builtins THEN CallBuiltin("py", e.f.x, args.val)
      ELSE IF e.f.x \notin DOMAIN s THEN Val(NoneV)   \* _noop
      ELSE IF s[e.f.x][1] # "def" THEN Crash
      ELSE IF Len(args.val) # Len(def.params) THEN Crash
      ELSE IF IsBare(port, def.body) THEN Val(IntV(0))
      ELSE RunExpr(port, def.body, s, Params)

-----------------------------------------------------------------------------
(* Running a body.                                                         *)

Assigned(port, e, s) ==
  CASE e.ex = "fun" -> Val(DefV(e))
    [] IsBare(port, e) -> Val(IntV(0))
    [] OTHER -> RunExpr(port, e, s, << >>)

RECURSIVE Exec(_, _, _), While(_, _, _, _)

\* The lines of ns one after the other; par is no more than that.
ExecAll(port, ns, s) ==
  FoldLeft(LAMBDA r, n : IF r.kind = "ok" THEN Then(r, Exec(port, n, r.store)) ELSE r, Ran(s, << >>), ns)

While(port, n, s, k) ==
  LET g == RunExpr(port, n.guard, s, << >>)
      r == Exec(port, n.body, s)
  IN  IF g.kind # "ok" THEN Raised(s)
      ELSE IF ~IsTruthy(g.val) THEN Ran(s, << >>)
      ELSE IF k = LoopLimit THEN Hung(s)
      ELSE IF r.kind # "ok" THEN r
      ELSE Then(r, While(port, n, r.store, k + 1))

\* The variable of a for is a local of the function, which the body does not read; the
\* exception of an except likewise.  What a failed try did stays done.
Exec(port, n, s) ==
  CASE n.op = "block" -> ExecAll(port, n.stmts, s)
    [] n.op \in {"seq", "par"} -> ExecAll(port, <<n.a, n.b>>, s)
    [] n.op = "choice" -> Exec(port, FirstBranch(n), s)
    [] n.op \in {"spawn", "retract"} -> Ran(s, << >>)
    [] n.op = "assign" -> LET v == Assigned(port, n.e, s)
                          IN  IF v.kind = "ok" THEN Ran(Bound(s, n.x, v.val), << >>) ELSE Raised(s)
    [] n.op = "emit" -> LET v == RunExpr(port, n.e, s, << >>)
                        IN  IF v.kind = "ok" THEN Ran(s, <<v.val>>) ELSE Raised(s)
    [] n.op = "call" -> IF Assigned(port, n.e, s).kind = "ok" THEN Ran(s, << >>) ELSE Raised(s)
    [] n.op = "raise" -> Raised(s)
    [] n.op = "if" -> LET g == RunExpr(port, n.guard, s, << >>)
                      IN  IF g.kind # "ok" THEN Raised(s)
                          ELSE Exec(port, IF IsTruthy(g.val) THEN n.a ELSE n.b, s)
    [] n.op = "loop" -> While(port, n, s, 0)
    [] n.op = "forall" -> LET c == RunExpr(port, n.e, s, << >>)
                          IN  IF c.kind # "ok" \/ c.val[1] \notin {"list", "tuple"} THEN Raised(s)
                              ELSE ExecAll(port, [k \in DOMAIN c.val[2] |-> n.body], s)
    [] n.op = "try" -> LET r == Exec(port, n.a, s)
                       IN  IF r.kind # "crash" THEN r ELSE Then(r, Exec(port, n.b, r.store))

=============================================================================
