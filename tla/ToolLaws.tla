---------------------------- MODULE ToolLaws --------------------------------
(***************************************************************************)
(* What the verdicts of the type checker and of the property prover, and   *)
(* the code the transpiler writes, are worth: laws that compare them with  *)
(* what the evaluator and the machine do.  The states are those of         *)
(* EffLaws; the program under test is the body grown there, as the rule    *)
(* for boot, in a library with other rules.                                *)
(***************************************************************************)
EXTENDS EffLaws, Transpiler

CONSTANTS
  LibRules,   \* the other rules of the library
  TopRules,   \* the rules at the top level, after the library
  EnumDecls,  \* the enums of the library
  RunSteps    \* how many messages a run of a program may take

BootRule(body) == [name |-> "Boot", pat |-> [tag |-> "boot", params |-> << >>], body |-> body]

ProgramOf(body) ==
  <<[lib |-> "t", rules |-> <<BootRule(body)>> \o LibRules, enums |-> EnumDecls]>>
  \o [i \in DOMAIN TopRules |-> [lib |-> NoLib, rules |-> <<TopRules[i]>>, enums |-> << >>]]

Uses(n, ops) == \E m \in Within(n) : m.op \in ops

\* The names that are variables somewhere in a program, and those it emits as tags.
Variables(decls) ==
  DOMAIN store
  \cup UNION {ToSet(r.rule.pat.params) : r \in AllRules(decls)}
  \cup {m.x : m \in {k \in UNION {Within(b) : b \in Bodies(decls)} :
                       k.op \in {"assign", "forall", "try"}}}
Tags(decls) ==
  UNION {TagOf(m.e) : m \in {k \in UNION {Within(b) : b \in Bodies(decls)} : k.op = "emit"}}
TagsAreNoVariables(decls) == Tags(decls) \cap Variables(decls) = {}
TagsAreWritten(decls) ==
  \A m \in {k \in UNION {Within(b) : b \in Bodies(decls)} : k.op = "emit"} : TagOf(m.e) # {}

\* The expressions of an effect, but for a call that prints, whose value nobody uses.
ExprsOf(m) ==
  (IF "guard" \in DOMAIN m THEN {m.guard} ELSE {})
  \cup CASE m.op = "call" /\ Printing(m.e) -> ToSet(m.e.args)
         [] "e" \in DOMAIN m -> {m.e}
         [] OTHER -> {}

\* The tag of a message, if it has one.
MessageTag(m) ==
  CASE m[1] = "sym" -> {m[2]}
    [] m[1] = "tuple" /\ m[2] # << >> /\ m[2][1][1] = "sym" -> {m[2][1][2]}
    [] OTHER -> {}

-----------------------------------------------------------------------------
(* The sequential machine, reduced to which rules react; SeqMachine has    *)
(* the rest.                                                               *)

TableOf(decls) ==
  FlattenSeq([i \in DOMAIN decls |->
    [k \in DOMAIN decls[i].rules |-> [lib |-> decls[i].lib, rule |-> decls[i].rules[k]]]])

Matches(pat, m) ==
  IF pat.params = << >> THEN m = SymV(pat.tag)
  ELSE m[1] = "tuple" /\ Len(m[2]) = Len(pat.params) + 1 /\ m[2][1] = SymV(pat.tag)

BindParams(pat, m, s) ==
  [x \in ToSet(pat.params) |-> m[2][1 + SelectLastInSeq(pat.params, LAMBDA y : y = x)]] @@ s

\* The entry a spawn installs: a qualified name exactly, else a rule at the top level,
\* else the first rule of that name; none if there is none.
Resolve(table, sp) ==
  LET at(lib) == {k \in DOMAIN table : table[k].lib = lib /\ table[k].rule.name = sp.name}
      found == IF sp.lib # NoLib \/ at(NoLib) # {} THEN at(sp.lib)
               ELSE {k \in DOMAIN table : table[k].rule.name = sp.name}
  IN  IF found = {} THEN << >> ELSE <<table[CHOOSE k \in found : \A j \in found : k <= j]>>

\* The rules that react in a run with this rule list and queue, in at most k steps; res is
\* what the body of the first one does.
RECURSIVE Reacting(_, _, _, _, _)
AfterBody(table, q, queue, res, k) ==
  LET grown == q \o FlattenSeq([j \in DOMAIN res.spawned |-> Resolve(table, res.spawned[j])])
  IN  IF res.kind # "ok" THEN {}
      ELSE Reacting(table, SelectSeq(grown, LAMBDA r : r.rule.name \notin res.retracted),
                    queue \o res.emits, res.store, k)
Reacting(table, q, queue, s, k) ==
  LET able == SelectSeq(q, LAMBDA r : Matches(r.rule.pat, Head(queue)))
      first == Head(able)
  IN  IF queue = << >> \/ k = 0 THEN {}
      ELSE IF able = << >> THEN Reacting(table, q, Tail(queue), s, k - 1)
      ELSE {first} \cup AfterBody(table, q, Tail(queue),
                                  EvalEff("py", first.rule.body, BindParams(first.rule.pat, Head(queue), s)), k - 1)

RulesThatReact(decls) ==
  Reacting(TableOf(decls), TableOf(decls), <<SymV("boot")>>, << >>, RunSteps)

-----------------------------------------------------------------------------
Program == ProgramOf(node)

\* Where P1 and P2 are proven, every spawn a body comes to finds its rule, and every
\* retract names one: the walk over the tree misses no place an effect can come from
\* (typechecker.py:431-457, :612-622).
ProvenNamesResolve ==
  /\ IsProven("py", Program, "P1") =>
       \A sp \in ToSet(Py(node).spawned) : Resolve(TableOf(Program), sp) # << >>
  /\ IsProven("py", Program, "P2") => Py(node).retracted \subseteq Names(Program).rules

\* No rule that P4 reports as unreachable ever reacts, as long as every emit
\* writes its tag and no body uses the constructs its walk does not enter
\* (typechecker.py:574-594, :630-656).
DeadRulesNeverReact ==
  \A port \in {"py", "rs"} :
    /\ store = << >>
    /\ TagsAreNoVariables(Program) /\ TagsAreWritten(Program)
    /\ \A b \in Bodies(Program) : ~Uses(b, IF port = "py" THEN {"try", "forall"} ELSE {"try"})
    => RulesThatReact(Program) \subseteq Reachable(port, Program)

\* Nothing in e has the type Top, no list mixes types, and only numbers are ordered.
RECURSIVE Precise(_, _)
Precise(e, env) ==
  LET TypeIn(f) == Infer(f, env).ty
      inner == IF e.ex = "fun" THEN ParamEnv(e) @@ env ELSE env
  IN  /\ TypeIn(e) # TTop
      /\ \A part \in PartsOf(e) : Precise(part, inner)
      /\ e.ex = "list" => \A f, g \in ToSet(e.items) : TypeIn(f) = TypeIn(g)
      /\ e.ex = "bin" /\ e.op \in DOMAIN Outcomes => IsNumeric(TypeIn(e.l)) /\ IsNumeric(TypeIn(e.r))

\* Whether v is a value of type t.
RECURSIVE HasType(_, _)
HasType(v, t) ==
  CASE t.k \in {"Int", "Float"} -> IsNumber(v)
    [] t.k = "Bool" -> v[1] = "bool"
    [] t.k = "Sym" -> v[1] = "sym"
    [] t.k = "Str" -> v[1] = "text"
    [] t.k = "Fun" -> v[1] = "fun"
    [] t.k = "List" -> v[1] = "list" /\ \A k \in DOMAIN v[2] : HasType(v[2][k], t.of[1])
    [] t.k = "Tuple" -> /\ v[1] = "tuple" /\ Len(v[2]) = Len(t.of)
                        /\ \A k \in DOMAIN t.of : HasType(v[2][k], t.of[k])
    [] t = TTop -> TRUE

HasInferredType(v, env) ==
  LET t == Infer(node.e, env)
  IN  t.ok /\ Precise(node.e, env) /\ v.kind = "ok" => HasType(v.val, t.ty)

\* What is inferred for a precise expression is the type of its value
\* (typechecker.py:253-369).
ValuesHaveTheirType ==
  node.op = "emit" => HasInferredType(Evaluate("py", node.e, store), [x \in DOMAIN store |-> TInt])

\* The expressions are precise and index nothing; no construct with a body or a branch
\* changes what the checker knows of a name, and no forall takes a name that is in use.
RECURSIVE Stable(_, _)
Stable(n, env) ==
  LET names == Names(Program)
      Keeps(m, e) == Stable(m, e) /\ CheckEff("rs", names, m, e).env = e
      EnvBefore(ns, k) == CheckAll("rs", names, SubSeq(ns, 1, k - 1), env).env
  IN  /\ \A e \in ExprsOf(n) : Precise(e, env) /\ ~\E f \in Inside(e) : f.ex = "index"
      /\ CASE n.op \in {"block", "seq"} ->
                LET ns == IF n.op = "seq" THEN <<n.a, n.b>> ELSE n.stmts
                IN  \A k \in DOMAIN ns : Stable(ns[k], EnvBefore(ns, k))
           [] n.op = "forall" -> /\ n.x \notin DOMAIN env
                                 /\ Keeps(n.body, ForAllEnv(n, Infer(n.e, env), env))
           [] OTHER -> \A m \in Parts(n) : Keeps(m, env)

\* A body without a reported error does not fail on a wrong type, as long as it is stable:
\* the checker threads one environment through both branches of an if
\* (typechecker.py:398-403), does not look at what an index is, and takes Top for any type.
TypedBodiesDoNotCrash ==
  /\ \E port \in {"py", "rs"} : CheckEff(port, Names(Program), node, << >>).ok
  /\ Stable(node, << >>)
  => Py(node).kind # "crash"

\* What the Python checker accepts the port accepts, and the other way round but for try,
\* raise and rules of other libraries (typechecker.py:222-231, types.rs:192-217).  One store
\* is enough: neither looks at it.
PortsCheckAlike ==
  store = << >> =>
  LET ownRules == NamesOf(Program[1].rules)
      homely == /\ \A b \in Bodies(Program) : ~Uses(b, {"try", "raise"})
                /\ \A b \in Bodies(Program) : \A n \in Spawns(b) : n.lib = NoLib /\ n.x \in ownRules
  IN  /\ TypeChecks("py", Program) => TypeChecks("rs", Program)
      /\ homely => (TypeChecks("rs", Program) => TypeChecks("py", Program))

\* P5: "every emitted tag is covered by a when handler (no guaranteed drop)", in a program
\* whose emits all write their tag (typechecker.py:658-663).
ProvenTagsAreCovered ==
  IsProven("py", Program, "P5") /\ TagsAreNoVariables(Program) /\ TagsAreWritten(Program) =>
    \A m \in ToSet(Py(node).emits) : MessageTag(m) \subseteq WhenTags(Program)

\* An exhaustive match answers: where P7 is proven of a match and P8 of the program, some
\* case takes whatever was constructed as a variant of that enum, as long as the patterns
\* have the arity of their variants, which neither looks at (typechecker.py:673-703).
ProvenMatchesAnswer ==
  /\ node.op = "block" /\ Len(node.stmts) = 2
  /\ \A m \in ToSet(node.stmts) : m.op \in {"assign", "emit"}
  /\ node.stmts[2].e.ex = "match"
  => LET match == node.stmts[2].e
         v == Evaluate("py", match.scrut, Py(node.stmts[1]).store).val
     IN  /\ v[1] = "tuple"   \* and no symbol, which is what a variant without a call is
         /\ \E enum \in Enums(Program) :
              <<match, enum>> \in ProvenExhaustive(Program) /\ MessageTag(v) \cap Variants(enum) # {}
         /\ ConstructorsAgree(Program)
         /\ \A c \in ToSet(match.cases) :
              c.pat.ex = "tuple" => ArityIs(Program, c.pat.items[1].x, Len(c.pat.items) - 1)
         => Answering(match.cases, v) # {}

-----------------------------------------------------------------------------
NamesIn(e) == {f.x : f \in {g \in Inside(e) : g.ex = "name"}}

\* What the code written answers otherwise than the evaluator: the operand that decided,
\* a comment, None, nothing, and for the Python writer the item.
Differs(port, e) ==
  \/ e.ex = "bin" /\ e.op \in {"and", "or"}
  \/ e.ex = "match"
  \/ e.ex = "call" /\ (e.f.ex # "name" \/ IsConstructor(e.f))
  \/ e.ex = "attr"
  \/ e.ex = "tuple" /\ Len(e.items) = 1 /\ port = "py"

\* The operands of a condition may decide; a function is its body.
Operands(m) ==
  UNION {CASE e.ex = "bin" /\ "guard" \in DOMAIN m -> {e.l, e.r}
           [] e.ex = "fun" /\ m.op = "assign" -> {e.body}
           [] OTHER -> {e} : e \in ExprsOf(m)}

\* A function that reads nothing but its parameters and calls nothing but built-in functions.
IsClosed(fun) ==
  /\ NamesIn(fun.body) \subseteq ToSet(fun.params)
  /\ \A e \in Inside(fun.body) : e.ex = "call" => e.f.x \in Builtins

Means(port, m) ==
  /\ \A e \in Operands(m) : ~\E f \in Inside(e) : Differs(port, f)
  /\ IF m.op = "assign" /\ m.e.ex = "fun" THEN IsClosed(m.e)
     ELSE \A e \in ExprsOf(m) : NamesIn(e) \subseteq DOMAIN store

NoFunctions(s) == [x \in {y \in DOMAIN s : s[y][1] \notin {"fun", "def"}} |-> s[x]]

SameResult(run, py) ==
  py.kind = "ok" => /\ run.kind = "ok" /\ run.emits = py.emits
                    /\ NoFunctions(run.store) = NoFunctions(py.store)

\* The code either writer writes for a body does what the body does, where it is code at
\* all: for a body that reads only variables that are set, hides none in a forall, uses none
\* of spawn, retract, par and try, and none of the expressions the transpiler writes
\* otherwise (compiler.py:136-287, compiler.rs:156-330).
CompiledBodiesAgree ==
  \A port \in {"py", "rs"} :
    /\ ~Uses(node, {"spawn", "retract", "par", "try"}) /\ ~HidesVariable
    /\ \A m \in Within(node) : Means(port, m)
    /\ Loads(port, node)
    => SameResult(Exec(port, node, store), Py(node))

=============================================================================
