------------------------------ MODULE Checker -------------------------------
(***************************************************************************)
(* The type checker and property prover: src/typechecker.py and its port   *)
(* src/src/types.rs, on the effects of EffSemantics.  Of a list of errors  *)
(* only whether it is empty is kept.                                       *)
(*                                                                         *)
(* A program is a sequence of declarations [lib, rules, enums]; a rule at  *)
(* the top level is a declaration of its own with lib NoLib.  A rule is a  *)
(* record [name, pat, body], a pattern [tag, params].  No two enums share  *)
(* a name or a variant, no program compares functions, and imports, which  *)
(* only add names, are left out.                                           *)
(***************************************************************************)
EXTENDS EffSemantics

CONSTANT NoLib   \* the library of a rule at the top level

(* Types: a constructor and the types of its parts.                        *)
Ty(k) == [k |-> k, of |-> << >>]
TList(t) == [k |-> "List", of |-> <<t>>]
TTuple(ts) == [k |-> "Tuple", of |-> ts]
TInt == Ty("Int")
TSym == Ty("Sym")
TBool == Ty("Bool")
TTop == Ty("Top")
TFun(params, ret) == [k |-> "Fun", of |-> Append(params, ret)]

\* The type an annotation names; an unknown name is no annotation.
RECURSIVE ConvType(_)
ConvType(te) ==
  CASE te.con = "List" -> TList(IF te.of = << >> THEN TTop ELSE ConvType(te.of[1]))
    [] te.con \in {"Int", "Str", "Bool", "Float", "Sym"} -> Ty(te.con)
    [] OTHER -> TTop

IsNumericOrSym(t) == t.k \in {"Int", "Float", "Sym", "Top"}
IsNumeric(t) == t.k \in {"Int", "Float", "Top"}
TruthyType(t) == t.k \in {"Int", "Bool", "Sym", "List", "Tuple"}

RECURSIVE IsSubtype(_, _)
IsSubtype(a, b) ==
  \/ a = b
  \/ b = TTop
  \/ a.k = "Int" /\ b.k = "Float"
  \/ /\ a.k = b.k /\ Len(a.of) = Len(b.of)
     /\ \A i \in DOMAIN a.of : IsSubtype(a.of[i], b.of[i])

-----------------------------------------------------------------------------
(* Expressions: the type, and whether no error was reported on the way.    *)

Typed(t, ok) == [ty |-> t, ok |-> ok]

Comparable(a, b) == IsSubtype(a, b) \/ IsSubtype(b, a) \/ (IsNumeric(a) /\ IsNumeric(b))

InferBinop(op, l, r) ==
  CASE op \in {"+", "-", "*", "/"} ->
         Typed(IF "Float" \in {l.ty.k, r.ty.k} THEN Ty("Float") ELSE TInt,
               l.ok /\ r.ok /\ IsNumeric(l.ty) /\ IsNumeric(r.ty))
    [] op \in {"and", "or"} -> Typed(TBool, l.ok /\ r.ok /\ TruthyType(l.ty) /\ TruthyType(r.ty))
    [] OTHER -> Typed(TBool, l.ok /\ r.ok /\ Comparable(l.ty, r.ty))

InferUnary(op, v) ==
  IF op = "-" THEN Typed(TInt, v.ok /\ v.ty = TInt) ELSE Typed(TBool, v.ok /\ TruthyType(v.ty))

\* The libraries; whatever they answer is Top.
ModuleNames == {"console", "random", "file", "sim", "math", "string", "os", "py"}
OfModule(e) == e.ex = "attr" /\ e.obj.ex = "name" /\ e.obj.x \in ModuleNames

\* Of the built-in functions two have a type.
BuiltinType == ("range" :> TFun(<<TInt, TInt>>, TList(TInt))) @@ ("len" :> TFun(<<TList(TTop)>>, TInt))

\* An argument fits unless both types are known and do not.
ArgsFit(tys, fun) ==
  /\ Len(tys) = Len(fun.of) - 1
  /\ \A k \in DOMAIN tys : TTop \in {tys[k], fun.of[k]} \/ IsSubtype(tys[k], fun.of[k])

WholeType(t) == t
ElementType(t) == t.of[1]
ItemType(t) == IF t.k = "List" THEN ElementType(t) ELSE TTop
MatchEnv(pat) ==
  [x \in (IF pat.ex = "name" THEN {pat.x} ELSE {pat.items[k].x : k \in 2 .. Len(pat.items)}) \ {"_"} |-> TTop]
ParamEnv(e) ==
  [x \in ToSet(e.params) |-> ConvType(e.anns[SelectLastInSeq(e.params, LAMBDA y : y = x)])]

\* A name the environment does not know is taken for a symbol; a list has the type of
\* its last item.
RECURSIVE Infer(_, _), InferCall(_, _)
Infer(e, env) ==
  CASE e.ex = "lit" -> Typed(Ty(CASE e.v[1] = "int" -> "Int" [] e.v[1] = "float" -> "Float" [] OTHER -> "Str"),
                             TRUE)
    [] e.ex = "name" -> Typed(IF e.x \in DOMAIN env THEN env[e.x] ELSE TSym, TRUE)
    [] e.ex = "un" -> InferUnary(e.op, Infer(e.e, env))
    [] e.ex = "bin" -> InferBinop(e.op, Infer(e.l, env), Infer(e.r, env))
    [] e.ex \in {"list", "tuple"} ->
         LET ts == [i \in DOMAIN e.items |-> Infer(e.items[i], env)]
             tys == [i \in DOMAIN ts |-> ts[i].ty]
         IN  Typed(CASE e.ex = "tuple" -> TTuple(tys)
                     [] tys = << >> -> TList(TTop)
                     [] OTHER -> TList(Last(tys)),
                   \A i \in DOMAIN ts : ts[i].ok)
    [] e.ex = "fun" ->
         LET ret == Infer(e.body, ParamEnv(e) @@ env)
         IN  Typed(TFun([k \in DOMAIN e.anns |-> ConvType(e.anns[k])], ret.ty),
                   ret.ok /\ (e.ret # NoAnn => IsSubtype(ret.ty, ConvType(e.ret))))
    [] e.ex = "attr" ->
         LET obj == Infer(e.obj, env)
             tagged == obj.ty.k \in {"Sym", "Tuple"}
         IN  IF e.attr = "kind" THEN Typed(IF tagged THEN TSym ELSE TTop, obj.ok /\ tagged)
             ELSE Typed(TTop, obj.ok /\ OfModule(e))
    [] e.ex = "index" ->
         LET obj == Infer(e.obj, env)
         IN  Typed(ItemType(obj.ty), obj.ok /\ Infer(e.key, env).ok /\ obj.ty.k \in {"List", "Tuple"})
    [] e.ex = "match" ->
         Typed(TTop, /\ Infer(e.scrut, env).ok
                     /\ \A k \in DOMAIN e.cases : Infer(e.cases[k].body, MatchEnv(e.cases[k].pat) @@ env).ok)
    [] e.ex = "call" -> InferCall(e, env)

\* What a constructor builds is Top.
InferCall(e, env) ==
  LET ts == [k \in DOMAIN e.args |-> Infer(e.args[k], env)]
      typed == \A k \in DOMAIN ts : ts[k].ok
      ToBuiltin == e.f.ex = "name" /\ e.f.x \in DOMAIN BuiltinType
      f == IF ToBuiltin THEN Typed(BuiltinType[e.f.x], TRUE) ELSE Infer(e.f, env)
  IN  IF ~ToBuiltin /\ (OfModule(e.f) \/ IsConstructor(e.f)) THEN Typed(TTop, typed)
      ELSE IF f.ty.k # "Fun" THEN Typed(TTop, FALSE)
      ELSE Typed(Last(f.ty.of), f.ok /\ typed /\ ArgsFit([k \in DOMAIN ts |-> ts[k].ty], f.ty))

-----------------------------------------------------------------------------
(* Effects: the environment left behind (one dict, changed in place by     *)
(* both branches of whatever has two), and whether there was no error.     *)

Checked(env, ok) == [env |-> env, ok |-> ok]

\* The body of forall sees the type of the items, in an environment of its own.
ForAllEnv(n, coll, env) == Bound(env, n.x, ItemType(coll.ty))

SpawnKnown(names, n) ==
  IF n.lib = NoLib THEN n.x \in names.unqualified ELSE <<n.lib, n.x>> \in names.qualified

RECURSIVE CheckEff(_, _, _, _)

\* The effects of ns in order, from env.
CheckAll(port, names, ns, env) ==
  FoldLeft(LAMBDA c, n : LET d == CheckEff(port, names, n, c.env)
                         IN  Checked(d.env, c.ok /\ d.ok),
           Checked(env, TRUE), ns)

\* The Python checker has no case for try and raise: "unknown effect".
CheckEff(port, names, n, env) ==
  CASE n.op = "block" -> CheckAll(port, names, n.stmts, env)
    [] n.op = "assign" ->
         LET v == Infer(n.e, env)
             t == IF n.ann = NoAnn THEN v.ty ELSE ConvType(n.ann)
         IN  Checked(Bound(env, n.x, t), v.ok /\ IsSubtype(v.ty, t))
    [] n.op \in {"emit", "call"} -> Checked(env, Infer(n.e, env).ok)
    [] n.op = "spawn" -> Checked(env, SpawnKnown(names, n))
    [] n.op = "retract" -> Checked(env, n.x \in names.rules)
    [] n.op = "if" ->
         LET g == Infer(n.guard, env)
             r == CheckAll(port, names, <<n.a, n.b>>, env)
         IN  Checked(r.env, g.ok /\ TruthyType(g.ty) /\ r.ok)
    [] n.op \in {"seq", "par", "choice"} -> CheckAll(port, names, <<n.a, n.b>>, env)
    [] n.op = "loop" ->
         LET g == Infer(n.guard, env)
             r == CheckEff(port, names, n.body, env)
         IN  Checked(r.env, g.ok /\ TruthyType(g.ty) /\ r.ok)
    [] n.op = "forall" ->
         LET coll == Infer(n.e, env)
             r == CheckEff(port, names, n.body, ForAllEnv(n, coll, env))
         IN  Checked(env, coll.ok /\ coll.ty.k = "List" /\ r.ok)
    [] n.op \in {"raise", "try"} /\ port = "py" -> Checked(env, FALSE)
    [] n.op = "raise" -> Checked(env, Infer(n.e, env).ok)
    [] n.op = "try" -> CheckAll(port, names, <<n.a, n.b>>, env)

-----------------------------------------------------------------------------
(* Programs.                                                               *)

NamesOf(rules) == {rules[i].name : i \in DOMAIN rules}
AllRules(decls) ==
  UNION {{[lib |-> decls[i].lib, rule |-> r] : r \in ToSet(decls[i].rules)} : i \in DOMAIN decls}

Names(decls) ==
  LET all == {<<r.lib, r.rule.name>> : r \in AllRules(decls)}
  IN  [rules |-> {q[2] : q \in all}, qualified |-> all, unqualified |-> {q[2] : q \in all}]

\* check_program calls itself on the declarations of a library, as if they were a
\* program of their own, and does not put the names back; the port does.
NamesCleared(decls, i) == [Names(decls) EXCEPT !.unqualified = {}]
NamesPy(decls, i) ==
  LET libs == {j \in 1 .. i : decls[j].lib # NoLib}
      own == decls[CHOOSE j \in libs : \A k \in libs : k <= j].rules
  IN  IF libs = {} THEN Names(decls)
      ELSE [rules       |-> Names(decls).rules,
            qualified   |-> {<<NoLib, nm>> : nm \in NamesOf(own)},
            unqualified |-> NamesOf(own)]
NamesRs(decls, i) == Names(decls)
NamesAt(port, decls, i) == IF port = "py" THEN NamesPy(decls, i) ELSE NamesRs(decls, i)

PatternEnv(pat) == [x \in ToSet(pat.params) |-> TTop]

TypeChecks(port, decls) ==
  \A i \in DOMAIN decls : \A r \in ToSet(decls[i].rules) :
    CheckEff(port, NamesAt(port, decls, i), r.body, PatternEnv(r.pat)).ok

-----------------------------------------------------------------------------
(* Facts: what a walk over the bodies collects.                            *)

BodyOfTry(n) == IF n.op = "try" THEN {n.a} ELSE {n.a, n.b}
BothBranches(n) == {n.a, n.b}

\* The effects directly inside n.
Parts(n) ==
  CASE n.op = "block" -> ToSet(n.stmts)
    [] n.op \in {"seq", "par", "choice", "if", "try"} -> BothBranches(n)
    [] n.op \in {"loop", "forall"} -> {n.body}
    [] OTHER -> {}

RECURSIVE Within(_)
Within(n) == {n} \cup UNION {Within(m) : m \in Parts(n)}

Spawns(n) == {m \in Within(n) : m.op = "spawn"}
Retracts(n) == {m.x : m \in {k \in Within(n) : k.op = "retract"}}

\* The walk that collects the emitted tags does not enter a try and, in Python, not
\* a forall either.
TagParts(port, n) ==
  IF n.op = "try" \/ (n.op = "forall" /\ port = "py") THEN {} ELSE Parts(n)

TagOf(e) ==
  CASE e.ex = "name" -> {e.x}
    [] e.ex = "tuple" /\ e.items # << >> /\ e.items[1].ex = "name" -> {e.items[1].x}
    [] OTHER -> {}

RECURSIVE EmittedTags(_, _)
EmittedTags(port, n) ==
  IF n.op = "emit" THEN TagOf(n.e) ELSE UNION {EmittedTags(port, m) : m \in TagParts(port, n)}

SpawnResolves(decls, n) ==
  IF n.lib = NoLib THEN n.x \in Names(decls).rules ELSE <<n.lib, n.x>> \in Names(decls).qualified

Bodies(decls) == {r.rule.body : r \in AllRules(decls)}
WhenTags(decls) == {r.rule.pat.tag : r \in AllRules(decls)}

\* P4: the rules an emit of a reached rule may trigger, starting from boot.
FromBootOnly(port, rules, reached) ==
  {r \in rules : \E s \in reached : /\ s.rule.pat.tag = "boot"
                                  /\ r.rule.pat.tag \in EmittedTags(port, s.rule.body)}
OneStep(port, rules, reached) ==
  {r \in rules : \E s \in reached : r.rule.pat.tag \in EmittedTags(port, s.rule.body)}
RECURSIVE ReachedFrom(_, _, _)
ReachedFrom(port, rules, reached) ==
  LET wider == reached \cup OneStep(port, rules, reached)
  IN  IF wider = reached THEN reached ELSE ReachedFrom(port, rules, wider)
Reachable(port, decls) ==
  LET rules == AllRules(decls)
  IN  ReachedFrom(port, rules, {r \in rules : r.rule.pat.tag = "boot"})

\* The expressions a second walk comes to.  It passes over conditions, collections,
\* what a match is on and the bodies of its cases, and whatever is indexed.
RECURSIVE WalkedIn(_)
WalkedIn(e) ==
  {e} \cup UNION {WalkedIn(p) : p \in
    CASE e.ex = "bin" -> {e.l, e.r}
      [] e.ex = "un" -> {e.e}
      [] e.ex \in {"list", "tuple"} -> ToSet(e.items)
      [] e.ex = "call" -> {e.f} \cup ToSet(e.args)
      [] e.ex = "attr" -> {e.obj}
      [] e.ex = "fun" -> {e.body}
      [] OTHER -> {}}
Walked(decls) ==
  UNION {WalkedIn(m.e) : m \in {k \in UNION {Within(b) : b \in Bodies(decls)} :
                                  k.op \in {"assign", "emit", "raise", "call"}}}
MatchesWalked(decls) == {e \in Walked(decls) : e.ex = "match"}
Constructions(decls) == {e \in Walked(decls) : e.ex = "call" /\ IsConstructor(e.f)}

Enums(decls) == UNION {ToSet(decls[i].enums) : i \in DOMAIN decls}
Variants(enum) == {v.tag : v \in ToSet(enum.variants)}
ArityIs(decls, tag, n) ==
  \A enum \in Enums(decls) : \A v \in ToSet(enum.variants) : v.tag = tag => Len(v.fields) = n

\* P7, of one match and one enum of which it names a variant: it looks at the tags of the
\* cases only.
CaseTags(m) == UNION {TagOf(m.cases[k].pat) : k \in DOMAIN m.cases} \ {"_"}
HasWildcard(m) == \E k \in DOMAIN m.cases : m.cases[k].pat = Name("_")
NamesAVariant(m, enum) == CaseTags(m) \cap Variants(enum) # {}
IsExhaustive(m, enum) == HasWildcard(m) \/ Variants(enum) \subseteq CaseTags(m)
ProvenExhaustive(decls) ==
  {q \in MatchesWalked(decls) \X Enums(decls) : NamesAVariant(q[1], q[2]) /\ IsExhaustive(q[1], q[2])}

\* P8, where there is a constructor at all.
ConstructorsAgree(decls) ==
  \A e \in Constructions(decls) : ArityIs(decls, e.f.x, Len(e.args))

\* The other properties: whether proven_properties reports p as proven.
IsProven(port, decls, p) ==
  CASE p = "P1" -> \A b \in Bodies(decls) : \A n \in Spawns(b) : SpawnResolves(decls, n)
    [] p = "P2" -> \A b \in Bodies(decls) : Retracts(b) \subseteq Names(decls).rules
    [] p = "P3" -> TypeChecks(port, decls)
    [] p = "P4" -> "boot" \in WhenTags(decls) /\ Reachable(port, decls) = AllRules(decls)
    [] p = "P5" -> \A b \in Bodies(decls) : EmittedTags(port, b) \subseteq WhenTags(decls)
    [] p = "P6" -> \A q, r \in AllRules(decls) : q.rule.pat.tag = r.rule.pat.tag => q = r
    [] p = "P8" -> Constructions(decls) # {} /\ ConstructorsAgree(decls)

=============================================================================
