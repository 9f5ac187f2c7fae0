----------------------------- MODULE MCEffLaws ------------------------------
(***************************************************************************)
(* The effects, conditions and stores the laws are checked on, and the     *)
(* rules around the body.                                                  *)
(***************************************************************************)
EXTENDS ToolLaws

Inc(x) == Assign(x, BinOp("+", Name(x), IntLit(1)))
Zero == IntLit(0)
Fail == Raise(Zero)

\* A match without a matching case is None.  None of them uses the names of the loop and
\* catch variables but y := i.
MCLeaves ==
  {Assign("x", Zero), Inc("x"), Assign("y", Name("x")), Assign("y", Name("i")),
   Assign("x", Match(Zero, <<MatchCase(Name("m"), Zero)>>)),
   Emit(TupleExpr(<<Name("x")>>)), Emit(TupleExpr(<<Name("m"), Zero>>)), Emit(Name("lost")),
   Spawn(NoLib, "A"), Spawn(NoLib, "Z"), Retract("A"), Fail,
   CallEff(Call(GetAttr(Name("console"), "print"), <<BinOp("/", IntLit(1), Name("y"))>>))}

MCBeside ==
  {Assign("x", Zero), Inc("x"), Assign("y", Name("x")),
   Emit(TupleExpr(<<Name("m"), Zero>>)), Retract("A"), Fail}

MCGuards == {BinOp("<", Name("x"), IntLit(2)), Name("y")}
MCColls == {ListExpr(<<Zero, IntLit(1)>>), ListExpr(<< >>), Name("x")}
MCStores == {<< >>, ("x" :> IntV(0)), ("x" :> IntV(1)) @@ ("y" :> IntV(0)) @@ ("i" :> IntV(2))}

\* Expressions, each emitted.
X == Name("x")
NoughtAndOne == ListExpr(<<Zero, IntLit(1)>>)
Tagged == TupleExpr(<<Name("m"), Zero>>)
Truth == BinOp("<", Zero, IntLit(2))
Atoms == {X, Zero, IntLit(2), StrLit("a"), StrLit("12"), Name("m"), NoughtAndOne, Tagged, Truth}
Operators == {"+", "-", "*", "/", "==", "!=", "and", "or"} \cup DOMAIN Outcomes
Operations == {BinOp(op, l, r) : op \in Operators, l \in Atoms, r \in Atoms}
Nested ==
  {UnaryOp(op, e) : op \in {"-", "not"}, e \in Atoms \cup {BinOp("-", X, IntLit(2)), BinOp("and", X, IntLit(2))}}
  \cup {ListExpr(<<e, BinOp("*", e, IntLit(2))>>) : e \in Atoms}
  \cup {TupleExpr(<<X, ListExpr(<<e>>)>>) : e \in Atoms}
Accesses ==
  {Index(obj, key) : obj \in {NoughtAndOne, Tagged, X},
                     key \in {Zero, IntLit(2), X, Name("m"), Truth, UnaryOp("-", IntLit(2))}}
  \cup {GetAttr(obj, attr) : obj \in {Tagged, Name("m"), NoughtAndOne, Name("py")}, attr \in {"kind", "size"}}
Calls ==
  {Call(f, args) : f \in {Name(b) : b \in Builtins \cup {"Dot", "m"}}
                         \cup {GetAttr(Name(lib), g) : lib \in {"console", "nowhere"}, g \in {"print", "size"}},
                   args \in {<< >>, <<Zero, IntLit(2)>>, <<Truth, IntLit(2)>>, <<NoughtAndOne, NoughtAndOne>>,
                             <<X, IntLit(1), Name("m")>>} \cup {<<e>> : e \in Atoms}}

AddX(ann, ret) == Fun(<<"b">>, <<ann>>, ret, BinOp("+", Name("b"), X))
FunctionBodies == {Name("b"), BinOp("+", Name("b"), IntLit(1)), TupleExpr(<<Name("b")>>), Index(NoughtAndOne, Name("b")),
            Call(Name("range"), <<Zero, Name("b")>>)}
Arguments == {<< >>, <<IntLit(1)>>, <<NoughtAndOne>>}
Functions ==
  {Emit(Call(AddX(ann, ret), args)) : ann \in {NoAnn, TyCon("Int")}, ret \in {NoAnn, TyCon("Float"), TyCon("Sym")},
                                      args \in Arguments}
  \cup {Block(<<Assign("f", Fun(<<"b">>, <<ann>>, NoAnn, body)), Emit(Call(Name("f"), args))>>) :
          ann \in {NoAnn, TyCon("Int"), TyList(TyCon("Int"))}, body \in FunctionBodies, args \in Arguments}
  \cup {Block(<<Assign("f", AddX(NoAnn, NoAnn)), Inc("x"), Emit(Call(Name("f"), <<X>>))>>)}
  \cup {Block(<<Assign("f", AddX(NoAnn, NoAnn)), Emit(e)>>) :
          e \in {GetAttr(Name("f"), "kind"), Index(Name("f"), Zero), BinOp("+", Name("f"), Tagged),
                 Call(Name("len"), <<Name("f")>>), Call(Name("str"), <<Name("f")>>)}}

Cases == {MatchCase(Name("Dot"), Zero), MatchCase(Name("Circle"), Name("hit")),
          MatchCase(TupleExpr(<<Name("Circle"), Name("r")>>), Name("r")),
          MatchCase(TupleExpr(<<Name("Circle"), Name("_"), Name("q")>>), Name("q")),
          MatchCase(TupleExpr(<<Name("Dot")>>), X), MatchCase(Name("_"), StrLit("a"))}
Shapes == {Name("Dot"), Call(Name("Dot"), << >>), Call(Name("Circle"), <<IntLit(1)>>),
           Call(Name("Circle"), <<Zero, X>>), X}
Matchings ==
  {Block(<<Assign("s", shape), Emit(Match(Name("s"), cases))>>) : shape \in Shapes, cases \in SeqOf(Cases, 2)}

Annotations == {TyCon("Int"), TyCon("Float"), TyCon("Sym"), TyList(TyCon("Int")), TyCon("Shape")}
MCSamples ==
  {Emit(e) : e \in Operations \cup Nested \cup Accesses \cup Calls}
  \cup Functions \cup Matchings
  \cup {AnnAssign("z", ann, e) : ann \in Annotations, e \in Atoms}
  \cup {IfElse(BinOp(op, l, r), Assign("x", Zero), Inc("x")) : op \in {"and", "or"}, l \in Atoms, r \in Atoms}

MCEnums == <<EnumDecl("Shape", <<EnumVariant("Dot", << >>), EnumVariant("Circle", <<"r">>)>>)>>

OneRule(name, tag, params, body) ==
  [name |-> name, pat |-> [tag |-> tag, params |-> params], body |-> body]
MCLibRules == <<OneRule("A", "m", <<"v">>, Emit(Name("go")))>>
MCTopRules == <<OneRule("B", "go", << >>, Spawn(NoLib, "A"))>>

=============================================================================
