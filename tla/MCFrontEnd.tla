----------------------------- MODULE MCFrontEnd -----------------------------
(***************************************************************************)
(* The sources: all short texts over an alphabet with a character of every *)
(* kind, all short sequences of words where an effect stands, and printed  *)
(* programs.                                                               *)
(***************************************************************************)
EXTENDS FrontEnd

CONSTANTS TextLength, WordsLength

Alphabet == {"n", "1", ".", "\"", "\\", "=", ">", " ", "\n", "#", "$"}
InExpr == {"x", "1", "-", "not", "==", "+", "(", ")", "[", "]", ".", ","}
InEff == {"x", "1", "(", ")", ".", ":", "Int", ":=", "emit", "loop", ";"}

MCTexts ==
  SeqOf(Alphabet, TextLength)
  \cup {Chars("rule r=when t=>emit " \o JoinText(s, " ")) : s \in SeqOf(InExpr, WordsLength)}
  \cup {Chars("rule r=when t=>" \o JoinText(s, " ")) : s \in SeqOf(InEff, WordsLength)}

x == Name("x")
one == IntLit(1)
IntAnn == TyCon("Int")

\* Every form of expression around e.
Around(e) ==
  {BinOp(op, e, x) : op \in {"or", "and", "==", "<=", "+", "-", "*", "/"}}
  \cup {BinOp(op, one, e) : op \in {"or", "and", "!=", ">", "+", "-", "*", "/"}}
  \cup {UnaryOp("not", e), UnaryOp("-", e), GetAttr(e, "kind"), Index(e, one), Index(x, e),
        Call(e, << >>), Call(x, <<one, e>>), ListExpr(<<e, one>>),
        TupleExpr(<<e>>), TupleExpr(<<x, e>>),
        Fun(<<"a", "b">>, <<IntAnn, NoAnn>>, TyList(IntAnn), e), Match(e, << >>),
        Match(x, <<MatchCase(TupleExpr(<<Name("A"), AnnName("y", IntAnn), Name("z")>>), e),
                   MatchCase(Name("_"), e)>>)}
Atoms == {x, FloatLit(105, 2), StrLit("a\n\"\\"), ListExpr(<< >>), TupleExpr(<< >>)}
Exprs == UNION {Around(e) : e \in UNION {Around(a) : a \in {x}}} \cup UNION {Around(a) : a \in Atoms} \cup Atoms

AroundEff(n) ==
  {Block(<< >>), Block(<<n, n>>), IfElse(x, n, n), Loop(x, n), ForEach("y", x, Block(<<n, n>>)),
   TryCatch(Block(<<n>>), "err", Block(<<n, n>>))}
  \cup {Pair(op, n, n) : op \in {"seq", "par", "choice"}}
Effs ==
  {Assign("x", one), AnnAssign("x", TyList(TyCon("Str")), one), Raise(x), Spawn("", "A"), Spawn("L", "A"),
   Retract("A"), CallEff(Call(GetAttr(x, "print"), <<one>>))}
BigEffs == UNION {AroundEff(n) : n \in Effs \cup UNION {AroundEff(m) : m \in {Emit(x), CallEff(Call(x, << >>))}}}

Pat == TupleExpr(<<Name("m"), AnnName("k", IntAnn), x>>)
Declarations ==
  <<Import("a.evol", TRUE), Import("strings", FALSE),
    PyImport("os.path", <<"join", "exists">>, "path"), PyImport("math", << >>, "math"),
    EnumDecl("Shape", <<EnumVariant("Dot", << >>), EnumVariant("Box", <<IntAnn, NoAnn>>)>>),
    Lib("a", <<Rule("r", x, Emit(x)), Lib("b", << >>), Rule("s", Pat, Retract("r"))>>)>>

Plain == [semi |-> "", gap |-> " "]
MCLayouts == {Plain, [semi |-> ";", gap |-> "\n"]}
AllLayouts == MCLayouts \cup {[semi |-> "", gap |-> "#;\n"]}

MCPrograms ==
  {<<Plain, <<Rule("r", x, Emit(e))>>>> : e \in Exprs}
  \cup AllLayouts \X ({<<Rule("r", Pat, n), Rule("s", x, n)>> : n \in Effs \cup BigEffs} \cup {Declarations})

=============================================================================
