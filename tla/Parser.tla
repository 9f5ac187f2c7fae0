------------------------------- MODULE Parser -------------------------------
(***************************************************************************)
(* The parser: src/parser.py, recursive descent over the tokens of Lexer.  *)
(* Each Parse... operator is the method of that name: it takes the         *)
(* position of the next token and gives the node and the position after    *)
(* it.  Position 0 stands for a raised ParseError: no token is seen there, *)
(* so whatever is read after an error is an error.                         *)
(***************************************************************************)
EXTENDS Lexer, Syntax

TypeNames == {"Int", "Str", "Bool", "Float", "Sym", "Top", "List"}

Got(node, p) == IF p = 0 THEN [node |-> << >>, pos |-> 0] ELSE [node |-> node, pos |-> p]
Error == Got(<< >>, 0)

Kind(p) == IF p = 0 THEN "none" ELSE tokens[p].kind
Text(p) == tokens[p].text
Sees(p, text) == Kind(p) \in {"OP", "KEY", "EOF"} /\ Text(p) = text
SeesOneOf(p, texts) == \E t \in texts : Sees(p, t)

\* expect: the position after the token, or an error.
Expect(p, text) == IF Sees(p, text) THEN p + 1 ELSE 0
ExpectName(p) == IF Kind(p) = "NAME" THEN Got(Text(p), p + 1) ELSE Error
Optional(p, text) == IF Sees(p, text) THEN p + 1 ELSE p

\* NAME ":" and the name of a built-in type: only then is it an annotation.
SeesAnnotation(p) ==
  /\ p # 0
  /\ p + 2 <= Len(tokens)
  /\ Sees(p + 1, ":")
  /\ Kind(p + 2) = "NAME" /\ Text(p + 2) \in TypeNames

-----------------------------------------------------------------------------
\* The methods call one another through Item, which is the only operator here that is
\* recursive by way of others.
RECURSIVE Item(_, _), Many(_, _, _), Separated(_, _, _), TupleRest(_), Postfix(_), MoreOps(_, _)

TypeAt(p) == Item("type", p)
ExprAt(p) == Item("expr", p)
EffAt(p) == Item("eff", p)

\* Items until the closing token, which is consumed.
Many(what, close, p) ==
  LET first == Item(what, p)
      rest == Many(what, close, first.pos)
  IN  IF Sees(p, close) THEN Got(<< >>, p + 1)
      ELSE IF first.pos = 0 THEN Error
      ELSE Got(<<first.node>> \o rest.node, rest.pos)

\* At least one item, and one more after each separator.
Separated(what, sep, p) ==
  LET first == Item(what, p)
      rest == Separated(what, sep, first.pos + 1)
  IN  IF Sees(first.pos, sep) THEN Got(<<first.node>> \o rest.node, rest.pos)
                              ELSE Got(<<first.node>>, first.pos)

\* Items between brackets, perhaps none; p is the position after the opening one.
Bracketed(what, close, p) ==
  LET items == Separated(what, ",", p)
  IN  IF Sees(p, close) THEN Got(<< >>, p + 1) ELSE Got(items.node, Expect(items.pos, close))

ParseType(p) ==
  LET name == ExpectName(p)
      elem == TypeAt(name.pos + 1)
  IN  IF Sees(name.pos, "[") /\ name.node = "List"
        THEN Got(TyList(elem.node), Expect(elem.pos, "]"))
        ELSE Got(TyCon(name.node), name.pos)

AnnotatedName(p) ==
  LET ann == TypeAt(p + 2)
      name == ExpectName(p)
  IN  IF SeesAnnotation(p) /\ name.pos # 0 THEN Got(AnnName(name.node, ann.node), ann.pos)
                                           ELSE Got(Name(name.node), name.pos)

-----------------------------------------------------------------------------
(* Expressions.                                                            *)

ParseMatchPat(p) ==
  LET tag == ExpectName(p)
      fields == Bracketed("annotated", ")", tag.pos + 1)
  IN  IF Sees(tag.pos, "(") /\ tag.node # "_"
        THEN Got(TupleExpr(<<Name(tag.node)>> \o fields.node), fields.pos)
        ELSE Got(Name(tag.node), tag.pos)

\* The semicolon after a case may be left out.
ParseMatchCase(p) ==
  LET pat == ParseMatchPat(p)
      body == ExprAt(Expect(pat.pos, "=>"))
  IN  Got(MatchCase(pat.node, body.node), Optional(body.pos, ";"))

ParseMatch(p) ==
  LET scrut == ExprAt(p + 1)
      cases == Many("case", "}", Expect(scrut.pos, "{"))
  IN  Got(Match(scrut.node, cases.node), cases.pos)

ParseFun(p) ==
  LET params == Bracketed("annotated", ")", Expect(p + 1, "("))
      ret == IF Sees(params.pos, "->") THEN TypeAt(params.pos + 1) ELSE Got(NoAnn, params.pos)
      body == ExprAt(Expect(ret.pos, "=>"))
      Each(Of(_)) == [k \in DOMAIN params.node |-> Of(params.node[k])]
  IN  Got(Fun(Each(LAMBDA n : n.x), Each(LAMBDA n : n.ann), ret.node, body.node), body.pos)

TupleRest(p) ==
  LET item == Item("tupleitem", p + 1)
      rest == TupleRest(item.pos)
  IN  IF ~Sees(p, ",") THEN Got(<< >>, Expect(p, ")"))
      ELSE IF Sees(p + 1, ")") THEN Got(<< >>, p + 2)
      ELSE Got(<<item.node>> \o rest.node, rest.pos)

\* One item without a comma is only grouped; the last comma of a tuple may be followed
\* by nothing.
ParseParens(p) ==
  LET first == Item("tupleitem", p)
      rest == TupleRest(first.pos)
  IN  IF Sees(p, ")") THEN Got(TupleExpr(<< >>), p + 1)
      ELSE IF Sees(first.pos, ",") THEN Got(TupleExpr(<<first.node>> \o rest.node), rest.pos)
      ELSE Got(first.node, Expect(first.pos, ")"))

\* int(text), float(text)
NumberOf(text) ==
  FoldLeft(LAMBDA n, c : 10 * n + (CHOOSE d \in 0 .. 9 : ToString(d) = c), 0, Chars(text))
FloatOf(text) ==
  LET point == CHOOSE k \in 1 .. Len(text) : SubSeq(text, k, k) = "."
  IN  FloatLit(NumberOf(SubSeq(text, 1, point - 1) \o SubSeq(text, point + 1, Len(text))),
               Len(text) - point)

ParsePrimary(p) ==
  CASE Sees(p, "match") -> ParseMatch(p)
    [] Kind(p) = "INT" -> Got(IntLit(NumberOf(Text(p))), p + 1)
    [] Kind(p) = "FLOAT" -> Got(FloatOf(Text(p)), p + 1)
    [] Kind(p) = "STR" -> Got(StrLit(Text(p)), p + 1)
    [] Kind(p) = "NAME" -> Got(Name(Text(p)), p + 1)
    [] Sees(p, "fun") -> ParseFun(p)
    [] Sees(p, "(") -> ParseParens(p + 1)
    [] Sees(p, "[") -> LET items == Bracketed("expr", "]", p + 1)
                       IN  Got(ListExpr(items.node), items.pos)
    [] OTHER -> Error

Postfix(r) ==
  LET attr == ExpectName(r.pos + 1)
      key == ExprAt(r.pos + 1)
      args == Bracketed("expr", ")", r.pos + 1)
  IN  CASE Sees(r.pos, ".") -> Postfix(Got(GetAttr(r.node, attr.node), attr.pos))
        [] Sees(r.pos, "[") -> Postfix(Got(Index(r.node, key.node), Expect(key.pos, "]")))
        [] Sees(r.pos, "(") -> Postfix(Got(Call(r.node, args.node), args.pos))
        [] OTHER -> r

\* The left-associative levels, each with its operators and the level of its operands.
Levels ==
  [or  |-> [ops |-> {"or"}, operand |-> "and"],
   and |-> [ops |-> {"and"}, operand |-> "not"],
   cmp |-> [ops |-> {"==", "!=", "<", ">", "<=", ">="}, operand |-> "add"],
   add |-> [ops |-> {"+", "-"}, operand |-> "mul"],
   mul |-> [ops |-> {"*", "/"}, operand |-> "unary"]]

Operand(level, p) == Item(Levels[level].operand, p)

RightFirst(level, left) ==
  LET right == Item(level, left.pos + 1)
  IN  IF SeesOneOf(left.pos, Levels[level].ops)
        THEN Got(BinOp(Text(left.pos), left.node, right.node), right.pos)
        ELSE left
\* The operators of a level after its first operand, and the operand after each.
MoreOps(level, left) ==
  LET right == Operand(level, left.pos + 1)
  IN  IF SeesOneOf(left.pos, Levels[level].ops)
        THEN MoreOps(level, Got(BinOp(Text(left.pos), left.node, right.node), right.pos))
        ELSE left

ParseBinary(level, p) == MoreOps(level, Operand(level, p))

ParseNot(p) ==
  LET operand == Item("not", p + 1)
  IN  IF Sees(p, "not") THEN Got(UnaryOp("not", operand.node), operand.pos)
                        ELSE ParseBinary("cmp", p)

ParseUnary(p) ==
  LET operand == Item("unary", p + 1)
  IN  IF Sees(p, "-") THEN Got(UnaryOp("-", operand.node), operand.pos)
                      ELSE Postfix(ParsePrimary(p))

ParseExpr(p) == ParseBinary("or", p)

-----------------------------------------------------------------------------
(* Effects.                                                                *)

\* The word before the collection may be any name.
ParseForall(p) ==
  LET x == ExpectName(p + 1)
      coll == ExprAt(ExpectName(x.pos).pos)
      stmts == Many("eff", "}", Expect(coll.pos, "{"))
  IN  Got(ForEach(x.node, coll.node, Block(stmts.node)), stmts.pos)

ParseTryCatch(p) ==
  LET body == Many("eff", "}", Expect(p + 1, "{"))
      x == ExpectName(Expect(body.pos, "catch"))
      handler == Many("eff", "}", Expect(x.pos, "{"))
  IN  Got(TryCatch(Block(body.node), x.node, Block(handler.node)), handler.pos)

ParseEff(p) ==
  CASE Sees(p, "{") ->
         LET stmts == Many("stmt", "}", p + 1) IN Got(Block(stmts.node), stmts.pos)
    [] SeesOneOf(p, {"seq", "par", "choice"}) ->
         LET a == EffAt(Expect(p + 1, "("))
             b == EffAt(Expect(a.pos, ","))
         IN  Got(Pair(Text(p), a.node, b.node), Expect(b.pos, ")"))
    [] Sees(p, "loop") ->
         LET guard == ExprAt(Expect(p + 1, "("))
             body == EffAt(Expect(guard.pos, ","))
         IN  Got(Loop(guard.node, body.node), Expect(body.pos, ")"))
    [] Sees(p, "if") ->
         LET cond == ExprAt(p + 1)
             a == EffAt(Expect(cond.pos, "then"))
             b == EffAt(Expect(a.pos, "else"))
         IN  Got(IfElse(cond.node, a.node, b.node), b.pos)
    [] Sees(p, "emit") -> LET e == ExprAt(p + 1) IN Got(Emit(e.node), e.pos)
    [] Sees(p, "raise") -> LET e == ExprAt(p + 1) IN Got(Raise(e.node), e.pos)
    [] Sees(p, "spawn") ->
         LET name == ExpectName(p + 1)
             inLib == ExpectName(name.pos + 1)
         IN  IF Sees(name.pos, ".") THEN Got(Spawn(name.node, inLib.node), inLib.pos)
                                    ELSE Got(Spawn("", name.node), name.pos)
    [] Sees(p, "retract") -> LET name == ExpectName(p + 1) IN Got(Retract(name.node), name.pos)
    [] Sees(p, "forall") -> ParseForall(p)
    [] Sees(p, "try") -> ParseTryCatch(p)
    [] Kind(p) = "NAME" /\ (Sees(p + 1, ":=") \/ SeesAnnotation(p)) ->
         LET ann == IF Sees(p + 1, ":") THEN TypeAt(p + 2) ELSE Got(NoAnn, p + 1)
             e == ExprAt(Expect(ann.pos, ":="))
         IN  Got(AnnAssign(Text(p), ann.node, e.node), e.pos)
    [] Kind(p) = "NAME" ->   \* any expression that starts with a name, but it must be a call
         LET e == ExprAt(p)
         IN  IF e.pos # 0 /\ e.node.ex = "call" THEN Got(CallEff(e.node), e.pos) ELSE Error
    [] OTHER -> Error

-----------------------------------------------------------------------------
(* Declarations.                                                           *)

\* What of a dotted name follows its last point.
LastPart(mod) ==
  LET points == {k \in 1 .. Len(mod) : SubSeq(mod, k, k) = "."}
  IN  SubSeq(mod, Max(points \cup {0}) + 1, Len(mod))

\* A string is a path, a name a library; py is a module of Python only before a string.
ParseImport(p) ==
  LET funcs == IF Sees(p + 2, ":") THEN Separated("name", ",", p + 3) ELSE Got(<< >>, p + 2)
      name == ExpectName(p)
  IN  CASE Kind(p) = "NAME" /\ Text(p) = "py" /\ Kind(p + 1) = "STR" ->
             Got(PyImport(Text(p + 1), funcs.node, LastPart(Text(p + 1))), Expect(funcs.pos, ";"))
        [] Kind(p) = "NAME" /\ Text(p) = "py" -> Error
        [] Kind(p) = "STR" -> Got(Import(Text(p), TRUE), Expect(p + 1, ";"))
        [] OTHER -> Got(Import(name.node, FALSE), Expect(name.pos, ";"))

ParseVariant(p) ==
  LET tag == ExpectName(p)
      fields == Bracketed("annotated", ")", tag.pos + 1)
  IN  IF Sees(tag.pos, "(")
        THEN Got(EnumVariant(tag.node, [k \in DOMAIN fields.node |-> fields.node[k].ann]), fields.pos)
        ELSE Got(EnumVariant(tag.node, << >>), tag.pos)

ParseDecl(p) ==
  CASE Sees(p, "lib") ->
         LET name == ExpectName(p + 1)
             decls == Many("decl", "}", Expect(name.pos, "{"))
         IN  Got(Lib(name.node, decls.node), decls.pos)
    [] Sees(p, "rule") ->
         LET name == ExpectName(p + 1)
             pat == ExprAt(Expect(Expect(name.pos, "="), "when"))
             body == EffAt(Expect(pat.pos, "=>"))
         IN  Got(Rule(name.node, pat.node, body.node), Optional(body.pos, ";"))
    [] Sees(p, "import") -> ParseImport(p + 1)
    [] SeesOneOf(p, {"type", "enum"}) ->
         LET name == ExpectName(p + 1)
             variants == Separated("variant", "|", Expect(name.pos, "="))
         IN  Got(EnumDecl(name.node, variants.node), Expect(variants.pos, ";"))
    [] OTHER -> Error

Item(what, p) ==
  CASE what = "expr" -> ParseExpr(p)
    [] what = "type" -> ParseType(p)
    [] what = "tupleitem" /\ Kind(p) = "NAME" /\ SeesAnnotation(p) -> AnnotatedName(p)
    [] what = "tupleitem" -> ParseExpr(p)
    [] what \in DOMAIN Levels -> ParseBinary(what, p)
    [] what = "not" -> ParseNot(p)
    [] what = "unary" -> ParseUnary(p)
    [] what = "annotated" -> AnnotatedName(p)
    [] what = "name" -> ExpectName(p)
    [] what = "case" -> ParseMatchCase(p)
    [] what = "eff" -> ParseEff(p)
    [] what = "stmt" -> LET e == ParseEff(p) IN Got(e.node, Optional(e.pos, ";"))
    [] what = "variant" -> ParseVariant(p)
    [] what = "decl" -> ParseDecl(p)

ParseProgram == Many("decl", "<eof>", 1)

=============================================================================
