------------------------------- MODULE Printer ------------------------------
(***************************************************************************)
(* Writes a syntax tree out as text, with brackets only where the grammar  *)
(* of src/parser.py:3-11 needs them.  It stands for no code: the laws of   *)
(* FrontEnd use it to say what the parser should read.                     *)
(***************************************************************************)
EXTENDS Integers, Sequences, SequencesExt, Syntax

JoinText(texts, sep) ==
  IF texts = << >> THEN "" ELSE FoldLeft(LAMBDA t, u : t \o sep \o u, Head(texts), Tail(texts))
Map(Op(_), s) == [k \in DOMAIN s |-> Op(s[k])]

RECURSIVE ShowType(_)
ShowType(ann) ==
  IF ann.of = << >> THEN ann.con ELSE "List[" \o ShowType(ann.of[1]) \o "]"
ShowName(x, ann) == IF ann = NoAnn THEN x ELSE x \o ": " \o ShowType(ann)

Escape(c) == CASE c = "\n" -> "\\n" [] c = "\t" -> "\\t" [] c \in {"\\", "\""} -> "\\" \o c [] OTHER -> c
ShowLit(v) ==
  CASE v[1] = "int" -> ToString(v[2])
    [] v[1] = "text" -> "\"" \o JoinText(Map(Escape, [k \in 1 .. Len(v[2]) |-> SubSeq(v[2], k, k)]), "") \o "\""
    [] v[1] = "float" ->
         LET unit == 10 ^ v[2][2]
         IN  ToString(v[2][1] \div unit) \o "."
             \o SubSeq(ToString(unit + (v[2][1] % unit)), 2, v[2][2] + 1)

\* How tightly an expression binds, from the grammar.
Tightness(e) ==
  CASE e.ex = "name" /\ e.ann # NoAnn -> 0   \* only as an item of a tuple
    [] e.ex = "fun" -> 1
    [] e.ex = "bin" -> CASE e.op = "or" -> 2 [] e.op = "and" -> 3
                         [] e.op \in {"+", "-"} -> 6 [] e.op \in {"*", "/"} -> 7 [] OTHER -> 5
    [] e.ex = "un" -> IF e.op = "not" THEN 4 ELSE 8
    [] OTHER -> 9

RECURSIVE Show(_, _)
Show(e, least) ==
  LET items(s) == JoinText(Map(LAMBDA x : Show(x, 1), s), ",")
      parts(s) == JoinText(Map(LAMBDA x : Show(x, 0), s), ",")
      pat(p) == IF p.ex = "name" THEN p.x
                ELSE p.items[1].x \o "(" \o parts(Tail(p.items)) \o ")"
      case(c) == pat(c.pat) \o "=>" \o Show(c.body, 1)
      t == Tightness(e)
      plain ==
        CASE e.ex = "lit" -> ShowLit(e.v)
          [] e.ex = "name" -> ShowName(e.x, e.ann)
          [] e.ex = "list" -> "[" \o items(e.items) \o "]"
          [] e.ex = "tuple" -> "(" \o parts(e.items) \o (IF Len(e.items) = 1 THEN ",)" ELSE ")")
          [] e.ex = "fun" ->
               "fun(" \o JoinText([k \in DOMAIN e.params |-> ShowName(e.params[k], e.anns[k])], ",")
               \o (IF e.ret = NoAnn THEN ")" ELSE ")->" \o ShowType(e.ret)) \o "=>" \o Show(e.body, 1)
          [] e.ex = "bin" -> Show(e.l, t) \o " " \o e.op \o " " \o Show(e.r, t + 1)
          [] e.ex = "un" -> e.op \o " " \o Show(e.e, t)
          [] e.ex = "call" -> Show(e.f, 9) \o "(" \o items(e.args) \o ")"
          [] e.ex = "attr" -> Show(e.obj, 9) \o "." \o e.attr
          [] e.ex = "index" -> Show(e.obj, 9) \o "[" \o Show(e.key, 1) \o "]"
          [] e.ex = "match" ->
               "match " \o Show(e.scrut, 1) \o "{" \o JoinText(Map(case, e.cases), " ") \o "}"
  IN  IF t < least THEN "(" \o plain \o ")" ELSE plain

RECURSIVE ShowEff(_, _)
ShowEff(lay, n) ==
  LET expr(e) == Show(e, 1)
      eff(m) == ShowEff(lay, m)
      stmts(ns, semi) == "{" \o lay.gap \o JoinText(Map(LAMBDA m : eff(m) \o semi \o lay.gap, ns), "") \o "}"
  IN  CASE n.op = "block" -> stmts(n.stmts, lay.semi)
        [] n.op \in {"seq", "par", "choice"} -> n.op \o "(" \o eff(n.a) \o "," \o eff(n.b) \o ")"
        [] n.op = "if" -> "if " \o expr(n.guard) \o " then " \o eff(n.a) \o " else " \o eff(n.b)
        [] n.op = "loop" -> "loop(" \o expr(n.guard) \o "," \o eff(n.body) \o ")"
        [] n.op = "forall" ->
             "forall " \o n.x \o " in " \o expr(n.e) \o stmts(n.body.stmts, "")
        [] n.op = "try" -> "try" \o stmts(n.a.stmts, "") \o "catch " \o n.x \o stmts(n.b.stmts, "")
        [] n.op = "assign" -> ShowName(n.x, n.ann) \o ":=" \o expr(n.e)
        [] n.op \in {"emit", "raise"} -> n.op \o " " \o expr(n.e)
        [] n.op = "spawn" -> "spawn " \o (IF n.lib = "" THEN n.x ELSE n.lib \o "." \o n.x)
        [] n.op = "retract" -> "retract " \o n.x
        [] n.op = "call" -> expr(n.e)

RECURSIVE ShowDecls(_, _)
ShowDecls(lay, decls) ==
  LET variant(v) == v.tag \o "(" \o JoinText(Map(LAMBDA a : ShowName("f", a), v.fields), ",") \o ")"
      decl(d) ==
        CASE d.decl = "rule" ->
               "rule " \o d.name \o "=when " \o Show(d.pat, 1) \o "=>" \o ShowEff(lay, d.body) \o lay.semi
          [] d.decl = "lib" -> "lib " \o d.name \o "{" \o ShowDecls(lay, d.decls) \o "}"
          [] d.decl = "import" ->
               "import " \o (IF d.path THEN ShowLit(<<"text", d.target>>) ELSE d.target) \o ";"
          [] d.decl = "pyimport" ->
               "import py " \o ShowLit(<<"text", d.mod>>)
               \o (IF d.funcs = << >> THEN ";" ELSE ":" \o JoinText(d.funcs, ",") \o ";")
          [] d.decl = "enum" -> "type " \o d.name \o "=" \o JoinText(Map(variant, d.variants), "|") \o ";"
  IN  JoinText(Map(LAMBDA d : decl(d) \o lay.gap, decls), "")

=============================================================================
