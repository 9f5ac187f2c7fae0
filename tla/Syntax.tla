------------------------------- MODULE Syntax -------------------------------
(***************************************************************************)
(* The syntax tree: the classes of src/ast_nodes.py, one constructor each. *)
(* The positions in the text, which only error messages use, are left out. *)
(* An effect has a field op, an expression a field ex, a declaration a     *)
(* field decl.                                                             *)
(***************************************************************************)

(* Type annotations; nothing builds a TyArrow.                             *)
TyCon(name) == [con |-> name, of |-> << >>]
TyList(elem) == [con |-> "List", of |-> <<elem>>]
NoAnn == [con |-> "", of |-> << >>]

(* Expressions.                                                            *)
Lit(v) == [ex |-> "lit", v |-> v]
IntLit(value) == Lit(<<"int", value>>)
FloatLit(digits, scale) == Lit(<<"float", <<digits, scale>>>>)   \* digits / 10^scale
StrLit(value) == Lit(<<"text", value>>)
AnnName(x, ann) == [ex |-> "name", x |-> x, ann |-> ann]
Name(x) == AnnName(x, NoAnn)
ListExpr(items) == [ex |-> "list", items |-> items]
TupleExpr(items) == [ex |-> "tuple", items |-> items]
Fun(params, anns, ret, body) ==
  [ex |-> "fun", params |-> params, anns |-> anns, ret |-> ret, body |-> body]
BinOp(op, l, r) == [ex |-> "bin", op |-> op, l |-> l, r |-> r]
UnaryOp(op, e) == [ex |-> "un", op |-> op, e |-> e]
Call(f, args) == [ex |-> "call", f |-> f, args |-> args]
GetAttr(obj, attr) == [ex |-> "attr", obj |-> obj, attr |-> attr]
Index(obj, key) == [ex |-> "index", obj |-> obj, key |-> key]
Match(scrut, cases) == [ex |-> "match", scrut |-> scrut, cases |-> cases]
MatchCase(pat, body) == [pat |-> pat, body |-> body]

(* Effects.                                                                *)
Block(stmts) == [op |-> "block", stmts |-> stmts]
Pair(op, a, b) == [op |-> op, a |-> a, b |-> b]   \* Seq, Par, Choice
IfElse(guard, a, b) == [op |-> "if", guard |-> guard, a |-> a, b |-> b]
Loop(guard, body) == [op |-> "loop", guard |-> guard, body |-> body]
ForEach(x, coll, body) == [op |-> "forall", x |-> x, e |-> coll, body |-> body]
TryCatch(a, x, b) == [op |-> "try", x |-> x, a |-> a, b |-> b]
AnnAssign(x, ann, e) == [op |-> "assign", x |-> x, ann |-> ann, e |-> e]
Assign(x, e) == AnnAssign(x, NoAnn, e)
Emit(e) == [op |-> "emit", e |-> e]
Raise(e) == [op |-> "raise", e |-> e]
Spawn(lib, x) == [op |-> "spawn", lib |-> lib, x |-> x]
Retract(x) == [op |-> "retract", x |-> x]
CallEff(e) == [op |-> "call", e |-> e]   \* a Call where an effect stands

(* Declarations.                                                           *)
Rule(name, pat, body) == [decl |-> "rule", name |-> name, pat |-> pat, body |-> body]
Lib(name, decls) == [decl |-> "lib", name |-> name, decls |-> decls]
Import(target, path) == [decl |-> "import", target |-> target, path |-> path]
PyImport(mod, funcs, alias) ==
  [decl |-> "pyimport", mod |-> mod, funcs |-> funcs, alias |-> alias]
EnumDecl(name, variants) == [decl |-> "enum", name |-> name, variants |-> variants]
EnumVariant(tag, fields) == [tag |-> tag, fields |-> fields]

=============================================================================
