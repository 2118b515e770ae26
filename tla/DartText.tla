-------------------------------- MODULE DartText --------------------------------
(***************************************************************************)
(* The text crates/server/src/emit/dart.rs prints, as tokens, and how Dart *)
(* groups those tokens again; and the bodies it prints no text for.        *)
(*                                                                         *)
(* What stands between brackets of its own (arguments, the items of a      *)
(* literal, a function) is one token here: it is printed and read apart.   *)
(***************************************************************************)
EXTENDS IR, SequencesExt

-----------------------------------------------------------------------------
(* Bodies with a hole.  A statement with no translation, or a type without *)
(* one, anywhere in a body makes the whole body one throw.                 *)

\* The blocks inside a statement.
Blocks(s) ==
  CASE s.s = "if" -> <<s.then, s.else>>
    [] s.s \in {"while", "dowhile", "foreach"} -> <<s.body>>
    [] s.s = "for" -> <<s.init, s.incr, s.body>>
    [] s.s = "try" -> <<s.body, s.handler>>
    [] s.s = "finally" -> <<s.body, s.finally>>
    [] s.s = "switch" -> [i \in DOMAIN s.cases |-> s.cases[i].body] \o s.default
    [] OTHER -> <<>>

RECURSIVE FirstUnsupportedInList(_)
FirstUnsupportedInStmt(s) ==
  s.s = "unsupported" \/ \E i \in DOMAIN Blocks(s) : FirstUnsupportedInList(Blocks(s)[i])
FirstUnsupportedInList(body) == \E i \in DOMAIN body : FirstUnsupportedInStmt(body[i])

\* The expressions of a statement, and those of an expression.
Expressions(s) ==
  CASE s.s \in {"return", "assign", "throw"} -> <<s.value>>
    [] s.s = "decl" -> <<s.init>>
    [] s.s \in {"fieldassign", "exprassign"} -> <<s.target, s.value>>
    [] s.s \in {"if", "while", "dowhile", "for"} -> <<s.cond>>
    [] s.s = "foreach" -> <<s.iterable>>
    [] s.s = "expr" -> <<s.expr>>
    [] s.s = "tuple" -> s.targets \o <<s.value>>
    [] s.s = "switch" -> <<s.value>> \o FlattenSeq([i \in DOMAIN s.cases |-> s.cases[i].values])
    [] OTHER -> <<>>
Operands(x) ==
  CASE x.e = "binary" -> <<x.lhs, x.rhs>>
    [] x.e = "conditional" -> <<x.cond, x.then, x.else>>
    [] x.e \in {"unary", "convert", "is", "as"} -> <<x.operand>>
    [] x.e \in {"field", "copy", "bytelength"} -> <<x.target>>
    [] x.e \in {"index", "byteat"} -> <<x.target, x.index>>
    [] x.e = "insert" -> <<x.target, x.index, x.default>>
    [] x.e = "byteindexof" -> <<x.target, x.needle, x.from>>
    [] x.e = "assign" -> <<x.target, x.value>>
    [] x.e = "list" -> x.items
    [] x.e = "tuple" -> x.values
    [] x.e = "map" -> FlattenSeq(x.entries)
    [] x.e = "construct" -> [i \in DOMAIN x.fields |-> x.fields[i][2]]
    [] x.e = "new" -> x.args
    [] x.e = "call" -> <<x.target>> \o x.args
    [] OTHER -> <<>>

RECURSIVE FirstUnsupportedTypeInList(_), ExprUnsupportedType(_)
ExprUnsupportedType(x) ==
  \/ x.ty = TUnsupported /\ x.e # "this"
  \/ \E i \in DOMAIN Operands(x) : ExprUnsupportedType(Operands(x)[i])
  \/ x.e = "lambda" /\ FirstUnsupportedTypeInList(x.body)
StmtUnsupportedType(s) ==
  \/ s.s \in {"decl", "foreach", "try"} /\ s.ty = TUnsupported
  \/ \E i \in DOMAIN Expressions(s) : ExprUnsupportedType(Expressions(s)[i])
  \/ \E i \in DOMAIN Blocks(s) : FirstUnsupportedTypeInList(Blocks(s)[i])
FirstUnsupportedTypeInList(body) == \E i \in DOMAIN body : StmtUnsupportedType(body[i])

\* params and ret are the types of the signature.
BodyBailsOut(params, ret, body) ==
  \/ ret = TUnsupported \/ TUnsupported \in ToSet(params)
  \/ FirstUnsupportedTypeInList(body) \/ FirstUnsupportedInList(body)

EmitBody(params, ret, body) == IF BodyBailsOut(params, ret, body) THEN <<UnsupportedStmt>> ELSE body

-----------------------------------------------------------------------------
(* The form each expression is meant to have in Dart.                      *)

Atom(x) == <<"atom", x>>
Sym(s) == <<"sym", s>>
Sel(name) == <<"selector", name>>      \* what is glued on behind a receiver
Operation(op, a, b) == <<"binary", op, a, b>>

ShapeOf(x) ==
  CASE x.e # "convert" -> "simple"
    [] IsNullable(x.operand.ty) /\ (x.operand.ty.elem = x.ty \/ x.ty.t \notin {"double", "int", "bool", "nullable"})
         -> "simple"
    [] x.ty = TInt /\ x.operand.ty = TBool -> "ternary"
    [] x.ty = TBool -> "comparison"
    [] OTHER -> "simple"

BinarySymbol(op, ty) == IF op = "/" /\ ty = TInt THEN "~/" ELSE op
Negative(op) == op \in {"-", "!", "pre++", "pre--"}
UnarySymbol(op) == CASE op \in {"pre++", "post++"} -> "++" [] op \in {"pre--", "post--"} -> "--" [] OTHER -> op
\* != 0 of a number and != null of a reference.
Zero(operand) == Atom(IF IsNullable(operand.ty) THEN "null" ELSE "int")
Suffix(x) ==
  CASE IsNullable(x.operand.ty) /\ ~IsNullable(x.ty) -> "!"
    [] x.ty = TDouble -> "toDouble" [] x.operand.ty.t = "enum" -> "value" [] OTHER -> "toInt"
PassesThrough(x) == x.e = "convert" /\ IsNullable(x.ty)
HasReceiver(x) == x.e \in {"field", "index", "insert"} \/ (x.e = "call" /\ x.target # NoTarget)
SelectorOf(x) == Sel(IF x.e = "field" THEN x.field ELSE IF x.e = "call" THEN x.name ELSE x.e)
\* The members of this are named alone.
OnThis(x) == HasReceiver(x) /\ x.target.e = "this" /\ x.e \in {"field", "call"}

RECURSIVE Form(_)
Form(x) ==
  CASE x.e = "binary" -> Operation(BinarySymbol(x.op, x.ty), Form(x.lhs), Form(x.rhs))
    [] x.e = "conditional" -> <<"conditional", Form(x.cond), Form(x.then), Form(x.else)>>
    [] x.e = "unary" /\ Negative(x.op) -> <<"prefix", UnarySymbol(x.op), Form(x.operand)>>
    [] x.e = "unary" -> <<"postfix", UnarySymbol(x.op), Form(x.operand)>>
    [] PassesThrough(x) -> Form(x.operand)
    [] ShapeOf(x) = "ternary" -> <<"conditional", Form(x.operand), Atom("int"), Atom("int")>>
    [] ShapeOf(x) = "comparison" -> Operation("!=", Form(x.operand), Zero(x.operand))
    [] x.e = "convert" -> IF Suffix(x) = "!" THEN Form(x.operand) ELSE <<"postfix", Suffix(x), Form(x.operand)>>
    [] x.e \in {"is", "as"} -> <<"postfix", x.e, Form(x.operand)>>
    [] x.e = "assign" -> Operation("=", Form(x.target), Form(x.value))
    [] OnThis(x) -> Atom(SelectorOf(x)[2])
    [] HasReceiver(x) -> <<"postfix", SelectorOf(x)[2], Form(x.target)>>
    [] OTHER -> Atom(x.e)

-----------------------------------------------------------------------------
(* The tokens, with the parentheses the emission decides on.               *)

BinaryPrecedence(op) ==
  CASE op = "||" -> 1 [] op = "&&" -> 2 [] op = "|" -> 3 [] op = "^" -> 4 [] op = "&" -> 5
    [] op \in {"==", "!="} -> 6 [] op \in {"<", "<=", ">", ">="} -> 7 [] op \in {"<<", ">>"} -> 8
    [] op \in {"+", "-"} -> 9 [] OTHER -> 10

\* Slip: an operand of the same precedence needs none on either side.
NoParensOnTies(outer, child, isRhs) ==
  child.e = "conditional" \/ (child.e = "binary" /\ BinaryPrecedence(child.op) < BinaryPrecedence(outer))
BinaryChildNeedsParens(outer, child, isRhs) ==
  LET Looser(op) == IF isRhs THEN BinaryPrecedence(op) <= BinaryPrecedence(outer)
                    ELSE BinaryPrecedence(op) < BinaryPrecedence(outer)
  IN CASE child.e = "conditional" -> TRUE
       [] child.e = "binary" -> Looser(child.op)
       [] ShapeOf(child) = "ternary" -> TRUE
       [] ShapeOf(child) = "comparison" -> Looser("!=")
       [] OTHER -> FALSE
\* Behind a receiver, and behind what is converted.
ReceiverNeedsParens(x) == x.e \in {"binary", "unary", "conditional", "is"} \/ ShapeOf(x) # "simple"
ConvertOperandNeedsParens(x) == x.e \in {"binary", "conditional", "unary", "assign", "is", "as"} \/ ShapeOf(x) # "simple"
UnaryNeedsParens(x, text) ==
  \/ x.op = "!" \/ text[1] = Sym(UnarySymbol(x.op)) \/ (x.op = "-" /\ text[1] = Sym("--"))
  \/ x.operand.e \in {"binary", "conditional"} \/ ShapeOf(x.operand) # "simple"

Paren(needed, text) == IF needed THEN <<Sym("(")>> \o text \o <<Sym(")")>> ELSE text

RECURSIVE EmitExpr(_)
EmitReceiver(x) == Paren(ReceiverNeedsParens(x), EmitExpr(x))
\* x.f, x!.f where x may be null, and x?.f where both may be.
Bang(x) == IF IsNullable(x.target.ty) /\ ~(x.e = "field" /\ IsNullable(x.ty)) THEN <<Sel("!")>> ELSE <<>>
EmitExpr(x) ==
  CASE x.e = "binary" ->
         Paren(BinaryChildNeedsParens(x.op, x.lhs, FALSE), EmitExpr(x.lhs))
         \o <<Sym(BinarySymbol(x.op, x.ty))>>
         \o Paren(BinaryChildNeedsParens(x.op, x.rhs, TRUE), EmitExpr(x.rhs))
    [] x.e = "conditional" ->
         EmitExpr(x.cond) \o <<Sym("?")>> \o EmitExpr(x.then) \o <<Sym(":")>> \o EmitExpr(x.else)
    [] x.e = "unary" /\ Negative(x.op) ->
         <<Sym(UnarySymbol(x.op))>> \o Paren(UnaryNeedsParens(x, EmitExpr(x.operand)), EmitExpr(x.operand))
    [] x.e = "unary" -> EmitExpr(x.operand) \o <<Sel(UnarySymbol(x.op))>>
    [] PassesThrough(x) -> EmitExpr(x.operand)
    [] ShapeOf(x) = "ternary" ->
         Paren(x.operand.e = "conditional" \/ ShapeOf(x.operand) = "ternary", EmitExpr(x.operand))
         \o <<Sym("?"), Atom("int"), Sym(":"), Atom("int")>>
    [] ShapeOf(x) = "comparison" ->
         Paren(BinaryChildNeedsParens("!=", x.operand, FALSE), EmitExpr(x.operand)) \o <<Sym("!="), Zero(x.operand)>>
    [] x.e = "convert" -> Paren(ConvertOperandNeedsParens(x.operand), EmitExpr(x.operand)) \o <<Sel(Suffix(x))>>
    [] x.e = "is" -> EmitExpr(x.operand) \o <<Sym("is")>>
    [] x.e = "as" -> Paren(TRUE, EmitExpr(x.operand) \o <<Sym("as")>>)
    [] x.e = "assign" -> Paren(TRUE, EmitExpr(x.target) \o <<Sym("=")>> \o EmitExpr(x.value))
    [] OnThis(x) -> <<Atom(SelectorOf(x)[2])>>
    [] HasReceiver(x) -> EmitReceiver(x.target) \o Bang(x) \o <<SelectorOf(x)>>
    [] OTHER -> <<Atom(x.e)>>

-----------------------------------------------------------------------------
(* How Dart groups tokens: its grammar, one level per precedence.          *)

DartLevels ==
  <<{"||"}, {"&&"}, {"==", "!="}, {"<", "<=", ">", ">=", "is", "as"}, {"|"}, {"^"}, {"&"}, {"<<", ">>"},
    {"+", "-"}, {"*", "/", "~/", "%"}>>
\* a == b == c and a < b < c are no expressions.
NotAssociative == {3, 4}

Begins(toks, syms) == toks # <<>> /\ toks[1][1] = "sym" /\ toks[1][2] \in syms
Parsed(tree, rest) == [tree |-> tree, rest |-> rest]

RECURSIVE ReadAt(_, _), ReadMore(_, _, _), ReadSelectors(_, _)
ReadSelectors(tree, toks) ==
  IF toks # <<>> /\ toks[1][1] = "selector"
  THEN ReadSelectors(IF toks[1][2] = "!" THEN tree ELSE <<"postfix", toks[1][2], tree>>, Tail(toks))
  ELSE Parsed(tree, toks)

\* The operators of one level that follow an operand.
ReadMore(level, left, toks) ==
  LET op == toks[1][2]
      right == IF op \in {"is", "as"} THEN Parsed(<<>>, Tail(toks)) ELSE ReadAt(level + 1, Tail(toks))
      tree == IF op \in {"is", "as"} THEN <<"postfix", op, left>> ELSE Operation(op, left, right.tree)
  IN IF ~Begins(toks, DartLevels[level]) THEN Parsed(left, toks)
     ELSE IF level \in NotAssociative THEN Parsed(tree, right.rest)
     ELSE ReadMore(level, tree, right.rest)

ReadAt(level, toks) ==
  CASE level = 0 ->
         LET cond == ReadAt(1, toks)
             then == ReadAt(0, Tail(cond.rest))
             else == ReadAt(0, Tail(then.rest))
         IN CASE Begins(cond.rest, {"?"}) ->
                   IF Begins(then.rest, {":"}) THEN Parsed(<<"conditional", cond.tree, then.tree, else.tree>>, else.rest)
                   ELSE Parsed(<<"error">>, <<>>)
              [] Begins(cond.rest, {"="}) -> Parsed(Operation("=", cond.tree, then.tree), then.rest)
              [] OTHER -> cond
    [] level \in 1 .. 10 -> LET left == ReadAt(level + 1, toks) IN ReadMore(level, left.tree, left.rest)
    [] Begins(toks, {"-", "!", "++", "--"}) ->
         LET r == ReadAt(11, Tail(toks)) IN Parsed(<<"prefix", toks[1][2], r.tree>>, r.rest)
    [] Begins(toks, {"("}) ->
         LET r == ReadAt(0, Tail(toks))
         IN IF Begins(r.rest, {")"}) THEN ReadSelectors(r.tree, Tail(r.rest)) ELSE Parsed(<<"error">>, <<>>)
    [] toks # <<>> /\ toks[1][1] = "atom" -> ReadSelectors(toks[1], Tail(toks))
    [] OTHER -> Parsed(<<"error">>, toks)

\* Dart reads the text of x as the tree the emission meant.
ReadsAs(x) == LET r == ReadAt(0, EmitExpr(x)) IN r.rest = <<>> /\ r.tree = Form(x)

\* The expressions printed on their own: those of a statement, and those
\* inside brackets.
RECURSIVE Nested(_), StatementTexts(_)
Every(F(_), items) == FlattenSeq([i \in DOMAIN items |-> F(items[i])])
Nested(x) == <<x>> \o Every(Nested, Operands(x)) \o (IF x.e = "lambda" THEN Every(StatementTexts, x.body) ELSE <<>>)
StatementTexts(s) ==
  Every(Nested, Expressions(s)) \o Every(LAMBDA block : Every(StatementTexts, block), Blocks(s))
===================================================================================
