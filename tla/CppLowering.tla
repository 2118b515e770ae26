------------------------------- MODULE CppLowering -------------------------------
(***************************************************************************)
(* The lowering of C++ function bodies to the intermediate representation  *)
(* (crates/server/src/lower/cpp.rs): one operator per kind of cursor.      *)
(* What has no Dart form becomes an unsupported node, whose text throws.   *)
(*                                                                         *)
(* The context cx holds what the lowering looks up while it descends: the  *)
(* pointer out-parameters of the function ("outs", name to pointee type),  *)
(* the functions the program declares ("funs") and the fields and bases of *)
(* its records ("records").                                                *)
(***************************************************************************)
EXTENDS OutParams, CppProgram

IsUnsupported(x) == x.e = "unsupported"
IsRecord(ty) == ty.t = "record"
IsPointerToRecord(ty) == IsNullable(ty) /\ IsRecord(ty.elem)
Named(name, args, ty) == Call(NoTarget, name, args, ty)

\* The value below casts and parentheses.
RECURSIVE Bare(_)
Bare(x) == IF x.k = "cast" THEN Bare(x.x) ELSE x

DerivesFrom(usr, base, cx) == base \in ToSet(cx.records[usr].bases)

\* The lowering calls itself through Lower alone, by what it makes of a cursor:
\* an expression, or the statements it adds to a block.
RECURSIVE Lower(_, _, _), LowerInit(_, _, _), DefaultField(_, _, _)
LowerExpr(x, cx) == Lower("expr", x, cx)
LowerInto(s, cx) == Lower("stmts", s, cx)

Lowered(xs, cx) == [i \in DOMAIN xs |-> LowerExpr(xs[i], cx)]

-----------------------------------------------------------------------------
(* Casts, written down or not: the type of the value and the type wanted   *)
(* decide what Dart needs to say.                                          *)

ScalarCast(inner, child, outer) ==
  LET backAgain == inner.e = "convert" /\ inner.ty = TDouble /\ (inner.operand.e = "int" \/ inner.operand.ty = TInt)
  IN IF child = TDouble /\ backAgain THEN inner.operand ELSE Convert(inner, outer)
IsScalarCast(child, outer) ==
  \/ child = TInt /\ outer \in {TDouble, TBool}
  \/ outer = TInt /\ (child \in {TBool, TDouble} \/ child.t = "enum")

\* From a literal null, to a condition, and to the value pointed to.
NullableCast(inner, child, outer) ==
  CASE child.t \in {"int", "nullptr"} -> NullLiteral
    [] outer = TBool \/ inner.ty # outer -> Convert(inner, outer)
    [] OTHER -> inner
IsNullableCast(inner, child, outer) ==
  \/ child.t \in {"int", "nullptr"} /\ IsNullable(outer) /\ inner \in {IntLiteral(0), NullLiteral}
  \/ IsNullable(child) /\ outer \in {TBool, child.elem}

\* Up the hierarchy nothing is said, down it a written cast is checked.
RecordCast(x, inner, cx) ==
  IF /\ IsPointerToRecord(x.ty) /\ x.how = "static" /\ x.x.ty # x.ty
     /\ ~DerivesFrom(x.x.ty.elem.usr, x.ty.elem.usr, cx)
  THEN AsA(inner, x.ty) ELSE inner
IsRecordCast(child, outer) ==
  (IsRecord(child) /\ IsRecord(outer)) \/ (IsPointerToRecord(child) /\ IsPointerToRecord(outer))

\* The methods C++ conversion operators become.
ConversionMethods == [str |-> "toStr", bool |-> "toBool", int |-> "toInt", double |-> "toDouble", bytes |-> "toBytes"]

\* To the container a record derives from: the field that holds it.
LibraryCast(inner, outer) ==
  LET fields == [list |-> "syntaxBridgeListBase", set |-> "syntaxBridgeSetBase",
                 map |-> "syntaxBridgeMapBase", str |-> "syntaxBridgeStringBase"]
  IN FieldAccess(inner, fields[Unwrap(outer).t], outer)
IsLibraryCast(child, outer, cx) ==
  /\ IsRecord(Unwrap(child)) /\ (IsNullable(outer) => IsNullable(child))
  /\ cx.records[Unwrap(child).usr].library = Unwrap(outer)

LowerCast(x, cx) ==
  LET inner == LowerExpr(x.x, cx)
      child == x.x.ty
      outer == x.ty
      ByOperator(name) == IF inner.ty = outer THEN inner ELSE Call(inner, name, <<>>, outer)
  IN CASE inner.e = "str" \/ (inner.e = "int" /\ outer = TInt) \/ outer = child -> inner
       [] IsScalarCast(child, outer) -> ScalarCast(inner, child, outer)
       [] IsNullableCast(inner, child, outer) -> NullableCast(inner, child, outer)
       [] outer = TVoid -> inner
       [] IsRecordCast(child, outer) -> RecordCast(x, inner, cx)
       [] child = TList(TInt) /\ Unwrap(outer) = TBytes -> Named("Uint8List.fromList", <<inner>>, outer)
       [] outer = TBool -> ByOperator("toBool")
       [] IsLibraryCast(child, outer, cx) -> LibraryCast(inner, outer)
       [] child = TInt /\ outer.t = "callback" ->
            CASE inner = IntLiteral(0) -> NullLiteral [] inner = IntLiteral(1) -> BoolLiteral(TRUE)
              [] OTHER -> inner
       [] IsRecord(child) /\ outer.t \in DOMAIN ConversionMethods -> ByOperator(ConversionMethods[outer.t])
       [] OTHER -> UnsupportedTyped(outer)

-----------------------------------------------------------------------------
(* Values.                                                                 *)

LowerLiteral(x) ==
  CASE x.v[1] = "int" -> IntLiteral(x.v[2])
    [] x.v[1] = "dbl" -> DoubleLiteral(x.v[2])
    [] x.v[1] = "bool" -> BoolLiteral(x.v[2])
    [] x.v[1] = "str" -> StringLiteral(x.v[2])
    [] OTHER -> NullLiteral

LowerMemberRef(x, cx) == FieldAccess(LowerExpr(x.base, cx), x.field, x.ty)

\* Only a plain reference may be evaluated twice.
LowerDynamicCast(x, cx) ==
  LET operand == LowerExpr(Bare(x.x), cx)
  IN IF Bare(x.x).k \in {"declref", "this"} /\ IsPointerToRecord(x.ty)
     THEN Conditional(IsA(operand, x.ty.elem), operand, NullLiteral, x.ty)
     ELSE UnsupportedTyped(x.ty)

LowerNew(x, cx) ==
  LET made == LowerExpr(x.init, cx)
  IN IF IsPointerToRecord(x.ty) /\ made.e \in {"new", "construct", "copy"} THEN made
     ELSE UnsupportedTyped(x.ty)

LowerArraySubscript(x, cx) ==
  LET bare == Bare(x.base)
      direct == bare.k \in {"declref", "memberref"} /\ bare.ty.t \in {"list", "bytes"}
      target == LowerExpr(IF direct THEN bare ELSE x.base, cx)
      indexable == target.ty.t \in {"list", "bytes", "bytecursor", "listcursor", "nullable"}
      mayBeNull == IsNullable(target.ty) /\ target.ty.elem.t \in {"bytes", "list"}
  IN IF ~indexable THEN UnsupportedTyped(x.ty)
     ELSE Index(IF mayBeNull THEN Convert(target, target.ty.elem) ELSE target, LowerExpr(x.i, cx), x.ty)

\* Braces take their meaning from the type expected there.
PreservedBailout(x, expected) == IF x = UnsupportedTyped(TVoid) THEN UnsupportedTyped(expected) ELSE x

LowerInit(x, expected, cx) ==
  LET bare == Bare(x)
      Item(i, ty) == LowerInit(bare.items[i], ty, cx)
      n == Len(bare.items)
      fields == cx.records[expected.usr].fields
  IN CASE bare.k # "initlist" -> PreservedBailout(LowerExpr(bare, cx), expected)
       [] expected.t = "list" -> ListLiteral([i \in 1 .. n |-> Item(i, expected.elem)], expected)
       [] expected.t = "pair" /\ n = 2 ->
            Named("SyntaxBridgePair", <<Item(1, expected.key), Item(2, expected.val)>>, expected)
       [] expected.t = "tuple" /\ n = Len(expected.parts) ->
            Tuple([i \in 1 .. n |-> Item(i, expected.parts[i])])
       [] expected.t = "record" /\ n <= Len(fields) ->
            RecordConstruct([i \in DOMAIN fields |->
                <<fields[i][1], IF i <= n THEN Item(i, fields[i][2]) ELSE DefaultField(fields[i][2], 1, cx)>>],
              expected)
       [] OTHER -> UnsupportedTyped(expected)

\* A value for a field nobody gave one.
DefaultField(ty, depth, cx) ==
  IF ty.t = "record" /\ depth <= 16
  THEN LET fields == cx.records[ty.usr].fields
       IN RecordConstruct([i \in DOMAIN fields |->
                             <<fields[i][1], DefaultField(fields[i][2], depth + 1, cx)>>], ty)
  ELSE DefaultScalar(ty)

-----------------------------------------------------------------------------
(* Operators.                                                              *)

\* Dart mixes int and double by itself: an int operand stays an int.
LowerOperand(x, cx) ==
  IF x.k = "cast" /\ x.how = "implicit" /\ x.x.ty = TInt /\ x.ty = TDouble
  THEN LowerExpr(x.x, cx) ELSE LowerExpr(x, cx)

LowerAssignExpr(x, cx) ==
  LET value == LowerExpr(x.rhs, cx)
  IN IF x.lhs.k \notin {"declref", "memberref"} \/ IsUnsupported(value) THEN UnsupportedTyped(x.ty)
     ELSE AssignExpr(IF x.lhs.k = "declref" THEN Ref(x.lhs.name, x.lhs.ty) ELSE LowerMemberRef(x.lhs, cx),
                     value, x.ty)

Relational == {"<", "<=", ">", ">="}

LowerBinary(x, cx) ==
  LET lhs == LowerOperand(x.lhs, cx)
      rhs == LowerOperand(x.rhs, cx)
      Hash(e) == Named("identityHashCode", <<e>>, TInt)
      OnCursor(e) == e.ty.t = "listcursor"
      ty == CASE x.op \in Relational \cup {"==", "!="} -> TBool
              [] x.op = "+" /\ OnCursor(lhs) -> lhs.ty
              [] x.op = "+" /\ OnCursor(rhs) -> rhs.ty
              [] x.op = "-" /\ OnCursor(lhs) -> IF OnCursor(rhs) THEN TInt ELSE lhs.ty
              [] OTHER -> x.ty
  IN CASE x.op = "=" -> LowerAssignExpr(x, cx)
       [] x.op = "," -> UnsupportedTyped(x.ty)
       [] x.op \in Relational /\ IsPointerToRecord(lhs.ty) -> Binary(x.op, Hash(lhs), Hash(rhs), ty)
       [] OTHER -> Binary(x.op, lhs, rhs, ty)

\* * and & of what a nullable reference stands for.
LowerIndirection(x, cx) ==
  LET operand == LowerExpr(x.x, cx)
      bare == Bare(x.x)
      represented == IsNullable(IF x.op = "&" THEN x.ty ELSE x.x.ty)
  IN CASE x.op = "*" /\ bare.k = "declref" /\ bare.name \in DOMAIN cx.outs ->
            Ref(bare.name, cx.outs[bare.name])
       [] x.op = "*" /\ operand.ty.t = "listcursor" -> FieldAccess(operand, "value", operand.ty.elem)
       [] x.op = "*" /\ operand.ty = TBytes -> Index(operand, IntLiteral(0), TInt)
       [] x.op = "&" /\ bare.k = "subscript" /\ LowerExpr(bare.base, cx).ty.t \in {"bytes", "list"} ->
            Named("SyntaxBridgeByteCursor", <<LowerExpr(bare.base, cx), LowerExpr(bare.i, cx)>>, TByteCursor)
       [] IsUnsupported(operand) \/ ~represented -> UnsupportedTyped(x.ty)
       [] OTHER -> Convert(operand, x.ty)

LowerUnary(x, cx) ==
  LET operand == LowerExpr(x.x, cx)
      asked == IF x.op = "!" /\ (x.x.ty = TInt \/ IsNullable(x.x.ty)) THEN Convert(operand, TBool) ELSE operand
  IN CASE x.op = "+" -> operand
       [] x.op \in {"*", "&"} -> LowerIndirection(x, cx)
       [] OTHER -> Unary(x.op, asked, IF operand.ty.t = "listcursor" THEN operand.ty ELSE x.ty)

LowerTernary(x, cx) ==
  Conditional(LowerExpr(x.cond, cx), LowerExpr(x.then, cx), LowerExpr(x.else, cx), x.ty)

\* [], [&], [=] and lists of names; [n = e] has no Dart form.
CaptureSupported(x) == \A i \in DOMAIN x.captures : x.captures[i][2] # "init"

LowerLambda(x, cx) ==
  IF CaptureSupported(x)
  THEN Lambda([i \in DOMAIN x.params |-> x.params[i].name], LowerInto(Compound(x.body), cx), x.ty)
  ELSE UnsupportedTyped(x.ty)

\* An argument left out has no cursor of its own: Dart takes the default.
LowerCall(x, cx) == Named(x.name, Lowered(x.args, cx), x.ty)
LowerCallValue(x, cx) == Named(x.f.name, Lowered(x.args, cx), x.ty)

LowerStdCall(x, cx) ==
  LowerMethod([tmpl |-> x.tmpl, m |-> x.m, recv |-> LowerExpr(x.recv, cx), args |-> Lowered(x.args, cx),
               ty |-> x.ty, elem |-> IF x.recv.ty.t = "list" THEN x.recv.ty.elem ELSE NoType])

LowerCursor(x, cx) ==
  CASE x.k = "literal" -> LowerLiteral(x)
    [] x.k = "cast" -> LowerCast(x, cx)
    [] x.k = "declref" -> Ref(x.name, x.ty)
    [] x.k = "memberref" -> LowerMemberRef(x, cx)
    [] x.k = "this" -> This(Unwrap(x.ty))
    [] x.k = "new" -> LowerNew(x, cx)
    [] x.k = "subscript" -> LowerArraySubscript(x, cx)
    [] x.k = "binary" -> LowerBinary(x, cx)
    [] x.k = "ternary" -> LowerTernary(x, cx)
    [] x.k = "unary" -> LowerUnary(x, cx)
    [] x.k = "lambda" -> LowerLambda(x, cx)
    [] x.k = "call" -> LowerCall(x, cx)
    [] x.k = "callvalue" -> LowerCallValue(x, cx)
    [] x.k = "copyof" -> RecordCopy(LowerExpr(x.x, cx), x.ty)
    [] x.k = "stdcall" -> LowerStdCall(x, cx)
    [] x.k = "initlist" /\ x.ty.t \in {"list", "pair", "tuple", "record"} -> LowerInit(x, x.ty, cx)
    [] x.k = "dyncast" -> LowerDynamicCast(x, cx)
    [] OTHER -> UnsupportedTyped(x.ty)

-----------------------------------------------------------------------------
(* Statements.                                                             *)

IsTerminator(s) == s.s \in {"break", "continue", "continuelabel", "return", "throw"}
UpToTerminator(stmts) ==
  LET i == SelectInSeq(stmts, IsTerminator) IN IF i = 0 THEN stmts ELSE SubSeq(stmts, 1, i)

LowerAll(stmts, cx) == FlattenSeq([i \in DOMAIN stmts |-> LowerInto(stmts[i], cx)])

\* A label must be a constant pattern in Dart: a literal, a name, or folded.
LowerLabel(label, cx) ==
  LET lowered == LowerExpr(label, cx)
  IN CASE lowered.e \in {"ref", "int", "bool", "str"} -> lowered
       [] Bare(label).k = "literal" /\ Bare(label).v[1] = "int" -> IntLiteral(Bare(label).v[2])
       [] OTHER -> Unsupported

\* The clauses of a switch, in source order but for the default; a clause
\* that runs into the next one says so.
LowerClauses(s, cx) ==
  LET starts == {i \in DOMAIN s.body : s.body[i].k \in {"case", "default"}}
      Until(i) == Min({j - 1 : j \in {k \in starts : k > i}} \cup {Len(s.body)})
      Labels(i) == LabelsOf(s.body[i])
      IsDefault(i) == \E j \in DOMAIN Labels(i) : Labels(i)[j].k = "default"
      Body(i) == UpToTerminator(LowerAll([j \in 1 .. Until(i) - i + 1 |-> Labelled(s.body[i + j - 1])], cx))
      clauses == SetToSortSeq({i \in starts : ~IsDefault(i)}, <)
  IN [cases |-> [n \in DOMAIN clauses |->
                   SwitchCase([j \in DOMAIN Labels(clauses[n]) |-> LowerLabel(Labels(clauses[n])[j].label, cx)],
                              Body(clauses[n]), "")],
      default |-> [n \in 1 .. Cardinality({i \in starts : IsDefault(i)}) |->
                     Body(Max({i \in starts : IsDefault(i)}))],
      before |-> Min(starts \cup {Len(s.body) + 1}) > 1]

CaseLabel(n) == "_syntaxBridgeCase" \o ToString(n)

LinkClauses(value, lowered, cases) ==
  LET n == Len(cases)
      Falls(i) == cases[i].body # <<>> /\ ~IsTerminator(Last(cases[i].body))
      Linked(i) ==
        LET jumps == IF Falls(i) /\ i < n THEN <<ContinueLabel(CaseLabel(i))>> ELSE <<>>
        IN SwitchCase(cases[i].values, cases[i].body \o jumps,
                      IF i > 1 /\ Falls(i - 1) THEN CaseLabel(i - 1) ELSE "")
  IN IF \/ lowered.before
        \/ \E i \in 1 .. n : \E j \in DOMAIN cases[i].values : IsUnsupported(cases[i].values[j])
        \/ n > 0 /\ Falls(n) /\ lowered.default # <<>>
     THEN UnsupportedStmt
     ELSE Switch(value, [i \in 1 .. n |-> Linked(i)], lowered.default)

SwitchOf(value, lowered) == LinkClauses(value, lowered, lowered.cases)
LowerSwitch(s, cx) == SwitchOf(LowerExpr(s.value, cx), LowerClauses(s, cx))

\* A declaration without a value: an empty string or collection, a record of
\* defaults, or nothing yet.
LowerVar(var, cx) ==
  LET ty == var.ty
      default == CASE ty.t = "record" -> DefaultField(ty, 1, cx)
                   [] ty.t \in {"str", "list", "set", "map", "bytes"} -> DefaultScalar(ty)
                   [] OTHER -> NoTarget
  IN IF var.k # "var" THEN <<>>
     ELSE <<VarDecl(var.name, ty, IF var.init = <<>> THEN default ELSE LowerExpr(var.init[1], cx))>>

\* What may be the target of a statement that assigns.
Assignable(x) == IsAssignable(x) \/ x.e = "insert" \/ (x.e = "convert" /\ IsAssignable(x.operand))
AssignOrRefuse(target, value) == IF Assignable(target) THEN ExprAssign(target, value) ELSE UnsupportedStmt

StoreInto(lhs, target, value, cx) ==
  CASE lhs.k = "declref" -> Assign(lhs.name, value)
    [] lhs.k = "memberref" -> FieldAssign(LowerExpr(lhs.base, cx), lhs.field, value)
    [] target.e \in {"index", "insert"} -> ExprAssign(target, value)
    [] OTHER -> UnsupportedStmt

LowerAssign(s, cx) ==
  LET target == LowerExpr(s.lhs, cx)
      value == LowerExpr(s.rhs, cx)
  IN CASE s.lhs.k \in {"declref", "memberref"} \/ target.e \in {"index", "insert"} -> StoreInto(s.lhs, target, value, cx)
       [] target.e = "field" -> FieldAssign(target.target, target.field, value)
       [] target.e = "ref" -> Assign(target.name, value)
       [] OTHER -> UnsupportedStmt

RECURSIVE IsRepeatable(_)
IsRepeatable(x) ==
  \/ x.e \in {"int", "double", "bool", "null", "str", "ref", "this"}
  \/ x.e = "field" /\ IsRepeatable(x.target)
  \/ x.e = "index" /\ IsRepeatable(x.target) /\ IsRepeatable(x.index)
  \/ x.e = "insert" /\ IsRepeatable(x.target) /\ IsRepeatable(x.index) /\ IsRepeatable(x.default)

LowerCompoundAssign(s, cx) ==
  LET lhs == LowerExpr(s.lhs, cx)
      rhs == LowerOperand(s.rhs, cx)
      target == IF lhs.ty = NoType THEN s.lhs.ty ELSE lhs.ty
      wide == s.op \in {"+", "-", "*", "/"} /\ (lhs.ty = TDouble \/ rhs.ty = TDouble \/ rhs.e = "double")
      sum == Binary(s.op, lhs, rhs, IF wide THEN TDouble ELSE target)
      value == IF target = TInt /\ wide THEN Convert(sum, TInt) ELSE sum
  IN IF s.lhs.k \in {"declref", "memberref"} \/ IsRepeatable(lhs) THEN StoreInto(s.lhs, lhs, value, cx)
     ELSE UnsupportedStmt

-----------------------------------------------------------------------------
(* Calls that assign: strings and sequences that change, and records.      *)

MutatesText(s) == s.k = "stdcall" /\ s.tmpl = "basic_string" /\ s.m \in {"clear", "append", "push_back"}
LowerTextMutation(s, cx) ==
  LET target == LowerExpr(s.recv, cx)
      arg == LowerExpr(s.args[1], cx)
      value == CASE s.m = "clear" -> StringLiteral(<<>>)
                 [] s.m = "append" /\ arg.ty # TInt -> Binary("+", target, arg, TStr)
                 [] OTHER -> Binary("+", target, Named("String.fromCharCode", <<arg>>, TStr), TStr)
  IN AssignOrRefuse(target, value)

Resizes(s) == s.k = "stdcall" /\ s.tmpl \in Sequences3 /\ s.m = "resize"
LowerResize(s, cx) ==
  LET target == LowerExpr(s.recv, cx)
      size == LowerExpr(s.args[1], cx)
      fill == IF Len(s.args) = 2 THEN LowerExpr(s.args[2], cx) ELSE DefaultField(s.recv.ty.elem, 0, cx)
      missing == Binary("-", size, LengthOf(target), TInt)
  IN IfStmt(Binary("<", size, LengthOf(target), TBool),
            <<FieldAssign(target, "length", size)>>,
            <<ExprStmt(Call(target, "addAll", <<Named("List.filled", <<missing, fill>>, s.recv.ty)>>, TVoid))>>)

AssignsLibrary(s) ==
  s.k = "stdcall" /\ ((s.m = "=" /\ s.tmpl \in {"basic_string", "optional"} \cup Sequences3)
                      \/ (s.m = "+=" /\ s.tmpl = "basic_string"))
LowerLibraryAssign(s, cx) ==
  LET target == LowerExpr(s.recv, cx)
      value == LowerExpr(s.args[1], cx)
      from == s.args[1].ty
  IN AssignOrRefuse(target,
       CASE s.m = "+=" ->
              Binary("+", target, IF from = TInt THEN Named("String.fromCharCode", <<value>>, TStr) ELSE value, TStr)
         [] s.tmpl = "basic_string" ->
              IF value.e # "str" /\ value.ty # TStr /\ TNullable(TStr) \in {from, value.ty}
              THEN Convert(value, TStr) ELSE value
         [] s.tmpl = "optional" -> value
         [] OTHER -> Named("List.of", <<value>>, from))

\* a = b through a defaulted operator=: a copy, unless b is moved from a
\* value nothing else can name.
LowerRecordAssign(s, cx) ==
  LET target == LowerExpr(s.lhs, cx)
      source == LowerExpr(s.rhs, cx)
      fresh == Bare(s.rhs).k \notin {"declref", "memberref"}
  IN AssignOrRefuse(target, IF s.move /\ fresh THEN source ELSE RecordCopy(source, s.lhs.ty))

\* s[i] = c: the bytes of the string are taken out, changed and put back.
AssignsTextByte(s) == s.k = "binary" /\ s.op = "=" /\ s.lhs.k = "stdcall" /\ s.lhs.m = "[]"
LowerTextByteAssign(s, cx) ==
  LET byte == LowerExpr(s.lhs, cx)
      bytes == Ref("_syntaxBridgeStringBytes", TList(TInt))
  IN <<VarDecl(bytes.name, bytes.ty, Named("utf8.encode", <<byte.target>>, TList(TInt))),
       ExprAssign(Index(bytes, byte.index, TInt), LowerExpr(s.rhs, cx)),
       ExprAssign(byte.target, Named("utf8.decode", <<bytes>>, TStr))>>

LowerSwap(s, cx) ==
  LET a == LowerExpr(s.a, cx)
      b == LowerExpr(s.b, cx)
      temp == Ref("_syntaxBridgeSwapTemp", s.ty)
  IN IF Assignable(a) /\ Assignable(b)
     THEN <<VarDecl(temp.name, s.ty, a), ExprAssign(a, b), ExprAssign(b, temp)>>
     ELSE <<UnsupportedStmt>>

-----------------------------------------------------------------------------
(* Calls of functions with out-parameters.                                 *)

CallsBridged(x, cx) == x.k = "call" /\ x.name \in DOMAIN cx.funs /\ IsBridged(cx.funs[x.name])

OutIndices(f) == SetToSortSeq({i \in DOMAIN f.params : IsOutParam(f.params[i])}, <)

\* The lvalue behind an out-argument: the argument, or what & takes the address of.
OutTarget(f, call, i, cx) ==
  LET arg == call.args[i]
  IN CASE f.params[i].mode = "reference" -> LowerExpr(arg, cx)
       [] Bare(arg).k = "unary" /\ Bare(arg).op = "&" -> LowerExpr(Bare(arg).x, cx)
       [] OTHER -> Unsupported

\* The call as it is printed: the targets themselves are passed.
OutCall(call, cx) ==
  LET f == cx.funs[call.name]
      at == OutIndices(f)
      targets == [i \in DOMAIN at |-> OutTarget(f, call, at[i], cx)]
      args == [i \in DOMAIN call.args |-> IF IsOutParam(f.params[i]) THEN OutTarget(f, call, i, cx)
                                          ELSE LowerExpr(call.args[i], cx)]
  IN [targets |-> targets, value |-> Named(call.name, args, call.ty),
      types |-> [i \in DOMAIN at |-> f.params[at[i]].ty],
      fits |-> \A i \in DOMAIN targets : Assignable(targets[i])]

LowerOutCall(call, cx) ==
  LET out == OutCall(call, cx)
      leading == IF call.ty = TVoid THEN <<>> ELSE <<Ref("_", call.ty)>>
  IN IF out.fits THEN TupleAssign(leading \o out.targets, out.value) ELSE UnsupportedStmt

\* if (f(&x)) and if (!f(&x)): the tuple is taken apart before the test.
IfCallOf(s) ==
  LET bare == Bare(s.cond)
      negated == bare.k = "unary" /\ bare.op = "!"
  IN [call |-> IF negated THEN Bare(bare.x) ELSE bare, negated |-> negated]
IfOnOutCall(s, cx) ==
  /\ s.k = "ifstmt" /\ CallsBridged(IfCallOf(s).call, cx)
  /\ IfCallOf(s).call.ty \in {TBool, TInt} /\ OutCall(IfCallOf(s).call, cx).fits

LowerIfOnOutCall(s, cx) ==
  LET call == IfCallOf(s).call
      out == OutCall(call, cx)
      temp == Ref("_syntaxBridgeIfCallTemp", TTuple(<<call.ty>> \o out.types))
      first == FieldAccess(temp, "$1", call.ty)
      asked == IF call.ty = TInt THEN Convert(first, TBool) ELSE first
  IN <<VarDecl(temp.name, temp.ty, out.value)>>
     \o [i \in DOMAIN out.targets |->
           ExprAssign(out.targets[i], FieldAccess(temp, "$" \o ToString(i + 1), out.types[i]))]
     \o <<IfStmt(IF IfCallOf(s).negated THEN Unary("!", asked, TBool) ELSE asked,
                 LowerInto(s.then, cx), LowerAll(s.else, cx))>>

-----------------------------------------------------------------------------
(* One statement.                                                          *)

Maybe(stmts, cx) == IF stmts = <<>> THEN <<>> ELSE LowerInto(stmts[1], cx)

LowerForRange(s, cx) ==
  LET over == LowerExpr(s.over, cx)
      items == CASE s.over.ty = TStr -> FieldAccess(over, "codeUnits", TList(TInt))
                 [] s.over.ty.t = "map" ->
                      FieldAccess(over, "entries", TList(TPair(s.over.ty.key, s.over.ty.val)))
                 [] OTHER -> over
  IN IF s.mode = "reference" /\ s.over.ty.t # "list" THEN UnsupportedStmt
     ELSE ForEach(s.name, s.ty, s.mode = "reference", items, LowerInto(s.body, cx))

\* One typed handler.
LowerTry(s, cx) ==
  IF Len(s.catches) # 1 \/ s.catches[1].name = "..." THEN UnsupportedStmt
  ELSE TryCatch(LowerInto(s.body, cx), s.catches[1].ty, s.catches[1].name, LowerInto(s.catches[1].body, cx))

IsExpression(s) ==
  s.k \in {"cast", "declref", "literal", "binary", "unary", "call", "callvalue", "stdcall", "memberref", "this"}

LowerStmt(s, cx) ==
  CASE s.k = "return" -> Return(IF s.value = <<>> THEN NoTarget ELSE LowerExpr(s.value[1], cx))
    [] s.k = "ifstmt" -> IfStmt(LowerExpr(s.cond, cx), LowerInto(s.then, cx), Maybe(s.else, cx))
    [] s.k = "whilestmt" -> While(LowerExpr(s.cond, cx), LowerInto(s.body, cx))
    [] s.k = "dostmt" -> DoWhile(LowerInto(s.body, cx), LowerExpr(s.cond, cx))
    [] s.k = "forstmt" ->
         For(Maybe(s.init, cx), IF s.cond = <<>> THEN NoTarget ELSE LowerExpr(s.cond[1], cx),
             Maybe(s.incr, cx), LowerInto(s.body, cx))
    [] s.k = "forrange" -> LowerForRange(s, cx)
    [] s.k = "switchstmt" -> LowerSwitch(s, cx)
    [] s.k = "break" -> Break
    [] s.k = "continue" -> Continue
    [] s.k = "binary" /\ s.op = "=" -> LowerAssign(s, cx)
    [] s.k = "opassign" -> LowerCompoundAssign(s, cx)
    [] s.k = "throw" -> IF s.value = <<>> THEN UnsupportedStmt ELSE Throw(LowerExpr(s.value[1], cx))
    [] s.k = "trystmt" -> LowerTry(s, cx)
    [] MutatesText(s) -> LowerTextMutation(s, cx)
    [] Resizes(s) -> LowerResize(s, cx)
    [] AssignsLibrary(s) -> LowerLibraryAssign(s, cx)
    [] s.k = "recassign" -> LowerRecordAssign(s, cx)
    [] CallsBridged(Bare(s), cx) -> LowerOutCall(Bare(s), cx)
    [] IsExpression(s) -> ExprStmt(LowerExpr(s, cx))
    [] OTHER -> UnsupportedStmt

\* An if whose condition is a literal is the branch it chooses.
ChosenBranch(one) == IF one.s = "if" /\ one.cond.e = "bool" THEN IF one.cond.v THEN one.then ELSE one.else ELSE <<one>>

\* A statement may become none, several, or the branch a constant chooses.
LowerStmtInto(s, cx) ==
  LET assignsByte == AssignsTextByte(s) /\ LowerExpr(s.lhs, cx).e = "byteat"
                     /\ IsAssignable(LowerExpr(s.lhs, cx).target)
  IN CASE s.k \in {"null", "delete"} -> <<>>
       [] s.k = "compound" -> UpToTerminator(LowerAll(s.stmts, cx))
       [] s.k = "declstmt" -> FlattenSeq([i \in DOMAIN s.vars |-> LowerVar(s.vars[i], cx)])
       [] IfOnOutCall(s, cx) -> LowerIfOnOutCall(s, cx)
       [] assignsByte -> LowerTextByteAssign(s, cx)
       [] s.k = "swap" -> LowerSwap(s, cx)
       [] OTHER -> ChosenBranch(LowerStmt(s, cx))

Lower(as, x, cx) == IF as = "expr" THEN LowerCursor(x, cx) ELSE LowerStmtInto(x, cx)

-----------------------------------------------------------------------------
(* One function: a record passed by value is copied first, the body is     *)
(* lowered, locals get their defaults and out-parameters are bridged.      *)

\* Slip: the parameter stays the object of the caller.
ShareArguments(params) == <<>>
ClonePrelude(params) ==
  LET copied == SelectSeq(params, LAMBDA p : p.mode = "value" /\ p.ty.t = "record")
  IN [i \in DOMAIN copied |-> Assign(copied[i].name, RecordCopy(Ref(copied[i].name, copied[i].ty), copied[i].ty))]

LowerFunction(f, cx) ==
  LET inside == [cx EXCEPT !.outs = PointerOutParams(f.params)]
      body == ClonePrelude(f.params) \o LowerInto(Compound(f.body), inside)
  IN [params |-> [i \in DOMAIN f.params |-> f.params[i].name],
      body |-> BridgeOutParams(f, Neutralized(body))]
===================================================================================
