---------------------------------- MODULE IR ----------------------------------
(***************************************************************************)
(* The intermediate representation (crates/server/src/ir/mod.rs): what the *)
(* C++ lowering builds and the Dart emission prints.  A node is a record   *)
(* whose field "e" (expressions), "s" (statements) or "t" (types) is the   *)
(* name of the variant.  Source positions and reasons are left out.        *)
(***************************************************************************)
EXTENDS Integers, Sequences

-----------------------------------------------------------------------------
(* Types.                                                                  *)

Scalar(t) == [t |-> t]
TInt == Scalar("int")
TBool == Scalar("bool")
TDouble == Scalar("double")
TVoid == Scalar("void")
TStr == Scalar("str")
TBytes == Scalar("bytes")
TObject == Scalar("object")
TByteCursor == Scalar("bytecursor")
TUnsupported == Scalar("unsupported")
TRecord(usr) == [t |-> "record", usr |-> usr]
TEnum(usr) == [t |-> "enum", usr |-> usr]
TList(elem) == [t |-> "list", elem |-> elem]
TSet(elem) == [t |-> "set", elem |-> elem]
TMap(key, val) == [t |-> "map", key |-> key, val |-> val]
TPair(key, val) == [t |-> "pair", key |-> key, val |-> val]
TListCursor(elem) == [t |-> "listcursor", elem |-> elem]
TCallback(ret, params) == [t |-> "callback", ret |-> ret, params |-> params]
TTuple(parts) == [t |-> "tuple", parts |-> parts]
TNullable(elem) == [t |-> "nullable", elem |-> elem]
NoType == Scalar("none")

IsNullable(ty) == ty.t = "nullable"
Unwrap(ty) == IF IsNullable(ty) THEN ty.elem ELSE ty

-----------------------------------------------------------------------------
(* Expressions.  Those the code gives no type of their own have NoType.    *)

IntLiteral(v) == [e |-> "int", v |-> v, ty |-> NoType]
BoolLiteral(v) == [e |-> "bool", v |-> v, ty |-> NoType]
DoubleLiteral(v) == [e |-> "double", v |-> v, ty |-> NoType]
StringLiteral(v) == [e |-> "str", v |-> v, ty |-> NoType]
NullLiteral == [e |-> "null", ty |-> NoType]
Ref(name, ty) == [e |-> "ref", name |-> name, ty |-> ty]
This(ty) == [e |-> "this", ty |-> ty]
Binary(op, lhs, rhs, ty) == [e |-> "binary", op |-> op, lhs |-> lhs, rhs |-> rhs, ty |-> ty]
Unary(op, operand, ty) == [e |-> "unary", op |-> op, operand |-> operand, ty |-> ty]
Conditional(cond, then, else, ty) ==
  [e |-> "conditional", cond |-> cond, then |-> then, else |-> else, ty |-> ty]
Lambda(params, body, ty) == [e |-> "lambda", params |-> params, body |-> body, ty |-> ty]
ListLiteral(items, ty) == [e |-> "list", items |-> items, ty |-> ty]
MapLiteral(entries, ty) == [e |-> "map", entries |-> entries, ty |-> ty]
IsA(operand, of) == [e |-> "is", operand |-> operand, of |-> of, ty |-> NoType]
AsA(operand, ty) == [e |-> "as", operand |-> operand, ty |-> ty]
AssignExpr(target, value, ty) == [e |-> "assign", target |-> target, value |-> value, ty |-> ty]
Convert(operand, ty) == [e |-> "convert", operand |-> operand, ty |-> ty]
Call(target, name, args, ty) ==
  [e |-> "call", target |-> target, name |-> name, args |-> args, ty |-> ty]
NoTarget == [e |-> "none", ty |-> NoType]
FieldAccess(target, field, ty) ==
  [e |-> "field", target |-> target, field |-> field, ty |-> ty]
RecordConstruct(fields, ty) == [e |-> "construct", fields |-> fields, ty |-> NoType, of |-> ty]
RecordCopy(target, ty) == [e |-> "copy", target |-> target, ty |-> NoType, of |-> ty]
ConstructorCall(of, index, args) ==
  [e |-> "new", of |-> of, index |-> index, args |-> args, ty |-> NoType]
Index(target, index, ty) == [e |-> "index", target |-> target, index |-> index, ty |-> ty]
MapIndexOrInsert(target, index, default, ty) ==
  [e |-> "insert", target |-> target, index |-> index, default |-> default, ty |-> ty]
StringByteLength(target) == [e |-> "bytelength", target |-> target, ty |-> NoType]
StringByteIndexOf(target, needle, from) ==
  [e |-> "byteindexof", target |-> target, needle |-> needle, from |-> from, ty |-> NoType]
StringByteAt(target, index, ty) ==
  [e |-> "byteat", target |-> target, index |-> index, ty |-> ty]
Tuple(values) == [e |-> "tuple", values |-> values, ty |-> NoType]
NamedArg(name, value) == [e |-> "named", name |-> name, value |-> value, ty |-> value.ty]
Unsupported == [e |-> "unsupported", ty |-> NoType]
UnsupportedTyped(ty) == [e |-> "unsupported", ty |-> ty]

\* What may stand on the left of an assignment in Dart.
IsAssignable(x) == x.e \in {"ref", "field", "index"}

-----------------------------------------------------------------------------
(* Statements.                                                             *)

Return(value) == [s |-> "return", value |-> value]
VarDecl(name, ty, init) == [s |-> "decl", name |-> name, ty |-> ty, init |-> init]
Assign(name, value) == [s |-> "assign", name |-> name, value |-> value]
FieldAssign(target, field, value) ==
  [s |-> "fieldassign", target |-> target, field |-> field, value |-> value]
ExprAssign(target, value) == [s |-> "exprassign", target |-> target, value |-> value]
IfStmt(cond, then, else) == [s |-> "if", cond |-> cond, then |-> then, else |-> else]
While(cond, body) == [s |-> "while", cond |-> cond, body |-> body]
DoWhile(body, cond) == [s |-> "dowhile", cond |-> cond, body |-> body]
For(init, cond, incr, body) ==
  [s |-> "for", init |-> init, cond |-> cond, incr |-> incr, body |-> body]
ForEach(name, ty, writeBack, iterable, body) ==
  [s |-> "foreach", name |-> name, ty |-> ty, writeBack |-> writeBack,
   iterable |-> iterable, body |-> body]
Break == [s |-> "break"]
Continue == [s |-> "continue"]
NoStmt == [s |-> "none"]
ContinueLabel(label) == [s |-> "continuelabel", label |-> label]
ExprStmt(expr) == [s |-> "expr", expr |-> expr]
Throw(value) == [s |-> "throw", value |-> value]
TryCatch(body, ty, name, handler) ==
  [s |-> "try", body |-> body, ty |-> ty, name |-> name, handler |-> handler]
TryFinally(body, finally) == [s |-> "finally", body |-> body, finally |-> finally]
TupleAssign(targets, value) == [s |-> "tuple", targets |-> targets, value |-> value]
\* The default is a sequence of at most one body; a label is "" or a name.
Switch(value, cases, default) ==
  [s |-> "switch", value |-> value, cases |-> cases, default |-> default]
SwitchCase(values, body, label) == [values |-> values, body |-> body, label |-> label]
UnsupportedStmt == [s |-> "unsupported"]
===============================================================================
