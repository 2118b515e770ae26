------------------------------ MODULE CppProgram ------------------------------
(***************************************************************************)
(* C++ programs as libclang shows them to crates/server/src/lower/cpp.rs:  *)
(* cursors with a kind "k" and the lowered type "ty" of the cursor's type; *)
(* and what C++ says such a program does, so that it can be compared with  *)
(* its translation.                                                        *)
(*                                                                         *)
(* A variable is a place in memory, and so is each of its fields and       *)
(* elements: records and lists are values, a reference is another name of  *)
(* a place, a pointer is a place or null.  Where C++ leaves the behaviour  *)
(* undefined the run ends with the signal "undefined".                     *)
(***************************************************************************)
EXTENDS DartRun

-----------------------------------------------------------------------------
(* Expression cursors.                                                     *)

Literal(v, ty) == [k |-> "literal", v |-> v, ty |-> ty]
DeclRef(name, ty) == [k |-> "declref", name |-> name, ty |-> ty]
MemberRef(base, field, ty) == [k |-> "memberref", base |-> base, field |-> field, ty |-> ty]
ThisExpr(ty) == [k |-> "this", ty |-> ty]
\* What libclang shows around a value: "implicit" (an unexposed conversion),
\* "paren" or "static" (a cast that is written down).
Cast(how, x, ty) == [k |-> "cast", how |-> how, x |-> x, ty |-> ty]
Implicit(x, ty) == Cast("implicit", x, ty)
Operator(op, lhs, rhs, ty) == [k |-> "binary", op |-> op, lhs |-> lhs, rhs |-> rhs, ty |-> ty]
Prefix(op, x, ty) == [k |-> "unary", op |-> op, x |-> x, ty |-> ty]
Ternary(c, t, e, ty) == [k |-> "ternary", cond |-> c, then |-> t, else |-> e, ty |-> ty]
DynamicCast(x, ty) == [k |-> "dyncast", x |-> x, ty |-> ty]
NewExpr(init, ty) == [k |-> "new", init |-> init, ty |-> ty]
\* A call of a copy constructor, and a = b through a defaulted operator=.
CopyOf(x, ty) == [k |-> "copyof", x |-> x, ty |-> ty]
RecordAssign(lhs, rhs, move) == [k |-> "recassign", lhs |-> lhs, rhs |-> rhs, move |-> move]
Subscript(base, i, ty) == [k |-> "subscript", base |-> base, i |-> i, ty |-> ty]
InitList(items, ty) == [k |-> "initlist", items |-> items, ty |-> ty]
CallExpr(name, args, ty) == [k |-> "call", name |-> name, args |-> args, ty |-> ty]
\* A call of a value that is a function: the callee is a declref.
CallValue(f, args, ty) == [k |-> "callvalue", f |-> f, args |-> args, ty |-> ty]
\* A call of a method of a standard class, on a receiver.
StdCall(tmpl, m, recv, args, ty) ==
  [k |-> "stdcall", tmpl |-> tmpl, m |-> m, recv |-> recv, args |-> args, ty |-> ty]
\* Each capture is <<name, "value" | "reference">>; default is "", "=" or "&".
LambdaExpr(default, captures, params, body, ty) ==
  [k |-> "lambda", default |-> default, captures |-> captures, params |-> params, body |-> body, ty |-> ty]

\* Statement cursors; what may be missing is a sequence of at most one.
ReturnStmt(value) == [k |-> "return", value |-> value]
DeclStmt(vars) == [k |-> "declstmt", vars |-> vars]
VarOf(name, ty, init) == [k |-> "var", name |-> name, ty |-> ty, init |-> init, mode |-> "value"]
TypeDeclared == [k |-> "typedecl"]
IfCursor(cond, then, else) == [k |-> "ifstmt", cond |-> cond, then |-> then, else |-> else]
WhileStmt(cond, body) == [k |-> "whilestmt", cond |-> cond, body |-> body]
DoStmt(body, cond) == [k |-> "dostmt", cond |-> cond, body |-> body]
ForStmt(init, cond, incr, body) ==
  [k |-> "forstmt", init |-> init, cond |-> cond, incr |-> incr, body |-> body]
ForRange(name, ty, mode, over, body) ==
  [k |-> "forrange", name |-> name, ty |-> ty, mode |-> mode, over |-> over, body |-> body]
SwitchStmt(value, body) == [k |-> "switchstmt", value |-> value, body |-> body]
CaseStmt(label, sub) == [k |-> "case", label |-> label, sub |-> sub]
DefaultStmt(sub) == [k |-> "default", sub |-> sub]
BreakStmt == [k |-> "break"]
ContinueStmt == [k |-> "continue"]
Compound(stmts) == [k |-> "compound", stmts |-> stmts]
NullStmt == [k |-> "null"]
DeleteExpr(x) == [k |-> "delete", x |-> x]
CompoundAssign(op, lhs, rhs, ty) == [k |-> "opassign", op |-> op, lhs |-> lhs, rhs |-> rhs, ty |-> ty]
ThrowExpr(value) == [k |-> "throw", value |-> value]
TryStmt(body, catches) == [k |-> "trystmt", body |-> body, catches |-> catches]
Swap(a, b, ty) == [k |-> "swap", a |-> a, b |-> b, ty |-> ty]

\* Functions: each parameter is [name, ty, mode], the mode one of "value",
\* "reference", "constreference" and "pointer"; ty of a pointer is its pointee.
Parameter(name, ty, mode) == [name |-> name, ty |-> ty, mode |-> mode]
FunctionDecl(params, ret, body) == [params |-> params, ret |-> ret, body |-> body]

-----------------------------------------------------------------------------
(* Memory.                                                                 *)

Rec(cls, fields) == <<"rec", cls, fields>>
Seqn(items) == <<"list", items>>
Enum(n) == <<"enum", n>>
Pointer(place) == <<"ptr", place>>
Uninitialised == <<"uninitialised">>

CStart(funs, records, fuel) ==
  [env |-> <<>>, mem |-> <<>>, sig |-> "", val |-> Void, out |-> <<>>, fuel |-> fuel, funs |-> funs,
   records |-> records]
Undefined(st) == Ret(Void, [st EXCEPT !.sig = "undefined"])

RECURSIVE Within(_, _), Changed(_, _, _)
Within(v, path) ==
  IF path = <<>> THEN v
  ELSE CASE v[1] = "rec" /\ Head(path) \in DOMAIN v[3] -> Within(v[3][Head(path)], Tail(path))
         [] v[1] \in {"list", "str"} /\ Head(path) \in DOMAIN v[2] ->
              Within(IF v[1] = "str" THEN Num(v[2][Head(path)]) ELSE v[2][Head(path)], Tail(path))
         [] OTHER -> Uninitialised
Changed(v, path, new) ==
  CASE path = <<>> -> new
    [] v[1] = "rec" -> Rec(v[2], [v[3] EXCEPT ![Head(path)] = Changed(@, Tail(path), new)])
    [] v[1] = "str" -> Text([v[2] EXCEPT ![Head(path)] = new[2]])
    [] OTHER -> Seqn([v[2] EXCEPT ![Head(path)] = Changed(@, Tail(path), new)])

ReadPlace(place, st) == Within(st.mem[Head(place)], Tail(place))
WritePlace(place, v, st) ==
  IF st.sig # "" THEN st ELSE [st EXCEPT !.mem[Head(place)] = Changed(@, Tail(place), v)]
NewVar(name, v, st) ==
  [st EXCEPT !.mem = Append(@, v), !.env = (name :> <<Len(st.mem) + 1>>) @@ @]
BindName(name, place, st) == [st EXCEPT !.env = (name :> place) @@ @]

-----------------------------------------------------------------------------
(* Operators and conversions.                                              *)

Remainder(a, b) == a - b * Truncated(a, b)

COperator(op, a, b, st) ==
  LET x == a[2]
      y == b[2]
  IN CASE op = "==" -> Ret(Bool(a = b), st)
       [] op = "!=" -> Ret(Bool(a # b), st)
       [] op \in {"<", "<=", ">", ">="} -> Ret(Compare(op, x, y), st)
       [] op \in {"/", "%"} /\ y = 0 -> Undefined(st)
       [] a[1] = "dbl" ->
            Ret(Quarters(CASE op = "+" -> x + y [] op = "-" -> x - y [] op = "*" -> (x * y) \div 4
                           [] op = "/" -> (4 * x) \div y), st)
       [] op = "+" -> Ret(Num(x + y), st)
       [] op = "-" -> Ret(Num(x - y), st)
       [] op = "*" -> Ret(Num(x * y), st)
       [] op = "/" -> Ret(Num(Truncated(x, y)), st)
       [] op = "%" -> Ret(Num(Remainder(x, y)), st)
       [] op = "<<" -> IF y \in 0 .. 31 THEN Ret(Num(x * 2 ^ y), st) ELSE Undefined(st)
       [] OTHER -> Undefined(st)

CConverted(v, ty) ==
  CASE ty.t = "int" /\ v[1] = "bool" -> Num(IF IsTrue(v) THEN 1 ELSE 0)
    [] ty.t = "int" /\ v[1] = "enum" -> Num(v[2])
    [] ty.t = "int" /\ v[1] = "dbl" -> Num(Truncated(v[2], 4))
    [] ty.t = "double" /\ v[1] = "int" -> Quarters(4 * v[2])
    [] ty.t = "bool" /\ v[1] = "int" -> Bool(v[2] # 0)
    [] ty.t = "bool" /\ v[1] \in {"ptr", "null"} -> Bool(v # Null)
    [] OTHER -> v

\* Which values a handler of that type catches.
CValueIs(v, ty) ==
  CASE v[1] = "rec" -> ty.t = "record" /\ ty.usr \in ToSet(v[2])
    [] v[1] = "int" -> ty = TInt
    [] v[1] = "str" -> ty = TStr
    [] OTHER -> FALSE

-----------------------------------------------------------------------------
(* Expressions: a value, or the place an lvalue names.                     *)

\* The meaning calls itself through CRun alone: for a value, for the place of
\* an lvalue, or for a statement.
RECURSIVE CRun(_, _, _), CLoop(_, _, _, _, _)
CEval(x, st) == CRun("value", x, st)
CPlace(x, st) == CRun("place", x, st)
CExec(s, st) == CRun("stmt", s, st)
CExecAll(stmts, st) ==
  FoldLeft(LAMBDA acc, stmt : IF acc.sig # "" THEN acc ELSE CExec(stmt, acc), st, stmts)

CEvalSeq(xs, st) ==
  FoldLeft(LAMBDA acc, x : IF acc.st.sig # "" THEN acc
                           ELSE LET r == CEval(x, acc.st) IN [vs |-> Append(acc.vs, r.v), st |-> r.st],
           [vs |-> <<>>, st |-> st], xs)

\* The place of an lvalue, in v.
PlaceOf(x, st) ==
  LET Under(r, step) == IF r.st.sig # "" THEN r ELSE Ret(Append(r.v, step), r.st)
      Pointee(p) == LET r == CEval(p, st)
                    IN IF r.st.sig = "" /\ r.v[1] # "ptr" THEN Undefined(r.st) ELSE Ret(r.v[2], r.st)
  IN CASE x.k = "declref" -> Ret(st.env[x.name], st)
       [] x.k = "this" -> Pointee(x)
       [] x.k = "cast" /\ x.x.ty.t = "record" /\ x.ty.t = "list" -> Under(CPlace(x.x, st), "syntaxBridgeListBase")
       [] x.k = "cast" -> CPlace(x.x, st)
       [] x.k = "unary" /\ x.op = "*" -> Pointee(x.x)
       [] x.k = "memberref" -> Under(IF IsNullable(x.base.ty) THEN Pointee(x.base) ELSE CPlace(x.base, st), x.field)
       [] x.k = "stdcall" /\ x.m = "[]" ->
            LET i == CEval(x.args[1], st) IN Under(CPlace(x.recv, i.st), i.v[2] + 1)
       [] x.k = "subscript" -> LET i == CEval(x.i, st) IN Under(CPlace(x.base, i.st), i.v[2] + 1)
       [] OTHER -> LET r == CEval(x, st) IN Ret(<<Len(r.st.mem) + 1>>, [r.st EXCEPT !.mem = Append(@, r.v)])

CPut(x, v, st) == LET r == CPlace(x, st) IN WritePlace(r.v, v, r.st)

\* Arguments are bound to the parameters in a frame of their own.
CBind(params, args, st) ==
  FoldLeft(LAMBDA acc, i :
             IF acc.st.sig # "" THEN acc
             ELSE IF params[i].mode \in {"reference", "constreference"}
             THEN LET r == CPlace(args[i], acc.st) IN [acc EXCEPT !.st = r.st, !.env = (params[i].name :> r.v) @@ @]
             ELSE LET r == CEval(args[i], acc.st)
                  IN [st |-> [r.st EXCEPT !.mem = Append(@, r.v)],
                      env |-> (params[i].name :> <<Len(r.st.mem) + 1>>) @@ acc.env],
           [st |-> st, env |-> <<>>], [i \in DOMAIN params |-> i])

CInvoke(params, body, args, base, st) ==
  LET bound == CBind(params, args, st)
      after == CExecAll(body, [bound.st EXCEPT !.env = bound.env @@ base, !.val = Void, !.fuel = @ - 1])
  IN IF bound.st.sig # "" THEN Ret(Void, bound.st)
     ELSE IF st.fuel = 0 THEN Undefined(st)
     ELSE Ret(after.val, [after EXCEPT !.env = st.env, !.sig = IF @ = "return" THEN "" ELSE @, !.fuel = st.fuel,
                                       !.val = IF after.sig = "throw" THEN @ ELSE st.val])

\* A record of the given values, and zeros for the fields that are left.
RECURSIVE CZero(_, _)
CRecord(ty, vs, records) ==
  LET fields == records[ty.usr].fields
      At(n) == CHOOSE i \in DOMAIN fields : fields[i][1] = n
  IN Rec(<<ty.usr>> \o records[ty.usr].bases,
         [n \in {fields[i][1] : i \in DOMAIN fields} |->
            IF At(n) <= Len(vs) THEN vs[At(n)] ELSE CZero(fields[At(n)][2], records)])
CZero(ty, records) ==
  CASE ty = TInt -> Num(0) [] ty = TDouble -> Quarters(0) [] ty = TBool -> Bool(FALSE)
    [] ty = TStr -> Text(<<>>) [] ty.t = "list" -> Seqn(<<>>) [] ty.t = "record" -> CRecord(ty, <<>>, records)
    [] OTHER -> Null

\* What a lambda captures: the place itself, or a fresh copy.
CCapture(x, st) ==
  FoldLeft(LAMBDA acc, n :
             LET explicit == SelectInSeq(x.captures, LAMBDA c : c[1] = n)
                 byValue == IF explicit = 0 THEN x.default = "=" ELSE x.captures[explicit][2] = "value"
             IN IF byValue
                THEN [st |-> [acc.st EXCEPT !.mem = Append(@, ReadPlace(st.env[n], st))],
                      env |-> (n :> <<Len(acc.st.mem) + 1>>) @@ acc.env]
                ELSE [acc EXCEPT !.env = (n :> st.env[n]) @@ @],
           [st |-> st, env |-> <<>>], SetToSeq(DOMAIN st.env))

\* The members of the standard classes that the programs call.
CStdCall(x, st) ==
  LET r == CEvalSeq(<<x.recv>> \o x.args, st)
      v == r.vs[1][2]
      Becomes(new) == Ret(Void, CPut(x.recv, IF x.recv.ty = TStr THEN Text(new) ELSE Seqn(new), r.st))
      arg == r.vs[2]
      n == Len(v)
  IN CASE r.st.sig # "" -> Ret(Void, r.st)
       [] x.m \in {"size", "length"} -> Ret(Num(IF x.recv.ty = TStr THEN Len(Utf8(v)) ELSE n), r.st)
       [] x.m = "clear" -> Becomes(<<>>)
       [] x.m = "push_back" -> Becomes(Append(v, IF x.recv.ty = TStr THEN arg[2] ELSE arg))
       [] x.m \in {"append", "+="} -> Becomes(v \o (IF arg[1] = "int" THEN <<arg[2]>> ELSE arg[2]))
       [] x.m = "=" -> Ret(Void, CPut(x.recv, arg, r.st))
       [] x.m = "[]" -> IF arg[2] \in 0 .. n - 1 THEN Ret(Within(r.vs[1], <<arg[2] + 1>>), r.st) ELSE Undefined(r.st)
       [] x.m = "resize" ->
            Becomes([i \in 1 .. arg[2] |-> IF i <= n THEN v[i] ELSE IF Len(r.vs) = 3 THEN r.vs[3] ELSE Num(0)])
       [] OTHER -> Undefined(r.st)

ValueOf(x, st) ==
  LET Two == CEvalSeq(<<x.lhs, x.rhs>>, st)
      Loaded(r) == IF r.st.sig # "" THEN Ret(Void, r.st)
                   ELSE LET v == ReadPlace(r.v, r.st)
                        IN IF v = Uninitialised THEN Undefined(r.st) ELSE Ret(v, r.st)
  IN CASE x.k = "literal" -> Ret(x.v, st)
       [] x.k = "this" -> Loaded(Ret(st.env["this"], st))
       [] x.k \in {"declref", "memberref", "subscript"} -> Loaded(CPlace(x, st))
       [] x.k = "cast" /\ x.x.ty.t = "record" /\ x.ty.t = "list" -> Loaded(CPlace(x, st))
       [] x.k = "cast" -> LET r == CEval(x.x, st) IN Ret(CConverted(r.v, x.ty), r.st)
       [] x.k = "binary" /\ x.op = "=" ->
            LET r == CEval(x.rhs, st) IN Ret(r.v, IF r.st.sig # "" THEN r.st ELSE CPut(x.lhs, r.v, r.st))
       [] x.k = "binary" /\ x.op \in {"&&", "||"} ->
            LET l == CEval(x.lhs, st)
            IN IF l.st.sig # "" \/ IsTrue(l.v) = (x.op = "||") THEN l ELSE CEval(x.rhs, l.st)
       [] x.k = "binary" -> IF Two.st.sig # "" THEN Ret(Void, Two.st)
                            ELSE COperator(x.op, Two.vs[1], Two.vs[2], Two.st)
       [] x.k = "unary" /\ x.op = "&" -> LET r == CPlace(x.x, st) IN Ret(Pointer(r.v), r.st)
       [] x.k = "unary" /\ x.op = "*" -> Loaded(CPlace(x, st))
       [] x.k = "unary" /\ x.op \in {"-", "!"} ->
            LET r == CEval(x.x, st)
            IN Ret(IF x.op = "-" THEN <<r.v[1], -r.v[2]>> ELSE Bool(~IsTrue(r.v)), r.st)
       [] x.k = "unary" ->
            LET r == CEval(x.x, st)
                moved == <<r.v[1], r.v[2] + (IF x.op \in {"pre++", "post++"} THEN 1 ELSE -1)>>
            IN IF r.st.sig # "" THEN r
               ELSE Ret(IF x.op \in {"pre++", "pre--"} THEN moved ELSE r.v, CPut(x.x, moved, r.st))
       [] x.k = "ternary" ->
            LET c == CEval(x.cond, st)
            IN IF c.st.sig # "" THEN c ELSE CEval(IF IsTrue(c.v) THEN x.then ELSE x.else, c.st)
       [] x.k = "dyncast" ->
            LET r == CEval(x.x, st)
            IN IF r.st.sig # "" \/ r.v = Null THEN r
               ELSE Ret(IF Unwrap(x.ty).usr \in ToSet(ReadPlace(r.v[2], r.st)[2]) THEN r.v ELSE Null, r.st)
       [] x.k = "new" ->
            LET r == CEval(x.init, st)
            IN IF r.st.sig # "" THEN r
               ELSE Ret(Pointer(<<Len(r.st.mem) + 1>>), [r.st EXCEPT !.mem = Append(@, r.v)])
       [] x.k = "copyof" -> CEval(x.x, st)
       [] x.k = "initlist" ->
            LET r == CEvalSeq(x.items, st)
            IN Ret(IF x.ty.t = "record" THEN CRecord(x.ty, r.vs, st.records) ELSE Seqn(r.vs), r.st)
       [] x.k = "call" /\ x.name \in DOMAIN st.funs ->
            CInvoke(st.funs[x.name].params, st.funs[x.name].body, x.args, <<>>, st)
       [] x.k = "call" ->
            LET r == CEvalSeq(x.args, st)
            IN Ret(Num(0), IF r.st.sig # "" THEN r.st ELSE [r.st EXCEPT !.out = Append(@, <<x.name, r.vs>>)])
       [] x.k = "lambda" -> LET c == CCapture(x, st) IN Ret(<<"closure", c.env, x.params, x.body>>, c.st)
       [] x.k = "callvalue" ->
            LET f == ReadPlace(st.env[x.f.name], st) IN CInvoke(f[3], f[4], x.args, f[2], st)
       [] x.k = "stdcall" -> CStdCall(x, st)
       [] OTHER -> Undefined(st)

-----------------------------------------------------------------------------
(* Statements.                                                             *)

\* The names of a block end with it.
CBlock(stmts, st) == [CExecAll(stmts, st) EXCEPT !.env = st.env]

CLoop(cond, incr, body, skip, st) ==
  LET c == IF skip \/ cond = <<>> THEN Ret(Bool(TRUE), st) ELSE CEval(cond[1], st)
      once == AfterBody(CBlock(<<body>>, c.st))
      next == IF once.sig # "" THEN once ELSE CExecAll(incr, once)
  IN CASE st.fuel = 0 -> [st EXCEPT !.sig = "undefined"]
       [] c.st.sig # "" \/ ~IsTrue(c.v) -> c.st
       [] next.sig # "" -> LeftLoop(next)
       [] OTHER -> CLoop(cond, incr, body, FALSE, [next EXCEPT !.fuel = @ - 1])

\* A range-for visits the places of the list one after the other.
CForRange(s, st) ==
  LET over == CPlace(s.over, st)
      items == ReadPlace(over.v, over.st)[2]
      Bound(i, acc) == IF s.mode = "value" THEN NewVar(s.name, ReadPlace(Append(over.v, i), acc), acc)
                       ELSE BindName(s.name, Append(over.v, i), acc)
  IN LeftLoop(FoldLeft(LAMBDA acc, i : IF acc.sig # "" THEN acc ELSE AfterBody(CBlock(<<s.body>>, Bound(i, acc))),
                       over.st, [i \in DOMAIN items |-> i]))

\* The labels in front of a statement of a switch, and the statement itself.
RECURSIVE LabelsOf(_)
LabelsOf(s) == IF s.k \notin {"case", "default"} THEN <<>>
               ELSE <<s>> \o (IF s.sub = <<>> THEN <<>> ELSE LabelsOf(s.sub[1]))
RECURSIVE Labelled(_)
Labelled(s) == IF s.k \notin {"case", "default"} THEN s
               ELSE IF s.sub = <<>> THEN NullStmt ELSE Labelled(s.sub[1])

\* Control enters a switch at the label and runs down to a break.
CSwitch(s, st) ==
  LET v == CEval(s.value, st)
      Has(i, Test(_)) == \E j \in DOMAIN LabelsOf(s.body[i]) : Test(LabelsOf(s.body[i])[j])
      hits == {i \in DOMAIN s.body : Has(i, LAMBDA l : l.k = "case" /\ CEval(l.label, v.st).v = v.v)}
      other == {i \in DOMAIN s.body : Has(i, LAMBDA l : l.k = "default")}
      from == IF hits # {} THEN Min(hits) ELSE IF other # {} THEN Min(other) ELSE Len(s.body) + 1
  IN IF v.st.sig # "" THEN v.st
     ELSE LeftLoop(CBlock([i \in 1 .. Len(s.body) - from + 1 |-> Labelled(s.body[from + i - 1])], v.st))

CDeclare(var, st) ==
  IF var.k # "var" THEN st
  ELSE IF var.mode = "reference" THEN LET r == CPlace(var.init[1], st) IN BindName(var.name, r.v, r.st)
  ELSE IF var.init = <<>>
       THEN NewVar(var.name, IF var.ty.t \in {"str", "list", "record"} THEN CZero(var.ty, st.records)
                             ELSE Uninitialised, st)
  ELSE LET r == CEval(var.init[1], st) IN IF r.st.sig # "" THEN r.st ELSE NewVar(var.name, r.v, r.st)

COpAssign(s, st) ==
  LET Wide(v) == IF s.ty = TDouble THEN CConverted(v, TDouble) ELSE v
      rhs == CEval(s.rhs, st)
      at == CPlace(s.lhs, rhs.st)
      r == COperator(s.op, Wide(ReadPlace(at.v, at.st)), Wide(rhs.v), at.st)
  IN IF rhs.st.sig # "" THEN rhs.st ELSE IF at.st.sig # "" THEN at.st
     ELSE IF r.st.sig # "" THEN r.st ELSE WritePlace(at.v, CConverted(r.v, s.lhs.ty), r.st)

RunStmt(s, st) ==
  LET On(x, Then(_, _)) == LET r == CEval(x, st) IN IF r.st.sig # "" THEN r.st ELSE Then(r.v, r.st)
  IN CASE s.k = "return" -> IF s.value = <<>> THEN [st EXCEPT !.sig = "return"]
            ELSE On(s.value[1], LAMBDA v, t : [t EXCEPT !.sig = "return", !.val = v])
       [] s.k = "declstmt" -> FoldLeft(LAMBDA acc, var : IF acc.sig # "" THEN acc ELSE CDeclare(var, acc), st, s.vars)
       [] s.k = "ifstmt" ->
            On(s.cond, LAMBDA v, t : CBlock(IF IsTrue(v) THEN <<s.then>> ELSE s.else, t))
       [] s.k = "whilestmt" -> CLoop(<<s.cond>>, <<>>, s.body, FALSE, st)
       [] s.k = "dostmt" -> CLoop(<<s.cond>>, <<>>, s.body, TRUE, st)
       [] s.k = "forstmt" -> [CLoop(s.cond, s.incr, s.body, FALSE, CExecAll(s.init, st)) EXCEPT !.env = st.env]
       [] s.k = "forrange" -> [CForRange(s, st) EXCEPT !.env = st.env]
       [] s.k = "switchstmt" -> CSwitch(s, st)
       [] s.k \in {"break", "continue"} -> [st EXCEPT !.sig = s.k]
       [] s.k = "compound" -> CBlock(s.stmts, st)
       [] s.k \in {"null", "delete"} -> st
       [] s.k = "opassign" -> COpAssign(s, st)
       [] s.k = "recassign" -> On(s.rhs, LAMBDA v, t : CPut(s.lhs, v, t))
       [] s.k = "throw" -> IF s.value = <<>> THEN [st EXCEPT !.sig = "undefined"]
            ELSE On(s.value[1], LAMBDA v, t : [t EXCEPT !.sig = "throw", !.val = v])
       [] s.k = "trystmt" ->
            LET tried == [CExecAll(<<s.body>>, st) EXCEPT !.env = st.env]
                by == SelectInSeq(s.catches, LAMBDA c : c.name = "..." \/ CValueIs(tried.val, c.ty))
            IN IF tried.sig # "throw" \/ by = 0 THEN tried
               ELSE [CExecAll(<<s.catches[by].body>>,
                              NewVar(s.catches[by].name, tried.val, [tried EXCEPT !.sig = "", !.val = Void]))
                       EXCEPT !.env = st.env]
       [] s.k = "swap" ->
            LET a == CPlace(s.a, st)
                b == CPlace(s.b, a.st)
                old == ReadPlace(a.v, b.st)
            IN IF b.st.sig # "" THEN b.st ELSE WritePlace(b.v, old, WritePlace(a.v, ReadPlace(b.v, b.st), b.st))
       [] OTHER -> On(s, LAMBDA v, t : t)

CRun(as, x, st) == CASE as = "value" -> ValueOf(x, st) [] as = "place" -> PlaceOf(x, st) [] OTHER -> RunStmt(x, st)
===============================================================================
