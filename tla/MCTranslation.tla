------------------------------ MODULE MCTranslation ------------------------------
(***************************************************************************)
(* Small C++ programs and containers for TLC.  Each program exercises some *)
(* kind of cursor; the statements over two integers are taken in pairs.    *)
(***************************************************************************)
EXTENDS Programs, Containers, MCMixinForms

Local(n) == DeclRef(n, TInt)
Lit(n) == Literal(Num(n), TInt)
Dbl(q) == Literal(Quarters(q), TDouble)
Str(s) == Literal(Text(s), TStr)
Show(x) == CallExpr("see", <<x>>, TVoid)
Plus(a, b) == Operator("+", a, b, TInt)
Less(a, b) == Operator("<", a, b, TBool)
Equals(a, b) == Operator("==", a, b, TBool)
Gets(a, b) == Operator("=", a, b, a.ty)
Var(n, ty, x) == DeclStmt(<<VarOf(n, ty, <<x>>)>>)
Bump(n) == Prefix("pre++", Local(n), TInt)
Answer(x) == ReturnStmt(<<x>>)
Block(s) == Compound(s)

Point == TRecord("Point")
Dot == TRecord("Dot")       \* a Point with a colour
Box == TRecord("Box")       \* a Point and a list
Own == TRecord("Own")       \* derived from a list
ListTy == TList(TInt)
Records == "Point" :> [fields |-> <<<<"x", TInt>>, <<"y", TInt>>>>, bases |-> <<>>, library |-> NoType]
        @@ "Dot" :> [fields |-> <<<<"x", TInt>>, <<"y", TInt>>, <<"c", TInt>>>>, bases |-> <<"Point">>, library |-> NoType]
        @@ "Box" :> [fields |-> <<<<"at", Point>>, <<"all", ListTy>>>>, bases |-> <<>>, library |-> NoType]
        @@ "Own" :> [fields |-> <<<<"syntaxBridgeListBase", ListTy>>>>, bases |-> <<>>, library |-> ListTy]
With(funs, body) == [funs |-> "main" :> FunctionDecl(<<>>, TInt, body) @@ funs, records |-> Records]
Main(body) == With(<<>>, body)

x == Local("x")
y == Local("y")
i == Local("i")

-----------------------------------------------------------------------------
\* Statements over x and y.
Flow == <<
  Gets(x, Plus(x, Lit(1))),
  CompoundAssign("-", y, x, TInt),
  Show(Operator("-", x, Operator("-", y, Prefix("post++", x, TInt), TInt), TInt)),
  IfCursor(Less(x, y), Show(x), <<Block(<<Show(y), Answer(Lit(7))>>)>>),
  IfCursor(Operator("||", Equals(x, Lit(1)), Equals(Operator("/", Lit(4), x, TInt), y), TBool), Gets(y, Lit(3)), <<>>),
  WhileStmt(Less(x, Lit(3)), Block(<<Bump("x"), IfCursor(Equals(x, y), BreakStmt, <<>>), Show(x)>>)),
  DoStmt(Block(<<Bump("x"), IfCursor(Equals(x, Lit(2)), ContinueStmt, <<>>), Show(x)>>), Less(x, Lit(3))),
  ForStmt(<<Var("i", TInt, Lit(0))>>, <<Less(i, Lit(3))>>, <<Bump("i")>>,
          Block(<<IfCursor(Equals(i, x), ContinueStmt, <<>>), Show(i)>>)),
  SwitchStmt(x, <<CaseStmt(Lit(0), <<Show(Lit(10))>>), CaseStmt(Lit(1), <<Show(Lit(11))>>), BreakStmt,
                  CaseStmt(Lit(2), <<CaseStmt(Lit(3), <<Gets(y, Lit(5))>>)>>), BreakStmt,
                  DefaultStmt(<<Show(Lit(12))>>)>>),
  SwitchStmt(y, <<CaseStmt(Lit(1), <<Bump("x")>>), Show(x), CaseStmt(Lit(2), <<Answer(x)>>)>>),
  Gets(x, Ternary(Less(y, x), y, Prefix("-", Plus(y, Lit(1)), TInt), TInt)),
  Show(Implicit(Less(x, y), TInt)),
  IfCursor(Implicit(x, TBool), Show(Lit(1)), <<Show(Lit(2))>>),
  Show(Prefix("!", Implicit(Operator("%", x, Lit(2), TInt), TBool), TBool)),
  Show(Operator("<<", Lit(3), Operator("*", x, y, TInt), TInt))>>

TwoInts(n) ==
  LET one == Flow[((n - 1) \div 4 % Len(Flow)) + 1]
      two == Flow[(((n - 1) \div 4) \div Len(Flow)) + 1]
  IN Main(<<DeclStmt(<<VarOf("x", TInt, <<Lit(n % 2)>>), VarOf("y", TInt, <<Lit(1 + (n \div 2 % 2))>>)>>),
            one, two, Show(x), Answer(y)>>)

-----------------------------------------------------------------------------
\* Out-parameters: through references, through pointers, with a result.
Both == FunctionDecl(<<Parameter("a", TInt, "reference"), Parameter("n", TInt, "value"), Parameter("b", TInt, "reference")>>,
  TVoid, <<IfCursor(Less(Local("n"), Lit(1)), Block(<<Gets(Local("a"), Lit(4)), ReturnStmt(<<>>)>>), <<>>),
           CompoundAssign("+", Local("b"), Local("n"), TInt), Gets(Local("a"), Local("b"))>>)
Deref1(n) == Prefix("*", DeclRef(n, TNullable(TInt)), TInt)
Parse == FunctionDecl(<<Parameter("n", TInt, "value"), Parameter("out", TInt, "pointer")>>, TBool,
  <<WhileStmt(Less(Local("n"), Lit(2)),
      Block(<<Bump("n"), IfCursor(Equals(Local("n"), Lit(1)), Answer(Literal(Bool(FALSE), TBool)), <<>>)>>)),
    Gets(Deref1("out"), Local("n")), Answer(Literal(Bool(TRUE), TBool))>>)
Address(v) == Prefix("&", v, TNullable(v.ty))
Parses(n, v) == CallExpr("parse", <<Lit(n), Address(v)>>, TBool)
OutFuns == "both" :> Both @@ "parse" :> Parse
BothOf(a, n, b) == CallExpr("both", <<a, Lit(n), b>>, TVoid)
OutBodies == <<
  <<DeclStmt(<<VarOf("x", TInt, <<>>), VarOf("y", TInt, <<Lit(1)>>)>>), BothOf(x, 2, y), Show(x), Answer(y)>>,
  <<Var("x", TInt, Lit(9)), Var("y", TInt, Lit(1)), BothOf(y, 0, x), Show(x), Answer(y)>>,
  <<DeclStmt(<<VarOf("x", TInt, <<>>)>>), Gets(x, Lit(5)), Parses(0, x), Answer(x)>>,
  <<Var("x", TInt, Lit(5)), IfCursor(Parses(0, x), Show(Lit(1)), <<Show(x)>>), Answer(x)>>,
  <<Var("x", TInt, Lit(5)), IfCursor(Prefix("!", Parses(1, x), TBool), Answer(Lit(8)), <<>>), Answer(x)>>,
  <<Var("y", TInt, Lit(0)), Var("p", Point, InitList(<<Lit(1), Lit(2)>>, Point)),
    BothOf(MemberRef(DeclRef("p", Point), "x", TInt), 3, y), Show(MemberRef(DeclRef("p", Point), "x", TInt)), Answer(y)>>,
  <<DeclStmt(<<VarOf("x", TInt, <<>>)>>),
    ForStmt(<<Var("i", TInt, Lit(0))>>, <<Less(i, Lit(3))>>, <<Bump("i")>>, Block(<<CallExpr("parse", <<i, Address(x)>>, TBool)>>)),
    Answer(Lit(0))>>>>

-----------------------------------------------------------------------------
\* Strings, lists, records.
s == DeclRef("s", TStr)
l == DeclRef("l", ListTy)
p == DeclRef("p", Point)
q == DeclRef("q", Point)
b == DeclRef("b", Box)
On(m, recv, args, ty) == StdCall(IF recv.ty = TStr THEN "basic_string" ELSE "vector", m, recv, args, ty)
At(recv, n) == On("[]", recv, <<n>>, TInt)
X(r) == MemberRef(r, "x", TInt)
Sized(recv) == Show(On("size", recv, <<>>, TInt))
TextBodies == <<
  <<Var("s", TStr, Str(<<97, 98>>)), On("append", s, <<Str(<<233>>)>>, TVoid), On("push_back", s, <<Lit(99)>>, TVoid),
    Sized(s), Show(s), On("+=", s, <<Str(<<97>>)>>, TVoid), Show(s), On("clear", s, <<>>, TVoid), Sized(s), Answer(Lit(0))>>,
  <<DeclStmt(<<VarOf("s", TStr, <<>>)>>), On("=", s, <<Str(<<97, 98, 99>>)>>, TVoid), Gets(At(s, Lit(1)), Lit(100)), Show(s), Answer(At(s, Lit(2)))>>,
  <<Var("s", TStr, Str(<<98, 97>>)), ForRange("c", TInt, "value", s, Show(Local("c"))), Answer(Lit(0))>>,
  <<Var("l", ListTy, InitList(<<Lit(3), Lit(4)>>, ListTy)), ForRange("v", TInt, "reference", l, Block(<<Bump("v")>>)),
    ForRange("v", TInt, "value", l, Block(<<IfCursor(Equals(Local("v"), Lit(5)), BreakStmt, <<>>), Show(Local("v"))>>)),
    Gets(At(l, Lit(0)), Lit(8)), CompoundAssign("+", At(l, Lit(1)), Lit(1), TInt), Show(At(l, Lit(0))), Answer(At(l, Lit(1)))>>,
  <<DeclStmt(<<VarOf("l", ListTy, <<>>)>>), On("resize", l, <<Lit(2), Lit(6)>>, TVoid), Sized(l), On("resize", l, <<Lit(1)>>, TVoid),
    On("push_back", l, <<Lit(2)>>, TVoid), Sized(l), Answer(At(l, Lit(0)))>>,
  <<Var("l", ListTy, InitList(<<Lit(1)>>, ListTy)), Var("m", ListTy, InitList(<<>>, ListTy)),
    On("=", DeclRef("m", ListTy), <<l>>, TVoid), On("push_back", l, <<Lit(2)>>, TVoid), Sized(DeclRef("m", ListTy)), Answer(Lit(0))>>>>

Shift == FunctionDecl(<<Parameter("p", Point, "reference")>>, TVoid, <<CompoundAssign("+", X(p), Lit(1), TInt)>>)
Ptr(r) == TNullable(r)
New(r, items) == NewExpr(InitList(items, r), Ptr(r))
ptr == DeclRef("r", Ptr(Point))
NoPoint == Implicit(Literal(<<"null">>, Scalar("nullptr")), Ptr(Point))
RecordFuns ==
  "move" :> FunctionDecl(<<Parameter("p", Point, "value")>>, TInt, <<Gets(X(p), Lit(8)), Answer(X(p))>>)
  @@ "shift" :> Shift
  @@ "boxed" :> FunctionDecl(<<Parameter("b", Box, "value")>>, TVoid,
       <<Gets(X(MemberRef(b, "at", Point)), Lit(5)), On("push_back", MemberRef(b, "all", ListTy), <<Lit(1)>>, TVoid)>>)
  @@ "colour" :> FunctionDecl(<<Parameter("r", Ptr(Point), "value")>>, TInt,
       <<Var("d", Ptr(Dot), DynamicCast(ptr, Ptr(Dot))),
         IfCursor(Implicit(DeclRef("d", Ptr(Dot)), TBool), Answer(MemberRef(DeclRef("d", Ptr(Dot)), "c", TInt)), <<>>),
         Answer(Ternary(Equals(ptr, NoPoint), Lit(0), X(ptr), TInt))>>)
Ps == Var("p", Point, InitList(<<Lit(1), Lit(2)>>, Point))
o == DeclRef("o", Own)
RecordBodies == <<
  <<Var("o", Own, InitList(<<InitList(<<Lit(3)>>, ListTy)>>, Own)), Var("l", ListTy, Implicit(o, ListTy)), Sized(l),
    Answer(At(l, Lit(0)))>>,
  <<Ps, Show(CallExpr("move", <<p>>, TInt)), CallExpr("shift", <<p>>, TVoid), Answer(X(p))>>,
  <<Ps, Var("q", Point, CopyOf(p, Point)), Gets(X(p), Lit(7)), Show(X(q)), RecordAssign(q, p, FALSE), Gets(X(p), Lit(9)), Answer(X(q))>>,
  <<Var("b", Box, InitList(<<InitList(<<Lit(1)>>, Point)>>, Box)), CallExpr("boxed", <<b>>, TVoid),
    Sized(MemberRef(b, "all", ListTy)), Answer(X(MemberRef(b, "at", Point)))>>,
  <<Var("r", Ptr(Point), New(Dot, <<Lit(1), Lit(2), Lit(3)>>)), Show(CallExpr("colour", <<ptr>>, TInt)), Gets(X(ptr), Lit(4)),
    Answer(CallExpr("colour", <<New(Point, <<Lit(6)>>)>>, TInt))>>,
  <<Var("r", Ptr(Point), NoPoint), IfCursor(Prefix("!", ptr, TBool), Show(Lit(1)), <<>>), Answer(CallExpr("colour", <<ptr>>, TInt))>>,
  <<Var("r", Ptr(Point), New(Point, <<Lit(3)>>)), Var("q", Point, CopyOf(Prefix("*", ptr, Point), Point)), Gets(X(q), Lit(1)),
    Show(X(ptr)), DeleteExpr(ptr), Answer(X(q))>>,
  <<Ps, Var("r", Ptr(Point), Address(p)), Gets(X(ptr), Lit(4)), Answer(X(p))>>,
  <<DeclStmt(<<VarOf("p", Point, <<>>)>>), Answer(X(p))>>,
  <<Ps, Var("q", Point, InitList(<<Lit(5)>>, Point)), Swap(p, q, Point), Show(X(p)), Answer(X(q))>>>>

-----------------------------------------------------------------------------
\* Exceptions, lambdas, numbers; and what is refused.
CatchOf(n, ty, body) == [name |-> n, ty |-> ty, body |-> Block(body)]
RiskyFuns == "risky" :> FunctionDecl(<<Parameter("n", TInt, "value")>>, TInt,
  <<Show(Local("n")), IfCursor(Equals(Local("n"), Lit(1)), ThrowExpr(<<Lit(5)>>), <<>>),
    IfCursor(Equals(Local("n"), Lit(2)), ThrowExpr(<<InitList(<<Lit(6)>>, Point)>>), <<>>), Answer(Lit(3))>>)
Risky(n) == Show(CallExpr("risky", <<n>>, TInt))
Fn == TCallback(TInt, <<TInt>>)
f == DeclRef("f", Fn)
dbl == DeclRef("d", TDouble)
OtherBodies == <<
  <<Var("x", TInt, Lit(1)), Block(<<Var("y", TInt, Lit(2)), Swap(x, y, TInt), Show(y), NullStmt>>), Answer(x)>>,
  <<ForStmt(<<Var("i", TInt, Lit(0))>>, <<Less(i, Lit(2))>>, <<Bump("i")>>,
      TryStmt(Block(<<Risky(i)>>), <<CatchOf("e", TInt, <<Show(Local("e")), ContinueStmt>>)>>)), Answer(Lit(0))>>,
  <<TryStmt(Block(<<Risky(Lit(2)), Show(Lit(9))>>), <<CatchOf("e", Point, <<Show(X(DeclRef("e", Point)))>>)>>), Answer(Lit(1))>>,
  <<TryStmt(Block(<<Risky(Lit(2))>>), <<CatchOf("e", TInt, <<Show(Local("e"))>>)>>), Answer(Lit(1))>>,
  <<TryStmt(Block(<<Risky(Lit(1))>>), <<CatchOf("...", TVoid, <<Show(Lit(2))>>)>>), Answer(Lit(1))>>,
  <<Var("x", TInt, Lit(1)), Var("f", Fn, LambdaExpr("&", <<>>, <<Parameter("n", TInt, "value")>>,
      <<CompoundAssign("+", x, Local("n"), TInt), Answer(x)>>, Fn)), Show(CallValue(f, <<Lit(2)>>, TInt)), Bump("x"),
    Answer(CallValue(f, <<Lit(3)>>, TInt))>>,
  <<Var("x", TInt, Lit(1)), Var("f", Fn, LambdaExpr("", <<<<"x", "init">>>>, <<Parameter("n", TInt, "value")>>, <<Answer(x)>>, Fn)),
    Answer(CallValue(f, <<Lit(2)>>, TInt))>>,
  <<Var("d", TDouble, Implicit(Lit(1), TDouble)), CompoundAssign("/", dbl, Dbl(8), TDouble), Show(dbl),
    Var("x", TInt, Implicit(Operator("*", dbl, Dbl(12), TDouble), TInt)), CompoundAssign("*", x, Dbl(6), TDouble), Show(x),
    Show(Operator("+", dbl, Implicit(x, TDouble), TDouble)), Answer(Cast("static", Prefix("-", dbl, TDouble), TInt))>>,
  <<Var("x", TInt, Lit(1)), Show(x), Show(Operator(",", Bump("x"), x, TInt)), Answer(x)>>,
  <<Show(Lit(1)), ThrowExpr(<<>>)>>,
  <<Answer(Operator("/", Lit(1), Lit(0), TInt))>>,
  <<Var("x", TInt, Lit(0)), Answer(Plus(Gets(x, Lit(4)), x))>>,
  <<Var("x", TInt, Operator("/", Prefix("-", Lit(7), TInt), Lit(2), TInt)), Answer(x)>>>>

Bodies(funs, bodies) == [n \in DOMAIN bodies |-> With(funs, bodies[n])]
SamplePrograms ==
  [n \in 1 .. 4 * Len(Flow) * Len(Flow) |-> TwoInts(n)] \o Bodies(OutFuns, OutBodies) \o Bodies(<<>>, TextBodies)
  \o Bodies(RecordFuns, RecordBodies) \o Bodies(RiskyFuns, OtherBodies)

-----------------------------------------------------------------------------
\* One run examines a container, a program of the pool or the records of a module.
TranslationInit ==
  \/ ContainersInit /\ ProgramsIdle /\ MixinIdle
  \/ ProgramsInit /\ ContainersIdle /\ MixinIdle
  \/ MixinInit /\ ContainersIdle /\ ProgramsIdle
TranslationNext ==
  \/ ContainersNext /\ UNCHANGED <<programVars, mixinVars>>
  \/ ProgramsNext /\ UNCHANGED <<containerVars, mixinVars>>
  \/ MixinNext /\ UNCHANGED <<containerVars, programVars>>

SomeTexts == {<<>>, <<97>>, <<97, 98>>, <<233>>, <<98, 97, 98>>}
===================================================================================
