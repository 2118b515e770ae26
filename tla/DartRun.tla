-------------------------------- MODULE DartRun --------------------------------
(***************************************************************************)
(* What the printed Dart does when it runs: the meaning of every IR node   *)
(* under the text crates/server/src/emit/dart.rs gives it, together with   *)
(* the support classes that file prints beside it.  The state of a run     *)
(* keeps the locals, a heap of lists, sets, maps, cursors and records, a   *)
(* pending signal ("break", "continue", a label, "return", "throw"), the   *)
(* effects on the outside so far, and fuel for its loops.                  *)
(***************************************************************************)
EXTENDS IR, SequencesExt, FiniteSetsExt

Num(n) == <<"int", n>>
Quarters(q) == <<"dbl", q>>        \* a double, counted in quarters
Bool(b) == <<"bool", b>>
Text(s) == <<"str", s>>
Obj(at) == <<"ref", at>>
Null == <<"null">>
Void == <<"void">>
IsTrue(v) == v = Bool(TRUE)

Start(env, funs, fuel) ==
  [env |-> env, heap |-> <<>>, sig |-> "", val |-> Void, out |-> <<>>, fuel |-> fuel, funs |-> funs,
   label |-> "", records |-> <<>>]

Ret(v, st) == [v |-> v, st |-> st]
Throws(st) == Ret(Void, [st EXCEPT !.sig = "throw"])
\* Text that throws UnimplementedError, and text the analyser rejects.
Refuses(st) == Ret(Void, [st EXCEPT !.sig = "refused"])
Rejects(st) == Ret(Void, [st EXCEPT !.sig = "rejected"])
Alloc(object, st) == Ret(Obj(Len(st.heap) + 1), [st EXCEPT !.heap = Append(@, object)])
Deref(v, st) == st.heap[v[2]]
Store(v, object, st) == [st EXCEPT !.heap[v[2]] = object]
Put(name, v, st) == [st EXCEPT !.env = (name :> v) @@ @]

ListOf(items) == [k |-> "list", items |-> items]
SetOf(items) == [k |-> "set", items |-> items]
MapOf(entries) == [k |-> "map", entries |-> entries]
CursorOn(items, at) == [k |-> "cursor", items |-> items, at |-> at]
RecordOf(cls, fields) == [k |-> "record", cls |-> cls, fields |-> fields]

-----------------------------------------------------------------------------
(* Strings are sequences of code points; utf8.encode of one is two bytes   *)
(* for a code point past 127.                                              *)

Utf8(s) == FlattenSeq([i \in DOMAIN s |->
             IF s[i] < 128 THEN <<s[i]>> ELSE <<192 + (s[i] \div 64), 128 + (s[i] % 64)>>])

RECURSIVE Utf8Decoded(_)
Utf8Decoded(b) ==
  IF b = <<>> THEN <<>>
  ELSE IF Head(b) < 128 THEN <<Head(b)>> \o Utf8Decoded(Tail(b))
  ELSE <<(Head(b) - 192) * 64 + (b[2] - 128)>> \o Utf8Decoded(Tail(Tail(b)))
\* What utf8.decode does not take for text.
IsUtf8(b) ==
  /\ \A i \in DOMAIN b : b[i] \in 192 .. 223 => i < Len(b) /\ b[i + 1] \in 128 .. 191
  /\ \A i \in DOMAIN b : b[i] \in 128 .. 191 => i > 1 /\ b[i - 1] \in 192 .. 223
  /\ \A i \in DOMAIN b : b[i] < 224

\* The byte-search helpers printed beside a find().
ByteIndexOf(hay, needle, from) ==
  LET at == IF from < 0 THEN 0 ELSE from
      hits == {i \in at .. Len(hay) - Len(needle) : SubSeq(hay, i + 1, i + Len(needle)) = needle}
  IN IF needle = <<>> THEN IF at <= Len(hay) THEN at ELSE -1
     ELSE IF hits = {} THEN -1 ELSE Min(hits)

SeqLess(a, b) ==
  LET n == Min({Len(a), Len(b)})
      diff == {i \in 1 .. n : a[i] # b[i]}
  IN IF diff = {} THEN Len(a) < Len(b) ELSE a[Min(diff)] < b[Min(diff)]

\* ~/ truncates towards zero, % never answers below zero.
Truncated(a, b) ==
  LET q == (IF a < 0 THEN -a ELSE a) \div (IF b < 0 THEN -b ELSE b)
  IN IF (a < 0) = (b < 0) THEN q ELSE -q
Modulo(a, b) == a % (IF b < 0 THEN -b ELSE b)

KeyAt(entries, key) == SelectInSeq(entries, LAMBDA entry : entry[1] = key)
MapPut(entries, key, v) ==
  LET i == KeyAt(entries, key)
  IN IF i = 0 THEN Append(entries, <<key, v>>) ELSE [entries EXCEPT ![i] = <<key, v>>]

-----------------------------------------------------------------------------
(* Operators.  == on objects is identity, unless the class declares one.   *)

InQuarters(v) == IF v[1] = "int" THEN 4 * v[2] ELSE v[2]

\* Division prints ~/ when the node is an int, else /, which answers a double.
Arithmetic(op, ty, a, b, st) ==
  LET wide == a[1] = "dbl" \/ b[1] = "dbl"
      x == IF wide THEN InQuarters(a) ELSE a[2]
      y == IF wide THEN InQuarters(b) ELSE b[2]
      Number(n) == IF wide THEN Quarters(n) ELSE Num(n)
  IN CASE op \in {"/", "%"} /\ y = 0 -> Throws(st)
       [] op = "/" /\ ty = TInt -> Ret(Num(Truncated(x, y)), st)
       [] op = "/" -> Ret(Quarters((4 * InQuarters(a)) \div InQuarters(b)), st)
       [] op = "%" -> Ret(Number(Modulo(x, y)), st)
       [] op = "+" -> Ret(Number(x + y), st)
       [] op = "-" -> Ret(Number(x - y), st)
       [] op = "*" -> Ret(IF wide THEN Quarters((x * y) \div 4) ELSE Num(x * y), st)
       [] op = "<<" -> IF y < 0 THEN Throws(st) ELSE Ret(Num(x * 2 ^ y), st)

Compare(op, a, b) ==
  Bool(CASE op = "<" -> a < b [] op = "<=" -> a <= b [] op = ">" -> a > b [] op = ">=" -> a >= b)

\* The cursor class moves a position over a list and compares positions.
CursorOperator(op, cursor, b, st) ==
  LET c == Deref(cursor, st)
  IN CASE op = "+" -> Alloc(CursorOn(c.items, c.at + b[2]), st)
       [] op = "-" /\ b[1] = "int" -> Alloc(CursorOn(c.items, c.at - b[2]), st)
       [] op = "-" -> Ret(Num(c.at - Deref(b, st).at), st)
       [] OTHER -> Ret(Compare(op, c.at, Deref(b, st).at), st)

IsNumber(v) == v[1] \in {"int", "dbl"}
\* 1 == 1.0 in Dart.
SameValue(a, b) == IF IsNumber(a) /\ IsNumber(b) THEN InQuarters(a) = InQuarters(b) ELSE a = b

BinaryOperator(op, ty, a, b, st) ==
  CASE op = "==" -> Ret(Bool(SameValue(a, b)), st)
    [] op = "!=" -> Ret(Bool(~SameValue(a, b)), st)
    [] a[1] = "ref" /\ Deref(a, st).k = "cursor" -> CursorOperator(op, a, b, st)
    [] IsNumber(a) /\ IsNumber(b) /\ op \in {"<", "<=", ">", ">="} ->
         Ret(Compare(op, InQuarters(a), InQuarters(b)), st)
    [] IsNumber(a) /\ IsNumber(b) -> Arithmetic(op, ty, a, b, st)
    [] a[1] = "str" /\ b[1] = "str" /\ op = "+" -> Ret(Text(a[2] \o b[2]), st)
    [] OTHER -> Rejects(st)

\* A conversion prints a !, a .toDouble(), a .toInt(), a .value, a ? 1 : 0 or
\* a comparison.
Converted(from, to, v, st) ==
  CASE from.t = "nullable" /\ to.t \notin {"nullable", "double", "int", "bool"} ->
         IF v = Null THEN Throws(st) ELSE Ret(v, st)
    [] from.t = "nullable" /\ from.elem = to -> IF v = Null THEN Throws(st) ELSE Ret(v, st)
    [] to.t = "double" -> Ret(Quarters(InQuarters(v)), st)
    [] to.t = "int" /\ from.t = "bool" -> Ret(Num(IF IsTrue(v) THEN 1 ELSE 0), st)
    [] to.t = "int" /\ from.t = "enum" -> Ret(Num(v[2]), st)
    [] to.t = "int" /\ v[1] = "dbl" -> Ret(Num(Truncated(v[2], 4)), st)
    [] to.t = "bool" /\ from.t = "nullable" -> Ret(Bool(v # Null), st)
    [] to.t = "bool" -> Ret(Bool(~SameValue(v, Num(0))), st)
    [] OTHER -> Ret(v, st)

-----------------------------------------------------------------------------
(* Members of the library classes the bridge uses.                         *)

FieldOf(v, field, st) ==
  IF v[1] = "str"
  THEN CASE field = "length" -> Ret(Num(Len(v[2])), st)
         [] field = "isEmpty" -> Ret(Bool(v[2] = <<>>), st)
         [] field = "codeUnits" -> Alloc(ListOf([i \in DOMAIN v[2] |-> Num(v[2][i])]), st)
         [] OTHER -> Rejects(st)
  ELSE IF v[1] = "tuple" THEN Ret(v[2][CHOOSE i \in DOMAIN v[2] : field = "$" \o ToString(i)], st)
  ELSE IF v[1] = "pair" THEN Ret(v[IF field \in {"first", "key"} THEN 2 ELSE 3], st)
  ELSE IF v[1] # "ref" THEN Throws(st)
  ELSE LET o == Deref(v, st)
           n == IF o.k = "map" THEN Len(o.entries) ELSE IF o.k \in {"list", "set"} THEN Len(o.items) ELSE 0
       IN CASE o.k = "record" -> IF field \in DOMAIN o.fields THEN Ret(o.fields[field], st) ELSE Throws(st)
            [] o.k = "cursor" /\ field = "current" ->
                 LET items == Deref(o.items, st).items
                 IN IF o.at \in 0 .. Len(items) - 1 THEN Ret(items[o.at + 1], st) ELSE Throws(st)
            [] field = "length" -> Ret(Num(n), st)
            [] field = "isEmpty" -> Ret(Bool(n = 0), st)
            [] field = "reversed" -> Alloc(ListOf(Reverse(o.items)), st)
            [] field = "entries" ->
                 Alloc(ListOf([i \in DOMAIN o.entries |-> <<"pair", o.entries[i][1], o.entries[i][2]>>]), st)
            [] OTHER -> Rejects(st)

TextMethod(s, name, args, st) ==
  CASE name = "substring" ->
         LET from == args[1][2]
             to == IF Len(args) = 2 THEN args[2][2] ELSE Len(s)
         IN IF 0 <= from /\ from <= to /\ to <= Len(s) THEN Ret(Text(SubSeq(s, from + 1, to)), st)
            ELSE Throws(st)
    [] name = "compareTo" ->
         Ret(Num(IF s = args[1][2] THEN 0 ELSE IF SeqLess(s, args[1][2]) THEN -1 ELSE 1), st)
    [] name = "codeUnitAt" ->
         IF args[1][2] \in 0 .. Len(s) - 1 THEN Ret(Num(s[args[1][2] + 1]), st) ELSE Throws(st)
    [] OTHER -> Rejects(st)

PlainMethod(v, name, args, st) ==
  LET o == Deref(v, st)
  IN CASE name = "add" /\ o.k = "set" ->
            Ret(Void, IF Contains(o.items, args[1]) THEN st ELSE Store(v, SetOf(Append(o.items, args[1])), st))
       [] name = "add" -> Ret(Void, Store(v, ListOf(Append(o.items, args[1])), st))
       [] name = "addAll" -> Ret(Void, Store(v, ListOf(o.items \o Deref(args[1], st).items), st))
       [] name = "clear" -> Ret(Void, Store(v, ListOf(<<>>), st))
       [] name = "removeLast" -> IF o.items = <<>> THEN Throws(st)
                                 ELSE Ret(Last(o.items), Store(v, ListOf(Front(o.items)), st))
       [] name = "contains" -> Ret(Bool(Contains(o.items, args[1])), st)
       [] name = "containsKey" -> Ret(Bool(KeyAt(o.entries, args[1]) # 0), st)
       [] name = "toList" -> Alloc(ListOf(o.items), st)
       [] name = "sort" /\ args = <<>> ->
            Ret(Void, Store(v, ListOf(SortSeq(o.items, LAMBDA a, b : a[2] < b[2])), st))
       [] name \in {"moveNext", "movePrevious"} ->
            Ret(Void, Store(v, [o EXCEPT !.at = IF name = "moveNext" THEN @ + 1 ELSE @ - 1], st))
       [] OTHER -> Rejects(st)

Indexed(v, i, st) ==
  IF v[1] # "ref" THEN Throws(st)
  ELSE LET o == Deref(v, st)
       IN IF o.k = "map"
          THEN Ret(IF KeyAt(o.entries, i) = 0 THEN Null ELSE o.entries[KeyAt(o.entries, i)][2], st)
          ELSE IF i[2] \in 0 .. Len(o.items) - 1 THEN Ret(o.items[i[2] + 1], st) ELSE Throws(st)

IndexedPut(v, i, value, st) ==
  LET o == Deref(v, st)
  IN IF o.k = "map" THEN Store(v, MapOf(MapPut(o.entries, i, value)), st)
     ELSE IF i[2] \in 0 .. Len(o.items) - 1 THEN Store(v, [o EXCEPT !.items[i[2] + 1] = value], st)
     ELSE Throws(st).st

-----------------------------------------------------------------------------
(* Expressions.                                                            *)

\* The meaning calls itself through Run alone: for a value, a statement, a
\* block, or a call of a function value.
RECURSIVE Run(_, _, _), Loop(_, _, _, _)
Eval(x, st) == Run("expr", x, st)
Exec(stmt, st) == Run("stmt", stmt, st)
ExecBlock(stmts, st) == Run("block", stmts, st)
Invoke(params, body, args, st) == Run("invoke", [params |-> params, body |-> body, args |-> args], st)
ExecAll(stmts, st) ==
  FoldLeft(LAMBDA acc, stmt : IF acc.sig # "" THEN acc ELSE Exec(stmt, acc), st, stmts)

\* A block is a scope: what it declares hides the names outside until it ends.
\* It may not declare a name twice.
Declared(stmts) == {stmts[i].name : i \in {j \in DOMAIN stmts : stmts[j].s = "decl"}}
Leaving(own, before, after) ==
  [after EXCEPT !.env = [n \in (DOMAIN @ \ own) \cup (own \cap DOMAIN before.env) |->
                           IF n \in own THEN before.env[n] ELSE @[n]]]
BlockNode(stmts, st) ==
  IF \E i, j \in DOMAIN stmts : i < j /\ stmts[i].s = "decl" /\ stmts[j].s = "decl" /\ stmts[i].name = stmts[j].name
  THEN Rejects(st).st ELSE Leaving(Declared(stmts), st, ExecAll(stmts, st))

EvalSeq(xs, st) ==
  FoldLeft(LAMBDA acc, x : IF acc.st.sig # "" THEN acc
                           ELSE LET r == Eval(x, acc.st) IN [vs |-> Append(acc.vs, r.v), st |-> r.st],
           [vs |-> <<>>, st |-> st], xs)

\* A function value runs with the locals of its creator in sight.
InvokeNode(f, st) ==
  LET bound == [n \in ToSet(f.params) |-> f.args[CHOOSE i \in DOMAIN f.params : f.params[i] = n]]
      after == ExecBlock(f.body, [st EXCEPT !.env = bound @@ @, !.val = Void])
  IN IF after.sig \notin {"", "return"} THEN Ret(Void, after)
     ELSE Ret(after.val, [after EXCEPT !.sig = "", !.val = st.val,
                          !.env = [n \in DOMAIN st.env |-> IF n \in DOMAIN bound THEN st.env[n] ELSE @[n]]])

InvokeEach(f, items, st) ==
  FoldLeft(LAMBDA acc, item : IF acc.st.sig # "" THEN acc
                              ELSE LET r == Invoke(f[2], f[3], <<item>>, acc.st)
                                   IN [vs |-> Append(acc.vs, r.v), st |-> r.st],
           [vs |-> <<>>, st |-> st], items)

\* A top-level function starts with its parameters alone.
CallFunction(f, args, st) ==
  LET r == Invoke(f.params, f.body, args, [st EXCEPT !.env = <<>>, !.fuel = @ - 1])
  IN IF st.fuel = 0 THEN Throws(st) ELSE Ret(r.v, [r.st EXCEPT !.env = st.env, !.fuel = st.fuel])

\* The methods that take a function, by the items they keep.
HigherOrder(v, name, f, st) ==
  LET o == Deref(v, st)
      r == InvokeEach(f, o.items, st)
      Kept(b) == LET at == SetToSortSeq({i \in DOMAIN r.vs : IsTrue(r.vs[i]) = b}, LAMBDA i, j : i < j)
                 IN [i \in DOMAIN at |-> o.items[at[i]]]
  IN IF r.st.sig # "" THEN Throws(st)
     ELSE CASE name = "removeWhere" -> Ret(Void, Store(v, ListOf(Kept(FALSE)), r.st))
            [] name = "where" -> Alloc(ListOf(Kept(TRUE)), r.st)
            [] name = "any" -> Ret(Bool(Kept(TRUE) # <<>>), r.st)
            [] name = "firstWhere" -> Ret(IF Kept(TRUE) = <<>> THEN Null ELSE Kept(TRUE)[1], r.st)
            [] name = "forEach" -> Ret(Void, r.st)
            [] OTHER -> Rejects(st)

SortedBy(v, f, st) ==
  LET Before(a, b) == Invoke(f[2], f[3], <<a, b>>, st).v[2] < 0
  IN Ret(Void, Store(v, ListOf(SortSeq(Deref(v, st).items, Before)), st))

CallOn(v, name, args, st) ==
  CASE v[1] = "str" -> TextMethod(v[2], name, args, st)
    [] v[1] = "int" /\ name = "abs" -> Ret(Num(IF v[2] < 0 THEN -v[2] ELSE v[2]), st)
    [] v[1] # "ref" -> Throws(st)
    [] args # <<>> /\ Last(args)[1] = "fun" /\ name = "sort" -> SortedBy(v, Last(args), st)
    [] args # <<>> /\ Last(args)[1] = "fun" -> HigherOrder(v, name, Last(args), st)
    [] OTHER -> PlainMethod(v, name, args, st)

\* What no Dart body of the run declares belongs to the outside.
CallFree(name, args, st) ==
  CASE name \in {"math.max", "math.min"} -> Ret(Num(IF name = "math.max" THEN Max({args[1][2], args[2][2]}) ELSE Min({args[1][2], args[2][2]})), st)
    [] name = "syntaxBridgeFirstWhere" -> HigherOrder(args[1], "firstWhere", args[2], st)
    [] name \in DOMAIN st.env -> Invoke(st.env[name][2], st.env[name][3], args, st)
    [] name \in DOMAIN st.funs -> CallFunction(st.funs[name], args, st)
    [] name = "List.filled" ->
         IF args[1][2] < 0 THEN Throws(st) ELSE Alloc(ListOf([i \in 1 .. args[1][2] |-> args[2]]), st)
    [] name = "List.empty" -> Alloc(ListOf(<<>>), st)
    [] name = "List.of" -> Alloc(Deref(args[1], st), st)
    [] name = "utf8.encode" -> Alloc(ListOf([i \in DOMAIN Utf8(args[1][2]) |-> Num(Utf8(args[1][2])[i])]), st)
    [] name = "utf8.decode" ->
         LET bytes == [i \in DOMAIN Deref(args[1], st).items |-> Deref(args[1], st).items[i][2]]
         IN IF IsUtf8(bytes) THEN Ret(Text(Utf8Decoded(bytes)), st) ELSE Throws(st)
    [] name = "identityHashCode" -> Ret(Num(args[1][2]), st)
    [] name = "String.fromCharCode" -> Ret(Text(<<args[1][2]>>), st)
    [] name = "SyntaxBridgePair" -> Ret(<<"pair", args[1], args[2]>>, st)
    [] OTHER -> Ret(Num(0), [st EXCEPT !.out = Append(@, <<name, args>>)])

\* Locals, fields, elements and entries are what can be assigned to.
AssignTo(target, v, st) ==
  CASE target.e = "ref" -> IF target.name = "_" THEN st ELSE Put(target.name, v, st)
    [] target.e = "convert" -> Put(target.operand.name, v, st)
    [] target.e = "field" ->
         LET r == Eval(target.target, st)
         IN IF r.st.sig # "" THEN r.st ELSE IF r.v[1] # "ref" THEN Throws(r.st).st
            ELSE IF target.field = "length"
            THEN Store(r.v, ListOf(SubSeq(Deref(r.v, r.st).items, 1, v[2])), r.st)
            ELSE [r.st EXCEPT !.heap[r.v[2]].fields[target.field] = v]
    [] target.e \in {"index", "insert"} ->
         LET r == EvalSeq(<<target.target, target.index>>, st)
         IN IF r.st.sig # "" THEN r.st ELSE IF r.vs[1] = Null THEN Throws(r.st).st
            ELSE IndexedPut(r.vs[1], r.vs[2], v, r.st)
    [] OTHER -> Throws(st).st

\* What the children of a node are, in the order the text evaluates them.
Children(x) ==
  CASE x.e = "binary" -> <<x.lhs, x.rhs>>
    [] x.e \in {"unary", "convert", "is", "as"} -> <<x.operand>>
    [] x.e = "field" \/ x.e = "copy" \/ x.e = "bytelength" -> <<x.target>>
    [] x.e \in {"index", "byteat"} -> <<x.target, x.index>>
    [] x.e = "byteindexof" -> <<x.target, x.needle>> \o (IF x.from = NullLiteral THEN <<>> ELSE <<x.from>>)
    [] x.e = "list" -> x.items
    [] x.e = "tuple" -> x.values
    [] x.e = "construct" -> [i \in DOMAIN x.fields |-> x.fields[i][2]]
    [] x.e = "new" -> x.args
    [] x.e = "call" -> (IF x.target = NoTarget THEN <<>> ELSE <<x.target>>) \o x.args
    [] OTHER -> <<>>

\* A record knows its class and the classes that one derives from.
IsOfClass(v, ty, st) == v[1] = "ref" /\ Deref(v, st).k = "record" /\ ty.usr \in ToSet(Deref(v, st).cls)

\* T.syntaxBridgeCopyOf: the fields T knows; a record in a field is copied
\* the same way, a collection by List.of and its like, a pointer shared.
RECURSIVE CopyRecord(_, _, _)
CopyRecord(v, usr, st) ==
  LET fields == st.records[usr].fields
      Copied(acc, i) ==
        LET old == Deref(v, acc.st).fields[fields[i][1]]
            r == CASE fields[i][2].t = "record" -> CopyRecord(old, fields[i][2].usr, acc.st)
                   [] fields[i][2].t \in {"list", "set", "map", "bytes"} -> Alloc(Deref(old, acc.st), acc.st)
                   [] OTHER -> Ret(old, acc.st)
        IN [vs |-> (fields[i][1] :> r.v) @@ acc.vs, st |-> r.st]
      done == FoldLeft(Copied, [vs |-> <<>>, st |-> st], [i \in DOMAIN fields |-> i])
  IN Alloc(RecordOf(<<usr>> \o st.records[usr].bases, done.vs), done.st)

\* on <type> catch: which thrown values a handler takes.
ValueIs(v, ty, st) ==
  CASE ty = TInt -> v[1] = "int"
    [] ty = TStr -> v[1] = "str"
    [] ty.t = "record" -> IsOfClass(v, ty, st)
    [] OTHER -> FALSE

Apply(x, vs, st) ==
  CASE x.e = "binary" -> BinaryOperator(x.op, x.ty, vs[1], vs[2], st)
    [] x.e = "unary" /\ x.op = "!" -> Ret(Bool(~IsTrue(vs[1])), st)
    [] x.e = "unary" /\ x.op = "-" -> Ret(<<vs[1][1], -vs[1][2]>>, st)
    [] x.e = "unary" ->
         LET one == IF vs[1][1] = "dbl" THEN 4 ELSE 1
             moved == <<vs[1][1], vs[1][2] + (IF x.op \in {"pre++", "post++"} THEN one ELSE -one)>>
         IN Ret(IF x.op \in {"pre++", "pre--"} THEN moved ELSE vs[1], AssignTo(x.operand, moved, st))
    [] x.e = "is" -> Ret(Bool(IsOfClass(vs[1], x.of, st)), st)
    [] x.e = "as" -> IF (vs[1] = Null /\ IsNullable(x.ty)) \/ IsOfClass(vs[1], Unwrap(x.ty), st)
                     THEN Ret(vs[1], st) ELSE Throws(st)
    [] x.e = "convert" -> Converted(x.operand.ty, x.ty, vs[1], st)
    [] x.e = "field" -> IF vs[1] = Null /\ IsNullable(x.ty) THEN Ret(Null, st) ELSE FieldOf(vs[1], x.field, st)
    [] x.e = "index" -> Indexed(vs[1], vs[2], st)
    [] x.e = "bytelength" -> Ret(Num(Len(Utf8(vs[1][2]))), st)
    [] x.e = "byteat" -> LET bytes == Utf8(vs[1][2]) IN
         IF vs[2][2] \in 0 .. Len(bytes) - 1 THEN Ret(Num(bytes[vs[2][2] + 1]), st) ELSE Throws(st)
    [] x.e = "byteindexof" ->
         LET needle == IF vs[2][1] = "int" THEN <<vs[2][2]>> ELSE Utf8(vs[2][2])
         IN Ret(Num(ByteIndexOf(Utf8(vs[1][2]), needle, IF Len(vs) = 3 THEN vs[3][2] ELSE 0)), st)
    [] x.e = "list" -> Alloc(ListOf(vs), st)
    [] x.e = "tuple" -> Ret(<<"tuple", vs>>, st)
    [] x.e = "construct" ->
         Alloc(RecordOf(<<x.of.usr>> \o st.records[x.of.usr].bases,
                        [f \in {x.fields[i][1] : i \in DOMAIN x.fields} |->
                                 vs[CHOOSE i \in DOMAIN x.fields : x.fields[i][1] = f]]), st)
    [] x.e = "copy" -> IF vs[1] = Null THEN Throws(st) ELSE CopyRecord(vs[1], x.of.usr, st)
    [] x.e = "new" /\ x.of = "ListCursor" ->
         IF vs = <<>> THEN Throws(st) ELSE Alloc(CursorOn(vs[1], vs[2][2]), st)
    [] x.e = "call" /\ x.target = NoTarget -> CallFree(x.name, vs, st)
    [] x.e = "call" -> CallOn(vs[1], x.name, Tail(vs), st)
    [] OTHER -> Refuses(st)

\* && and ||, the two arms of a ternary and a default that may not be needed
\* are the parts of an expression that do not always run.
EvalNode(x, st) ==
  CASE x.e = "int" -> Ret(Num(x.v), st)
    [] x.e = "double" -> Ret(Quarters(x.v), st)
    [] x.e = "bool" -> Ret(Bool(x.v), st)
    [] x.e = "str" -> Ret(Text(x.v), st)
    [] x.e = "null" -> Ret(Null, st)
    [] x.e = "this" -> Ret(st.env["this"], st)
    [] x.e = "ref" -> IF x.name \in DOMAIN st.env THEN Ret(st.env[x.name], st) ELSE Throws(st)
    [] x.e = "lambda" -> Ret(<<"fun", x.params, x.body>>, st)
    [] x.e = "binary" /\ x.op \in {"&&", "||"} ->
         LET l == Eval(x.lhs, st)
         IN IF l.st.sig # "" \/ IsTrue(l.v) = (x.op = "||") THEN l ELSE Eval(x.rhs, l.st)
    [] x.e = "conditional" ->
         LET c == Eval(x.cond, st)
         IN IF c.st.sig # "" THEN c ELSE Eval(IF IsTrue(c.v) THEN x.then ELSE x.else, c.st)
    [] x.e = "insert" ->
         LET r == EvalSeq(<<x.target, x.index>>, st)
             found == Indexed(r.vs[1], r.vs[2], r.st)
             new == Eval(x.default, r.st)
         IN IF r.st.sig # "" THEN Throws(r.st)
            ELSE IF found.v # Null THEN found
            ELSE Ret(new.v, IndexedPut(r.vs[1], r.vs[2], new.v, new.st))
    [] x.e = "assign" ->
         LET r == Eval(x.value, st)
         IN IF r.st.sig # "" THEN r ELSE Ret(r.v, AssignTo(x.target, r.v, r.st))
    [] OTHER ->
         LET r == EvalSeq(Children(x), st)
         IN IF r.st.sig # "" THEN Ret(Void, r.st) ELSE Apply(x, r.vs, r.st)

-----------------------------------------------------------------------------
(* Statements.                                                             *)

\* What a loop does with the signal its body left.
AfterBody(st) == IF st.sig = "continue" THEN [st EXCEPT !.sig = ""] ELSE st
LeftLoop(st) == IF st.sig = "break" THEN [st EXCEPT !.sig = ""] ELSE st

Loop(cond, step, body, st) ==
  LET c == IF cond = NoTarget THEN Ret(Bool(TRUE), st) ELSE Eval(cond, st)
      once == AfterBody(ExecBlock(body, c.st))
      next == IF once.sig # "" THEN once ELSE ExecAll(step, once)
  IN CASE st.fuel = 0 -> [st EXCEPT !.sig = "stuck"]
       [] c.st.sig = "" /\ c.v[1] # "bool" -> Rejects(c.st).st
       [] c.st.sig # "" \/ ~IsTrue(c.v) -> c.st
       [] next.sig # "" -> LeftLoop(next)
       [] OTHER -> Loop(cond, step, body, [next EXCEPT !.fuel = @ - 1])

\* for-in over what the iterable held; with a write-back the loop counts, and
\* a finally puts the variable back into its element.
ForEachItem(stmt, st) ==
  LET it == Eval(stmt.iterable, st)
      items == Deref(it.v, it.st).items
      Back(i, s) == IF stmt.writeBack THEN IndexedPut(it.v, Num(i - 1), s.env[stmt.name], s) ELSE s
      Body(s, i) ==
        IF s.sig # "" THEN s
        ELSE AfterBody(Back(i, ExecBlock(stmt.body, Put(stmt.name, items[i], s))))
  IN IF it.st.sig # "" THEN it.st ELSE LeftLoop(FoldLeft(Body, it.st, [i \in DOMAIN items |-> i]))

\* The first clause with the value, else the default, which is printed last.
\* An empty clause falls into the next one, and continue <label> jumps.
SwitchOn(stmt, v, st) ==
  LET clauses == stmt.cases \o [i \in DOMAIN stmt.default |-> SwitchCase(<<>>, stmt.default[i], "")]
      hit == SelectInSeq(clauses, LAMBDA c : \E i \in DOMAIN c.values : Eval(c.values[i], st).v = v)
      first == IF hit = 0 /\ stmt.default # <<>> THEN Len(clauses) ELSE hit
      RECURSIVE From(_, _)
      From(i, s) ==
        IF i \notin DOMAIN clauses THEN s
        ELSE IF clauses[i].body = <<>> THEN From(i + 1, s)
        ELSE LET after == ExecBlock(clauses[i].body, s)
             IN IF after.sig = "label"
                THEN From(SelectInSeq(clauses, LAMBDA c : c.label = after.label), [after EXCEPT !.sig = ""])
                ELSE after
  IN LeftLoop(From(first, st))

\* A tuple is taken apart by a pattern, or one element after the other.
AssignTuple(targets, tuple, st) ==
  FoldLeft(LAMBDA s, i : IF s.sig # "" THEN s ELSE AssignTo(targets[i], tuple[2][i], s),
           st, [i \in DOMAIN targets |-> i])

ExecWith(x, st, Then(_, _)) == LET r == Eval(x, st) IN IF r.st.sig # "" THEN r.st ELSE Then(r.v, r.st)

ExecNode(stmt, st) ==
  CASE stmt.s = "return" -> IF stmt.value = NoTarget THEN [st EXCEPT !.sig = "return"]
         ELSE ExecWith(stmt.value, st, LAMBDA v, s : [s EXCEPT !.sig = "return", !.val = v])
    [] stmt.s = "decl" /\ stmt.init = NoTarget ->
         IF IsNullable(stmt.ty) THEN Put(stmt.name, Null, st)
         ELSE [st EXCEPT !.env = [n \in DOMAIN @ \ {stmt.name} |-> @[n]]]
    [] stmt.s = "decl" -> ExecWith(stmt.init, st, LAMBDA v, s : Put(stmt.name, v, s))
    [] stmt.s = "assign" -> ExecWith(stmt.value, st, LAMBDA v, s : Put(stmt.name, v, s))
    [] stmt.s = "fieldassign" ->
         ExecWith(stmt.value, st, LAMBDA v, s : AssignTo(FieldAccess(stmt.target, stmt.field, NoType), v, s))
    [] stmt.s = "exprassign" -> ExecWith(stmt.value, st, LAMBDA v, s : AssignTo(stmt.target, v, s))
    [] stmt.s = "if" ->
         ExecWith(stmt.cond, st, LAMBDA v, s : IF v[1] # "bool" THEN Rejects(s).st
                                               ELSE ExecBlock(IF IsTrue(v) THEN stmt.then ELSE stmt.else, s))
    [] stmt.s = "while" -> Loop(stmt.cond, <<>>, stmt.body, st)
    [] stmt.s = "dowhile" ->
         LET once == AfterBody(ExecBlock(stmt.body, st))
         IN IF once.sig # "" THEN LeftLoop(once) ELSE Loop(stmt.cond, <<>>, stmt.body, once)
    [] stmt.s = "for" ->
         LET first == ExecAll(stmt.init, st)
             looped == IF first.sig # "" THEN first ELSE Loop(stmt.cond, stmt.incr, stmt.body, first)
         IN Leaving(Declared(stmt.init), st, looped)
    [] stmt.s = "foreach" -> Leaving({stmt.name}, st, ForEachItem(stmt, st))
    [] stmt.s \in {"break", "continue"} -> [st EXCEPT !.sig = stmt.s]
    [] stmt.s = "continuelabel" -> [st EXCEPT !.sig = "label", !.label = stmt.label]
    [] stmt.s = "expr" -> ExecWith(stmt.expr, st, LAMBDA v, s : s)
    [] stmt.s = "throw" -> ExecWith(stmt.value, st, LAMBDA v, s : [s EXCEPT !.sig = "throw", !.val = v])
    [] stmt.s = "try" ->
         LET tried == ExecBlock(stmt.body, st)
         IN IF tried.sig = "throw" /\ ValueIs(tried.val, stmt.ty, tried)
            THEN Leaving({stmt.name}, tried,
                         ExecBlock(stmt.handler, Put(stmt.name, tried.val, [tried EXCEPT !.sig = "", !.val = Void])))
            ELSE tried
    [] stmt.s = "finally" ->
         LET tried == ExecBlock(stmt.body, st)
             done == ExecBlock(stmt.finally, [tried EXCEPT !.sig = ""])
         IN IF done.sig # "" THEN done ELSE [done EXCEPT !.sig = tried.sig, !.val = tried.val]
    [] stmt.s = "tuple" -> ExecWith(stmt.value, st, LAMBDA v, s : AssignTuple(stmt.targets, v, s))
    [] stmt.s = "switch" -> ExecWith(stmt.value, st, LAMBDA v, s : SwitchOn(stmt, v, s))
    [] OTHER -> Refuses(st).st

Run(as, node, st) ==
  CASE as = "expr" -> EvalNode(node, st)
    [] as = "stmt" -> ExecNode(node, st)
    [] as = "block" -> BlockNode(node, st)
    [] as = "invoke" -> InvokeNode(node, st)
===============================================================================
