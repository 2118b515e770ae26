------------------------------- MODULE Containers -------------------------------
(***************************************************************************)
(* A C++ container and its translation side by side: each step is one call *)
(* a program may make on the object, carried out by the C++ library on one *)
(* side, and on the other by the Dart text StdlibBridge lowers it to.      *)
(*                                                                         *)
(* The C++ side is a sequence (vector, stack, string), a set of elements   *)
(* or a function (map); a call whose behaviour C++ leaves undefined is     *)
(* never made.  The object may be of a class derived from the container.   *)
(***************************************************************************)
EXTENDS StdlibBridge, DartRun

CONSTANTS Items,       \* the integers stored
          MaxLength,   \* bound: elements of a sequence
          Texts        \* the strings, as code points

VARIABLES object,   \* [tmpl, derived]: the class of the object
          native,   \* its value in C++
          run,      \* the state of the Dart program, whose local c holds it
          pending,  \* the call under way: the Dart for it, and what C++ made of it
          said      \* what the last call answered: <<C++ answer, Dart answer>>
containerVars == <<object, native, run, pending, said>>

Fails == <<"throw">>
Refused == <<"refused">>
Nothing == <<"void">>

-----------------------------------------------------------------------------
(* The object as an expression of the C++ program, before any lowering.    *)

ElementType == TInt
ContainerType(tmpl) ==
  CASE tmpl \in {"vector", "stack"} -> TList(TInt)
    [] tmpl = "set" -> TSet(TInt)
    [] tmpl = "map" -> TMap(TInt, TInt)
    [] tmpl = "basic_string" -> TStr

Receiver == Ref("c", IF object.derived THEN TRecord("Own") ELSE ContainerType(object.tmpl))
Over(m) == [tmpl |-> object.tmpl, m |-> m, recv |-> Receiver, args |-> <<>>, ty |-> TInt, elem |-> TInt]
Method(m, args, ty) == [Over(m) EXCEPT !.args = args, !.ty = ty]
Whole(begin, end) == <<Over(begin), Over(end)>>

\* x |-> x op k, as lowered from a C++ lambda.
Test(op, k) == Lambda(<<"x">>, <<Return(Binary(op, Ref("x", TInt), IntLiteral(k), TBool))>>, TBool)
Ordered(op) == Lambda(<<"a", "b">>, <<Return(Binary(op, Ref("a", TInt), Ref("b", TInt), TBool))>>, TBool)

-----------------------------------------------------------------------------
(* One call on both sides.                                                 *)

Object(st) == IF object.derived THEN Deref(st.heap[1].fields[BaseField(object.tmpl)[1]], st)
              ELSE Deref(st.env["c"], st)

\* The Dart object read back as a C++ value.
Contents(st) ==
  CASE object.tmpl = "basic_string" ->
         (IF object.derived THEN st.heap[1].fields["syntaxBridgeStringBase"] ELSE st.env["c"])[2]
    [] object.tmpl = "map" ->
         LET entries == Object(st).entries
         IN [k \in {entries[i][1][2] : i \in DOMAIN entries} |-> entries[KeyAt(entries, Num(k))][2][2]]
    [] object.tmpl = "set" -> {Object(st).items[i][2] : i \in DOMAIN Object(st).items}
    [] OTHER -> [i \in DOMAIN Object(st).items |-> Object(st).items[i][2]]

Ended(st, answer) ==
  CASE st.sig = "throw" -> Fails [] st.sig \in {"refused", "rejected"} -> <<st.sig>> [] OTHER -> answer
NoCall == <<>>
Calls(next) == pending = NoCall /\ pending' = next /\ UNCHANGED <<object, native, run, said>>
Does(node, answer, value) == Calls([code |-> node, effects |-> FALSE, answer |-> answer, value |-> value])
\* Statements: what they did to the outside is the answer.
Runs(stmts, effects, value) ==
  stmts # <<>> /\ Calls([code |-> stmts, effects |-> TRUE, answer |-> <<"effects", effects>>, value |-> value])

\* The Dart program carries the call out.  What it refuses, C++ had no time to do.
Answered(r) ==
  LET answer == Ended(r.st, r.v)
      answers == answer \notin {Fails, Refused}
  IN /\ native' = IF answers THEN pending.value ELSE native
     /\ run' = [r.st EXCEPT !.sig = "", !.out = <<>>, !.heap = SubSeq(@, 1, 2), !.env = [n \in {"c"} |-> @[n]]]
     /\ said' = <<pending.answer, IF pending.answer = Nothing /\ answers THEN Nothing ELSE answer>>
Effects(after) == Ret(<<"effects", after.out>>, after)
CarryOut ==
  /\ pending # NoCall
  /\ Answered(IF pending.effects THEN Effects(ExecAll(pending.code, run)) ELSE Eval(pending.code, run))
  /\ pending' = NoCall
  /\ UNCHANGED object

Seen(items) == [i \in DOMAIN items |-> <<"see", <<Num(items[i])>>>>]
See(x) == ExprStmt(Call(NoTarget, "see", <<x>>, TVoid))

-----------------------------------------------------------------------------
(* What a program may ask of the object.                                   *)

Is(tmpls) == object.tmpl \in tmpls

AskSize ==
  \E m \in {"size", "empty"} :
    LET n == IF Is({"set"}) THEN Cardinality(native)
             ELSE IF Is({"map"}) THEN Cardinality(DOMAIN native)
             ELSE IF Is({"basic_string"}) THEN Len(Utf8(native)) ELSE Len(native)
    IN Does(LowerMethod(Method(m, <<>>, TInt)), IF m = "size" THEN Num(n) ELSE Bool(n = 0), native)

AddItem ==
  /\ Is({"vector", "stack"}) /\ Len(native) < MaxLength
  /\ \E v \in Items :
       Does(LowerMethod(Method(IF Is({"stack"}) THEN "push" ELSE "push_back", <<IntLiteral(v)>>, TVoid)),
            Nothing, Append(native, v))

RemoveItem ==
  \/ /\ Is({"vector"})
     /\ Does(LowerMethod(Method("clear", <<>>, TVoid)), Nothing, <<>>)
  \/ /\ Is({"stack"}) /\ native # <<>>
     /\ Does(LowerMethod(Method("pop", <<>>, TVoid)), Nothing, Front(native))
  \/ /\ Is({"vector"})
     /\ \E k \in Items :
          LET all == Whole("begin", "end")
              removed == [Over("remove_if") EXCEPT !.args = all \o <<Test("==", k)>>]
          IN Does(LowerMethod([Over("erase") EXCEPT !.args = <<removed, Over("end")>>]), Nothing,
                  SelectSeq(native, LAMBDA x : x # k))

ReadItem ==
  \/ /\ Is({"vector"})
     /\ \E i \in 0 .. MaxLength :
          Does(LowerMethod(Method("at", <<IntLiteral(i)>>, TInt)),
               IF i < Len(native) THEN Num(native[i + 1]) ELSE Fails, native)
  \/ /\ Is({"vector", "stack"}) /\ native # <<>>
     /\ \E m \in IF Is({"stack"}) THEN {"top"} ELSE {"front", "back"} :
          Does(LowerMethod(Method(m, <<>>, TInt)),
               Num(IF m = "front" THEN Head(native) ELSE Last(native)), native)
  \/ /\ Is({"map"})
     /\ \E k \in Items :
          Does(LowerMethod(Method("at", <<IntLiteral(k)>>, TInt)),
               IF k \in DOMAIN native THEN Num(native[k]) ELSE Fails, native)
  \/ /\ Is({"map"})
     /\ \E k \in Items :
          Does(LowerMethod(Method("[]", <<IntLiteral(k)>>, TInt)),
               IF k \in DOMAIN native THEN Num(native[k]) ELSE Num(0),
               IF k \in DOMAIN native THEN native ELSE (k :> 0) @@ native)

HasItem ==
  \E k \in Items :
    LET key == <<IntLiteral(k)>>
        there == k \in (IF Is({"vector"}) THEN ToSet(native) ELSE IF Is({"map"}) THEN DOMAIN native ELSE native)
        find == [Over("find") EXCEPT !.args = IF Is({"vector"}) THEN Whole("begin", "end") \o key ELSE key]
        findIf == [Over("find_if") EXCEPT !.args = Whole("begin", "end") \o <<Test("==", k)>>]
    IN \/ /\ Is({"set", "map"})
          /\ \E m \in {"contains", "count"} :
               Does(LowerMethod(Method(m, key, TInt)),
                    IF m = "contains" THEN Bool(there) ELSE Num(IF there THEN 1 ELSE 0), native)
       \/ /\ Is({"set", "map"}) /\ ~object.derived
          /\ Does(LowerMemberFind(TRUE, find, Over("end")), Bool(there), native)
       \/ /\ Is({"vector"}) /\ ~object.derived
          /\ \E f \in {find, findIf}, negated \in BOOLEAN :
               Does(LowerFindContains(negated, f, Over("end")), Bool(there = negated), native)

\* Whole-container idioms of a vector.
Traverse ==
  /\ Is({"vector"})
  /\ \/ \E backward \in BOOLEAN, negated \in BOOLEAN :
          LET ends == IF backward THEN Whole("rbegin", "rend") ELSE Whole("cbegin", "cend")
          IN Runs(LowerIteratorLoop([name |-> "it", init |-> ends[1], incr |-> <<"++", "it">>,
                    cond |-> [lhs |-> "it", op |-> IF negated THEN "==" ELSE "!=", negated |-> negated,
                              rhs |-> ends[2]],
                    body |-> <<See(Ref("it", TInt))>>]),
                  Seen(IF backward THEN Reverse(native) ELSE native), native)
     \/ \E op \in {"<", ">"}, k \in Items :
          LET Passes(x) == IF op = "<" THEN x < k ELSE x > k
              hits == SelectSeq(native, Passes)
              find == [Over("find_if") EXCEPT !.args = Whole("begin", "end") \o <<Test(op, k)>>]
          IN \/ Runs(LowerFindGuard("it", find,
                       [lhs |-> "it", op |-> "!=", negated |-> FALSE, rhs |-> Over("end")],
                       <<See(Ref("it", TInt))>>, <<See(IntLiteral(0))>>),
                     Seen(IF hits = <<>> THEN <<0>> ELSE <<hits[1]>>), native)
             \/ Does(LowerAlgorithm([Over("count_if") EXCEPT !.args = Whole("begin", "end") \o <<Test(op, k)>>]),
                     Num(Len(hits)), native)

SortItems ==
  /\ Is({"vector"}) /\ ~object.derived
  /\ \/ Does(LowerAlgorithm([Over("sort") EXCEPT !.args = Whole("begin", "end")]), Nothing,
             SortSeq(native, <))
     \/ \E op \in {"<", ">"} :
          Does(LowerAlgorithm([Over("sort") EXCEPT !.args = Whole("begin", "end") \o <<Ordered(op)>>]),
               Nothing, IF op = "<" THEN SortSeq(native, <) ELSE SortSeq(native, >))

\* A map is searched by find(), and its found value read through the iterator.
LookUp ==
  /\ Is({"map", "set"})
  /\ \E k \in Items :
       LET there == k \in (IF Is({"map"}) THEN DOMAIN native ELSE native)
           found == IF Is({"map"}) /\ there THEN native[k] ELSE k
       IN Runs(LowerFindGuard("it", [Over("find") EXCEPT !.args = <<IntLiteral(k)>>],
                 [lhs |-> "it", op |-> "==", negated |-> TRUE, rhs |-> Over("end")],
                 <<See(Ref("it", TInt))>>, <<See(IntLiteral(0))>>),
               Seen(IF there THEN <<found>> ELSE <<0>>), native)

\* Positions into a vector: moved, subtracted, ordered and dereferenced.
MoveCursor ==
  /\ Is({"vector"})
  /\ LET At(x) == LowerMethod(Over(x))
         Step(recv, m, args, ty) == LowerMethod([Over(m) EXCEPT !.tmpl = "iterator", !.recv = recv,
                                                                !.args = args, !.ty = ty])
         OnCursor(x, e) == IF x.e = "new" THEN [x EXCEPT !.ty = TListCursor(TInt)] ELSE x
         begin == OnCursor(At("begin"), 0)
         end == OnCursor(At("end"), 0)
     IN \/ \E i \in 0 .. MaxLength - 1 :
             /\ i < Len(native)
             /\ LET moved == Step(begin, "+", <<IntLiteral(i)>>, TInt)
                IN Does(LowerIteratorOperator([Over("*") EXCEPT !.recv = moved, !.ty = TInt] @@ [loops |-> <<>>]),
                        Num(native[i + 1]), native)
        \/ Does(Step(end, "-", <<begin>>, TInt), Num(Len(native)), native)
        \/ Does(Step(begin, "<", <<end>>, TBool), Bool(0 < Len(native)), native)

AskText ==
  /\ Is({"basic_string"})
  /\ LET bytes == Utf8(native)
         Cmp(t) == IF native = t THEN 0 ELSE IF SeqLess(bytes, Utf8(t)) THEN -1 ELSE 1
         plain == Len(bytes) = Len(native)
     IN \/ \E t \in Texts :
             \/ Does(LowerMethod(Method("find", <<StringLiteral(t)>>, TInt)), Num(ByteIndexOf(bytes, Utf8(t), 0)), native)
             \/ \E from \in 0 .. 2 :
                  Does(LowerMethod(Method("find", <<StringLiteral(t), IntLiteral(from)>>, TInt)),
                       Num(ByteIndexOf(bytes, Utf8(t), from)), native)
             \/ Does(LowerMethod(Method("compare", <<StringLiteral(t)>>, TInt)), Num(Cmp(t)), native)
             \/ Does(LowerStringOperator([m |-> "==", ty |-> TBool,
                       args |-> <<IF object.derived THEN OnBase("basic_string", Receiver) ELSE Receiver,
                                  StringLiteral(t)>>]), Bool(native = t), native)
             \/ Does(LowerStringOperator([m |-> "+", ty |-> TStr,
                       args |-> <<OnBase("basic_string", Receiver), StringLiteral(t)>>]),
                     Text(native \o t), native)
        \/ \E i \in 0 .. Len(bytes) - 1, m \in {"at", "[]"} :
             Does(LowerMethod(Method(m, <<IntLiteral(i)>>, TInt)), Num(bytes[i + 1]), native)
        \/ /\ plain
           /\ \E i \in 0 .. Len(native) :
                \/ Does(LowerMethod(Method("substr", <<IntLiteral(i)>>, TStr)),
                        Text(SubSeq(native, i + 1, Len(native))), native)
                \/ \E n \in 0 .. Len(native) - i :
                     Does(LowerMethod(Method("substr", <<IntLiteral(i), IntLiteral(n)>>, TStr)),
                          Text(SubSeq(native, i + 1, i + n)), native)
        \/ /\ plain /\ native # <<>>
           /\ \E m \in {"front", "back"} :
                Does(LowerMethod(Method(m, <<>>, TInt)), Num(IF m = "front" THEN Head(native) ELSE Last(native)), native)

\* A method the table does not know.
AskOther == Does(LowerMethod(Method("resize", <<IntLiteral(0)>>, TInt)), Fails, native)

-----------------------------------------------------------------------------
InitialValues(tmpl) ==
  CASE tmpl \in {"vector", "stack"} -> {<<>>}
    [] tmpl = "set" -> SUBSET Items
    [] tmpl = "map" -> {<<>>}
    [] tmpl = "basic_string" -> Texts

DartObject(tmpl, value) ==
  CASE tmpl = "set" -> SetOf([i \in 1 .. Cardinality(value) |-> Num(SetToSeq(value)[i])])
    [] tmpl = "map" -> MapOf(<<>>)
    [] OTHER -> ListOf(<<>>)

ContainersInit ==
  /\ object \in [tmpl : {"vector", "stack", "set", "map", "basic_string"}, derived : BOOLEAN]
  /\ native \in InitialValues(object.tmpl)
  /\ LET base == BaseField(object.tmpl)[1]
         text == Text(native)
         held == IF Is({"basic_string"}) THEN text ELSE Obj(2)
         start == Start(<<>>, <<>>, 9)
     IN run = [start EXCEPT
                 !.heap = <<IF object.derived THEN RecordOf("Own", (base :> held)) ELSE ListOf(<<>>),
                            IF Is({"basic_string"}) THEN ListOf(<<>>) ELSE DartObject(object.tmpl, native)>>,
                 !.env = ("c" :> IF object.derived THEN Obj(1) ELSE held)]
  /\ pending = NoCall /\ said = <<Nothing, Nothing>>

\* No object at all: the state while something else is examined.
ContainersIdle ==
  /\ object = [tmpl |-> "none", derived |-> FALSE] /\ native = <<>>
  /\ run = Start(<<>>, <<>>, 0) /\ pending = NoCall /\ said = <<Nothing, Nothing>>

ContainersNext ==
  /\ object.tmpl # "none"
  /\ \/ AskSize \/ AddItem \/ RemoveItem \/ ReadItem \/ HasItem \/ Traverse \/ SortItems
     \/ LookUp \/ MoveCursor \/ AskText \/ AskOther \/ CarryOut

-----------------------------------------------------------------------------
\* Whatever a program does with a C++ container, each call lower_stdlib_* and
\* its idioms translate answers in Dart what the C++ library answers, or it is
\* refused: it never answers something else, and it never throws where C++
\* answers.
SameAnswer == said[2] \in {said[1], Refused}

\* However long the sequence of translated calls, the Dart object (or the base
\* field of the object, when its class derives from the container) holds what
\* the C++ object holds: a wrong write shows in a later call, not in its own.
SameContents == object.tmpl # "none" => Contents(run) = native
================================================================================
