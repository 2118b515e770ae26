----------------------------- MODULE StdlibBridge -----------------------------
(***************************************************************************)
(* The calls on C++ standard-library objects and their Dart translation    *)
(* (crates/server/src/lower/cpp.rs, lower_stdlib_* and their idioms).      *)
(*                                                                         *)
(* A call cursor is a record: the template of the class that owns the      *)
(* method, its name, the receiver and the arguments, already lowered, and  *)
(* the type libclang gives the whole call.  A begin() or end() argument    *)
(* is a call record of its own.  What the table does not know becomes an   *)
(* UnsupportedTyped node, whose Dart text throws: the translation may      *)
(* refuse a call, but never answer it wrongly.                             *)
(***************************************************************************)
EXTENDS IR, SequencesExt

\* The method name of a call the bridge leaves to the rest of the lowering.
NotBridged == [e |-> "notbridged", ty |-> NoType]

OutputStream == TRecord("OutputStream")
InputStream == TRecord("InputStream")
Regex == TRecord("Regex")
RegexMatch == TRecord("RegexMatch")
BridgedRecords == {OutputStream, InputStream, Regex, RegexMatch}

Sequences3 == {"vector", "list", "deque"}
Sequences4 == Sequences3 \cup {"array"}
Sets == {"set", "unordered_set"}
Maps == {"map", "unordered_map"}
Pointers == {"optional", "unique_ptr", "shared_ptr", "weak_ptr"}

LengthOf(target) == FieldAccess(target, "length", TInt)
\* Slip: the length for the last index.
LengthAsIndex(target) == LengthOf(target)
LastIndex(target) == Binary("-", LengthOf(target), IntLiteral(1), TInt)

\* A class derived from a library container keeps the container in a field.
IsOwnRecord(ty) == Unwrap(ty).t = "record" /\ Unwrap(ty) \notin BridgedRecords

BaseField(tmpl) ==
  CASE tmpl = "basic_string" -> <<"syntaxBridgeStringBase", TStr>>
    [] tmpl \in Sequences3 \cup {"stack"} -> <<"syntaxBridgeListBase", TList(TInt)>>
    [] tmpl \in Sets -> <<"syntaxBridgeSetBase", TSet(TInt)>>
    [] tmpl \in Maps -> <<"syntaxBridgeMapBase", TMap(TInt, TInt)>>
    [] OTHER -> <<"syntaxBridgeLibraryBase", TVoid>>

OnBase(tmpl, target) ==
  IF ~IsOwnRecord(target.ty) THEN target
  ELSE LET base == BaseField(tmpl)
       IN FieldAccess(target, base[1],
                      IF IsNullable(target.ty) THEN TNullable(base[2]) ELSE base[2])

\* Only the two kinds of expression that carry the map's own type tell the
\* type of its values.
MapValue(target) ==
  IF target.e \in {"ref", "field"} /\ target.ty.t = "map" THEN target.ty.val ELSE NoType

DefaultScalar(ty) ==
  CASE ty.t \in {"int", "double"} -> IntLiteral(0)
    [] ty.t = "bool" -> BoolLiteral(FALSE)
    [] ty.t = "str" -> StringLiteral(<<>>)
    [] ty.t \in {"list", "set", "map"} ->
         Call(NoTarget, [list |-> "List.empty", set |-> "Set.empty", map |-> "Map"][ty.t], <<>>, ty)
    [] ty.t = "bytes" -> Call(NoTarget, "Uint8List", <<IntLiteral(0)>>, ty)
    [] IsNullable(ty) -> NullLiteral
    [] OTHER -> UnsupportedTyped(ty)

-----------------------------------------------------------------------------
(* The method table, in the order of the code.                             *)

\* operator[], whose receiver is a plain operand.
LowerSubscript(c) ==
  LET target == OnBase(IF c.tmpl \in {"vector", "deque", "map", "basic_string"}
                       THEN c.tmpl ELSE "other", c.recv)
      i == c.args[1]
  IN CASE c.tmpl = "basic_string" -> StringByteAt(target, i, c.ty)
       [] c.tmpl = "map" ->
            IF MapValue(target) = NoType THEN UnsupportedTyped(c.ty)
            ELSE MapIndexOrInsert(target, i, DefaultScalar(MapValue(target)), MapValue(target))
       [] c.tmpl = "match_results" -> Call(target, "group", <<i>>, TNullable(TStr))
       [] c.tmpl \in {"vector", "deque"} -> Index(target, i, c.elem)
       [] OTHER -> UnsupportedTyped(c.ty)

\* An insertion chain that ends in endl: one print of the pieces glued
\* together, when it starts at cout or cerr and every piece prints alike in
\* the two languages.
PrintsAlike(piece) == piece.ty.t \in {"str", "int", "double"}

LowerInsertion(c) ==
  LET chain == c.chain
      Glue(a, b) == Binary("+", a, b, TStr)
  IN IF chain.ends = "endl" /\ chain.stream \in {"cout", "cerr"} /\ chain.pieces # <<>>
        /\ \A i \in DOMAIN chain.pieces : PrintsAlike(chain.pieces[i])
     THEN LET texts == [i \in DOMAIN chain.pieces |->
                          IF chain.pieces[i].ty = TStr THEN chain.pieces[i]
                          ELSE Call(chain.pieces[i], "toString", <<>>, TStr)]
              message == FoldLeft(Glue, texts[1], Tail(texts))
          IN IF chain.stream = "cout" THEN Call(NoTarget, "print", <<message>>, TVoid)
             ELSE Call(Ref("stderr", TVoid), "writeln", <<message>>, TVoid)
     ELSE CASE chain.ends = "endl" -> Call(c.recv, "writeln", <<>>, OutputStream)
            [] chain.ends = "flush" -> Call(c.recv, "flush", <<>>, OutputStream)
            [] OTHER -> Call(c.recv, "write", <<c.args[1]>>, OutputStream)

\* Streams, regular expressions and their matches.
LowerStreamMethod(c, target) ==
  LET first == c.args = <<>> \/ c.args[1] = IntLiteral(0)
  IN CASE c.tmpl \in {"basic_stringstream", "basic_ostringstream"} /\ c.m = "str" /\ c.args = <<>>
            -> Call(target, "str", <<>>, TStr)
       [] c.tmpl = "basic_ostream" /\ c.m = "flush" -> Call(target, "flush", <<>>, TVoid)
       [] c.tmpl = "basic_istream" /\ c.m = "eof" -> FieldAccess(target, "eof", TBool)
       [] c.tmpl = "basic_istream" /\ c.m = "get" /\ c.args = <<>>
            -> Call(target, "readByte", <<>>, TInt)
       [] c.tmpl = "match_results" /\ c.m = "size"
            -> Binary("+", FieldAccess(target, "groupCount", TInt), IntLiteral(1), TInt)
       [] c.tmpl = "match_results" /\ c.m = "empty" -> Binary("==", target, NullLiteral, TBool)
       [] c.tmpl = "match_results" /\ c.m = "ready" -> Binary("!=", target, NullLiteral, TBool)
       [] c.tmpl = "match_results" /\ c.m = "str"
            -> Call(target, "group", <<IF c.args = <<>> THEN IntLiteral(0) ELSE c.args[1]>>,
                    TNullable(TStr))
       [] c.tmpl = "match_results" /\ c.m = "position"
            -> IF first THEN FieldAccess(target, "start", TInt) ELSE UnsupportedTyped(TInt)
       [] c.tmpl = "match_results" /\ c.m = "length"
            -> IF first THEN Binary("-", FieldAccess(target, "end", TInt),
                                    FieldAccess(target, "start", TInt), TInt)
               ELSE UnsupportedTyped(TInt)
       [] OTHER -> NotBridged

\* Sizes, membership and the string searches.
LowerQuery(c, target) ==
  LET one == Len(c.args) = 1
      Has(name) == IF one THEN Call(target, name, c.args, TBool) ELSE UnsupportedTyped(c.ty)
      HasKey == IF c.tmpl = "map" THEN "containsKey" ELSE "contains"
  IN CASE c.tmpl = "basic_string" /\ c.m \in {"size", "length"} -> StringByteLength(target)
       [] c.tmpl \in Sequences3 \cup {"stack", "map", "set"} /\ c.m = "size" -> LengthOf(target)
       [] c.tmpl \in Sequences3 \cup {"stack", "map", "set", "basic_string"} /\ c.m = "empty"
            -> FieldAccess(target, "isEmpty", TBool)
       [] c.tmpl \in {"map", "set"} /\ c.m = "contains" -> Has(HasKey)
       [] c.tmpl \in {"map", "set"} /\ c.m = "count"
            -> IF one THEN Conditional(Has(HasKey), IntLiteral(1), IntLiteral(0), TInt)
               ELSE UnsupportedTyped(c.ty)
       [] c.tmpl = "basic_string" /\ c.m = "c_str" -> target
       [] c.tmpl = "basic_string" /\ c.m = "find"
            -> CASE one -> StringByteIndexOf(target, c.args[1], NullLiteral)
                 [] Len(c.args) = 2 -> StringByteIndexOf(target, c.args[1], c.args[2])
                 [] OTHER -> UnsupportedTyped(c.ty)
       [] OTHER -> NotBridged

\* Slices and comparisons of strings.
IsNpos(x) == x = IntLiteral(-1) \/ (x.e = "ref" /\ x.name = "npos")
Slice(target, start, count) ==
  Call(target, "substring", <<start, Binary("+", start, count, TInt)>>, TStr)

LowerStringMethod(c, target) ==
  LET n == Len(c.args)
  IN CASE c.m = "compare"
            -> CASE n = 1 -> Call(target, "compareTo", c.args, TInt)
                 [] n = 3 -> Call(Slice(target, c.args[1], c.args[2]), "compareTo",
                                  <<c.args[3]>>, TInt)
                 [] OTHER -> UnsupportedTyped(c.ty)
       [] c.m \in {"==", "!=", "<", "<=", ">", ">="}
            -> CASE n = 1 -> Binary(c.m, target, c.args[1], TBool)
                 [] n = 2 -> Binary(c.m, c.args[1], c.args[2], TBool)
                 [] OTHER -> UnsupportedTyped(c.ty)
       [] c.m = "substr"
            -> CASE n = 1 \/ (n = 2 /\ IsNpos(c.args[2]))
                      -> Call(target, "substring", <<c.args[1]>>, TStr)
                 [] n = 2 -> Slice(target, c.args[1], c.args[2])
                 [] OTHER -> UnsupportedTyped(c.ty)
       [] c.m = "at" -> IF n = 1 THEN StringByteAt(target, c.args[1], c.ty)
                        ELSE UnsupportedTyped(c.ty)
       [] OTHER -> NotBridged

\* Lists and stacks.
LowerListMethod(c, target) ==
  LET n == Len(c.args)
      Needs(count, node) == IF n = count THEN node ELSE UnsupportedTyped(c.ty)
  IN CASE c.tmpl \in Sequences3 /\ c.m = "push_back" -> Needs(1, Call(target, "add", c.args, TVoid))
       [] c.tmpl \in Sequences3 /\ c.m = "clear" -> Needs(0, Call(target, "clear", <<>>, TVoid))
       [] c.tmpl \in {"vector", "deque"} /\ c.m = "at"
            -> IF n = 1 THEN Index(target, c.args[1], c.elem) ELSE UnsupportedTyped(c.ty)
       [] c.tmpl \in Sequences3 /\ c.m = "front" -> Needs(0, Index(target, IntLiteral(0), c.elem))
       [] c.tmpl \in Sequences3 /\ c.m = "back"
            -> Needs(0, Index(target, LastIndex(target), c.elem))
       [] c.tmpl = "stack" /\ c.m = "top" -> Needs(0, Index(target, LastIndex(target), c.elem))
       [] c.tmpl = "stack" /\ c.m = "push" -> Needs(1, Call(target, "add", c.args, TVoid))
       [] c.tmpl = "stack" /\ c.m = "pop" -> Needs(0, Call(target, "removeLast", <<>>, TVoid))
       [] OTHER -> NotBridged

\* What must be there, what may be there, and the ends of a string.
LowerPresence(c, target) ==
  LET n == Len(c.args)
      Char(i) == IF n = 0 THEN Call(target, "codeUnitAt", <<i>>, TInt) ELSE UnsupportedTyped(c.ty)
  IN CASE c.tmpl \in Maps /\ c.m = "at"
            -> IF n # 1 \/ MapValue(target) = NoType THEN UnsupportedTyped(c.ty)
               ELSE Convert(Index(target, c.args[1], TNullable(MapValue(target))), MapValue(target))
       [] c.tmpl \in Pointers /\ c.m \in {"get", "value", "*", "->"} -> target
       [] c.tmpl \in Pointers /\ c.m = "has_value" -> Binary("!=", target, NullLiteral, TBool)
       [] c.tmpl = "basic_string" /\ c.m = "front" -> Char(IntLiteral(0))
       [] c.tmpl = "basic_string" /\ c.m = "back" -> Char(LastIndex(target))
       [] OTHER -> NotBridged

\* Iterators that outlive an idiom: a cursor into the list.
ListCursor(items, at) == ConstructorCall("ListCursor", 0, <<items, at>>)

LowerIteratorMaker(c, target) ==
  LET reversed == Call(FieldAccess(target, "reversed", TList(c.elem)), "toList", <<>>, TList(c.elem))
      units == FieldAccess(target, "codeUnits", TList(TInt))
  IN CASE c.tmpl \in Sequences4 /\ c.m = "begin" -> ListCursor(target, IntLiteral(0))
       [] c.tmpl \in Sequences4 /\ c.m = "end" -> ListCursor(target, LengthOf(target))
       [] c.tmpl \in Sequences4 /\ c.m = "rbegin" -> ListCursor(reversed, IntLiteral(0))
       [] c.tmpl \in Sequences4 /\ c.m = "rend" -> ListCursor(reversed, LengthOf(target))
       [] c.tmpl = "basic_string" /\ c.m = "begin" -> ListCursor(units, IntLiteral(0))
       [] c.tmpl = "basic_string" /\ c.m = "end" -> ListCursor(units, LengthOf(target))
       [] c.tmpl \in Maps /\ c.m = "find"
            -> IF Len(c.args) # 1 THEN UnsupportedTyped(c.ty)
               ELSE Index(target, c.args[1],
                          TNullable(IF target.ty.t = "map" THEN target.ty.val ELSE TObject))
       [] c.tmpl \in Sets /\ c.m = "find"
            -> IF Len(c.args) # 1 THEN UnsupportedTyped(c.ty)
               ELSE Call(target, "contains", c.args, TBool)
       [] OTHER -> NotBridged

\* The operators of an iterator are asked for before the table is.
Dereference(c) ==
  CASE c.recv.e = "ref" /\ c.recv.name \in DOMAIN c.loops -> Ref(c.recv.name, c.loops[c.recv.name])
    [] c.recv.ty.t = "listcursor" -> FieldAccess(c.recv, "current", c.recv.ty.elem)
    [] OTHER -> UnsupportedTyped(c.ty)

LowerIteratorOperator(c) ==
  CASE c.m \in {"*", "->"} -> Dereference(c)
    [] c.m = "++" -> Call(c.recv, "moveNext", <<>>, TVoid)
    [] c.m = "--" -> Call(c.recv, "movePrevious", <<>>, TVoid)
    [] c.m \in {"+", "-"} ->
         IF c.m = "-" /\ c.args[1].ty.t = "listcursor"
         THEN Binary("-", c.recv, c.args[1], TInt)
         ELSE Binary(c.m, c.recv, c.args[1], c.recv.ty)
    [] c.m \in {"==", "!=", "<", "<=", ">", ">="} -> Binary(c.m, c.recv, c.args[1], TBool)
    [] OTHER -> NotBridged

-----------------------------------------------------------------------------
(* Idioms over one whole container.                                        *)

\* The receiver of a begin() or an end() and whether it runs backwards.
Endpoint(c, begin) ==
  LET forward == IF begin THEN {"begin", "cbegin"} ELSE {"end", "cend"}
      backward == IF begin THEN {"rbegin", "crbegin"} ELSE {"rend", "crend"}
  IN IF c.m \in forward \cup backward THEN <<c.recv, c.m \in backward>> ELSE <<>>

RECURSIVE SameReceiver(_, _)
SameReceiver(a, b) ==
  CASE a.e = "ref" /\ b.e = "ref" -> a = b
    [] a.e = "field" /\ b.e = "field"
         -> a.field = b.field /\ a.ty = b.ty /\ SameReceiver(a.target, b.target)
    [] a.e = "index" /\ b.e = "index"
         -> SameReceiver(a.target, b.target) /\ SameReceiver(a.index, b.index)
    [] a.e = "this" /\ b.e = "this" -> TRUE
    [] OTHER -> FALSE

OneContainer(begin, end) ==
  begin # <<>> /\ end # <<>> /\ SameReceiver(begin[1], end[1])

\* find(begin, end, v) != end, or its negation.
LowerFindContains(negated, find, end) ==
  LET method == IF find.m = "find" THEN "contains" ELSE "any"
      first == Endpoint(find.args[1], TRUE)
      last == Endpoint(find.args[2], FALSE)
      outer == Endpoint(end, FALSE)
      contains == Call(first[1], method, <<find.args[3]>>, TBool)
  IN IF ~(OneContainer(first, last) /\ OneContainer(first, outer)
          /\ first[2] = last[2] /\ first[2] = outer[2])
     THEN NotBridged
     ELSE IF negated THEN contains ELSE Unary("!", contains, TBool)

\* m.find(k) != m.end(), or its negation.
LowerMemberFind(negated, find, end) ==
  LET outer == Endpoint(end, FALSE)
      method == IF find.recv.ty.t = "map" THEN "containsKey" ELSE "contains"
      contains == Call(find.recv, method, find.args, TBool)
  IN IF outer = <<>> \/ ~SameReceiver(find.recv, outer[1]) THEN NotBridged
     ELSE IF negated THEN contains ELSE Unary("!", contains, TBool)

\* Slip: the items that pass are selected, and the list keeps them all.
EraseSelects(c, target) == Call(target, "where", <<c.args[1].args[3]>>, TVoid)
\* v.erase(remove_if(begin, end, pred), end).
LowerEraseRemoveIf(c, target) ==
  IF Len(c.args) # 2 \/ c.args[1].m # "remove_if" \/ Len(c.args[1].args) # 3
  THEN UnsupportedTyped(c.ty)
  ELSE LET first == Endpoint(c.args[1].args[1], TRUE)
           last == Endpoint(c.args[1].args[2], FALSE)
           outer == Endpoint(c.args[2], FALSE)
       IN IF OneContainer(first, last) /\ OneContainer(first, outer)
             /\ SameReceiver(first[1], target)
          THEN Call(first[1], "removeWhere", <<c.args[1].args[3]>>, TVoid)
          ELSE UnsupportedTyped(c.ty)

\* for (auto it = c.begin(); it != c.end(); ++it): a for-in whose variable,
\* named like the iterator, is what *it and it-> mean in the body.
LowerIteratorLoop(loop) ==
  LET begin == Endpoint(loop.init, TRUE)
      end == Endpoint(loop.cond.rhs, FALSE)
      backward == begin[2]
      Way(items, elem) == IF backward THEN FieldAccess(items, "reversed", TList(elem)) ELSE items
      over == begin[1].ty
      elem == CASE over.t \in {"list", "set"} -> over.elem
                [] over.t = "map" -> TPair(over.key, over.val)
                [] over.t = "str" -> TInt
                [] OTHER -> NoType
      items == CASE over.t = "map" -> FieldAccess(begin[1], "entries", TList(elem))
                 [] over.t = "str" -> Way(FieldAccess(begin[1], "codeUnits", TList(TInt)), TInt)
                 [] OTHER -> Way(begin[1], elem)
  IN IF ~(OneContainer(begin, end) /\ elem # NoType /\ backward = end[2]
          /\ loop.cond.op = (IF loop.cond.negated THEN "==" ELSE "!=")
          /\ loop.cond.lhs = loop.name /\ loop.incr = <<"++", loop.name>>)
     THEN <<>>
     ELSE <<ForEach(loop.name, elem, FALSE, items, loop.body)>>

\* auto it = find(...); if (it != end) ...: the value found, or null.
LowerFindGuard(name, find, guard, then, else) ==
  LET n == Len(find.args)
      first == IF n = 3 THEN Endpoint(find.args[1], TRUE) ELSE <<find.recv, FALSE>>
      last == IF n = 3 THEN Endpoint(find.args[2], FALSE) ELSE first
      over == first[1].ty
      elem == IF over.t = "map" /\ n = 1 THEN over.val
              ELSE IF over.t \in {"list", "set"} THEN over.elem ELSE NoType
      ty == IF IsNullable(elem) THEN elem ELSE TNullable(elem)
      init == CASE n = 1 /\ over.t = "map" -> Index(first[1], find.args[1], ty)
                [] find.m = "find" ->
                     Conditional(Call(first[1], "contains", <<Last(find.args)>>, TBool),
                                 Last(find.args), NullLiteral, ty)
                [] OTHER -> Call(NoTarget, "syntaxBridgeFirstWhere", <<first[1], find.args[3]>>, ty)
  IN IF ~(OneContainer(first, last) /\ OneContainer(first, Endpoint(guard.rhs, FALSE))
          /\ guard.lhs = name /\ guard.op = (IF guard.negated THEN "==" ELSE "!=")
          /\ elem # NoType)
     THEN <<>>
     ELSE <<VarDecl(name, ty, init),
            IfStmt(Binary("!=", Ref(name, ty), NullLiteral, TBool), then, else)>>

\* sort, count_if and for_each over the whole container.
AdaptComparator(cmp) ==
  IF cmp.e = "lambda" /\ Len(cmp.body) = 1 /\ cmp.body[1].s = "return"
     /\ cmp.body[1].value.e = "binary" /\ cmp.body[1].value.op \in {"<", ">"}
  THEN LET less == cmp.body[1].value
           reverse == Binary(less.op, less.rhs, less.lhs, TBool)
           threeWay == Conditional(less, IntLiteral(-1),
                         Conditional(reverse, IntLiteral(1), IntLiteral(0), TInt), TInt)
       IN Lambda(cmp.params, <<Return(threeWay)>>, TCallback(TInt, cmp.params))
  ELSE cmp

LowerAlgorithm(c) ==
  LET n == Len(c.args)
      first == IF n < 2 THEN <<>> ELSE Endpoint(c.args[1], TRUE)
      last == IF n < 2 THEN <<>> ELSE Endpoint(c.args[2], FALSE)
      target == first[1]
      HasElement == target.e \in {"ref", "field"} /\ target.ty.t \in {"list", "set"}
  IN CASE c.m \in {"find", "find_if", "remove_if"} -> UnsupportedTyped(c.ty)
       [] ~OneContainer(first, last) -> UnsupportedTyped(c.ty)
       [] c.m = "count_if" /\ n = 3 /\ HasElement
            -> LengthOf(Call(target, "where", <<c.args[3]>>, TList(target.ty.elem)))
       [] c.m = "sort" /\ n = 2 -> Call(target, "sort", <<>>, TVoid)
       [] c.m = "sort" /\ n = 3 -> Call(target, "sort", <<AdaptComparator(c.args[3])>>, TVoid)
       [] c.m = "for_each" /\ n = 3 -> Call(target, "forEach", <<c.args[3]>>, TVoid)
       [] OTHER -> UnsupportedTyped(c.ty)

\* Free functions of std with a Dart equivalent.
LowerFreeFunction(c) ==
  LET n == Len(c.args)
      Needs(count, node) == IF n = count THEN node ELSE UnsupportedTyped(c.ty)
      Parse(name, ty) ==
        IF n \in 1 .. 3 /\ (n > 1 => c.args[2].e = "null" \/ c.args[2] = IntLiteral(0))
           /\ (n > 2 => name = "int.parse" /\ c.args[3] = IntLiteral(10))
        THEN Call(NoTarget, name, <<c.args[1]>>, ty) ELSE UnsupportedTyped(c.ty)
  IN CASE c.m = "gcd" -> IF n = 2 THEN Call(c.args[1], "gcd", <<c.args[2]>>, TInt) ELSE NotBridged
       [] c.m \in {"max", "min"} -> Needs(2, Call(NoTarget, c.m, c.args, c.ty))
       [] c.m = "abs" -> Needs(1, Call(c.args[1], "abs", <<>>, c.ty))
       [] c.m = "to_string" -> Needs(1, Call(c.args[1], "toString", <<>>, TStr))
       [] c.m = "make_pair" -> IF n = 2 /\ c.ty.t = "pair"
                               THEN Call(NoTarget, "SyntaxBridgePair", c.args, c.ty)
                               ELSE UnsupportedTyped(c.ty)
       [] c.m \in {"stoi", "stol", "stoll"} -> Parse("int.parse", TInt)
       [] c.m \in {"stod", "stof"} -> Parse("double.parse", TDouble)
       [] c.m = "regex_match" -> UnsupportedTyped(TBool)
       [] OTHER -> NotBridged

\* The regular-expression searches; flags the Dart side lacks are refused.
LowerRegexSearch(c) ==
  LET n == Len(c.args)
      Refused(k) == n >= k /\ c.args[k].e = "ref" /\ c.args[k].name \notin {"icase", "multiline", "ECMAScript"}
  IN CASE n < 2 -> UnsupportedTyped(c.ty)
       [] c.args[2].ty = Regex ->
            IF Refused(3) THEN UnsupportedTyped(TBool)
            ELSE Call(c.args[2], "hasMatch", <<c.args[1]>>, TBool)
       [] n < 3 \/ Refused(4) -> UnsupportedTyped(TBool)
       [] OTHER ->
            Binary("!=", AssignExpr(c.args[2], Call(c.args[3], "firstMatch", <<c.args[1]>>,
                                                    TNullable(RegexMatch)),
                                    TNullable(RegexMatch)),
                   NullLiteral, TBool)

\* operator+, == and != of strings; a char is made a string first.
LowerStringOperator(c) ==
  LET lhs == c.args[1]
      rhs == c.args[2]
      AsText(x, other) ==
        IF c.m = "+" /\ x.ty = TInt /\ other.ty = TStr
        THEN Call(NoTarget, "String.fromCharCode", <<x>>, TStr) ELSE x
  IN IF c.m \in {"+", "==", "!="} /\ Len(c.args) = 2
        /\ (Unwrap(lhs.ty) = TStr \/ Unwrap(rhs.ty) = TStr)
     THEN Binary(c.m, AsText(lhs, rhs), AsText(rhs, lhs), c.ty)
     ELSE NotBridged

-----------------------------------------------------------------------------
\* The first part of the table that knows the call answers it.
FirstBridged(nodes) ==
  LET i == SelectInSeq(nodes, LAMBDA node : node # NotBridged)
  IN IF i = 0 THEN NotBridged ELSE nodes[i]

LowerMethod(c) ==
  LET target == OnBase(c.tmpl, c.recv)
      found == FirstBridged(<<
        LowerStreamMethod(c, target), LowerQuery(c, target),
        IF c.m = "erase" /\ c.tmpl \in Sequences3 THEN LowerEraseRemoveIf(c, target) ELSE NotBridged,
        IF c.tmpl = "basic_string" THEN LowerStringMethod(c, target) ELSE NotBridged,
        LowerListMethod(c, target), LowerPresence(c, target), LowerIteratorMaker(c, target)>>)
  IN CASE c.tmpl = "iterator" -> LowerIteratorOperator(c)
       [] c.m = "[]" -> LowerSubscript(c)
       [] c.m = "<<" /\ c.tmpl = "basic_ostream" -> LowerInsertion(c)
       [] found = NotBridged -> UnsupportedTyped(c.ty)
       [] OTHER -> found
===============================================================================
