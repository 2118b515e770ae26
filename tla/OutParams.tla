-------------------------------- MODULE OutParams --------------------------------
(***************************************************************************)
(* Scalar out-parameters (crates/server/src/lower/cpp.rs): a C++ function  *)
(* that answers through int&, double* and the like becomes a Dart function *)
(* that returns a tuple, and its calls take the tuple apart.               *)
(***************************************************************************)
EXTENDS StdlibBridge

\* A parameter of a C++ function that is written for the caller to see.
IsOutParam(p) == p.mode \in {"reference", "pointer"} /\ p.ty.t \in {"int", "double", "bool"}
OutParamsOf(params) == SelectSeq(params, IsOutParam)
AllPointers(params) == \A i \in DOMAIN params : params[i].mode = "pointer"

\* A function with another result of its own is bridged only if each of its
\* out-parameters is a pointer: an unrecognised call then fails on its &x.
IsBridged(f) ==
  /\ OutParamsOf(f.params) # <<>>
  /\ f.ret = TVoid \/ AllPointers(OutParamsOf(f.params))

\* While the body of a function is lowered, *p of its pointer out-parameters
\* is the parameter itself.
PointerOutParams(params) ==
  LET outs == SelectSeq(OutParamsOf(params), LAMBDA p : p.mode = "pointer")
  IN [n \in {outs[i].name : i \in DOMAIN outs} |-> outs[SelectInSeq(outs, LAMBDA p : p.name = n)].ty]

\* The statement with F applied to each block in it.
MapBodies(s, F(_)) ==
  CASE s.s = "if" -> [s EXCEPT !.then = F(@), !.else = F(@)]
    [] s.s \in {"while", "dowhile", "for", "foreach"} -> [s EXCEPT !.body = F(@)]
    [] s.s = "try" -> [s EXCEPT !.body = F(@), !.handler = F(@)]
    [] s.s = "finally" -> [s EXCEPT !.body = F(@), !.finally = F(@)]
    [] s.s = "switch" -> [s EXCEPT !.cases = [i \in DOMAIN @ |-> [@[i] EXCEPT !.body = F(@)]],
                                   !.default = [i \in DOMAIN @ |-> F(@[i])]]
    [] OTHER -> s

-----------------------------------------------------------------------------
(* The function.                                                           *)

TupleValues(outs) == [i \in DOMAIN outs |-> Ref(outs[i].name, outs[i].ty)]

RECURSIVE ReturnTuples(_, _)
ReturnTuples(stmts, outs) ==
  [i \in DOMAIN stmts |->
     IF stmts[i].s = "return"
     THEN Return(Tuple((IF stmts[i].value = NoTarget THEN <<>> ELSE <<stmts[i].value>>) \o TupleValues(outs)))
     ELSE MapBodies(stmts[i], LAMBDA b : ReturnTuples(b, outs))]

\* Only a void function may fall off its end.
BridgeOutParams(f, body) ==
  LET outs == OutParamsOf(f.params)
  IN IF ~IsBridged(f) THEN body
     ELSE ReturnTuples(body, outs)
          \o (IF f.ret = TVoid THEN <<Return(Tuple(TupleValues(outs)))>> ELSE <<>>)

-----------------------------------------------------------------------------
(* A local declared without a value and first of all passed to such a call *)
(* is not assigned when Dart reads the argument: it gets a default.        *)

IsRefTo(x, name) == x.e = "ref" /\ x.name = name
AssignsTo(s, name) ==
  \/ s.s = "assign" /\ s.name = name
  \/ s.s = "exprassign" /\ IsRefTo(s.target, name)
  \/ s.s = "expr" /\ s.expr.e = "assign" /\ IsRefTo(s.expr.target, name)
TupleTarget(s, name) == s.s = "tuple" /\ \E i \in DOMAIN s.targets : IsRefTo(s.targets[i], name)
TupleInput(s, name) ==
  s.s = "tuple" /\ s.value.e = "call" /\ \E i \in DOMAIN s.value.args : IsRefTo(s.value.args[i], name)

RECURSIVE Surely(_, _)
SurelyAssigns(s, name) ==
  \/ AssignsTo(s, name) \/ TupleTarget(s, name) \/ s.s \in {"return", "throw"}
  \/ s.s = "if" /\ s.else # <<>> /\ Surely(s.then, name) /\ Surely(s.else, name)
  \/ s.s = "dowhile" /\ Surely(s.body, name)
  \/ s.s = "finally" /\ (Surely(s.finally, name) \/ Surely(s.body, name))
  \/ s.s = "try" /\ Surely(s.body, name) /\ Surely(s.handler, name)
  \/ s.s = "switch" /\ s.default # <<>> /\ s.cases # <<>> /\ Surely(s.default[1], name)
                    /\ \A i \in DOMAIN s.cases : Surely(s.cases[i].body, name)
Surely(stmts, name) == \E i \in DOMAIN stmts : SurelyAssigns(stmts[i], name)

\* Whether a statement uses the local so before it is assigned, and whether
\* it is assigned afterwards: <<used, assigned>>.
RECURSIVE Scan(_, _, _)
ScanStmt(s, name, assigned) ==
  LET In(body) == Scan(body, name, assigned)
      All(bodies, total) ==
        LET seen == [i \in DOMAIN bodies |-> In(bodies[i])]
        IN <<\E i \in DOMAIN seen : seen[i][1],
             assigned \/ (total /\ \A i \in DOMAIN seen : seen[i][2])>>
      Bodies == [i \in DOMAIN s.cases |-> s.cases[i].body] \o s.default
  IN CASE s.s = "tuple" -> <<TupleInput(s, name) /\ TupleTarget(s, name) /\ ~assigned,
                             assigned \/ TupleTarget(s, name)>>
       [] AssignsTo(s, name) -> <<FALSE, TRUE>>
       [] s.s = "if" -> All(<<s.then, s.else>>, s.else # <<>>)
       [] s.s \in {"while", "foreach"} -> All(<<s.body>>, FALSE)
       [] s.s = "dowhile" -> All(<<s.body>>, TRUE)
       [] s.s = "for" ->
            LET first == assigned \/ (s.init # <<>> /\ SurelyAssigns(s.init[1], name))
            IN <<Scan(s.body, name, first)[1] \/ Scan(s.incr, name, first)[1], first>>
       [] s.s = "try" -> All(<<s.body, s.handler>>, TRUE)
       [] s.s = "finally" ->
            LET tried == In(s.body)
                done == Scan(s.finally, name, tried[2])
            IN <<tried[1] \/ done[1], assigned \/ tried[2] \/ done[2]>>
       [] s.s = "switch" -> All(Bodies, s.default # <<>>)
       [] OTHER -> <<FALSE, assigned>>

Scan(stmts, name, assigned) ==
  IF stmts = <<>> THEN <<FALSE, assigned>>
  ELSE LET s == Head(stmts)
           here == ScanStmt(s, name, assigned)
       IN CASE s.s = "decl" /\ s.name = name -> <<FALSE, assigned>>
            [] s.s \in {"return", "throw"} -> <<FALSE, TRUE>>
            [] here[1] -> here
            [] OTHER -> Scan(Tail(stmts), name, here[2])

WithDefault(decl, rest) ==
  IF decl.s = "decl" /\ decl.init = NoTarget /\ Scan(rest, decl.name, FALSE)[1]
  THEN [decl EXCEPT !.init = DefaultScalar(decl.ty)] ELSE decl

RECURSIVE Neutralized(_)
Neutralized(stmts) ==
  [i \in DOMAIN stmts |->
     LET s == WithDefault(stmts[i], SubSeq(stmts, i + 1, Len(stmts)))
         f == IF s.s = "for" THEN [s EXCEPT !.init = [j \in DOMAIN @ |-> WithDefault(@[j], s.body)]] ELSE s
     IN MapBodies(f, LAMBDA b : Neutralized(b))]
===================================================================================
