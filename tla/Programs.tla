-------------------------------- MODULE Programs --------------------------------
(***************************************************************************)
(* A C++ program on its way through transpile: its functions are lowered   *)
(* to the intermediate representation, their bodies are printed, and the   *)
(* printed program runs beside the C++ one.                                *)
(*                                                                         *)
(* The program comes from a pool.  It starts at its function "main"; what  *)
(* a run shows to the outside are its calls of functions no program        *)
(* declares, and how main ends.                                            *)
(***************************************************************************)
EXTENDS CppLowering, DartText

CONSTANTS Pool,   \* the programs, a sequence of [funs, records]
          Fuel    \* bound: iterations and calls of one run

VARIABLES chosen,   \* the place of the program in the pool
          stage,    \* "source", "lowered", "emitted" or "ran"
          ir,       \* its functions, lowered
          cpp,      \* how the C++ program ended
          dart      \* how the Dart program ended
programVars == <<chosen, stage, ir, cpp, dart>>

program == Pool[chosen]

Context == [outs |-> <<>>, funs |-> program.funs, records |-> program.records]

LowerProgram ==
  /\ stage = "source"
  /\ ir' = [n \in DOMAIN program.funs |-> LowerFunction(program.funs[n], Context)]
  /\ stage' = "lowered"
  /\ UNCHANGED <<chosen, cpp, dart>>

ParamTypes(f) == [i \in DOMAIN f.params |-> f.params[i].ty]

EmitProgram ==
  /\ stage = "lowered"
  /\ ir' = [n \in DOMAIN ir |->
              [ir[n] EXCEPT !.body = EmitBody(ParamTypes(program.funs[n]), program.funs[n].ret, @)]]
  /\ stage' = "emitted"
  /\ UNCHANGED <<chosen, cpp, dart>>

Outcome(st) == [sig |-> st.sig, val |-> st.val, out |-> st.out]
NotRun == [sig |-> "", val |-> Void, out |-> <<>>]

RunProgram ==
  /\ stage = "emitted"
  /\ LET c == CEval(CallExpr("main", <<>>, TInt), CStart(program.funs, program.records, Fuel))
         d == Eval(Named("main", <<>>, TInt), [Start(<<>>, ir, Fuel) EXCEPT !.records = program.records])
         Ended(r) == Outcome([r.st EXCEPT !.val = IF @ = Void THEN r.v ELSE @])
     IN cpp' = Ended(c) /\ dart' = Ended(d)
  /\ stage' = "ran"
  /\ UNCHANGED <<chosen, ir>>

ProgramsInit ==
  /\ chosen \in DOMAIN Pool
  /\ stage = "source" /\ ir = <<>> /\ cpp = NotRun /\ dart = NotRun
ProgramsIdle ==
  /\ chosen = 1 /\ stage = "idle" /\ ir = <<>> /\ cpp = NotRun /\ dart = NotRun
ProgramsNext == LowerProgram \/ EmitProgram \/ RunProgram

-----------------------------------------------------------------------------
\* A value means the same on both sides; records are compared by their fields.
Same(a, b) == a = b \/ (a[1] = "rec" /\ b[1] = "ref")
SameRun == dart.sig = cpp.sig /\ dart.out = cpp.out /\ Same(cpp.val, dart.val)

\* A translated program does what the C++ program does, as long as C++ defines
\* that: the same calls to the outside, and the same end.  What the lowering
\* could not translate throws when it is reached, and not before; the printed
\* text is never one the analyser refuses.
SameMeaning ==
  stage = "ran" /\ cpp.sig # "undefined" => SameRun \/ (dart.sig = "refused" /\ IsPrefix(dart.out, cpp.out))

\* Dart groups each printed expression the way emit_expr meant it: no pair of
\* parentheses is missing where precedence or associativity differ.
ReadsBack ==
  stage = "emitted" =>
    \A n \in DOMAIN ir :
      LET texts == Every(StatementTexts, ir[n].body) IN \A i \in DOMAIN texts : ReadsAs(texts[i])
=================================================================================
