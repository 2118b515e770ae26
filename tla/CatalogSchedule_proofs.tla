------------------------ MODULE CatalogSchedule_proofs ------------------------
(***************************************************************************)
(* The merged catalogs do not tell which worker read which unit: for every *)
(* program that declares and defines each thing alike, wherever it does    *)
(* (Orderly), every schedule ends in the catalogs that one worker alone    *)
(* would have built.                                                       *)
(*                                                                         *)
(* CatalogMerge_proofs has it that a worker noted exactly what its units   *)
(* say (Read, Noted) and that merging adds nothing and loses nothing; so   *)
(* what is merged is decided by the units that were read, which are all of *)
(* them, and the finishing passes ask for nothing but what is decided.     *)
(*                                                                         *)
(* The second part is about the names: they are unique for any program     *)
(* that declares and defines each thing alike (Consistent), declares what  *)
(* it calls and has no names that clash before they are numbered           *)
(* (NamesApart).  What is numbered is counted, and there is a numeral for  *)
(* each (CatalogMerge_proofs); NamesApart has it that a numbered name is   *)
(* nobody's own.  A call bears the name its callee was given, whoever      *)
(* wrote it down, because both are looked up in one table under one usr.   *)
(***************************************************************************)
EXTENDS CatalogMerge_proofs

-----------------------------------------------------------------------------
\* Partials that between them have every unit of the program.
Complete(p) ==
  /\ \E read : Shared(program, p, read) /\ UNION {read[w] : w \in DOMAIN p} = ToSet(program)
  /\ \E read : SharesNoted(program, p, read) /\ UNION {read[w] : w \in DOMAIN p} = ToSet(program)

LEMMA BothComplete ==
  ASSUME ScheduleInv, Merged
  PROVE  program \in Programs /\ catalog = FinishCatalog(partial) /\ Complete(partial) /\ Complete(<<alone>>)
<1>1. program \in Programs /\ catalog = FinishCatalog(partial)
      /\ \E read : Shared(program, partial, read) /\ UNION {read[w] : w \in DOMAIN partial} = ToSet(program)
  BY MergedAll DEF ScheduleInv
<1>2. UnitsTaken = ToSet(program)
  <2>1. nextUnit - 1 = Len(program) /\ DOMAIN program = 1 .. Len(program)
    BY <1>1, ProgramFacts DEF ScheduleInv, CatalogInv
  <2> QED BY <2>1 DEF UnitsTaken, ToSet
<1>3. Complete(partial)
  BY <1>1, <1>2 DEF Complete, ScheduleInv
<1>4. Complete(<<alone>>)
  <2> DEFINE p == <<alone>>
             read == <<ToSet(program)>>
  <2>1. DOMAIN p = {1} /\ DOMAIN read = {1} /\ p[1] = alone /\ read[1] = ToSet(program) /\ p \in Seq(ToSet(p))
    BY DEF ToSet
  <2>2. Read(program, alone, ToSet(program)) /\ Noted(alone, ToSet(program))
    BY <1>2 DEF ScheduleInv
  <2> HIDE DEF p, read
  <2>3. Shared(program, p, read) /\ SharesNoted(program, p, read)
    BY <2>1, <2>2 DEF Shared, SharesNoted
  <2>4. UNION {read[w] : w \in DOMAIN p} = ToSet(program)
    BY <2>1
  <2>5. Complete(p)
    BY <2>3, <2>4 DEF Complete
  <2> QED BY <2>5 DEF p
<1> QED BY <1>1, <1>3, <1>4

-----------------------------------------------------------------------------
(* The merge, before the finishing passes.                                 *)
Decls(p) == FoldLeft(MergeDecls, <<>>, FunctionPartials(p))
Lowered(p) == FoldLeft(MergeFunctions, <<>>, FunctionPartials(p))
Classes(p) == FoldLeft(MergeRecords, <<>>, FunctionPartials(p))
Enums(p) == UNION {q.enums : q \in ToSet(FunctionPartials(p))}
Calls(p) == UNION {q.calls : q \in ToSet(FunctionPartials(p))}
Names(p) == RenamesOf(Decls(p), Classes(p))
FinishedClasses(p) == RejectInMembers(Enums(p), Disambiguate(RenameMembers(Names(p), Classes(p))))
FinishedFunctions(p) ==
  Guard(FinishedClasses(p), RejectEnums(Enums(p), RenameAll(Names(p), Lowered(p))))

LEMMA Finished ==
  ASSUME NEW p
  PROVE  FinishCatalog(p) = [decls |-> Decls(p), calls |-> Calls(p), enums |-> Enums(p),
                             records |-> FinishedClasses(p), fns |-> FinishedFunctions(p),
                             types |-> FinishTypeFacts(TypePartials(p))]
<1> DEFINE f == FinishFunctions(FunctionPartials(p))
<1>1. f = [decls |-> Decls(p), calls |-> Calls(p), enums |-> Enums(p),
           records |-> FinishedClasses(p), fns |-> FinishedFunctions(p)]
  BY DEF FinishFunctions, Decls, Lowered, Classes, Enums, Calls, Names, FinishedClasses, FinishedFunctions
<1>2. FinishCatalog(p) = [decls |-> f.decls, calls |-> f.calls, enums |-> f.enums, records |-> f.records,
                          fns |-> f.fns, types |-> FinishTypeFacts(TypePartials(p))]
  BY DEF FinishCatalog, FunctionPartials, TypePartials
<1> HIDE DEF f
<1> QED BY <1>1, <1>2

\* What the hypotheses come to.
LEMMA ConsistentFacts ==
  ASSUME program \in Programs, Consistent(program)
  PROVE  LET X == CursorsIn(program)
         IN /\ OneMember(X)
            /\ Agreeing({IrOf(c) : c \in OfKind(X, "fn")})
            /\ \A c, d \in X : {c.kind, d.kind} \subseteq FunctionLike /\ c.usr = d.usr /\ c.def = d.def =>
                 DeclarationOf(c) = DeclarationOf(d) /\ IrOf(c) = IrOf(d)
            /\ \A c, d \in X : c.kind = "record" /\ d.kind = "record" /\ c.usr = d.usr => c = d
            /\ \A c, d \in X : c.kind = "dtor" /\ d.kind = "dtor" /\ c.owner = d.owner => IrOf(c) = IrOf(d)
<1> DEFINE X == CursorsIn(program)
<1>1. Typed(X) /\ OneType(X)
  BY ProgramFacts
<1>2. /\ NoPureBodies(program) /\ DeclaredAlike(program) /\ OneDestructor(program)
  BY DEF Consistent
<1>3. ASSUME NEW c \in X, NEW d \in X, {c.kind, d.kind} \subseteq FunctionLike, c.usr = d.usr, c.def = d.def
      PROVE  DeclarationOf(c) = DeclarationOf(d) /\ IrOf(c) = IrOf(d)
  <2>1. DeclarationOf([c EXCEPT !.def = d.def]) = DeclarationOf(d) /\ IrOf(c) = IrOf(d)
    BY <1>2, <1>3 DEF DeclaredAlike
  <2> DEFINE b == [c EXCEPT !.def = d.def]
  <2>2. /\ b.usr = c.usr /\ b.kind = c.kind /\ b.owner = c.owner /\ b.name = c.name /\ b.params = c.params
        /\ b.const = c.const /\ b.static = c.static
    OBVIOUS
  <2>3. DeclarationOf(b) = DeclarationOf(d)
    BY <2>1
  <2> HIDE DEF b
  <2>4. DeclarationOf(c) = DeclarationOf(d)
    BY <1>3, <2>2, <2>3 DEF DeclarationOf
  <2> QED BY <2>1, <2>4
<1>4. OneMember(X)
  <2>1. ASSUME NEW kind \in {"method", "ctor"}, NEW usr,
               NEW c \in MembersOf(X, kind, usr), NEW d \in MembersOf(X, kind, usr)
        PROVE  Ir(IrOf(c)) /\ (IrOf(c).usr = IrOf(d).usr => IrOf(c) = IrOf(d))
    <3>1. c \in X /\ d \in X /\ c.kind = kind /\ d.kind = kind /\ {kind, kind} \subseteq FunctionLike
      BY DEF MembersOf, FunctionLike
    <3>2. Ir(IrOf(c)) /\ IrOf(c).usr = c.usr /\ IrOf(d).usr = d.usr
      BY <1>1, <3>1, IrOfCursor DEF Typed, FunctionLike
    <3>3. c.usr = d.usr => c.def = d.def
      BY <1>2, <3>1 DEF NoPureBodies
    <3> QED BY <1>3, <3>1, <3>2, <3>3
  <2> QED BY <2>1 DEF OneMember, OneEach
<1>5. Agreeing({IrOf(c) : c \in OfKind(X, "fn")})
  <2>1. ASSUME NEW c \in OfKind(X, "fn"), NEW d \in OfKind(X, "fn"), IrOf(c).usr = IrOf(d).usr, IrOf(c).def = IrOf(d).def
        PROVE  IrOf(c).dflt = IrOf(d).dflt
    <3>1. c \in X /\ d \in X /\ {c.kind, d.kind} \subseteq FunctionLike /\ c.usr = d.usr /\ c.def = d.def
      BY <2>1 DEF OfKind, FunctionLike, IrOf
    <3> QED BY <1>3, <3>1
  <2> QED BY <2>1 DEF Agreeing
<1>6. \A c, d \in X : c.kind = "record" /\ d.kind = "record" /\ c.usr = d.usr => c = d
  BY <1>1 DEF OneType
<1>7. \A c, d \in X : c.kind = "dtor" /\ d.kind = "dtor" /\ c.owner = d.owner => IrOf(c) = IrOf(d)
  BY <1>2 DEF OneDestructor
<1> HIDE DEF X
<1>8. \A c, d \in X : {c.kind, d.kind} \subseteq FunctionLike /\ c.usr = d.usr /\ c.def = d.def =>
        DeclarationOf(c) = DeclarationOf(d) /\ IrOf(c) = IrOf(d)
  BY <1>3
<1> QED BY <1>4, <1>5, <1>6, <1>7, <1>8 DEF X

LEMMA Defaulting ==
  ASSUME NEW f, Ir(f), NEW b \in BOOLEAN
  PROVE  Ir([f EXCEPT !.dflt = b])
<1> DEFINE g == [f EXCEPT !.dflt = b]
<1>1. /\ g.usr = f.usr /\ g.name = f.name /\ g.def = f.def /\ g.dflt = b /\ g.calls = f.calls
      /\ g.enums = f.enums /\ g.locals = f.locals /\ g.teardown = f.teardown
  BY DEF Ir
<1>2. g = [usr |-> f.usr, name |-> f.name, def |-> f.def, dflt |-> b, calls |-> f.calls,
           enums |-> f.enums, locals |-> f.locals, teardown |-> f.teardown]
  BY DEF Ir
<1>3. f.def \in BOOLEAN
  BY DEF Ir
<1> HIDE DEF g
<1> QED BY <1>1, <1>2, <1>3 DEF Ir, g

\* Everything merged was said by some cursor, and every cursor is heard.
LEMMA MergedFacts ==
  ASSUME program \in Programs, Consistent(program), NEW p, Complete(p)
  PROVE  LET X == CursorsIn(program)
         IN /\ Upserted(Decls(p), {DeclarationOf(c) : c \in Functions(X)})
            /\ Kept(Lowered(p), {IrOf(c) : c \in OfKind(X, "fn")})
            /\ \A f \in ToSet(Lowered(p)) : \E c \in OfKind(X, "fn"), b \in BOOLEAN : f = [IrOf(c) EXCEPT !.dflt = b]
            /\ United(Classes(p), X)
            /\ \A r \in ToSet(Classes(p)) : Told(r, X)
            /\ Enums(p) = {c.usr : c \in OfKind(X, "enum")}
            /\ Calls(p) = UNION {CallsOf(c) : c \in Functions(X)}
<1> DEFINE X == CursorsIn(program)
           fs == FunctionPartials(p)
           T == {[IrOf(c) EXCEPT !.dflt = b] : c \in OfKind(X, "fn"), b \in BOOLEAN}
<1>1. PICK read : Shared(program, p, read) /\ UNION {read[w] : w \in DOMAIN p} = ToSet(program)
  BY DEF Complete
<1>2. NoPureBodies(program) /\ ClassFirst(program)
  BY DEF Consistent
<1>3. Upserted(Decls(p), {DeclarationOf(c) : c \in Functions(X)})
  <2>1. FinishCatalog(p).decls = Decls(p)
    BY Finished
  <2>2. Upserted(FinishCatalog(p).decls, {DeclarationOf(c) : c \in Functions(X)})
    BY <1>1, MergedDecls, Zenon
  <2> QED BY <2>1, <2>2
<1>4. Kept(Lowered(p), {IrOf(c) : c \in OfKind(X, "fn")})
  BY <1>1, FunctionsMerged DEF Lowered
<1>5. United(Classes(p), X)
  BY <1>1, <1>2, RecordsMerged DEF Classes
<1>6. PICK noted : SharesNoted(program, p, noted) /\ UNION {noted[w] : w \in DOMAIN p} = ToSet(program)
  BY DEF Complete
<1>7. fs \in Seq(ToSet(fs)) /\ ToSet(fs) = {p[w].functions : w \in DOMAIN p}
  BY <1>1, Partials DEF Shared
<1>8. X = UNION {CursorsOfUnits(noted[w]) : w \in DOMAIN p}
  <2>1. X = CursorsOfUnits(ToSet(program))
    BY ProgramFacts
  <2> QED BY <1>6, <2>1 DEF CursorsOfUnits
<1>9. \A w \in DOMAIN p : FunctionsNoted(p[w].functions, CursorsOfUnits(noted[w])) /\ CursorsOfUnits(noted[w]) \subseteq X
  BY <1>6, <1>8 DEF SharesNoted, Noted
<1> HIDE DEF fs
<1>10. \A r \in ToSet(Classes(p)) : Told(r, X)
  <2>1. OneMember(X)
    BY ConsistentFacts
  <2> HIDE DEF X
  <2>2. \A q \in ToSet(fs) : ToldAll(q.records, X)
    BY <1>7, <1>9, ToldMore DEF ToldAll, FunctionsNoted
  <2>3. ToldAll(FoldLeft(MergeRecords, <<>>, fs), X)
    BY <1>7, <2>1, <2>2, PartialRecordsPut
  <2> QED BY <2>3 DEF ToldAll, Classes, fs
<1>11. Enums(p) = {c.usr : c \in OfKind(X, "enum")}
  <2>1. OfKind(X, "enum") = UNION {OfKind(CursorsOfUnits(noted[w]), "enum") : w \in DOMAIN p}
    BY <1>8 DEF OfKind
  <2>2. \A w \in DOMAIN p : p[w].functions.enums = {c.usr : c \in OfKind(CursorsOfUnits(noted[w]), "enum")}
    BY <1>9 DEF FunctionsNoted
  <2>3. Enums(p) = UNION {p[w].functions.enums : w \in DOMAIN p}
    BY <1>7 DEF Enums, fs
  <2> HIDE DEF X
  <2> QED BY <2>1, <2>2, <2>3
<1>12. Calls(p) = UNION {CallsOf(c) : c \in Functions(X)}
  <2>1. Functions(X) = UNION {Functions(CursorsOfUnits(noted[w])) : w \in DOMAIN p}
    BY <1>8 DEF Functions
  <2>2. \A w \in DOMAIN p : p[w].functions.calls = UNION {CallsOf(c) : c \in Functions(CursorsOfUnits(noted[w]))}
    BY <1>9 DEF FunctionsNoted
  <2>3. Calls(p) = UNION {p[w].functions.calls : w \in DOMAIN p}
    BY <1>7 DEF Calls, fs
  <2> HIDE DEF X
  <2> QED BY <2>1, <2>2, <2>3
<1>13. Lowered(p) \in Seq(T)
  <2>1. \A c \in OfKind(X, "fn") : Ir(IrOf(c))
    <3>1. \A c \in OfKind(X, "fn") : c.def \in BOOLEAN /\ c.dflt \in BOOLEAN
      BY ProgramFacts DEF OfKind, Typed, FunctionLike
    <3> QED BY <3>1, IrOfCursor
  <2>2. EitherDefault(T)
    <3>1. ASSUME NEW f, Ir(f), NEW b \in BOOLEAN
          PROVE  Ir([f EXCEPT !.dflt = b])
      BY <3>1, Defaulting
    <3>2. ASSUME NEW f, NEW b, NEW a
          PROVE  [[f EXCEPT !.dflt = b] EXCEPT !.dflt = a] = [f EXCEPT !.dflt = a]
      BY Zenon
    <3> DEFINE Both(e) == Ir(e) /\ \A a \in BOOLEAN : [e EXCEPT !.dflt = a] \in T
    <3>3. ASSUME NEW c \in OfKind(X, "fn"), NEW b \in BOOLEAN
          PROVE  Both([IrOf(c) EXCEPT !.dflt = b])
      <4>1. Ir([IrOf(c) EXCEPT !.dflt = b])
        BY <2>1, <3>1
      <4>2. \A a \in BOOLEAN : [IrOf(c) EXCEPT !.dflt = a] \in T
        OBVIOUS
      <4>3. \A a \in BOOLEAN : [[IrOf(c) EXCEPT !.dflt = b] EXCEPT !.dflt = a] = [IrOf(c) EXCEPT !.dflt = a]
        BY <3>2, Zenon
      <4> HIDE DEF T
      <4> QED BY <4>1, <4>2, <4>3, Zenon
    <3>4. \A e \in T : Both(e)
      <4> HIDE DEF Both
      <4> QED BY <3>3
    <3> HIDE DEF T
    <3> QED BY <3>4 DEF EitherDefault
  <2>3. \A q \in ToSet(fs) : q.fns \in Seq(T)
    <3>1. ASSUME NEW w \in DOMAIN p
          PROVE  p[w].functions.fns \in Seq(T)
      <4> DEFINE s == p[w].functions.fns
                 F == {IrOf(c) : c \in OfKind(CursorsOfUnits(read[w]), "fn")}
      <4>1. s \in Seq(ToSet(s)) /\ ToSet(s) = F
        BY <1>1, Zenon DEF Shared, Read, FunctionsRead
      <4>2. \A c \in OfKind(CursorsOfUnits(read[w]), "fn") : c \in OfKind(X, "fn")
        BY <1>1, AllCursorsRead DEF OfKind
      <4>3. F \subseteq T
        <5>1. ASSUME NEW c \in OfKind(X, "fn")
              PROVE  IrOf(c) \in T
          <6>1. IrOf(c).dflt \in BOOLEAN /\ [IrOf(c) EXCEPT !.dflt = IrOf(c).dflt] = IrOf(c)
            BY <2>1 DEF Ir
          <6> QED BY <6>1
        <5> HIDE DEF T
        <5> QED BY <4>2, <5>1
      <4> HIDE DEF s, F, T
      <4>4. s \in Seq(T)
        BY <4>1, <4>3
      <4> QED BY <4>4 DEF s
    <3> HIDE DEF T
    <3> QED BY <1>7, <3>1
  <2> HIDE DEF T
  <2>4. FoldLeft(MergeFunctions, <<>>, fs) \in Seq(T)
    BY <1>7, <2>2, <2>3, PartialFunctionsPut
  <2> QED BY <2>4 DEF Lowered, fs
<1>14. \A f \in ToSet(Lowered(p)) : \E c \in OfKind(X, "fn"), b \in BOOLEAN : f = [IrOf(c) EXCEPT !.dflt = b]
  <2>1. \A f \in ToSet(Lowered(p)) : f \in T
    <3> HIDE DEF T
    <3> QED BY <1>13, Within
  <2> QED BY <2>1
<1> HIDE DEF X
<1> QED BY <1>3, <1>4, <1>5, <1>10, <1>11, <1>12, <1>14 DEF X

-----------------------------------------------------------------------------
(* Two sets of partials that have every unit merge into the same           *)
(* declarations and functions, and into classes that are alike.            *)
LEMMA DeclsWithin ==
  ASSUME program \in Programs, Consistent(program), NEW p, NEW q, Complete(p), Complete(q)
  PROVE  ToSet(Decls(p)) \subseteq ToSet(Decls(q))
<1> DEFINE X == CursorsIn(program)
           D == {DeclarationOf(c) : c \in Functions(X)}
<1>1. Upserted(Decls(p), D) /\ Upserted(Decls(q), D)
  BY MergedFacts, Zenon
<1>2. \A c \in Functions(X) : DeclarationOf(c).usr = c.usr /\ DeclarationOf(c).def = c.def
  BY DEF DeclarationOf
<1>3. \A c \in Functions(X) : c \in X /\ c.kind \in FunctionLike /\ c.def \in BOOLEAN
  BY ProgramFacts DEF Functions, Typed
<1>4. \A c, d \in X : {c.kind, d.kind} \subseteq FunctionLike /\ c.usr = d.usr /\ c.def = d.def =>
        DeclarationOf(c) = DeclarationOf(d)
  BY ConsistentFacts
<1> HIDE DEF X
<1>5. ASSUME NEW d \in ToSet(Decls(p))
      PROVE  d \in ToSet(Decls(q))
  <2>1. PICK c \in Functions(X) : d = DeclarationOf(c)
    BY <1>1 DEF Upserted
  <2>2. PICK e \in ToSet(Decls(q)) : e.usr = d.usr /\ (d.def => e.def)
    BY <1>1 DEF Upserted
  <2>3. PICK b \in Functions(X) : e = DeclarationOf(b)
    BY <1>1 DEF Upserted
  <2>4. PICK g \in ToSet(Decls(p)) : g.usr = e.usr /\ (e.def => g.def)
    BY <1>1 DEF Upserted
  <2>5. g = d
    BY <1>1, <2>2, <2>4, OneOfAUsr DEF Upserted
  <2>6. c.usr = b.usr /\ c.def = b.def
    BY <1>2, <1>3, <2>1, <2>2, <2>3, <2>4, <2>5
  <2>7. DeclarationOf(c) = DeclarationOf(b)
    BY <1>3, <1>4, <2>6
  <2> QED BY <2>1, <2>3, <2>7
<1> QED BY <1>5

LEMMA LoweredWithin ==
  ASSUME program \in Programs, Consistent(program), NEW p, NEW q, Complete(p), Complete(q)
  PROVE  ToSet(Lowered(p)) \subseteq ToSet(Lowered(q))
<1> DEFINE X == CursorsIn(program)
           F == {IrOf(c) : c \in OfKind(X, "fn")}
           Of(c, b) == [IrOf(c) EXCEPT !.dflt = b]
<1>1. Kept(Lowered(p), F) /\ Kept(Lowered(q), F) /\ Agreeing(F)
  BY MergedFacts, ConsistentFacts
<1>2. /\ \A f \in ToSet(Lowered(p)) : \E c \in OfKind(X, "fn"), b \in BOOLEAN : f = Of(c, b)
      /\ \A f \in ToSet(Lowered(q)) : \E c \in OfKind(X, "fn"), b \in BOOLEAN : f = Of(c, b)
  BY MergedFacts
<1>3. ASSUME NEW c \in OfKind(X, "fn"), NEW b \in BOOLEAN
      PROVE  /\ c \in X /\ c.kind \in FunctionLike /\ c.def \in BOOLEAN
             /\ IrOf(c).usr = c.usr /\ IrOf(c).def = c.def
             /\ Of(c, b).usr = c.usr /\ Of(c, b).def = c.def /\ Of(c, b).dflt = b
  <2>1. c \in X /\ c.kind \in FunctionLike /\ c.def \in BOOLEAN
    BY ProgramFacts DEF OfKind, Typed, FunctionLike
  <2>2. IrOf(c).usr = c.usr /\ IrOf(c).def = c.def
        /\ Of(c, b).usr = c.usr /\ Of(c, b).def = c.def /\ Of(c, b).dflt = b
    BY DEF IrOf
  <2> QED BY <2>1, <2>2
<1>4. \A c, d \in X : {c.kind, d.kind} \subseteq FunctionLike /\ c.usr = d.usr /\ c.def = d.def => IrOf(c) = IrOf(d)
  BY ConsistentFacts
<1> HIDE DEF X
<1>5. ASSUME NEW f \in ToSet(Lowered(p))
      PROVE  f \in ToSet(Lowered(q))
  <2>1. PICK c \in OfKind(X, "fn"), b \in BOOLEAN : f = Of(c, b)
    BY <1>2
  <2>2. PICK e \in ToSet(Lowered(q)) : e.usr = IrOf(c).usr /\ (IrOf(c).def => e.def)
    BY <1>1 DEF Kept
  <2>3. PICK d \in OfKind(X, "fn"), a \in BOOLEAN : e = Of(d, a)
    BY <1>2
  <2>4. PICK g \in ToSet(Lowered(p)) : g.usr = IrOf(d).usr /\ (IrOf(d).def => g.def)
    BY <1>1 DEF Kept
  <2> HIDE DEF Of, F
  <2>5. g = f
    BY <1>1, <1>3, <2>1, <2>2, <2>3, <2>4, OneOfAUsr DEF Kept, Irs
  <2>6. c.usr = d.usr /\ c.def = d.def
    BY <1>3, <2>1, <2>2, <2>3, <2>4, <2>5
  <2>7. IrOf(c) = IrOf(d)
    BY <1>3, <1>4, <2>6
  <2>8. a = b
    <3>1. f.dflt <=> \E h \in F : h.usr = f.usr /\ h.dflt
      BY <1>1 DEF Kept
    <3>2. e.dflt <=> \E h \in F : h.usr = e.usr /\ h.dflt
      BY <1>1 DEF Kept
    <3>3. f.dflt = b /\ e.dflt = a /\ f.usr = e.usr
      BY <1>3, <2>1, <2>3, <2>6
    <3> QED BY <3>1, <3>2, <3>3
  <2> QED BY <2>1, <2>3, <2>7, <2>8 DEF Of
<1> QED BY <1>5

\* Records of one class that differ in the order of its members at most.
Alike(r, t) ==
  /\ r.usr = t.usr /\ r.name = t.name /\ r.ns = t.ns
  /\ ToSet(r.methods) = ToSet(t.methods) /\ ToSet(r.ctors) = ToSet(t.ctors) /\ r.dtor = t.dtor

LEMMA MembersExact ==
  ASSUME NEW X, NEW r, Told(r, X), Faithful(r, X), OneMember(X)
  PROVE  /\ ToSet(r.methods) = {IrOf(c) : c \in MembersOf(X, "method", r.usr)}
         /\ ToSet(r.ctors) = {IrOf(c) : c \in MembersOf(X, "ctor", r.usr)}
<1>1. ASSUME NEW kind \in {"method", "ctor"}, NEW s \in Seq({IrOf(c) : c \in MembersOf(X, kind, r.usr)}),
             Matches(s, MembersOf(X, kind, r.usr))
      PROVE  ToSet(s) = {IrOf(c) : c \in MembersOf(X, kind, r.usr)}
  <2> DEFINE M == MembersOf(X, kind, r.usr)
             T == {IrOf(c) : c \in M}
  <2>1. OneEach(T)
    BY DEF OneMember
  <2>2. \A c \in M : IrOf(c).usr = c.usr /\ IrOf(c) \in T
    BY Zenon DEF IrOf
  <2>3. \A c \in M : \E e \in ToSet(s) : e.usr = c.usr
    BY <1>1 DEF Matches
  <2>4. \A e \in T : \E c \in M : e = IrOf(c)
    OBVIOUS
  <2>5. s \in Seq(T)
    OBVIOUS
  <2> HIDE DEF T
  <2>6. ToSet(s) \subseteq T
    BY <2>5, Within
  <2>7. ASSUME NEW e \in T
        PROVE  e \in ToSet(s)
    <3>1. PICK c \in M : e = IrOf(c)
      BY <2>4
    <3>2. PICK f \in ToSet(s) : f.usr = c.usr
      BY <2>3
    <3>3. f = e
      BY <2>1, <2>2, <2>6, <3>1, <3>2 DEF OneEach
    <3> QED BY <3>3
  <2>8. ToSet(s) = T
    BY <2>6, <2>7
  <2> QED BY <2>8 DEF T
<1>2. /\ r.methods \in Seq({IrOf(c) : c \in MembersOf(X, "method", r.usr)})
      /\ r.ctors \in Seq({IrOf(c) : c \in MembersOf(X, "ctor", r.usr)})
  BY DEF Told
<1>3. Matches(r.methods, MembersOf(X, "method", r.usr)) /\ Matches(r.ctors, MembersOf(X, "ctor", r.usr))
  BY DEF Faithful
<1> QED BY <1>1, <1>2, <1>3

LEMMA ClassesAlike ==
  ASSUME program \in Programs, Consistent(program), NEW p, NEW q, Complete(p), Complete(q)
  PROVE  \A r \in ToSet(Classes(p)) : \E t \in ToSet(Classes(q)) : Alike(r, t)
<1> DEFINE X == CursorsIn(program)
<1>1. /\ United(Classes(p), X) /\ United(Classes(q), X)
      /\ \A r \in ToSet(Classes(p)) : Told(r, X)
      /\ \A r \in ToSet(Classes(q)) : Told(r, X)
  BY MergedFacts
<1>2. /\ OneMember(X)
      /\ \A c, d \in X : c.kind = "record" /\ d.kind = "record" /\ c.usr = d.usr => c = d
      /\ \A c, d \in X : c.kind = "dtor" /\ d.kind = "dtor" /\ c.owner = d.owner => IrOf(c) = IrOf(d)
  BY ConsistentFacts
<1> HIDE DEF X
<1>3. ASSUME NEW r \in ToSet(Classes(p))
      PROVE  \E t \in ToSet(Classes(q)) : Alike(r, t)
  <2>1. PICK c \in X : c.kind = "record" /\ c.usr = r.usr /\ c.name = r.name /\ c.ns = r.ns
    BY <1>1 DEF Told
  <2>2. PICK t \in ToSet(Classes(q)) : t.usr = r.usr
    BY <1>1, <2>1 DEF United, ClassLike, Class
  <2>3. PICK d \in X : d.kind = "record" /\ d.usr = t.usr /\ d.name = t.name /\ d.ns = t.ns
    BY <1>1 DEF Told
  <2>4. r.name = t.name /\ r.ns = t.ns
    BY <1>2, <2>1, <2>2, <2>3
  <2>5. Told(r, X) /\ Told(t, X) /\ Faithful(r, X) /\ Faithful(t, X)
    BY <1>1 DEF United
  <2>6. ToSet(r.methods) = ToSet(t.methods) /\ ToSet(r.ctors) = ToSet(t.ctors)
    BY <1>2, <2>2, <2>5, MembersExact
  <2>7. r.dtor = t.dtor
    <3>1. /\ r.dtor = <<>> \/ \E b \in MembersOf(X, "dtor", r.usr) : r.dtor = <<IrOf(b)>>
          /\ t.dtor = <<>> \/ \E b \in MembersOf(X, "dtor", r.usr) : t.dtor = <<IrOf(b)>>
      BY <2>2, <2>5 DEF Told
    <3>2. /\ r.dtor # <<>> <=> MembersOf(X, "dtor", r.usr) # {}
          /\ t.dtor # <<>> <=> MembersOf(X, "dtor", r.usr) # {}
      BY <2>2, <2>5 DEF Faithful
    <3>3. \A a, b \in MembersOf(X, "dtor", r.usr) : IrOf(a) = IrOf(b)
      BY <1>2 DEF MembersOf
    <3>4. CASE MembersOf(X, "dtor", r.usr) = {}
      BY <3>2, <3>4
    <3>5. CASE MembersOf(X, "dtor", r.usr) # {}
      BY <3>1, <3>2, <3>3, <3>5
    <3> QED BY <3>4, <3>5
  <2>8. Alike(r, t)
    BY <2>2, <2>4, <2>6, <2>7 DEF Alike
  <2> QED BY <2>8
<1> QED BY <1>3

-----------------------------------------------------------------------------
(* The passes that name overloads look at lists, and see their elements.   *)
KeepTurns(c, built, x) == IF x \in c THEN Append(built, x) ELSE built
KeepLoop == INSTANCE Folding WITH Op <- KeepTurns, Holds <- PutHolds

LEMMA KeptElements ==
  ASSUME NEW s, List(s), NEW T
  PROVE  List(Keep(s, T)) /\ ToSet(Keep(s, T)) = ToSet(s) \cap T
<1> DEFINE n == Len(s)
<1>1. s \in Seq(ToSet(s)) /\ n \in Nat /\ DOMAIN s = 1 .. n
  BY Positions DEF List
<1>2. PICK built : /\ built[0] = <<>>
                   /\ \A i \in 1 .. n : built[i] = KeepTurns(T, built[i - 1], s[i])
                   /\ KeepLoop!Fold(T, <<>>, s) = built[n]
  BY <1>1, KeepLoop!FoldByTurns
<1>3. Keep(s, T) = built[n]
  <2>1. KeepLoop!Fold(T, <<>>, s) = Keep(s, T)
    BY DEF Keep, KeepTurns, KeepLoop!Fold, FoldLeft, MapThenFoldSet, KeepLoop!MapThenFoldSet,
           Max, KeepLoop!Last
  <2> QED BY <1>2, <2>1
<1> DEFINE seen(i) == KeepLoop!Seen(s, i)
           Good == {i \in 0 .. n : List(built[i]) /\ ToSet(built[i]) = seen(i) \cap T}
<1>4. seen(0) = {} /\ seen(n) = {s[i] : i \in DOMAIN s} /\ \A i \in 1 .. n : seen(i) = seen(i - 1) \cup {s[i]}
  BY <1>1, KeepLoop!SeenGrows
<1>5. \A i \in 1 .. n : \A e \in seen(i - 1) : e.usr # s[i].usr
  <2>1. ASSUME NEW i \in 1 .. n, NEW e \in seen(i - 1)
        PROVE  e.usr # s[i].usr
    <3>1. PICK j \in 1 .. i - 1 : e = s[j]
      BY DEF KeepLoop!Seen
    <3>2. j \in DOMAIN s /\ i \in DOMAIN s /\ j # i
      BY <1>1
    <3> QED BY <3>1, <3>2 DEF List
  <2> QED BY <2>1
<1> HIDE DEF seen
<1>6. 0 \in Good
  <2>1. List(built[0]) /\ ToSet(built[0]) = seen(0) \cap T
    BY <1>2, <1>4, EmptyList
  <2> QED BY <1>1, <2>1
<1>7. ASSUME NEW i \in 1 .. n, i - 1 \in Good
      PROVE  i \in Good
  <2>1. List(built[i - 1]) /\ ToSet(built[i - 1]) = seen(i - 1) \cap T
    BY <1>7
  <2>2. built[i] = IF s[i] \in T THEN Append(built[i - 1], s[i]) ELSE built[i - 1]
    BY <1>2 DEF KeepTurns
  <2>3. seen(i) = seen(i - 1) \cup {s[i]}
    BY <1>4
  <2>4. CASE s[i] \in T
    <3>1. \A e \in ToSet(built[i - 1]) : e.usr # s[i].usr
      BY <1>5, <2>1
    <3>2. List(Append(built[i - 1], s[i])) /\ ToSet(Append(built[i - 1], s[i])) = ToSet(built[i - 1]) \cup {s[i]}
      BY <2>1, <3>1, AppendNew
    <3>3. List(built[i]) /\ ToSet(built[i]) = seen(i) \cap T /\ i \in 0 .. n
      BY <1>1, <2>1, <2>2, <2>3, <2>4, <3>2
    <3> QED BY <3>3
  <2>5. CASE s[i] \notin T
    <3>1. List(built[i]) /\ ToSet(built[i]) = seen(i) \cap T /\ i \in 0 .. n
      BY <1>1, <2>1, <2>2, <2>3, <2>5
    <3> QED BY <3>1
  <2> QED BY <2>4, <2>5
<1>8. n \in Good
  <2> HIDE DEF Good
  <2> QED BY <1>1, <1>6, <1>7, KeepLoop!TurnByTurn
<1>9. seen(n) = ToSet(s)
  BY <1>4 DEF ToSet
<1> QED BY <1>3, <1>8, <1>9

\* Of the operators of a class one keeps its name: the one that takes the
\* class, or else the only one.
Sole(group, d) == \A e \in ToSet(group) : Len(e.params) = Len(d.params) => e = d

OneTakes(group, record) ==
  \A d, e \in ToSet(group) : Len(d.params) = Len(e.params) /\ d # e =>
    /\ ~(TakesClass(record, d) /\ TakesClass(record, e))
    /\ \E f \in ToSet(group) : Len(f.params) = Len(d.params) /\ TakesClass(record, f)

LEMMA Keeper ==
  ASSUME NEW group, List(group), NEW record, OneTakes(group, record), NEW d \in ToSet(group)
  PROVE  KeepsOperator(group, record, d) <=>
           /\ Len(d.params) \in DirectArities[Head(d.name)]
           /\ TakesClass(record, d) \/ Sole(group, d)
<1> DEFINE T == {e \in ToSet(group) : Len(e.params) = Len(d.params)}
           bucket == Keep(group, T)
           I == {i \in 1 .. Len(bucket) : TakesClass(record, bucket[i])}
           native == IF I # {} THEN Min(I) ELSE 0
           kept == bucket[IF native = 0 THEN 1 ELSE native]
<1>1. KeepsOperator(group, record, d) <=>
        Len(d.params) \in DirectArities[Head(d.name)] /\ d.usr = kept.usr
  BY DEF KeepsOperator, SelectInSeq, TakesClass
<1>2. List(bucket) /\ ToSet(bucket) = T
  BY KeptElements
<1> HIDE DEF bucket
<1>3. d \in T /\ T \subseteq ToSet(group)
  OBVIOUS
<1>4. DOMAIN bucket = 1 .. Len(bucket) /\ Len(bucket) \in Nat /\ \A e : e \in T <=> \E i \in DOMAIN bucket : e = bucket[i]
  BY <1>2, Positions DEF List
<1>5. 1 \in DOMAIN bucket
  BY <1>3, <1>4
<1>6. kept \in T
  <2>1. CASE I = {}
    BY <1>4, <1>5, <2>1
  <2>2. CASE I # {}
    <3>1. I \subseteq Nat /\ I \subseteq DOMAIN bucket /\ 0 \notin I
      BY <1>4
    <3> HIDE DEF I
    <3>2. Min(I) \in I
      BY <2>2, <3>1, LeastPosition, Zenon
    <3>3. native = Min(I) /\ Min(I) # 0
      BY <2>2, <3>1, <3>2
    <3>4. kept = bucket[Min(I)]
      BY <3>3
    <3> HIDE DEF kept, native, T
    <3> QED BY <1>4, <3>1, <3>2, <3>4, Zenon
  <2> QED BY <2>1, <2>2
<1>7. (\E e \in T : TakesClass(record, e)) => TakesClass(record, kept)
  <2>1. ASSUME NEW e \in T, TakesClass(record, e)
        PROVE  TakesClass(record, kept)
    <3>1. PICK i \in DOMAIN bucket : e = bucket[i]
      BY <1>4
    <3>2. i \in I /\ I \subseteq Nat /\ 0 \notin I
      BY <1>4, <2>1, <3>1
    <3>3. Min(I) \in I
      <4> HIDE DEF I
      <4> QED BY <3>2, LeastPosition
    <3>4. kept = bucket[Min(I)]
      <4> HIDE DEF I
      <4> QED BY <3>2, <3>3
    <3>5. TakesClass(record, bucket[Min(I)])
      BY <3>3
    <3> QED BY <3>4, <3>5
  <2> QED BY <2>1
<1> HIDE DEF kept, native, I
<1>8. d.usr = kept.usr <=> d = kept
  BY <1>3, <1>6, OneOfAUsr
<1>9. CASE d = kept
  <2>1. TakesClass(record, d) \/ Sole(group, d)
    <3>1. ASSUME ~Sole(group, d)
          PROVE  TakesClass(record, d)
      <4>1. PICK e \in ToSet(group) : Len(e.params) = Len(d.params) /\ e # d
        BY <3>1 DEF Sole
      <4>2. PICK f \in ToSet(group) : Len(f.params) = Len(d.params) /\ TakesClass(record, f)
        BY <4>1 DEF OneTakes
      <4>3. f \in T
        BY <4>2
      <4> QED BY <1>7, <1>9, <4>2, <4>3
    <3> QED BY <3>1
  <2> QED BY <1>1, <1>8, <1>9, <2>1
<1>10. CASE d # kept
  <2>1. kept \in ToSet(group) /\ Len(kept.params) = Len(d.params)
    BY <1>6
  <2>2. ~Sole(group, d)
    BY <1>10, <2>1 DEF Sole
  <2>3. ~TakesClass(record, d)
    <3>1. ASSUME TakesClass(record, d)
          PROVE  FALSE
      <4>1. TakesClass(record, kept)
        BY <1>3, <1>7, <3>1
      <4> HIDE DEF T
      <4> QED BY <1>10, <2>1, <3>1, <4>1 DEF OneTakes
    <3> QED BY <3>1
  <2> QED BY <1>1, <1>8, <1>10, <2>2, <2>3
<1> QED BY <1>9, <1>10

\* Two lists of the same overloads, and of classes that are alike.
SameOverloads(g, h) == List(g) /\ List(h) /\ ToSet(g) = ToSet(h)
SameClasses(R, S) ==
  /\ \A r \in ToSet(R) : \E t \in ToSet(S) : Alike(r, t)
  /\ \A t \in ToSet(S) : \E r \in ToSet(R) : Alike(r, t)

LEMMA SameMix ==
  ASSUME NEW g, NEW h, SameOverloads(g, h)
  PROVE  /\ Len(g) = Len(h) /\ Len(g) \in Nat
         /\ MixesStatic(g) <=> MixesStatic(h)
         /\ ConstPair(g) <=> ConstPair(h)
<1>1. Len(g) = Len(h) /\ Len(g) \in Nat
  BY CountsElements, Positions DEF SameOverloads, List
<1>2. /\ \A e : e \in ToSet(g) <=> \E i \in DOMAIN g : e = g[i]
      /\ \A e : e \in ToSet(h) <=> \E i \in DOMAIN h : e = h[i]
      /\ ToSet(g) = ToSet(h) /\ DOMAIN g = 1 .. Len(g) /\ DOMAIN h = 1 .. Len(h)
  BY Positions DEF SameOverloads, List
<1>3. MixesStatic(g) <=> MixesStatic(h)
  <2>1. MixesStatic(g) <=> \E a, b \in ToSet(g) : a.static /\ ~b.static
    BY DEF MixesStatic, ToSet
  <2>2. MixesStatic(h) <=> \E a, b \in ToSet(h) : a.static /\ ~b.static
    BY DEF MixesStatic, ToSet
  <2> QED BY <1>2, <2>1, <2>2
<1>4. ASSUME NEW s \in {g, h}, Len(s) = 2, NEW a \in ToSet(s), NEW b \in ToSet(s), a # b
      PROVE  ConstPair(s) <=> a.params = b.params /\ a.const # b.const
  <2>1. DOMAIN s = {1, 2}
    BY <1>2, <1>4
  <2>2. /\ a = s[1] \/ a = s[2]
        /\ b = s[1] \/ b = s[2]
    BY <1>2, <1>4, <2>1, Zenon
  <2> QED BY <1>4, <2>2 DEF ConstPair
<1>5. CASE Len(g) = 2
  <2>1. g[1] \in ToSet(g) /\ g[2] \in ToSet(g) /\ g[1] # g[2]
    <3>1. DOMAIN g = {1, 2}
      BY <1>2, <1>5
    <3>2. g[1] # g[2]
      BY <3>1 DEF SameOverloads, List
    <3> QED BY <1>2, <3>1, <3>2
  <2> DEFINE a == g[1]
             b == g[2]
  <2> HIDE DEF a, b
  <2>2. a \in ToSet(g) /\ b \in ToSet(g) /\ a # b /\ ToSet(g) = ToSet(h)
    BY <1>2, <2>1 DEF a, b
  <2>3. ConstPair(g) <=> a.params = b.params /\ a.const # b.const
    BY <1>4, <1>5, <2>2
  <2>4. ConstPair(h) <=> a.params = b.params /\ a.const # b.const
    BY <1>1, <1>4, <1>5, <2>2, Zenon
  <2> QED BY <1>1, <1>3, <2>3, <2>4
<1>6. CASE Len(g) # 2
  BY <1>1, <1>3, <1>6 DEF ConstPair
<1> QED BY <1>5, <1>6


LEMMA SameRenamed ==
  ASSUME NEW g, NEW h, SameOverloads(g, h), NEW R, NEW S, SameClasses(R, S), NEW d \in ToSet(g),
         IsOperator(d.name) =>
           /\ \A r \in ToSet(R) : r.usr = d.owner => OneTakes(g, r)
           /\ \A r \in ToSet(S) : r.usr = d.owner => OneTakes(h, r)
  PROVE  Renamed(g, R, d) = Renamed(h, S, d)
<1>1. Len(g) = Len(h) /\ (MixesStatic(g) <=> MixesStatic(h)) /\ (ConstPair(g) <=> ConstPair(h))
  BY SameMix
<1>2. ASSUME IsOperator(d.name)
      PROVE  OperatorRename(g, R, d) = OperatorRename(h, S, d)
  <2>1. ASSUME NEW r \in ToSet(R), NEW t \in ToSet(S), Alike(r, t), r.usr = d.owner
        PROVE  KeepsOperator(g, r, d) <=> KeepsOperator(h, t, d)
    <3>1. OneTakes(g, r) /\ OneTakes(h, t)
      BY <1>2, <2>1, Zenon DEF Alike
    <3>2. TakesClass(r, d) <=> TakesClass(t, d)
      BY <2>1 DEF TakesClass, Alike
    <3>3. Sole(g, d) <=> Sole(h, d)
      BY DEF Sole, SameOverloads
    <3>4. KeepsOperator(g, r, d) <=> Len(d.params) \in DirectArities[Head(d.name)] /\ (TakesClass(r, d) \/ Sole(g, d))
      BY <3>1, Keeper DEF SameOverloads
    <3>5. KeepsOperator(h, t, d) <=> Len(d.params) \in DirectArities[Head(d.name)] /\ (TakesClass(t, d) \/ Sole(h, d))
      BY <3>1, Keeper DEF SameOverloads
    <3> QED BY <3>2, <3>3, <3>4, <3>5
  <2>2. /\ \A r \in ToSet(R) : \E t \in ToSet(S) : Alike(r, t) /\ t.usr = r.usr
        /\ \A t \in ToSet(S) : \E r \in ToSet(R) : Alike(r, t) /\ t.usr = r.usr
    BY DEF SameClasses, Alike
  <2>3. (\E r \in ToSet(R) : r.usr = d.owner /\ KeepsOperator(g, r, d))
          <=> (\E t \in ToSet(S) : t.usr = d.owner /\ KeepsOperator(h, t, d))
    BY <2>1, <2>2
  <2> QED BY <2>3 DEF OperatorRename
<1> QED BY <1>1, <1>2 DEF Renamed

LEMMA SameNumbered ==
  ASSUME NEW g, NEW h, SameOverloads(g, h), NEW R, NEW S, NEW d \in ToSet(g),
         \A e \in ToSet(g) : Renamed(g, R, e) = Renamed(h, S, e)
  PROVE  Numbered(g, R, d) = Numbered(h, S, d)
<1>1. ToSet(g) = ToSet(h) /\ Renamed(g, R, d) = Renamed(h, S, d)
  BY DEF SameOverloads
<1> DEFINE rank(e) == SelectInSeq(UsrOrder, LAMBDA u : u = e.usr)
           a == Renamed(g, R, d)
           b == Renamed(h, S, d)
           G == {e \in ToSet(g) : Renamed(g, R, e) = a /\ rank(e) <= rank(d)}
           H == {e \in ToSet(h) : Renamed(h, S, e) = b /\ rank(e) <= rank(d)}
<1>2. /\ Numbered(g, R, d) = IF Cardinality(G) <= 1 THEN a ELSE Append(a, Numeral[Cardinality(G)])
      /\ Numbered(h, S, d) = IF Cardinality(H) <= 1 THEN b ELSE Append(b, Numeral[Cardinality(H)])
  BY DEF Numbered
<1>3. G = H
  <2> HIDE DEF rank
  <2> QED BY <1>1
<1> HIDE DEF G, H, a, b
<1>4. a = b
  BY <1>1 DEF a, b
<1> QED BY <1>2, <1>3, <1>4


\* A function is declared the same by its prototypes and its definition.
LEMMA DeclaredOnce ==
  ASSUME Consistent(program), NEW c \in Functions(CursorsIn(program)), NEW d \in Functions(CursorsIn(program)), c.usr = d.usr
  PROVE  c.kind = d.kind /\ c.owner = d.owner /\ c.name = d.name /\ c.params = d.params
<1> DEFINE b == [c EXCEPT !.def = d.def]
<1>1. c \in CursorsIn(program) /\ d \in CursorsIn(program) /\ {c.kind, d.kind} \subseteq FunctionLike
  BY DEF Functions
<1>2. DeclarationOf(b) = DeclarationOf(d)
  BY <1>1 DEF Consistent, DeclaredAlike
<1>3. b.usr = c.usr /\ b.kind = c.kind /\ b.owner = c.owner /\ b.name = c.name /\ b.params = c.params
  OBVIOUS
<1> HIDE DEF b
<1>4. /\ DeclarationOf(b).kind = b.kind /\ DeclarationOf(d).kind = d.kind
      /\ DeclarationOf(b).owner = b.owner /\ DeclarationOf(d).owner = d.owner
      /\ DeclarationOf(b).name = b.name /\ DeclarationOf(d).name = d.name
      /\ DeclarationOf(b).params = b.params /\ DeclarationOf(d).params = d.params
  BY DEF DeclarationOf
<1> QED BY <1>2, <1>3, <1>4

LEMMA DeclsSay ==
  ASSUME program \in Programs, Consistent(program), NEW p, Complete(p)
  PROVE  /\ List(Decls(p))
         /\ \A d \in ToSet(Decls(p)) : \E c \in Functions(CursorsIn(program)) :
              d.usr = c.usr /\ d.kind = c.kind /\ d.owner = c.owner /\ d.name = c.name /\ d.params = c.params
         /\ \A c \in Functions(CursorsIn(program)) : \E d \in ToSet(Decls(p)) :
              d.usr = c.usr /\ d.kind = c.kind /\ d.owner = c.owner /\ d.name = c.name /\ d.params = c.params
<1> DEFINE X == CursorsIn(program)
           D == {DeclarationOf(c) : c \in Functions(X)}
<1>1. Upserted(Decls(p), D)
  BY MergedFacts, Zenon
<1>2. \A c \in Functions(X) :
        /\ DeclarationOf(c).usr = c.usr /\ DeclarationOf(c).kind = c.kind /\ DeclarationOf(c).owner = c.owner
        /\ DeclarationOf(c).name = c.name /\ DeclarationOf(c).params = c.params
  BY DEF DeclarationOf
<1>3. \A c, d \in Functions(X) :
        c.usr = d.usr => c.kind = d.kind /\ c.owner = d.owner /\ c.name = d.name /\ c.params = d.params
  BY DeclaredOnce
<1> HIDE DEF X
<1>4. \A d \in ToSet(Decls(p)) : \E c \in Functions(X) : d = DeclarationOf(c)
  BY <1>1 DEF Upserted
<1>5. \A c \in Functions(X) : \E d \in ToSet(Decls(p)) : d.usr = c.usr
  BY <1>1, <1>2 DEF Upserted
<1>6. \A d \in ToSet(Decls(p)) : \E c \in Functions(X) :
        d.usr = c.usr /\ d.kind = c.kind /\ d.owner = c.owner /\ d.name = c.name /\ d.params = c.params
  BY <1>2, <1>4
<1>7. \A c \in Functions(X) : \E d \in ToSet(Decls(p)) :
        d.usr = c.usr /\ d.kind = c.kind /\ d.owner = c.owner /\ d.name = c.name /\ d.params = c.params
  <2>1. ASSUME NEW c \in Functions(X)
        PROVE  \E d \in ToSet(Decls(p)) :
                 d.usr = c.usr /\ d.kind = c.kind /\ d.owner = c.owner /\ d.name = c.name /\ d.params = c.params
    <3>1. PICK d \in ToSet(Decls(p)) : d.usr = c.usr
      BY <1>5
    <3>2. PICK b \in Functions(X) :
            d.usr = b.usr /\ d.kind = b.kind /\ d.owner = b.owner /\ d.name = b.name /\ d.params = b.params
      BY <1>6
    <3> QED BY <1>3, <3>1, <3>2, Zenon
  <2> QED BY <2>1
<1>8. List(Decls(p))
  BY <1>1 DEF Upserted
<1> QED BY <1>6, <1>7, <1>8 DEF X

LEMMA OverloadElements ==
  ASSUME NEW decls, List(decls), NEW d
  PROVE  /\ List(OverloadsOf(decls, d))
         /\ ToSet(OverloadsOf(decls, d)) =
              {e \in ToSet(decls) : e.kind \in {"fn", "method"} /\ e.owner = d.owner /\ e.name = d.name}
<1> DEFINE T == {e \in ToSet(decls) : e.kind \in {"fn", "method"} /\ e.owner = d.owner /\ e.name = d.name}
<1>1. OverloadsOf(decls, d) = Keep(decls, T)
  BY DEF OverloadsOf
<1>2. T \subseteq ToSet(decls)
  OBVIOUS
<1> HIDE DEF T
<1>3. List(Keep(decls, T)) /\ ToSet(Keep(decls, T)) = ToSet(decls) \cap T
  BY KeptElements
<1>4. List(OverloadsOf(decls, d)) /\ ToSet(OverloadsOf(decls, d)) = T
  BY <1>1, <1>2, <1>3
<1> QED BY <1>4 DEF T

LEMMA OneOfThem ==
  ASSUME program \in Programs, Orderly(program), NEW p, Complete(p),
         NEW d \in ToSet(Decls(p)), IsOperator(d.name), NEW r \in ToSet(Classes(p)), r.usr = d.owner
  PROVE  OneTakes(OverloadsOf(Decls(p), d), r)
<1> DEFINE X == CursorsIn(program)
           g == OverloadsOf(Decls(p), d)
           operators == {x \in X : x.kind \in {"fn", "method"} /\ x.owner = r.usr /\ IsOperator(x.name)}
           Same(e, c) == e.usr = c.usr /\ e.kind = c.kind /\ e.owner = c.owner /\ e.name = c.name /\ e.params = c.params
<1>1. /\ List(Decls(p))
      /\ \A e \in ToSet(Decls(p)) : \E c \in Functions(X) : Same(e, c)
      /\ \A c \in Functions(X) : \E e \in ToSet(Decls(p)) : Same(e, c)
  BY DeclsSay DEF Orderly
<1>2. ToSet(g) = {e \in ToSet(Decls(p)) : e.kind \in {"fn", "method"} /\ e.owner = d.owner /\ e.name = d.name}
  <2>1. List(Decls(p))
    BY <1>1
  <2> QED BY ONLY <2>1, OverloadElements
<1>3. PICK k \in X : k.kind = "record" /\ k.usr = r.usr /\ k.name = r.name
  BY MergedFacts, Zenon DEF Told, Orderly
<1>4. \A c, e \in operators :
        (c.name = e.name /\ Len(c.params) = Len(e.params) /\ c.usr # e.usr) =>
          /\ ~(TakesClass(k, c) /\ TakesClass(k, e))
          /\ \E f \in operators : f.name = c.name /\ Len(f.params) = Len(c.params) /\ TakesClass(k, f)
  <2>1. OneNative(program)
    BY DEF Orderly
  <2> QED BY <1>3, <2>1 DEF OneNative
<1>5. operators \subseteq Functions(X) /\ \A c \in Functions(X) : c \in X
  BY DEF Functions, FunctionLike
<1>6. \A e, c : Same(e, c) => (TakesClass(r, e) <=> TakesClass(k, c))
  BY <1>3 DEF TakesClass
<1> HIDE DEF X, g
<1>7. ASSUME NEW e \in ToSet(g)
      PROVE  \E c \in operators : Same(e, c) /\ c.name = d.name
  <2>1. e \in ToSet(Decls(p)) /\ e.kind \in {"fn", "method"} /\ e.owner = d.owner /\ e.name = d.name
    BY <1>2
  <2>2. PICK c \in Functions(X) : Same(e, c)
    BY <1>1, <2>1
  <2> QED BY <1>5, <2>1, <2>2
<1>8. ASSUME NEW c \in operators, c.name = d.name
      PROVE  \E e \in ToSet(g) : Same(e, c)
  <2>1. PICK e \in ToSet(Decls(p)) : Same(e, c)
    BY <1>1, <1>5
  <2> QED BY <1>2, <1>8, <2>1
<1>9. ASSUME NEW a \in ToSet(g), NEW b \in ToSet(g), Len(a.params) = Len(b.params), a # b
      PROVE  /\ ~(TakesClass(r, a) /\ TakesClass(r, b))
             /\ \E f \in ToSet(g) : Len(f.params) = Len(a.params) /\ TakesClass(r, f)
  <2>1. PICK c \in operators : Same(a, c) /\ c.name = d.name
    BY <1>7
  <2>2. PICK e \in operators : Same(b, e) /\ e.name = d.name
    BY <1>7
  <2>3. c.usr # e.usr
    <3>1. a \in ToSet(Decls(p)) /\ b \in ToSet(Decls(p))
      BY <1>2
    <3>2. a.usr # b.usr
      BY <1>1, <1>9, <3>1, OneOfAUsr
    <3> QED BY <2>1, <2>2, <3>2
  <2>4. /\ ~(TakesClass(k, c) /\ TakesClass(k, e))
        /\ \E f \in operators : f.name = c.name /\ Len(f.params) = Len(c.params) /\ TakesClass(k, f)
    BY <1>4, <1>9, <2>1, <2>2, <2>3
  <2>5. PICK f \in operators : f.name = c.name /\ Len(f.params) = Len(c.params) /\ TakesClass(k, f)
    BY <2>4
  <2>6. PICK h \in ToSet(g) : Same(h, f)
    BY <1>8, <2>1, <2>5
  <2>7. Len(h.params) = Len(a.params) /\ TakesClass(r, h)
    BY <1>6, <2>1, <2>5, <2>6
  <2>8. ~(TakesClass(r, a) /\ TakesClass(r, b))
    BY <1>6, <2>1, <2>2, <2>4
  <2> QED BY <2>7, <2>8
<1>10. OneTakes(g, r)
  BY <1>9 DEF OneTakes
<1> QED BY <1>10 DEF g

LEMMA BothAlike ==
  ASSUME program \in Programs, Consistent(program), NEW p, NEW q, Complete(p), Complete(q)
  PROVE  SameClasses(Classes(p), Classes(q))
<1>1. /\ \A r \in ToSet(Classes(p)) : \E t \in ToSet(Classes(q)) : Alike(r, t)
      /\ \A t \in ToSet(Classes(q)) : \E r \in ToSet(Classes(p)) : Alike(t, r)
  BY ClassesAlike
<1>2. \A r, t : Alike(t, r) => Alike(r, t)
  BY DEF Alike
<1> QED BY <1>1, <1>2 DEF SameClasses

LEMMA SameNames ==
  ASSUME program \in Programs, Orderly(program), NEW p, NEW q, Complete(p), Complete(q)
  PROVE  Names(p) = Names(q)
<1> DEFINE D == ToSet(Decls(p))
           named == {d \in D : d.kind \in {"fn", "method"}}
           a(d) == SafeName(Numbered(OverloadsOf(Decls(p), d), Classes(p), d))
           b(d) == SafeName(Numbered(OverloadsOf(Decls(q), d), Classes(q), d))
<1>1. ToSet(Decls(q)) = D
  BY DeclsWithin DEF Orderly
<1>2. /\ Names(p) = [u \in {d.usr : d \in named} |-> a(CHOOSE d \in named : d.usr = u)]
      /\ Names(q) = [u \in {d.usr : d \in named} |-> b(CHOOSE d \in named : d.usr = u)]
  BY <1>1 DEF Names, RenamesOf
<1>3. SameClasses(Classes(p), Classes(q))
  BY BothAlike DEF Orderly
<1>4. ASSUME NEW d \in named
      PROVE  a(d) = b(d)
  <2> DEFINE g == OverloadsOf(Decls(p), d)
             h == OverloadsOf(Decls(q), d)
             T == {e \in D : e.kind \in {"fn", "method"} /\ e.owner = d.owner /\ e.name = d.name}
  <2>1. List(Decls(p)) /\ List(Decls(q))
    BY DeclsSay DEF Orderly
  <2>2. List(g) /\ List(h) /\ ToSet(g) = T /\ ToSet(h) = T
    BY <1>1, <2>1, OverloadElements
  <2>3. SameOverloads(g, h)
    BY <2>2 DEF SameOverloads
  <2>4. d \in T
    OBVIOUS
  <2>5. ASSUME NEW e \in T
        PROVE  Renamed(g, Classes(p), e) = Renamed(h, Classes(q), e)
    <3>1. OverloadsOf(Decls(p), e) = g /\ OverloadsOf(Decls(q), e) = h
      BY <2>5, Zenon DEF OverloadsOf
    <3>2. e \in ToSet(Decls(p)) /\ e \in ToSet(Decls(q))
      BY <1>1
    <3> HIDE DEF g, h
    <3>3. IsOperator(e.name) => \A r \in ToSet(Classes(p)) : r.usr = e.owner => OneTakes(g, r)
      BY <3>1, <3>2, OneOfThem
    <3>4. IsOperator(e.name) => \A r \in ToSet(Classes(q)) : r.usr = e.owner => OneTakes(h, r)
      BY <3>1, <3>2, OneOfThem
    <3> QED BY <1>3, <2>2, <2>3, <3>3, <3>4, SameRenamed
  <2> HIDE DEF g, h, T
  <2>6. Numbered(g, Classes(p), d) = Numbered(h, Classes(q), d)
    BY <2>2, <2>3, <2>4, <2>5, SameNumbered
  <2> QED BY <2>6 DEF g, h
<1> HIDE DEF named
<1>5. \A u \in {d.usr : d \in named} : (CHOOSE d \in named : d.usr = u) \in named
  OBVIOUS
<1> HIDE DEF a, b
<1> QED BY <1>2, <1>4, <1>5


-----------------------------------------------------------------------------
(* The finishing passes change each class by itself.                       *)
Shown(R, r) == IF \A t \in R : t.name = r.name => t = r THEN r.name ELSE Candidate(r)

LEMMA NameShown ==
  ASSUME NEW s, List(s), NEW i \in DOMAIN s,
         \A t \in ToSet(s) : t.name = s[i].name /\ Candidate(t) = Candidate(s[i]) => t = s[i]
  PROVE  DartName(s, i) = Shown(ToSet(s), s[i])
<1> DEFINE n == Len(s)
           r == s[i]
           named == {j \in DOMAIN s : s[j].name = r.name}
           before == {j \in named : j <= i /\ Candidate(s[j]) = Candidate(r)}
<1>1. n \in Nat /\ DOMAIN s = 1 .. n /\ \A t : t \in ToSet(s) <=> \E j \in DOMAIN s : t = s[j]
  BY Positions DEF List
<1>2. named \in SUBSET (1 .. n) /\ i \in named /\ before \in SUBSET (1 .. n) /\ i \in before
  BY <1>1
<1>3. \A j \in DOMAIN s : s[j] = r => j = i
  BY DEF List
<1>4. \A j \in before : j = i
  BY <1>1, <1>3
<1>5. (\A j \in named : j = i) <=> (\A t \in ToSet(s) : t.name = r.name => t = r)
  BY <1>1, <1>3
<1>6. DartName(s, i) = IF Cardinality(named) = 1 THEN r.name
                       ELSE IF Cardinality(before) = 1 THEN Candidate(r)
                       ELSE Append(Candidate(r), Numeral[Cardinality(before)])
  BY DEF DartName
<1> HIDE DEF n, named, before
<1>7. Cardinality(before) = 1 /\ (Cardinality(named) = 1 <=> \A j \in named : j = i)
  BY <1>1, <1>2, <1>4, AloneAt
<1> QED BY <1>5, <1>6, <1>7 DEF Shown

Passed(p, r, name) ==
  [usr |-> r.usr, name |-> name, ns |-> r.ns,
   methods |-> RejectEnums(Enums(p), RenameAll(Names(p), r.methods)),
   ctors |-> RejectEnums(Enums(p), RenameAll(Names(p), r.ctors)),
   dtor |-> RejectEnums(Enums(p), r.dtor)]

LEMMA ClassPassed ==
  ASSUME program \in Programs, Consistent(program), NEW p, Complete(p)
  PROVE  /\ DOMAIN FinishedClasses(p) = DOMAIN Classes(p)
         /\ \A i \in DOMAIN Classes(p) : FinishedClasses(p)[i] = Passed(p, Classes(p)[i], DartName(Classes(p), i))
<1> DEFINE X == CursorsIn(program)
           s == Classes(p)
           N == Names(p)
           E == Enums(p)
           renamed == RenameMembers(N, s)
           named == Disambiguate(renamed)
           m(i) == RenameAll(N, s[i].methods)
           k(i) == RenameAll(N, s[i].ctors)
           mm(i) == RejectEnums(E, m(i))
           kk(i) == RejectEnums(E, k(i))
           dd(i) == RejectEnums(E, s[i].dtor)
<1>1. United(s, X) /\ \A r \in ToSet(s) : Told(r, X)
  BY MergedFacts
<1>2. FinishedClasses(p) = RejectInMembers(E, named)
  BY DEF FinishedClasses
<1> HIDE DEF X, N, E, s
<1>4. /\ DOMAIN renamed = DOMAIN s
      /\ \A i \in DOMAIN s : renamed[i] = [s[i] EXCEPT !.methods = m(i), !.ctors = k(i)]
  BY DEF RenameMembers
<1> HIDE DEF renamed
<1>5. /\ DOMAIN named = DOMAIN renamed
      /\ \A i \in DOMAIN renamed : named[i] = [renamed[i] EXCEPT !.name = DartName(renamed, i)]
  BY DEF Disambiguate
<1> HIDE DEF named
<1>6. /\ DOMAIN FinishedClasses(p) = DOMAIN named
      /\ \A i \in DOMAIN named :
           FinishedClasses(p)[i] = [named[i] EXCEPT !.methods = RejectEnums(E, @), !.ctors = RejectEnums(E, @),
                                                    !.dtor = RejectEnums(E, @)]
  BY <1>2, Zenon DEF RejectInMembers
<1> HIDE DEF m, k
<1>7. \A i \in DOMAIN s : Record(s[i])
  BY <1>1 DEF Told, ToSet
<1>8. ASSUME NEW i \in DOMAIN s
      PROVE  /\ renamed[i].usr = s[i].usr /\ renamed[i].name = s[i].name /\ renamed[i].ns = s[i].ns
             /\ renamed[i] = [usr |-> s[i].usr, name |-> s[i].name, ns |-> s[i].ns, methods |-> m(i), ctors |-> k(i),
                              dtor |-> s[i].dtor]
  <2> DEFINE r == s[i]
             e == renamed[i]
             mi == m(i)
             ki == k(i)
  <2>1. e = [r EXCEPT !.methods = mi, !.ctors = ki] /\ Record(r)
    BY <1>4, <1>7, Zenon
  <2> HIDE DEF r, e, mi, ki
  <2>2. e = [usr |-> r.usr, name |-> r.name, ns |-> r.ns, methods |-> mi, ctors |-> ki, dtor |-> r.dtor]
    BY <2>1 DEF Record
  <2> QED BY <2>2 DEF r, e, mi, ki
<1>9. ASSUME NEW i \in DOMAIN s
      PROVE  DartName(renamed, i) = DartName(s, i)
  <2> DEFINE named1 == {j \in DOMAIN s : s[j].name = s[i].name}
             named2 == {j \in DOMAIN renamed : renamed[j].name = renamed[i].name}
             before1 == {j \in named1 : j <= i /\ Candidate(s[j]) = Candidate(s[i])}
             before2 == {j \in named2 : j <= i /\ Candidate(renamed[j]) = Candidate(renamed[i])}
  <2>1. \A j \in DOMAIN s : Candidate(renamed[j]) = Candidate(s[j]) /\ renamed[j].name = s[j].name
    BY <1>8 DEF Candidate
  <2>2. DartName(s, i) = IF Cardinality(named1) = 1 THEN s[i].name
                         ELSE IF Cardinality(before1) = 1 THEN Candidate(s[i])
                         ELSE Append(Candidate(s[i]), Numeral[Cardinality(before1)])
    BY DEF DartName
  <2>3. DartName(renamed, i) = IF Cardinality(named2) = 1 THEN renamed[i].name
                               ELSE IF Cardinality(before2) = 1 THEN Candidate(renamed[i])
                               ELSE Append(Candidate(renamed[i]), Numeral[Cardinality(before2)])
    BY DEF DartName
  <2>4. named1 = named2 /\ before1 = before2
    BY <1>4, <2>1, Zenon
  <2> HIDE DEF named1, named2, before1, before2
  <2> QED BY <2>1, <2>2, <2>3, <2>4
<1>10. ASSUME NEW i \in DOMAIN s
       PROVE  FinishedClasses(p)[i] = Passed(p, s[i], DartName(s, i))
  <2> DEFINE a == renamed[i]
             b == named[i]
             name == DartName(renamed, i)
             mi == m(i)
             ki == k(i)
             r == s[i]
  <2>1. a = [usr |-> r.usr, name |-> r.name, ns |-> r.ns, methods |-> mi, ctors |-> ki, dtor |-> r.dtor]
    BY <1>8
  <2>2. b = [a EXCEPT !.name = name]
    BY <1>4, <1>5, Zenon
  <2>3. FinishedClasses(p)[i] = [b EXCEPT !.methods = RejectEnums(E, @), !.ctors = RejectEnums(E, @),
                                          !.dtor = RejectEnums(E, @)]
    BY <1>4, <1>5, <1>6, Zenon
  <2>4. name = DartName(s, i)
    BY <1>9
  <2> HIDE DEF a, b, name, mi, ki, r
  <2>5. b = [usr |-> r.usr, name |-> name, ns |-> r.ns, methods |-> mi, ctors |-> ki, dtor |-> r.dtor]
    BY <2>1, <2>2
  <2>6. FinishedClasses(p)[i] = [usr |-> r.usr, name |-> name, ns |-> r.ns, methods |-> RejectEnums(E, mi),
                                 ctors |-> RejectEnums(E, ki), dtor |-> RejectEnums(E, r.dtor)]
    BY <2>3, <2>5, Zenon
  <2>7. Passed(p, r, name) = [usr |-> r.usr, name |-> name, ns |-> r.ns, methods |-> RejectEnums(E, mi),
                             ctors |-> RejectEnums(E, ki), dtor |-> RejectEnums(E, r.dtor)]
    <3>1. mi = RenameAll(N, r.methods) /\ ki = RenameAll(N, r.ctors)
      BY DEF mi, ki, m, k, r
    <3> QED BY <3>1 DEF Passed, N, E
  <2> QED BY <2>4, <2>6, <2>7 DEF r
<1>11. DOMAIN FinishedClasses(p) = DOMAIN s
  BY <1>4, <1>5, <1>6, Zenon
<1> QED BY <1>10, <1>11 DEF s

FinishClass(p, r) == Passed(p, r, Shown(ToSet(Classes(p)), r))

LEMMA ClassFinished ==
  ASSUME program \in Programs, Orderly(program), NEW p, Complete(p)
  PROVE  /\ DOMAIN FinishedClasses(p) = DOMAIN Classes(p)
         /\ \A i \in DOMAIN Classes(p) : FinishedClasses(p)[i] = FinishClass(p, Classes(p)[i])
<1> DEFINE X == CursorsIn(program)
           s == Classes(p)
<1>1. List(s) /\ \A r \in ToSet(s) : Told(r, X)
  BY MergedFacts, Zenon DEF Orderly, United
<1>2. ASSUME NEW i \in DOMAIN s
      PROVE  DartName(s, i) = Shown(ToSet(s), s[i])
  <2>1. ASSUME NEW t \in ToSet(s), t.name = s[i].name, Candidate(t) = Candidate(s[i])
        PROVE  t = s[i]
    <3>1. s[i] \in ToSet(s)
      BY DEF ToSet
    <3>2. PICK c \in X : c.kind = "record" /\ c.usr = s[i].usr /\ c.name = s[i].name /\ c.ns = s[i].ns
      BY <1>1, <3>1, Zenon DEF Told
    <3>3. PICK d \in X : d.kind = "record" /\ d.usr = t.usr /\ d.name = t.name /\ d.ns = t.ns
      BY <1>1, Zenon DEF Told
    <3>4. c.name = d.name /\ Candidate(c) = Candidate(d)
      BY <2>1, <3>2, <3>3, Zenon DEF Candidate
    <3>5. c.usr = d.usr
      BY <3>2, <3>3, <3>4 DEF Orderly, DistinctClasses
    <3> HIDE DEF s
    <3> QED BY <1>1, <3>1, <3>2, <3>3, <3>5, OneOfAUsr, Zenon
  <2> HIDE DEF s
  <2> QED BY <1>1, <2>1, NameShown
<1>3. /\ DOMAIN FinishedClasses(p) = DOMAIN s
      /\ \A i \in DOMAIN s : FinishedClasses(p)[i] = Passed(p, s[i], DartName(s, i))
  BY ClassPassed DEF Orderly
<1> QED BY <1>2, <1>3 DEF FinishClass

-----------------------------------------------------------------------------
(* What is finished is the same, but for the order of the lists.           *)
LEMMA SameShown ==
  ASSUME NEW s, NEW z, List(s), List(z), SameClasses(s, z),
         NEW r \in ToSet(s), NEW t \in ToSet(z), Alike(r, t)
  PROVE  Shown(ToSet(s), r) = Shown(ToSet(z), t)
<1>1. r.usr = t.usr /\ r.name = t.name /\ Candidate(r) = Candidate(t)
  BY DEF Alike, Candidate
<1>2. \A a \in ToSet(s) : a = r <=> a.usr = r.usr
  BY OneOfAUsr
<1>3. \A a \in ToSet(z) : a = t <=> a.usr = t.usr
  BY OneOfAUsr
<1>4. /\ \A a \in ToSet(s) : \E b \in ToSet(z) : a.usr = b.usr /\ a.name = b.name
      /\ \A b \in ToSet(z) : \E a \in ToSet(s) : a.usr = b.usr /\ a.name = b.name
  BY DEF SameClasses, Alike
<1>5. (\A a \in ToSet(s) : a.name = r.name => a = r) <=> (\A b \in ToSet(z) : b.name = t.name => b = t)
  BY <1>1, <1>2, <1>3, <1>4
<1> QED BY <1>1, <1>5 DEF Shown

FinishBody(N, E, f) == [Rename(N, f) EXCEPT !.enums = @ \cap E]

LEMMA BodiesFinished ==
  ASSUME NEW N, NEW E, NEW s
  PROVE  /\ DOMAIN RejectEnums(E, RenameAll(N, s)) = DOMAIN s
         /\ \A i \in DOMAIN s : RejectEnums(E, RenameAll(N, s))[i] = FinishBody(N, E, s[i])
         /\ ToSet(RejectEnums(E, RenameAll(N, s))) = {FinishBody(N, E, f) : f \in ToSet(s)}
<1> DEFINE m == RenameAll(N, s)
           r == RejectEnums(E, m)
<1>1. DOMAIN m = DOMAIN s /\ \A i \in DOMAIN s : m[i] = Rename(N, s[i])
  BY DEF RenameAll
<1> HIDE DEF m
<1>2. DOMAIN r = DOMAIN m /\ \A i \in DOMAIN m : r[i] = [m[i] EXCEPT !.enums = @ \cap E]
  BY DEF RejectEnums
<1> HIDE DEF r
<1>3. DOMAIN r = DOMAIN s /\ \A i \in DOMAIN s : r[i] = FinishBody(N, E, s[i])
  BY <1>1, <1>2 DEF FinishBody
<1>4. ToSet(r) = {FinishBody(N, E, f) : f \in ToSet(s)}
  BY <1>3 DEF ToSet
<1> QED BY <1>3, <1>4 DEF r, m

AsSets(r) == [r EXCEPT !.methods = ToSet(@), !.ctors = ToSet(@)]

LEMMA SetsOf ==
  ASSUME NEW usr, NEW name, NEW ns, NEW methods, NEW ctors, NEW dtor
  PROVE  AsSets([usr |-> usr, name |-> name, ns |-> ns, methods |-> methods, ctors |-> ctors, dtor |-> dtor])
           = [usr |-> usr, name |-> name, ns |-> ns, methods |-> ToSet(methods), ctors |-> ToSet(ctors), dtor |-> dtor]
<1> DEFINE r == [usr |-> usr, name |-> name, ns |-> ns, methods |-> methods, ctors |-> ctors, dtor |-> dtor]
           m == ToSet(methods)
           k == ToSet(ctors)
<1>1. r.methods = methods /\ r.ctors = ctors
  OBVIOUS
<1>2. AsSets(r) = [r EXCEPT !.methods = m, !.ctors = k]
  BY <1>1 DEF AsSets
<1> HIDE DEF m, k
<1>3. AsSets(r) = [usr |-> usr, name |-> name, ns |-> ns, methods |-> m, ctors |-> k, dtor |-> dtor]
  BY <1>2
<1> QED BY <1>3 DEF m, k

LEMMA SameFinished ==
  ASSUME program \in Programs, Orderly(program), NEW p, NEW q, Complete(p), Complete(q),
         NEW r \in ToSet(Classes(p)), NEW t \in ToSet(Classes(q)), Alike(r, t)
  PROVE  /\ AsSets(FinishClass(p, r)) = AsSets(FinishClass(q, t))
         /\ FinishClass(p, r).usr = FinishClass(q, t).usr /\ FinishClass(p, r).dtor = FinishClass(q, t).dtor
<1> DEFINE N == Names(p)
           E == Enums(p)
           Methods(x) == RejectEnums(E, RenameAll(N, x.methods))
           Ctors(x) == RejectEnums(E, RenameAll(N, x.ctors))
           dtor == RejectEnums(E, r.dtor)
           name == Shown(ToSet(Classes(p)), r)
<1>1. Names(q) = N /\ Enums(q) = E
  BY SameNames, MergedFacts, Zenon DEF Orderly
<1>2. Shown(ToSet(Classes(q)), t) = name
  <2>1. List(Classes(p)) /\ List(Classes(q))
    BY MergedFacts, Zenon DEF United, Orderly
  <2>2. SameClasses(Classes(p), Classes(q))
    BY BothAlike DEF Orderly
  <2> QED BY <2>1, <2>2, SameShown
<1>3. r.usr = t.usr /\ r.ns = t.ns /\ r.dtor = t.dtor
      /\ ToSet(r.methods) = ToSet(t.methods) /\ ToSet(r.ctors) = ToSet(t.ctors)
  BY DEF Alike
<1> HIDE DEF N, E
<1>4. ToSet(Methods(r)) = ToSet(Methods(t)) /\ ToSet(Ctors(r)) = ToSet(Ctors(t))
  <2>1. \A s : ToSet(RejectEnums(E, RenameAll(N, s))) = {FinishBody(N, E, f) : f \in ToSet(s)}
    BY BodiesFinished
  <2> QED BY <1>3, <2>1, Zenon
<1>5. FinishClass(p, r) = [usr |-> r.usr, name |-> name, ns |-> r.ns, methods |-> Methods(r), ctors |-> Ctors(r),
                           dtor |-> dtor]
  BY DEF FinishClass, Passed, N, E
<1>6. FinishClass(q, t) = [usr |-> r.usr, name |-> name, ns |-> r.ns, methods |-> Methods(t), ctors |-> Ctors(t),
                           dtor |-> dtor]
  BY <1>1, <1>2, <1>3 DEF FinishClass, Passed
<1> HIDE DEF Methods, Ctors, name, dtor
<1>7. AsSets(FinishClass(p, r)) = [usr |-> r.usr, name |-> name, ns |-> r.ns, methods |-> ToSet(Methods(r)),
                                   ctors |-> ToSet(Ctors(r)), dtor |-> dtor]
  BY <1>5, SetsOf
<1>8. AsSets(FinishClass(q, t)) = [usr |-> r.usr, name |-> name, ns |-> r.ns, methods |-> ToSet(Methods(t)),
                                   ctors |-> ToSet(Ctors(t)), dtor |-> dtor]
  BY <1>6, SetsOf
<1> QED BY <1>4, <1>5, <1>6, <1>7, <1>8

LEMMA FinishedAlike ==
  ASSUME program \in Programs, Orderly(program), NEW p, NEW q, Complete(p), Complete(q)
  PROVE  \A a \in ToSet(FinishedClasses(p)) : \E b \in ToSet(FinishedClasses(q)) :
           AsSets(a) = AsSets(b) /\ a.usr = b.usr /\ a.dtor = b.dtor
<1>1. ASSUME NEW a \in ToSet(FinishedClasses(p))
      PROVE  \E b \in ToSet(FinishedClasses(q)) : AsSets(a) = AsSets(b) /\ a.usr = b.usr /\ a.dtor = b.dtor
  <2>1. PICK i \in DOMAIN FinishedClasses(p) : a = FinishedClasses(p)[i]
    BY DEF ToSet
  <2>2. i \in DOMAIN Classes(p) /\ a = FinishClass(p, Classes(p)[i])
    BY <2>1, ClassFinished
  <2>3. Classes(p)[i] \in ToSet(Classes(p))
    BY <2>2 DEF ToSet
  <2>4. PICK t \in ToSet(Classes(q)) : Alike(Classes(p)[i], t)
    BY <2>3, ClassesAlike DEF Orderly
  <2>5. PICK j \in DOMAIN Classes(q) : t = Classes(q)[j]
    BY DEF ToSet
  <2>6. FinishedClasses(q)[j] = FinishClass(q, t) /\ j \in DOMAIN FinishedClasses(q)
    BY <2>5, ClassFinished
  <2>7. FinishClass(q, t) \in ToSet(FinishedClasses(q))
    BY <2>6 DEF ToSet
  <2> QED BY <2>2, <2>3, <2>4, <2>7, SameFinished
<1> QED BY <1>1

Teardowns(records, usr) == {r.dtor[1].calls : r \in {x \in ToSet(records) : x.usr = usr /\ x.dtor # <<>>}}

LEMMA SameTeardown ==
  ASSUME program \in Programs, Orderly(program), NEW p, NEW q, Complete(p), Complete(q), NEW f
  PROVE  Teardown(FinishedClasses(p), f) = Teardown(FinishedClasses(q), f)
<1> DEFINE R == FinishedClasses(p)
           S == FinishedClasses(q)
<1>1. /\ \A a \in ToSet(R) : \E b \in ToSet(S) : a.usr = b.usr /\ a.dtor = b.dtor
      /\ \A b \in ToSet(S) : \E a \in ToSet(R) : a.usr = b.usr /\ a.dtor = b.dtor
  <2>1. \A a \in ToSet(R) : \E b \in ToSet(S) : AsSets(a) = AsSets(b) /\ a.usr = b.usr /\ a.dtor = b.dtor
    BY FinishedAlike
  <2>2. \A b \in ToSet(S) : \E a \in ToSet(R) : AsSets(b) = AsSets(a) /\ b.usr = a.usr /\ b.dtor = a.dtor
    BY FinishedAlike
  <2> HIDE DEF R, S
  <2> QED BY <2>1, <2>2
<1> HIDE DEF R, S
<1>2. \A usr : Teardowns(R, usr) = Teardowns(S, usr)
  <2>1. ASSUME NEW usr
        PROVE  Teardowns(R, usr) = Teardowns(S, usr)
    <3>1. Teardowns(R, usr) \subseteq Teardowns(S, usr)
      BY <1>1 DEF Teardowns
    <3>2. Teardowns(S, usr) \subseteq Teardowns(R, usr)
      BY <1>1 DEF Teardowns
    <3> QED BY <3>1, <3>2
  <2> QED BY <2>1
<1> DEFINE guarded(x) == {i \in DOMAIN f.locals : Teardowns(x, f.locals[i]) # {}}
<1>3. guarded(R) = guarded(S)
  BY <1>2
<1>4. \A x : Teardown(x, f) = IF guarded(x) = {} THEN {} ELSE UNION Teardowns(x, f.locals[Min(guarded(x))])
  BY DEF Teardown, Teardowns
<1> HIDE DEF guarded
<1>5. Teardown(R, f) = Teardown(S, f)
  BY <1>2, <1>3, <1>4, Zenon
<1> QED BY <1>5 DEF R, S

LEMMA FunctionsWithin ==
  ASSUME program \in Programs, Orderly(program), NEW p, NEW q, Complete(p), Complete(q)
  PROVE  ToSet(FinishedFunctions(p)) \subseteq ToSet(FinishedFunctions(q))
<1> DEFINE N == Names(p)
           E == Enums(p)
           Body(x) == RejectEnums(E, RenameAll(N, Lowered(x)))
           Guarded(f) == [f EXCEPT !.teardown = Teardown(FinishedClasses(p), f)]
<1>1. Names(q) = N /\ Enums(q) = E
  BY SameNames, MergedFacts, Zenon DEF Orderly
<1>2. FinishedFunctions(p) = Guard(FinishedClasses(p), Body(p)) /\ FinishedFunctions(q) = Guard(FinishedClasses(q), Body(q))
  BY <1>1 DEF FinishedFunctions
<1>3. ToSet(Body(p)) \subseteq ToSet(Body(q))
  <2>1. ToSet(Lowered(p)) \subseteq ToSet(Lowered(q))
    BY LoweredWithin DEF Orderly
  <2> HIDE DEF N, E
  <2>2. ToSet(Body(p)) = {FinishBody(N, E, f) : f \in ToSet(Lowered(p))}
        /\ ToSet(Body(q)) = {FinishBody(N, E, f) : f \in ToSet(Lowered(q))}
    BY BodiesFinished
  <2> HIDE DEF Body
  <2> QED BY <2>1, <2>2
<1> HIDE DEF Body
<1>4. \A f : Teardown(FinishedClasses(q), f) = Teardown(FinishedClasses(p), f)
  BY SameTeardown
<1>5. ToSet(FinishedFunctions(p)) = {Guarded(f) : f \in ToSet(Body(p))}
  BY <1>2 DEF Guard, ToSet
<1>6. ToSet(FinishedFunctions(q)) = {Guarded(f) : f \in ToSet(Body(q))}
  BY <1>2, <1>4 DEF Guard, ToSet
<1> HIDE DEF Guarded
<1> QED BY <1>3, <1>5, <1>6


-----------------------------------------------------------------------------
(* Types and pointers: a merged list has an entry for each usr the workers *)
(* noted, and nothing but what they noted.                                 *)
From(s, T) == Covers(s, T) /\ ToSet(s) \subseteq T

FromTurns(X, s, e) == FirstSeen(s, e)
FromHolds(X, s, Y) == From(s, X \cup Y)
FromLoop == INSTANCE Folding WITH Op <- FromTurns, Holds <- FromHolds

LEMMA FromAll ==
  ASSUME NEW base, NEW X, NEW s, s \in Seq(ToSet(s)), From(base, X)
  PROVE  From(FoldLeft(FirstSeen, base, s), X \cup ToSet(s))
<1>1. FoldLeft(FirstSeen, base, s) = FromLoop!Fold(X, base, s)
  BY DEF FromTurns, FromLoop!Fold, FoldLeft, MapThenFoldSet, FromLoop!MapThenFoldSet, Max, FromLoop!Last
<1>2. FromHolds(X, base, {})
  BY DEF FromHolds
<1>3. ASSUME NEW built, NEW Y, NEW e, FromHolds(X, built, Y)
      PROVE  FromHolds(X, FromTurns(X, built, e), Y \cup {e})
  <2> DEFINE r == FirstSeen(built, e)
             T == X \cup Y
  <2>1. Covers(built, T) /\ ToSet(built) \subseteq T
    BY <1>3 DEF FromHolds, From
  <2>2. built \in Seq(ToSet(built))
    BY <2>1 DEF Covers, List
  <2>3. X \cup (Y \cup {e}) = T \cup {e}
    OBVIOUS
  <2> HIDE DEF T
  <2>4. Covers(r, T \cup {e}) /\ ToSet(r) \subseteq ToSet(built) \cup {e}
    BY <2>1, <2>2, FirstSeenTurn, SeenFirst
  <2> HIDE DEF r
  <2>5. From(r, T \cup {e})
    BY <2>1, <2>4 DEF From
  <2> QED BY <2>3, <2>5, Zenon DEF FromHolds, FromTurns, r
<1> HIDE DEF FromHolds, FromTurns
<1>4. FromHolds(X, FromLoop!Fold(X, base, s), ToSet(s))
  BY <1>2, <1>3, FromLoop!Invariance DEF ToSet
<1> QED BY <1>1, <1>4 DEF FromHolds

\* The lists of one kind, the types or the pointers.
EntriesTurns(field, s, p) == FoldLeft(FirstSeen, s, p[field])
EntriesHolds(field, s, P) == From(s, UNION {ToSet(p[field]) : p \in P})
EntriesLoop == INSTANCE Folding WITH Op <- EntriesTurns, Holds <- EntriesHolds

LEMMA EntriesFrom ==
  ASSUME NEW field, NEW s, s \in Seq(ToSet(s)), \A p \in ToSet(s) : p[field] \in Seq(ToSet(p[field]))
  PROVE  From(EntriesLoop!Fold(field, <<>>, s), UNION {ToSet(p[field]) : p \in ToSet(s)})
<1>1. EntriesHolds(field, <<>>, {})
  <2>1. UNION {ToSet(p[field]) : p \in {}} = {}
    OBVIOUS
  <2>2. From(<<>>, {})
    BY EmptyList DEF From, Covers
  <2> QED BY <2>1, <2>2, Zenon DEF EntriesHolds
<1>2. ASSUME NEW built, NEW P, NEW p \in ToSet(s), EntriesHolds(field, built, P)
      PROVE  EntriesHolds(field, EntriesTurns(field, built, p), P \cup {p})
  <2> DEFINE t == p[field]
             X == UNION {ToSet(q[field]) : q \in P}
  <2>1. t \in Seq(ToSet(t)) /\ From(built, X)
    BY <1>2 DEF EntriesHolds
  <2>2. UNION {ToSet(q[field]) : q \in P \cup {p}} = X \cup ToSet(t)
    OBVIOUS
  <2>3. EntriesTurns(field, built, p) = FoldLeft(FirstSeen, built, t)
    BY DEF EntriesTurns
  <2> HIDE DEF t, X
  <2>4. From(FoldLeft(FirstSeen, built, t), X \cup ToSet(t))
    BY <2>1, FromAll
  <2> QED BY <2>2, <2>3, <2>4, Zenon DEF EntriesHolds
<1> HIDE DEF EntriesHolds, EntriesTurns
<1>3. EntriesHolds(field, EntriesLoop!Fold(field, <<>>, s), ToSet(s))
  BY <1>1, <1>2, EntriesLoop!Invariance DEF ToSet
<1> QED BY <1>3 DEF EntriesHolds

LEMMA EntriesMerged ==
  ASSUME NEW s
  PROVE  /\ FoldLeft(MergeTypes, <<>>, s) = EntriesLoop!Fold("types", <<>>, s)
         /\ FoldLeft(MergePointers, <<>>, s) = EntriesLoop!Fold("pointers", <<>>, s)
<1> DEFINE base == <<>>
<1> HIDE DEF base
<1>1. FoldLeft(MergeTypes, base, s) = EntriesLoop!Fold("types", base, s)
  BY DEF MergeTypes, EntriesTurns, EntriesLoop!Fold, FoldLeft, MapThenFoldSet,
         EntriesLoop!MapThenFoldSet, Max, EntriesLoop!Last
<1>2. FoldLeft(MergePointers, base, s) = EntriesLoop!Fold("pointers", base, s)
  BY DEF MergePointers, EntriesTurns, EntriesLoop!Fold, FoldLeft, MapThenFoldSet,
         EntriesLoop!MapThenFoldSet, Max, EntriesLoop!Last
<1> QED BY <1>1, <1>2 DEF base


AllDeps(U) == UNION {UNION {DepsOf(unit, c) : c \in ToSet(unit.cursors)} : unit \in U}
AllUses(U) == UNION {UNION {UsesOf(unit, c) : c \in ToSet(unit.cursors)} : unit \in U}
AllPointers(U) == UNION {PointersIn(unit, ToSet(unit.cursors)) : unit \in U}
AllUnits(U) == {unit.file : unit \in U} \cap ProjectFiles
AllHeaders(U) == (UNION {{unit.file} \cup unit.includes : unit \in U}) \cap ProjectFiles

LEMMA TypesMerged ==
  ASSUME program \in Programs, NEW p, Complete(p)
  PROVE  LET t == FinishTypeFacts(TypePartials(p))
             U == ToSet(program)
             X == CursorsIn(program)
         IN /\ t = [types |-> t.types, deps |-> AllDeps(U), uses |-> AllUses(U), pointers |-> t.pointers,
                    files |-> SourceFiles(AllUnits(U), AllHeaders(U))]
            /\ t.types \subseteq DescriptionsOf(X)
            /\ \A c \in DefinedIn(X) : \E e \in t.types : e.usr = c.usr
            /\ t.pointers \subseteq AllPointers(U)
            /\ \A x \in AllPointers(U) : \E e \in t.pointers : e.usr = x.usr
<1> DEFINE ts == TypePartials(p)
           t == FinishTypeFacts(ts)
           U == ToSet(program)
           X == CursorsIn(program)
           W == DOMAIN p
<1>1. PICK read : Shared(program, p, read) /\ UNION {read[w] : w \in W} = U
  BY DEF Complete
<1>2. PICK noted : SharesNoted(program, p, noted) /\ UNION {noted[w] : w \in W} = U
  BY DEF Complete
<1>3. ts \in Seq(ToSet(ts)) /\ ToSet(ts) = {p[w].types : w \in W}
  BY <1>1, Partials DEF Shared
<1>4. \A w \in W : TypesNoted(p[w].types, noted[w]) /\ noted[w] \subseteq U
  BY <1>2 DEF SharesNoted, Noted
<1>5. \A w \in W : /\ p[w].types.deps = AllDeps(noted[w]) /\ p[w].types.uses = AllUses(noted[w])
                   /\ ToSet(p[w].types.pointers) = AllPointers(noted[w])
                   /\ p[w].types.units = AllUnits(noted[w]) /\ p[w].types.headers = AllHeaders(noted[w])
                   /\ p[w].types.types \in Seq(ToSet(p[w].types.types))
                   /\ p[w].types.pointers \in Seq(ToSet(p[w].types.pointers))
                   /\ ToSet(p[w].types.types) \subseteq DescriptionsOf(CursorsOfUnits(noted[w]))
  BY <1>4, Zenon DEF TypesNoted, AllDeps, AllUses, AllPointers, AllUnits, AllHeaders
<1> DEFINE units == UNION {q.units : q \in ToSet(ts)}
           headers == UNION {q.headers : q \in ToSet(ts)}
<1>6. t = [types |-> ToSet(FoldLeft(MergeTypes, <<>>, ts)),
           deps |-> UNION {q.deps : q \in ToSet(ts)}, uses |-> UNION {q.uses : q \in ToSet(ts)},
           pointers |-> ToSet(FoldLeft(MergePointers, <<>>, ts)), files |-> SourceFiles(units, headers)]
  BY DEF FinishTypeFacts
<1>7. t = FinishCatalog(p).types
  BY Finished
<1> HIDE DEF ts, t, X, U, W
<1>8. /\ UNION {AllDeps(noted[w]) : w \in W} = AllDeps(U)
      /\ UNION {AllUses(noted[w]) : w \in W} = AllUses(U)
      /\ UNION {AllPointers(noted[w]) : w \in W} = AllPointers(U)
      /\ UNION {AllUnits(noted[w]) : w \in W} = AllUnits(U)
      /\ UNION {AllHeaders(noted[w]) : w \in W} = AllHeaders(U)
  <2> DEFINE Deps(unit) == UNION {DepsOf(unit, c) : c \in ToSet(unit.cursors)}
             Used(unit) == UNION {UsesOf(unit, c) : c \in ToSet(unit.cursors)}
             Pointers(unit) == PointersIn(unit, ToSet(unit.cursors))
             Headers(unit) == {unit.file} \cup unit.includes
  <2>1. \A V : /\ AllDeps(V) = UNION {Deps(unit) : unit \in V}
               /\ AllUses(V) = UNION {Used(unit) : unit \in V}
               /\ AllPointers(V) = UNION {Pointers(unit) : unit \in V}
               /\ AllUnits(V) = {unit.file : unit \in V} \cap ProjectFiles
               /\ AllHeaders(V) = (UNION {Headers(unit) : unit \in V}) \cap ProjectFiles
    BY DEF AllDeps, AllUses, AllPointers, AllUnits, AllHeaders
  <2>2. \A unit : unit \in U <=> \E w \in W : unit \in noted[w]
    BY <1>2
  <2> HIDE DEF Deps, Used, Pointers, Headers
  <2>3. /\ \A V, x : x \in AllDeps(V) <=> \E unit \in V : x \in Deps(unit)
        /\ \A V, x : x \in AllUses(V) <=> \E unit \in V : x \in Used(unit)
        /\ \A V, x : x \in AllPointers(V) <=> \E unit \in V : x \in Pointers(unit)
        /\ \A V, x : x \in AllUnits(V) <=> x \in ProjectFiles /\ \E unit \in V : x = unit.file
        /\ \A V, x : x \in AllHeaders(V) <=> x \in ProjectFiles /\ \E unit \in V : x \in Headers(unit)
    BY <2>1
  <2> QED BY <2>2, <2>3
<1>9. /\ UNION {q.deps : q \in ToSet(ts)} = UNION {p[w].types.deps : w \in W}
      /\ UNION {q.uses : q \in ToSet(ts)} = UNION {p[w].types.uses : w \in W}
      /\ units = UNION {p[w].types.units : w \in W} /\ headers = UNION {p[w].types.headers : w \in W}
      /\ UNION {ToSet(q.pointers) : q \in ToSet(ts)} = UNION {ToSet(p[w].types.pointers) : w \in W}
      /\ UNION {ToSet(q.types) : q \in ToSet(ts)} = UNION {ToSet(p[w].types.types) : w \in W}
  BY <1>3
<1>10. /\ UNION {p[w].types.deps : w \in W} = UNION {AllDeps(noted[w]) : w \in W}
       /\ UNION {p[w].types.uses : w \in W} = UNION {AllUses(noted[w]) : w \in W}
       /\ UNION {ToSet(p[w].types.pointers) : w \in W} = UNION {AllPointers(noted[w]) : w \in W}
       /\ UNION {p[w].types.units : w \in W} = UNION {AllUnits(noted[w]) : w \in W}
       /\ UNION {p[w].types.headers : w \in W} = UNION {AllHeaders(noted[w]) : w \in W}
  <2>1. /\ {p[w].types.deps : w \in W} = {AllDeps(noted[w]) : w \in W}
        /\ {p[w].types.uses : w \in W} = {AllUses(noted[w]) : w \in W}
        /\ {ToSet(p[w].types.pointers) : w \in W} = {AllPointers(noted[w]) : w \in W}
    BY <1>5
  <2>2. /\ {p[w].types.units : w \in W} = {AllUnits(noted[w]) : w \in W}
        /\ {p[w].types.headers : w \in W} = {AllHeaders(noted[w]) : w \in W}
    BY <1>5
  <2> QED BY <2>1, <2>2, Zenon
<1>11. /\ t.deps = AllDeps(U) /\ t.uses = AllUses(U) /\ t.files = SourceFiles(AllUnits(U), AllHeaders(U))
       /\ UNION {ToSet(q.pointers) : q \in ToSet(ts)} = AllPointers(U)
  BY <1>6, <1>8, <1>9, <1>10, Zenon
<1>12. t.types \subseteq DescriptionsOf(X)
  <2> DEFINE s == FoldLeft(MergeTypes, <<>>, ts)
             R == UNION {ToSet(q["types"]) : q \in ToSet(ts)}
  <2>1. t.types = ToSet(s)
    BY <1>6
  <2>2. \A q \in ToSet(ts) : q["types"] \in Seq(ToSet(q["types"]))
    BY <1>3, <1>5
  <2>3. s = EntriesLoop!Fold("types", <<>>, ts)
    BY EntriesMerged
  <2>4. From(s, R)
    BY <1>3, <2>2, <2>3, EntriesFrom
  <2>5. R \subseteq DescriptionsOf(X)
    <3>1. X = CursorsOfUnits(U)
      BY ProgramFacts DEF X, U
    <3>2. \A w \in W : DescriptionsOf(CursorsOfUnits(noted[w])) \subseteq DescriptionsOf(X)
      BY <1>4, <3>1 DEF DescriptionsOf, DefinedIn, CursorsOfUnits
    <3>3. R = UNION {ToSet(p[w].types.types) : w \in W}
      BY <1>9
    <3>4. \A w \in W : ToSet(p[w].types.types) \subseteq DescriptionsOf(X)
      BY <1>5, <3>2
    <3> HIDE DEF R
    <3> QED BY <3>3, <3>4
  <2> HIDE DEF s, R
  <2> QED BY <2>1, <2>4, <2>5 DEF From
<1>13. \A c \in DefinedIn(X) : \E e \in t.types : e.usr = c.usr
  <2>1. PICK s : t.types = ToSet(s) /\ Covers(s, DefinedIn(X))
    BY <1>1, <1>7, MergedTypes DEF X, U, W
  <2> QED BY <2>1 DEF Covers
<1>14. t.pointers \subseteq AllPointers(U) /\ \A x \in AllPointers(U) : \E e \in t.pointers : e.usr = x.usr
  <2> DEFINE s == FoldLeft(MergePointers, <<>>, ts)
             R == UNION {ToSet(q["pointers"]) : q \in ToSet(ts)}
  <2>1. t.pointers = ToSet(s)
    BY <1>6
  <2>2. \A q \in ToSet(ts) : q["pointers"] \in Seq(ToSet(q["pointers"]))
    BY <1>3, <1>5
  <2>3. s = EntriesLoop!Fold("pointers", <<>>, ts)
    BY EntriesMerged
  <2>4. From(s, R)
    BY <1>3, <2>2, <2>3, EntriesFrom
  <2>5. R = AllPointers(U)
    BY <1>11
  <2> HIDE DEF s, R
  <2> QED BY <2>1, <2>4, <2>5 DEF From, Covers
<1>15. t = [types |-> t.types, deps |-> t.deps, uses |-> t.uses, pointers |-> t.pointers, files |-> t.files]
  BY <1>6
<1> QED BY <1>11, <1>12, <1>13, <1>14, <1>15 DEF t, U, X, ts


\* A pointer without the place of a result.
Erased(x) == IF x.use = "return" THEN [x EXCEPT !.site = {}] ELSE x

LEMMA PointersWithin ==
  ASSUME program \in Programs, Orderly(program), NEW P, NEW Q,
         P \subseteq AllPointers(ToSet(program)), Q \subseteq AllPointers(ToSet(program)),
         \A x \in AllPointers(ToSet(program)) : \E y \in Q : y.usr = x.usr
  PROVE  {Erased(x) : x \in P} \subseteq {Erased(y) : y \in Q}
<1> DEFINE U == ToSet(program)
           A == AllPointers(U)
<1>1. \A x \in A : \E unit \in U : \E c \in ToSet(unit.cursors) : IsPointer(c) /\ x = PointerOf(unit, c)
  BY DEF AllPointers, PointersIn
<1>2. \A u, v \in U : \A c \in ToSet(u.cursors), d \in ToSet(v.cursors) :
        (IsPointer(c) /\ IsPointer(d) /\ c.usr = d.usr) =>
          /\ c.use = d.use /\ (c.use = "return" \/ c.site = d.site)
          /\ PointerOf(u, c).pointee = PointerOf(v, d).pointee
  BY DEF Orderly, PointersAgree
<1>3. ASSUME NEW u, NEW c
      PROVE  PointerOf(u, c) = [usr |-> c.usr, use |-> c.use, site |-> c.site, pointee |-> PointerOf(u, c).pointee]
  BY DEF PointerOf
<1> HIDE DEF A, U
<1>4. ASSUME NEW x \in P
      PROVE  \E y \in Q : Erased(x) = Erased(y)
  <2>1. x \in A
    BY DEF A, U
  <2>2. PICK y \in Q : y.usr = x.usr
    BY <2>1 DEF A, U
  <2>3. y \in A
    BY DEF A, U
  <2>11. PICK u \in U : \E c \in ToSet(u.cursors) : IsPointer(c) /\ x = PointerOf(u, c)
    BY <1>1, <2>1
  <2>4. PICK c \in ToSet(u.cursors) : IsPointer(c) /\ x = PointerOf(u, c)
    BY <2>11
  <2>12. PICK v \in U : \E d \in ToSet(v.cursors) : IsPointer(d) /\ y = PointerOf(v, d)
    BY <1>1, <2>3
  <2>5. PICK d \in ToSet(v.cursors) : IsPointer(d) /\ y = PointerOf(v, d)
    BY <2>12
  <2> DEFINE a == PointerOf(u, c).pointee
             b == PointerOf(v, d).pointee
  <2>6. /\ x = [usr |-> c.usr, use |-> c.use, site |-> c.site, pointee |-> a]
        /\ y = [usr |-> d.usr, use |-> d.use, site |-> d.site, pointee |-> b]
    BY <1>3, <2>4, <2>5
  <2> HIDE DEF a, b
  <2>7. c.usr = d.usr
    BY <2>2, <2>6
  <2>8. c.use = d.use /\ (c.use = "return" \/ c.site = d.site) /\ a = b
    BY <1>2, <2>4, <2>5, <2>7 DEF a, b
  <2>9. CASE c.use = "return"
    <3>1. /\ Erased(x) = [usr |-> c.usr, use |-> c.use, site |-> {}, pointee |-> a]
          /\ Erased(y) = [usr |-> d.usr, use |-> d.use, site |-> {}, pointee |-> b]
      BY <2>6, <2>8, <2>9, Zenon DEF Erased
    <3> QED BY <2>7, <2>8, <3>1
  <2>10. CASE c.use # "return"
    <3>1. x = y
      BY <2>6, <2>7, <2>8, <2>10
    <3> QED BY <3>1
  <2> QED BY <2>9, <2>10
<1> QED BY <1>4

LEMMA TypesWithin ==
  ASSUME program \in Programs, NEW S, NEW T,
         S \subseteq DescriptionsOf(CursorsIn(program)), T \subseteq DescriptionsOf(CursorsIn(program)),
         \A c \in DefinedIn(CursorsIn(program)) : \E e \in T : e.usr = c.usr
  PROVE  S \subseteq T
<1> DEFINE X == CursorsIn(program)
<1>1. OneType(X)
  BY ProgramFacts
<1>2. \A c \in DefinedIn(X) : c \in X /\ c.kind \in {"record", "alias"} /\ DescriptionOf(c).usr = c.usr
  BY DEF DefinedIn, Definition, DescriptionOf
<1> HIDE DEF X
<1>3. ASSUME NEW s \in S
      PROVE  s \in T
  <2>1. PICK c \in DefinedIn(X) : s = DescriptionOf(c)
    BY DEF DescriptionsOf, X
  <2>2. PICK t \in T : t.usr = c.usr
    BY DEF X
  <2>3. PICK d \in DefinedIn(X) : t = DescriptionOf(d)
    BY DEF DescriptionsOf, X
  <2>4. c = d
    BY <1>1, <1>2, <2>2, <2>3 DEF OneType
  <2> QED BY <2>1, <2>2, <2>3, <2>4
<1> QED BY <1>3

LEMMA SameTypes ==
  ASSUME program \in Programs, Orderly(program), NEW p, NEW q, Complete(p), Complete(q)
  PROVE  LET s == FinishTypeFacts(TypePartials(p))
             t == FinishTypeFacts(TypePartials(q))
         IN \E types, deps, uses, files :
              /\ s = [types |-> types, deps |-> deps, uses |-> uses, pointers |-> s.pointers, files |-> files]
              /\ t = [types |-> types, deps |-> deps, uses |-> uses, pointers |-> t.pointers, files |-> files]
              /\ {Erased(x) : x \in s.pointers} = {Erased(x) : x \in t.pointers}
<1> DEFINE s == FinishTypeFacts(TypePartials(p))
           t == FinishTypeFacts(TypePartials(q))
           U == ToSet(program)
           X == CursorsIn(program)
<1>1. /\ s = [types |-> s.types, deps |-> AllDeps(U), uses |-> AllUses(U), pointers |-> s.pointers,
              files |-> SourceFiles(AllUnits(U), AllHeaders(U))]
      /\ s.types \subseteq DescriptionsOf(X) /\ \A c \in DefinedIn(X) : \E e \in s.types : e.usr = c.usr
      /\ s.pointers \subseteq AllPointers(U) /\ \A x \in AllPointers(U) : \E e \in s.pointers : e.usr = x.usr
  BY TypesMerged
<1>2. /\ t = [types |-> t.types, deps |-> AllDeps(U), uses |-> AllUses(U), pointers |-> t.pointers,
              files |-> SourceFiles(AllUnits(U), AllHeaders(U))]
      /\ t.types \subseteq DescriptionsOf(X) /\ \A c \in DefinedIn(X) : \E e \in t.types : e.usr = c.usr
      /\ t.pointers \subseteq AllPointers(U) /\ \A x \in AllPointers(U) : \E e \in t.pointers : e.usr = x.usr
  BY TypesMerged
<1> HIDE DEF s, t
<1>3. s.types = t.types
  <2>1. s.types \subseteq t.types /\ t.types \subseteq s.types
    BY <1>1, <1>2, TypesWithin
  <2> QED BY <2>1, Zenon
<1>4. {Erased(x) : x \in s.pointers} = {Erased(x) : x \in t.pointers}
  <2>1. {Erased(x) : x \in s.pointers} \subseteq {Erased(x) : x \in t.pointers}
    BY <1>1, <1>2, PointersWithin, Zenon
  <2>2. {Erased(x) : x \in t.pointers} \subseteq {Erased(x) : x \in s.pointers}
    BY <1>1, <1>2, PointersWithin, Zenon
  <2> QED BY <2>1, <2>2
<1> DEFINE deps == AllDeps(U)
           uses == AllUses(U)
           files == SourceFiles(AllUnits(U), AllHeaders(U))
<1>5. /\ s = [types |-> s.types, deps |-> deps, uses |-> uses, pointers |-> s.pointers, files |-> files]
      /\ t = [types |-> s.types, deps |-> deps, uses |-> uses, pointers |-> t.pointers, files |-> files]
  BY <1>1, <1>2, <1>3
<1> HIDE DEF deps, uses, files
<1>6. \E types, d, u, f :
        /\ s = [types |-> types, deps |-> d, uses |-> u, pointers |-> s.pointers, files |-> f]
        /\ t = [types |-> types, deps |-> d, uses |-> u, pointers |-> t.pointers, files |-> f]
        /\ {Erased(x) : x \in s.pointers} = {Erased(x) : x \in t.pointers}
  BY <1>4, <1>5
<1> QED BY <1>6 DEF s, t

-----------------------------------------------------------------------------
(* The catalogs, up to the order of their entries.                         *)
LEMMA ContentOf ==
  ASSUME NEW decls, NEW calls, NEW enums, NEW records, NEW fns, NEW t,
         NEW types, NEW deps, NEW uses, NEW files,
         t = [types |-> types, deps |-> deps, uses |-> uses, pointers |-> t.pointers, files |-> files]
  PROVE  Content([decls |-> decls, calls |-> calls, enums |-> enums, records |-> records, fns |-> fns, types |-> t])
           = [decls |-> ToSet(decls), calls |-> calls, enums |-> enums, records |-> {AsSets(r) : r \in ToSet(records)},
              fns |-> ToSet(fns),
              types |-> [types |-> types, deps |-> deps, uses |-> uses, pointers |-> {Erased(x) : x \in t.pointers},
                         files |-> files]]
<1> DEFINE c == [decls |-> decls, calls |-> calls, enums |-> enums, records |-> records, fns |-> fns, types |-> t]
           D == ToSet(decls)
           F == ToSet(fns)
           R == {AsSets(r) : r \in ToSet(records)}
           P == {Erased(x) : x \in t.pointers}
           u == [t EXCEPT !.pointers = P]
<1>1. Content(c) = [c EXCEPT !.decls = D, !.fns = F, !.records = R, !.types.pointers = P]
  BY DEF Content, AsSets, Erased
<1>2. u = [types |-> types, deps |-> deps, uses |-> uses, pointers |-> P, files |-> files]
  <2> HIDE DEF P
  <2> QED OBVIOUS
<1> HIDE DEF D, F, R, P
<1>3. Content(c) = [decls |-> D, calls |-> calls, enums |-> enums, records |-> R, fns |-> F, types |-> u]
  BY <1>1, Zenon
<1> HIDE DEF u
<1> QED BY <1>2, <1>3 DEF D, F, R, P

LEMMA SameContent ==
  ASSUME program \in Programs, Orderly(program), NEW p, NEW q, Complete(p), Complete(q)
  PROVE  Content(FinishCatalog(p)) = Content(FinishCatalog(q))
<1> DEFINE s == FinishTypeFacts(TypePartials(p))
           t == FinishTypeFacts(TypePartials(q))
<1>1. PICK types, deps, uses, files :
        /\ s = [types |-> types, deps |-> deps, uses |-> uses, pointers |-> s.pointers, files |-> files]
        /\ t = [types |-> types, deps |-> deps, uses |-> uses, pointers |-> t.pointers, files |-> files]
        /\ {Erased(x) : x \in s.pointers} = {Erased(x) : x \in t.pointers}
  BY SameTypes
<1>2. /\ FinishCatalog(p) = [decls |-> Decls(p), calls |-> Calls(p), enums |-> Enums(p),
                             records |-> FinishedClasses(p), fns |-> FinishedFunctions(p), types |-> s]
      /\ FinishCatalog(q) = [decls |-> Decls(q), calls |-> Calls(q), enums |-> Enums(q),
                             records |-> FinishedClasses(q), fns |-> FinishedFunctions(q), types |-> t]
  BY Finished
<1> HIDE DEF s, t
<1>3. Content(FinishCatalog(p)) =
        [decls |-> ToSet(Decls(p)), calls |-> Calls(p), enums |-> Enums(p),
         records |-> {AsSets(r) : r \in ToSet(FinishedClasses(p))}, fns |-> ToSet(FinishedFunctions(p)),
         types |-> [types |-> types, deps |-> deps, uses |-> uses, pointers |-> {Erased(x) : x \in s.pointers},
                    files |-> files]]
  BY <1>1, <1>2, ContentOf
<1>4. Content(FinishCatalog(q)) =
        [decls |-> ToSet(Decls(q)), calls |-> Calls(q), enums |-> Enums(q),
         records |-> {AsSets(r) : r \in ToSet(FinishedClasses(q))}, fns |-> ToSet(FinishedFunctions(q)),
         types |-> [types |-> types, deps |-> deps, uses |-> uses, pointers |-> {Erased(x) : x \in t.pointers},
                    files |-> files]]
  BY <1>1, <1>2, ContentOf
<1>5. ToSet(Decls(p)) = ToSet(Decls(q)) /\ ToSet(FinishedFunctions(p)) = ToSet(FinishedFunctions(q))
  <2>1. /\ ToSet(Decls(p)) \subseteq ToSet(Decls(q)) /\ ToSet(Decls(q)) \subseteq ToSet(Decls(p))
        /\ ToSet(FinishedFunctions(p)) \subseteq ToSet(FinishedFunctions(q))
        /\ ToSet(FinishedFunctions(q)) \subseteq ToSet(FinishedFunctions(p))
    BY DeclsWithin, FunctionsWithin DEF Orderly
  <2> QED BY <2>1, Zenon
<1>6. Calls(p) = Calls(q) /\ Enums(p) = Enums(q)
  BY MergedFacts, Zenon DEF Orderly
<1>7. {AsSets(r) : r \in ToSet(FinishedClasses(p))} = {AsSets(r) : r \in ToSet(FinishedClasses(q))}
  <2>1. /\ \A a \in ToSet(FinishedClasses(p)) : \E b \in ToSet(FinishedClasses(q)) : AsSets(a) = AsSets(b)
        /\ \A b \in ToSet(FinishedClasses(q)) : \E a \in ToSet(FinishedClasses(p)) : AsSets(b) = AsSets(a)
    <3>1. \A a \in ToSet(FinishedClasses(p)) : \E b \in ToSet(FinishedClasses(q)) :
            AsSets(a) = AsSets(b) /\ a.usr = b.usr /\ a.dtor = b.dtor
      BY FinishedAlike
    <3>2. \A b \in ToSet(FinishedClasses(q)) : \E a \in ToSet(FinishedClasses(p)) :
            AsSets(b) = AsSets(a) /\ b.usr = a.usr /\ b.dtor = a.dtor
      BY FinishedAlike
    <3> QED BY <3>1, <3>2
  <2> QED BY <2>1
<1> QED BY <1>1, <1>3, <1>4, <1>5, <1>6, <1>7

(* The race for the units decides nothing: whenever the workers' partials  *)
(* are merged, the catalogs are, but for the order of their entries, the   *)
(* ones a single worker would have built, for every program that declares  *)
(* and defines each thing alike, wherever it does.                         *)
THEOREM SameCatalogsOnEverySchedule == Spec => [](Orderly(program) => SameOnEverySchedule)
<1>1. ScheduleInv => (Orderly(program) => SameOnEverySchedule)
  <2>1. ASSUME ScheduleInv, Orderly(program), Merged
        PROVE  Content(catalog) = Content(OneWorker)
    <3>1. program \in Programs /\ catalog = FinishCatalog(partial) /\ Complete(partial) /\ Complete(<<alone>>)
      BY <2>1, BothComplete
    <3>2. Content(FinishCatalog(partial)) = Content(FinishCatalog(<<alone>>))
      BY <2>1, <3>1, SameContent
    <3> QED BY <3>1, <3>2 DEF OneWorker
  <2> QED BY <2>1 DEF SameOnEverySchedule
<1> QED BY <1>1, ScheduleKept, PTL

-----------------------------------------------------------------------------
(* No two records print as one class.                                      *)
LEMMA RecordNamesUnique ==
  ASSUME program \in Programs, Consistent(program), ClassNamesApart(program), NEW p, Complete(p)
  PROVE  \A i, j \in DOMAIN FinishedClasses(p) : FinishedClasses(p)[i].name = FinishedClasses(p)[j].name => i = j
<1> DEFINE X == CursorsIn(program)
           s == Classes(p)
<1>1. List(s) /\ \A r \in ToSet(s) : \E c \in X : c.kind = "record" /\ c.usr = r.usr /\ c.name = r.name /\ c.ns = r.ns
  BY MergedFacts, Zenon DEF United, Told
<1>2. \A i \in DOMAIN s : FinishedClasses(p)[i].name = DartName(s, i)
  <2>1. \A i \in DOMAIN s : FinishedClasses(p)[i] = Passed(p, s[i], DartName(s, i))
    BY ClassPassed
  <2>2. \A r, name : Passed(p, r, name).name = name
    BY DEF Passed
  <2> QED BY <2>1, <2>2
<1>3. DOMAIN FinishedClasses(p) = DOMAIN s
  BY ClassPassed
<1>4. /\ \A c \in X : c.kind = "record" => Words(c.name) /\ Words(c.ns)
      /\ \A c, d \in X : c.kind = "record" /\ d.kind = "record" /\ c.usr # d.usr =>
           /\ c.name # d.name => {c.name, Candidate(c)} \cap {d.name, Candidate(d)} = {}
           /\ \A n \in ToSet(Numeral) : Append(Candidate(c), n) \notin {d.name, Candidate(d)}
  <2>1. \A c \in X : c.kind = "record" => c.name \in Seq(ToSet(c.name)) /\ c.ns \in Seq(ToSet(c.ns))
    BY MergeAssumption, Zenon
  <2> HIDE DEF X
  <2> QED BY <2>1 DEF Words, ClassNamesApart, X
<1>5. Enough(Len(s))
  <2>1. \A e \in ToSet(s) : \E c \in X : c.usr = e.usr
    BY <1>1
  <2> HIDE DEF s
  <2> QED BY <1>1, <2>1, CountsUsrs
<1> HIDE DEF X, s
<1>6. ASSUME NEW a, NEW b, Words(a), Words(b)
      PROVE  Words(a \o b)
  <2> DEFINE S == ToSet(a) \cup ToSet(b)
             t == a \o b
  <2>1. a \in Seq(S) /\ b \in Seq(S)
    BY <1>6 DEF Words
  <2> HIDE DEF S
  <2>2. t \in Seq(S)
    BY <2>1
  <2> HIDE DEF t
  <2>3. t \in Seq(ToSet(t))
    BY <2>2, Within
  <2> QED BY <2>3 DEF Words, t
<1>7. \A r \in ToSet(s) : Words(Candidate(r))
  <2>1. ASSUME NEW r \in ToSet(s)
        PROVE  Words(r.ns \o r.name)
    <3>1. Words(r.ns) /\ Words(r.name)
      BY <1>1, <1>4
    <3> QED BY <1>6, <3>1
  <2> QED BY <2>1 DEF Candidate
<1>8. ASSUME NEW r \in ToSet(s), NEW t \in ToSet(s), r # t
      PROVE  /\ r.name # t.name => {r.name, Candidate(r)} \cap {t.name, Candidate(t)} = {}
             /\ \A n \in ToSet(Numeral) : Append(Candidate(r), n) \notin {t.name, Candidate(t)}
  <2>1. PICK c \in X : c.kind = "record" /\ c.usr = r.usr /\ c.name = r.name /\ c.ns = r.ns
    BY <1>1
  <2>2. PICK d \in X : d.kind = "record" /\ d.usr = t.usr /\ d.name = t.name /\ d.ns = t.ns
    BY <1>1
  <2>3. r.usr # t.usr
    BY <1>1, <1>8, OneOfAUsr
  <2>4. Candidate(c) = Candidate(r) /\ Candidate(d) = Candidate(t)
    BY <2>1, <2>2 DEF Candidate
  <2>5. /\ c.name # d.name => {c.name, Candidate(c)} \cap {d.name, Candidate(d)} = {}
        /\ \A n \in ToSet(Numeral) : Append(Candidate(c), n) \notin {d.name, Candidate(d)}
    BY <1>4, <2>1, <2>2, <2>3
  <2> QED BY <2>1, <2>2, <2>4, <2>5
<1>9. RecordsApart(s)
  BY <1>7, <1>8 DEF RecordsApart
<1>10. \A i, j \in DOMAIN s : i # j => DartName(s, i) # DartName(s, j)
  BY <1>1, <1>5, <1>9, ClassesTold
<1> QED BY <1>2, <1>3, <1>10

-----------------------------------------------------------------------------
(* What a function is called, and what its body calls.                     *)
Named(p) == {d \in ToSet(Decls(p)) : d.kind \in {"fn", "method"}}

LEMMA NameGiven ==
  ASSUME program \in Programs, Consistent(program), NEW p, Complete(p), NEW d \in Named(p)
  PROVE  d.usr \in DOMAIN Names(p)
         /\ Names(p)[d.usr] = SafeName(Numbered(OverloadsOf(Decls(p), d), Classes(p), d))
<1> DEFINE D == Named(p)
           new(e) == SafeName(Numbered(OverloadsOf(Decls(p), e), Classes(p), e))
<1>1. Names(p) = [u \in {e.usr : e \in D} |-> new(CHOOSE e \in D : e.usr = u)]
  BY DEF Names, RenamesOf, Named
<1>2. \A e \in D : e.usr = d.usr => e = d
  <2>1. List(Decls(p)) /\ D \subseteq ToSet(Decls(p))
    BY DeclsSay DEF Named
  <2> HIDE DEF D
  <2>2. d \in ToSet(Decls(p))
    BY DEF Named
  <2> QED BY <2>1, <2>2, OneOfAUsr
<1> HIDE DEF D, new
<1>3. d \in D
  BY DEF D
<1>4. (CHOOSE e \in D : e.usr = d.usr) = d
  BY <1>2, <1>3
<1>5. d.usr \in DOMAIN Names(p) /\ Names(p)[d.usr] = new(d)
  BY <1>1, <1>3, <1>4, Zenon
<1> QED BY <1>5 DEF new

LEMMA OverloadsTold ==
  ASSUME program \in Programs, Consistent(program), OverloadsApart(program), NEW p, Complete(p), NEW d \in Named(p)
  PROVE  LET g == OverloadsOf(Decls(p), d)
         IN List(g) /\ Apart(g) /\ Enough(Len(g)) /\ d \in ToSet(g)
            /\ \A e \in ToSet(g) : e \in Named(p) /\ OverloadsOf(Decls(p), e) = g
<1> DEFINE X == CursorsIn(program)
           D == Decls(p)
           g == OverloadsOf(D, d)
           Same(e, c) == e.usr = c.usr /\ e.kind = c.kind /\ e.owner = c.owner /\ e.name = c.name /\ e.params = c.params
<1>1. List(D) /\ \A e \in ToSet(D) : \E c \in X : Same(e, c)
  BY DeclsSay DEF Functions
<1>2. List(g) /\ ToSet(g) = {e \in ToSet(D) : e.kind \in {"fn", "method"} /\ e.owner = d.owner /\ e.name = d.name}
  BY <1>1, OverloadElements
<1>3. d \in ToSet(g)
  BY <1>2 DEF Named
<1>4. \A e \in ToSet(g) : e \in Named(p) /\ OverloadsOf(D, e) = g
  BY <1>2 DEF Named, OverloadsOf
<1>5. /\ \A c \in X : c.kind \in {"fn", "method"} => c.usr \in ToSet(UsrOrder) /\ \A name \in NamesFor(c) : Words(name)
      /\ \A c, e \in X : (/\ c.kind \in {"fn", "method"} /\ e.kind \in {"fn", "method"}
                          /\ c.owner = e.owner /\ c.name = e.name /\ c.usr # e.usr) =>
           \A name \in NamesFor(c) :
             /\ \A word \in ReservedWords : name # Append(word, "_")
             /\ \A n \in ToSet(Numeral) : \A other \in NamesFor(e) : name # Append(other, n)
  <2>1. \A c \in X : c.kind \in {"fn", "method"} =>
          c.usr \in ToSet(UsrOrder) /\ \A name \in NamesFor(c) : name \in Seq(ToSet(name))
    BY MergeAssumption, Zenon
  <2> HIDE DEF X
  <2> QED BY <2>1, Zenon DEF Words, OverloadsApart, X
<1>6. \A e, c : Same(e, c) => NamesFor(e) = NamesFor(c)
  BY DEF NamesFor
<1> HIDE DEF X, D, g
<1>7. ASSUME NEW e \in ToSet(g)
      PROVE  \E c \in X : Same(e, c) /\ c.kind \in {"fn", "method"} /\ c.owner = d.owner /\ c.name = d.name
  <2>1. e \in ToSet(D) /\ e.kind \in {"fn", "method"} /\ e.owner = d.owner /\ e.name = d.name
    BY <1>2
  <2> QED BY <1>1, <2>1
<1>8. \A e \in ToSet(g) : e.usr \in ToSet(UsrOrder) /\ \A name \in NamesFor(e) : Words(name)
  BY <1>5, <1>6, <1>7, Zenon
<1>9. ASSUME NEW e \in ToSet(g), NEW f \in ToSet(g), e # f, NEW name \in NamesFor(e)
      PROVE  /\ \A word \in ReservedWords : name # Append(word, "_")
             /\ \A n \in ToSet(Numeral) : \A other \in NamesFor(f) : name # Append(other, n)
  <2>1. PICK c \in X : Same(e, c) /\ c.kind \in {"fn", "method"} /\ c.owner = d.owner /\ c.name = d.name
    BY <1>7
  <2>2. PICK b \in X : Same(f, b) /\ b.kind \in {"fn", "method"} /\ b.owner = d.owner /\ b.name = d.name
    BY <1>7
  <2>3. c.usr # b.usr
    BY <1>2, <1>9, <2>1, <2>2, OneOfAUsr
  <2>4. NamesFor(e) = NamesFor(c) /\ NamesFor(f) = NamesFor(b)
    BY <1>6, <2>1, <2>2
  <2> HIDE DEF Same
  <2>5. /\ \A word \in ReservedWords : name # Append(word, "_")
        /\ \A n \in ToSet(Numeral) : \A other \in NamesFor(b) : name # Append(other, n)
    BY <1>5, <1>9, <2>1, <2>2, <2>3, <2>4, Zenon
  <2> QED BY <2>4, <2>5, Zenon
<1>10. Apart(g)
  BY <1>8, <1>9, Zenon DEF Apart
<1>11. Enough(Len(g))
  <2>1. \A e \in ToSet(g) : \E c \in X : c.usr = e.usr
    BY <1>7
  <2> QED BY <1>2, <2>1, CountsUsrs DEF X
<1> QED BY <1>2, <1>3, <1>4, <1>10, <1>11 DEF g, D

NameIn(N, k) == IF k.usr \in DOMAIN N THEN N[k.usr] ELSE k.name
SaidBy(N, f, c) ==
  f.usr = c.usr /\ f.name = NameIn(N, c) /\ f.calls = {[k EXCEPT !.name = NameIn(N, k)] : k \in c.calls}

LEMMA BodySaid ==
  ASSUME NEW f, Ir(f), NEW c, f.usr = c.usr, f.name = c.name, f.calls = c.calls, NEW N, NEW E
  PROVE  SaidBy(N, FinishBody(N, E, f), c)
<1> DEFINE name == NameIn(N, f)
           calls == {[k EXCEPT !.name = NameIn(N, k)] : k \in f.calls}
           g == Rename(N, f)
<1>1. g = [f EXCEPT !.name = name, !.calls = calls]
  BY DEF Rename, NameIn
<1>2. name = NameIn(N, c) /\ calls = {[k EXCEPT !.name = NameIn(N, k)] : k \in c.calls}
  BY DEF NameIn
<1>3. FinishBody(N, E, f) = [g EXCEPT !.enums = @ \cap E]
  BY DEF FinishBody
<1> HIDE DEF name, calls, g
<1>4. DOMAIN f = {"usr", "name", "def", "dflt", "calls", "enums", "locals", "teardown"}
  BY DEF Ir
<1>5. g.usr = f.usr /\ g.name = name /\ g.calls = calls /\ DOMAIN g = DOMAIN f
  BY <1>1, <1>4
<1>6. FinishBody(N, E, f).usr = g.usr /\ FinishBody(N, E, f).name = g.name /\ FinishBody(N, E, f).calls = g.calls
  BY <1>3
<1> QED BY <1>2, <1>5, <1>6 DEF SaidBy

LEMMA IrSaid ==
  ASSUME NEW c, c.def \in BOOLEAN, c.dflt \in BOOLEAN, NEW N, NEW E
  PROVE  SaidBy(N, FinishBody(N, E, IrOf(c)), c)
<1>1. Ir(IrOf(c)) /\ IrOf(c).usr = c.usr /\ IrOf(c).name = c.name /\ IrOf(c).calls = c.calls
  BY IrOfCursor DEF IrOf
<1> QED BY <1>1, BodySaid

LEMMA DefaultedSaid ==
  ASSUME NEW c, c.def \in BOOLEAN, c.dflt \in BOOLEAN, NEW b \in BOOLEAN, NEW N, NEW E
  PROVE  SaidBy(N, FinishBody(N, E, [IrOf(c) EXCEPT !.dflt = b]), c)
<1> DEFINE f == IrOf(c)
           g == [f EXCEPT !.dflt = b]
<1>1. Ir(f) /\ f.usr = c.usr /\ f.name = c.name /\ f.calls = c.calls
  BY IrOfCursor DEF IrOf
<1> HIDE DEF f
<1>2. Ir(g) /\ g.usr = c.usr /\ g.name = c.name /\ g.calls = c.calls
  BY <1>1, Defaulting DEF Ir
<1> HIDE DEF g
<1>3. SaidBy(N, FinishBody(N, E, g), c)
  BY <1>2, BodySaid
<1> QED BY <1>3 DEF f, g

LEMMA FunctionsSaid ==
  ASSUME program \in Programs, Consistent(program), NEW p, Complete(p)
  PROVE  \A f \in ToSet(FinishedFunctions(p)) : \E c \in Functions(CursorsIn(program)) : SaidBy(Names(p), f, c)
<1> DEFINE X == CursorsIn(program)
           N == Names(p)
           E == Enums(p)
           R == FinishedClasses(p)
           s == RejectEnums(E, RenameAll(N, Lowered(p)))
<1>1. \A f \in ToSet(Lowered(p)) : \E c \in OfKind(X, "fn"), b \in BOOLEAN : f = [IrOf(c) EXCEPT !.dflt = b]
  BY MergedFacts, Zenon
<1>2. \A c \in OfKind(X, "fn") : c \in Functions(X) /\ c.def \in BOOLEAN /\ c.dflt \in BOOLEAN
  BY ProgramFacts DEF OfKind, Functions, Typed, FunctionLike
<1>3. FinishedFunctions(p) = Guard(R, s)
  BY DEF FinishedFunctions
<1> HIDE DEF X, N, E, R
<1>4. ToSet(s) = {FinishBody(N, E, f) : f \in ToSet(Lowered(p))}
  BY BodiesFinished
<1> HIDE DEF s
<1>5. \A e \in ToSet(s) : \E c \in Functions(X) : SaidBy(N, e, c)
  <2>1. ASSUME NEW f \in ToSet(Lowered(p))
        PROVE  \E c \in Functions(X) : SaidBy(N, FinishBody(N, E, f), c)
    <3>1. PICK c \in OfKind(X, "fn"), b \in BOOLEAN : f = [IrOf(c) EXCEPT !.dflt = b]
      BY <1>1
    <3>2. SaidBy(N, FinishBody(N, E, [IrOf(c) EXCEPT !.dflt = b]), c)
      BY <1>2, DefaultedSaid
    <3> QED BY <1>2, <3>1, <3>2
  <2> QED BY <1>4, <2>1
<1>6. ASSUME NEW f \in ToSet(Guard(R, s))
      PROVE  \E c \in Functions(X) : SaidBy(N, f, c)
  <2>1. PICK i \in DOMAIN s : f = [s[i] EXCEPT !.teardown = Teardown(R, s[i])]
    BY DEF Guard, ToSet
  <2> DEFINE e == s[i]
             teardown == Teardown(R, e)
  <2>2. e \in ToSet(s)
    BY DEF ToSet
  <2>3. f = [e EXCEPT !.teardown = teardown]
    BY <2>1
  <2> HIDE DEF e, teardown
  <2>4. f.usr = e.usr /\ f.name = e.name /\ f.calls = e.calls
    BY <2>3
  <2>5. PICK c \in Functions(X) : SaidBy(N, e, c)
    BY <1>5, <2>2
  <2> QED BY <2>4, <2>5 DEF SaidBy
<1> QED BY <1>3, <1>6 DEF X, N

LEMMA MembersSaid ==
  ASSUME program \in Programs, Consistent(program), NEW p, Complete(p)
  PROVE  \A r \in ToSet(FinishedClasses(p)) : \A f \in ToSet(r.methods) \cup ToSet(r.ctors) :
           \E c \in Functions(CursorsIn(program)) : SaidBy(Names(p), f, c)
<1> DEFINE X == CursorsIn(program)
           N == Names(p)
           E == Enums(p)
           s == Classes(p)
<1>1. \A r \in ToSet(s) : Told(r, X)
  BY MergedFacts, Zenon
<1>2. ASSUME NEW r \in ToSet(s), NEW kind \in {"method", "ctor"}, NEW c \in MembersOf(X, kind, r.usr)
      PROVE  c \in Functions(X) /\ c.def \in BOOLEAN /\ c.dflt \in BOOLEAN
  BY ProgramFacts DEF MembersOf, Functions, Typed, FunctionLike
<1>3. /\ DOMAIN FinishedClasses(p) = DOMAIN s
      /\ \A i \in DOMAIN s : FinishedClasses(p)[i] = Passed(p, s[i], DartName(s, i))
  BY ClassPassed
<1>4. \A r \in ToSet(FinishedClasses(p)) : \E t \in ToSet(s) : \E name : r = Passed(p, t, name)
  BY <1>3 DEF ToSet
<1> HIDE DEF X, s
<1>5. ASSUME NEW t \in ToSet(s), NEW kind \in {"method", "ctor"}, NEW fs \in Seq({IrOf(c) : c \in MembersOf(X, kind, t.usr)}),
             NEW f \in ToSet(RejectEnums(E, RenameAll(N, fs)))
      PROVE  \E c \in Functions(X) : SaidBy(N, f, c)
  <2> DEFINE T == {IrOf(c) : c \in MembersOf(X, kind, t.usr)}
  <2> HIDE DEF N, E
  <2>1. ToSet(RejectEnums(E, RenameAll(N, fs))) = {FinishBody(N, E, e) : e \in ToSet(fs)}
    BY BodiesFinished
  <2>2. PICK e \in ToSet(fs) : f = FinishBody(N, E, e)
    BY <2>1
  <2>3. ToSet(fs) \subseteq T
    <3>1. fs \in Seq(T)
      OBVIOUS
    <3> HIDE DEF T
    <3> QED BY <3>1, Within
  <2>4. PICK c \in MembersOf(X, kind, t.usr) : e = IrOf(c)
    BY <2>3
  <2>5. c \in Functions(X) /\ c.def \in BOOLEAN /\ c.dflt \in BOOLEAN
    BY <1>2
  <2>6. SaidBy(N, FinishBody(N, E, IrOf(c)), c)
    BY <2>5, IrSaid
  <2> QED BY <2>2, <2>4, <2>5, <2>6
<1>6. ASSUME NEW r \in ToSet(FinishedClasses(p)), NEW f \in ToSet(r.methods) \cup ToSet(r.ctors)
      PROVE  \E c \in Functions(X) : SaidBy(N, f, c)
  <2>1. PICK t \in ToSet(s) : \E name : r = Passed(p, t, name)
    BY <1>4
  <2>2. r.methods = RejectEnums(E, RenameAll(N, t.methods)) /\ r.ctors = RejectEnums(E, RenameAll(N, t.ctors))
    BY <2>1 DEF Passed
  <2>3. /\ t.methods \in Seq({IrOf(c) : c \in MembersOf(X, "method", t.usr)})
        /\ t.ctors \in Seq({IrOf(c) : c \in MembersOf(X, "ctor", t.usr)})
    BY <1>1, Zenon DEF Told
  <2> HIDE DEF N, E
  <2>4. CASE f \in ToSet(r.methods)
    BY <1>5, <2>2, <2>3, <2>4
  <2>5. CASE f \in ToSet(r.ctors)
    BY <1>5, <2>2, <2>3, <2>5
  <2> QED BY <2>4, <2>5
<1> HIDE DEF N
<1> QED BY <1>6 DEF X, N

\* What is lowered: each of it was said by some cursor, and all that is
\* declared is.
LoweredIn(fns, records) == ToSet(fns) \cup UNION {ToSet(r.methods) : r \in ToSet(records)}

LEMMA LoweredSaid ==
  ASSUME program \in Programs, Consistent(program), NEW p, Complete(p)
  PROVE  LET lowered == LoweredIn(FinishedFunctions(p), FinishedClasses(p))
             X == CursorsIn(program)
         IN /\ \A f \in lowered : \E c \in Functions(X) : SaidBy(Names(p), f, c)
            /\ \A c \in X : c.kind \in {"fn", "method"} => \E f \in lowered : f.usr = c.usr
            /\ \A r \in ToSet(FinishedClasses(p)) :
                 r.methods \in Seq(ToSet(r.methods)) /\ r.ctors \in Seq(ToSet(r.ctors))
<1> DEFINE X == CursorsIn(program)
           F == FinishedFunctions(p)
           R == FinishedClasses(p)
           N == Names(p)
<1>1. \A f \in ToSet(F) : \E c \in Functions(X) : SaidBy(N, f, c)
  BY FunctionsSaid
<1>2. \A r \in ToSet(R) : \A f \in ToSet(r.methods) \cup ToSet(r.ctors) : \E c \in Functions(X) : SaidBy(N, f, c)
  BY MembersSaid
<1>3. PICK read : Shared(program, p, read) /\ UNION {read[w] : w \in DOMAIN p} = ToSet(program)
  BY DEF Complete
<1>4. FinishCatalog(p).records = R /\ FinishCatalog(p).fns = F
  BY Finished
<1>5. Kept(F, {IrOf(c) : c \in OfKind(X, "fn")})
  <2>1. Kept(FinishCatalog(p).fns, {IrOf(c) : c \in OfKind(X, "fn")})
    BY <1>3, MergedLowered, Zenon
  <2> QED BY <1>4, <2>1
<1>6. United(R, X)
  <2>1. NoPureBodies(program) /\ ClassFirst(program)
    BY DEF Consistent
  <2>2. United(FinishCatalog(p).records, X)
    BY <1>3, <2>1, MergedRecords
  <2> QED BY <1>4, <2>2
<1> HIDE DEF X, F, R, N
<1>7. ASSUME NEW c \in X, c.kind = "fn"
      PROVE  \E f \in ToSet(F) : f.usr = c.usr
  <2>1. IrOf(c).usr = c.usr /\ c \in OfKind(X, "fn")
    BY <1>7 DEF IrOf, OfKind
  <2> QED BY <1>5, <2>1 DEF Kept
<1>8. ASSUME NEW c \in X, c.kind = "method"
      PROVE  \E r \in ToSet(R) : \E f \in ToSet(r.methods) : f.usr = c.usr
  <2>1. PICK r \in ToSet(R) : r.usr = c.owner
    BY <1>6, <1>8 DEF United, ClassLike, Class
  <2>2. c \in MembersOf(X, "method", r.usr)
    BY <1>8, <2>1 DEF MembersOf
  <2>3. Matches(r.methods, MembersOf(X, "method", r.usr))
    BY <1>6 DEF United, Faithful
  <2> QED BY <2>2, <2>3 DEF Matches
<1>9. \A r \in ToSet(R) : r.methods \in Seq(ToSet(r.methods)) /\ r.ctors \in Seq(ToSet(r.ctors))
  BY <1>6 DEF United, Faithful, Matches, Irs, List
<1>10. \A f \in LoweredIn(F, R) : \E c \in Functions(X) : SaidBy(N, f, c)
  BY <1>1, <1>2 DEF LoweredIn
<1>11. \A c \in X : c.kind \in {"fn", "method"} => \E f \in LoweredIn(F, R) : f.usr = c.usr
  BY <1>7, <1>8 DEF LoweredIn
<1> QED BY <1>9, <1>10, <1>11 DEF X, F, R, N

LEMMA CallReaches ==
  ASSUME program \in Programs, Consistent(program), CallsDeclared(program), OverloadsApart(program),
         NEW p, Complete(p), catalog = FinishCatalog(p),
         NEW f, NEW c \in Functions(CursorsIn(program)), SaidBy(Names(p), f, c), NEW k \in f.calls
  PROVE  Reaches(k)
<1> DEFINE X == CursorsIn(program)
           N == Names(p)
           lowered == LoweredIn(catalog.fns, catalog.records)
<1>1. catalog.decls = Decls(p) /\ catalog.records = FinishedClasses(p) /\ catalog.fns = FinishedFunctions(p)
  BY Finished
<1>2. PICK b \in c.calls : k = [b EXCEPT !.name = NameIn(N, b)]
  BY DEF SaidBy
<1>3. k.usr = b.usr /\ k.name = NameIn(N, b)
  <2>1. c \in X /\ c.kind \in FunctionLike
    BY DEF Functions
  <2>2. b = [usr |-> b.usr, name |-> b.name]
    BY <2>1, MergeAssumption, Zenon
  <2> DEFINE name == NameIn(N, b)
  <2> HIDE DEF name
  <2> QED BY <1>2, <2>2 DEF name
<1>4. PICK callee \in X : callee.kind \in {"fn", "method"} /\ callee.usr = k.usr
  <2>1. c \in X /\ c.kind \in FunctionLike
    BY DEF Functions
  <2> QED BY <1>2, <1>3, <2>1 DEF CallsDeclared
<1>5. PICK d \in Named(p) : d.usr = k.usr
  <2>1. callee \in Functions(X)
    BY <1>4 DEF Functions, FunctionLike
  <2>2. \E d \in ToSet(Decls(p)) : d.usr = callee.usr /\ d.kind = callee.kind
    BY <2>1, DeclsSay
  <2> QED BY <1>4, <2>2 DEF Named
<1> DEFINE g == OverloadsOf(Decls(p), d)
           R == Classes(p)
<1>6. /\ List(g) /\ Apart(g) /\ Enough(Len(g)) /\ d \in ToSet(g)
      /\ \A e \in ToSet(g) : e \in Named(p) /\ OverloadsOf(Decls(p), e) = g
  BY OverloadsTold
<1>7. ASSUME NEW e \in ToSet(g)
      PROVE  e.usr \in DOMAIN N /\ N[e.usr] = SafeName(Numbered(g, R, e))
  <2>1. e \in Named(p) /\ OverloadsOf(Decls(p), e) = g
    BY <1>6
  <2>2. e.usr \in DOMAIN Names(p) /\ Names(p)[e.usr] = SafeName(Numbered(OverloadsOf(Decls(p), e), R, e))
    BY <2>1, NameGiven
  <2> QED BY <2>1, <2>2
<1>8. /\ \A e \in lowered : \E a \in Functions(X) : SaidBy(N, e, a)
      /\ \E e \in lowered : e.usr = k.usr
  BY <1>1, <1>4, LoweredSaid
<1>9. UNION {ToSet(OverloadsOf(catalog.decls, e)) : e \in {x \in ToSet(catalog.decls) : x.usr = k.usr}} = ToSet(g)
  <2>1. List(Decls(p)) /\ d \in ToSet(Decls(p))
    BY DeclsSay DEF Named
  <2>2. \A x \in ToSet(Decls(p)) : x.usr = k.usr => x = d
    BY <1>5, <2>1, OneOfAUsr
  <2>3. {x \in ToSet(Decls(p)) : x.usr = k.usr} = {d}
    BY <1>5, <2>1, <2>2
  <2> QED BY <1>1, <2>3
<1>10. Answering(k.usr, k.name) = {e \in lowered : e.name = k.name /\ \E x \in ToSet(g) : x.usr = e.usr}
  BY <1>9 DEF Answering, LoweredIn
<1> HIDE DEF X, N, lowered, g, R
<1>11. ASSUME NEW e \in lowered, NEW x \in ToSet(g), x.usr = e.usr
       PROVE  e.name = SafeName(Numbered(g, R, x))
  <2>1. PICK a \in Functions(X) : SaidBy(N, e, a)
    BY <1>8
  <2>2. e.usr = a.usr /\ e.name = NameIn(N, a)
    BY <2>1 DEF SaidBy
  <2> QED BY <1>7, <1>11, <2>2 DEF NameIn
<1>12. k.name = SafeName(Numbered(g, R, d))
  BY <1>3, <1>5, <1>6, <1>7 DEF NameIn
<1>13. ASSUME NEW x \in ToSet(g), SafeName(Numbered(g, R, x)) = SafeName(Numbered(g, R, d))
       PROVE  x = d
  BY <1>6, <1>13, NumbersTell
<1>14. \A e \in lowered : (e.name = k.name /\ \E x \in ToSet(g) : x.usr = e.usr) <=> e.usr = k.usr
  <2>1. ASSUME NEW e \in lowered, e.name = k.name, NEW x \in ToSet(g), x.usr = e.usr
        PROVE  e.usr = k.usr
    <3>1. x = d
      BY <1>11, <1>12, <1>13, <2>1
    <3> QED BY <1>5, <2>1, <3>1
  <2>2. ASSUME NEW e \in lowered, e.usr = k.usr
        PROVE  e.name = k.name /\ \E x \in ToSet(g) : x.usr = e.usr
    BY <1>5, <1>6, <1>11, <1>12, <2>2
  <2> QED BY <2>1, <2>2
<1>15. {e.usr : e \in Answering(k.usr, k.name)} = {k.usr}
  BY <1>8, <1>10, <1>14
<1> QED BY <1>15 DEF Reaches

LEMMA NamesUniqueNow ==
  ASSUME ScheduleInv, Consistent(program), CallsDeclared(program), NamesApart(program)
  PROVE  DartNamesUnique
<1>1. CASE ~Merged
  <2>1. catalog.records = <<>> /\ catalog.fns = <<>>
    BY <1>1 DEF Merged, NoCatalog
  <2>2. DOMAIN catalog.records = {} /\ ToSet(catalog.records) = {} /\ ToSet(catalog.fns) = {}
    BY <2>1, EmptyList
  <2> QED BY <2>2 DEF DartNamesUnique
<1>2. CASE Merged
  <2> DEFINE p == partial
             X == CursorsIn(program)
  <2>1. program \in Programs /\ catalog = FinishCatalog(p) /\ Complete(p)
    BY <1>2, BothComplete
  <2>2. catalog.records = FinishedClasses(p) /\ catalog.fns = FinishedFunctions(p)
    BY <2>1, Finished
  <2>3. ClassNamesApart(program) /\ OverloadsApart(program)
    BY DEF NamesApart
  <2>4. \A i, j \in DOMAIN catalog.records : catalog.records[i].name = catalog.records[j].name => i = j
    BY <2>1, <2>2, <2>3, RecordNamesUnique
  <2>5. \A f \in ToSet(catalog.fns) : \E c \in Functions(X) : SaidBy(Names(p), f, c)
    BY <2>1, <2>2, FunctionsSaid
  <2>6. \A r \in ToSet(catalog.records) : \A f \in ToSet(r.methods \o r.ctors) :
          \E c \in Functions(X) : SaidBy(Names(p), f, c)
    <3>1. ASSUME NEW r \in ToSet(catalog.records), NEW f \in ToSet(r.methods \o r.ctors)
          PROVE  \E c \in Functions(X) : SaidBy(Names(p), f, c)
      <4> DEFINE s == r.methods
                 t == r.ctors
                 st == s \o t
      <4>1. s \in Seq(ToSet(s)) /\ t \in Seq(ToSet(t))
        BY <2>1, <2>2, LoweredSaid
      <4>2. \A e \in ToSet(s) \cup ToSet(t) : \E c \in Functions(X) : SaidBy(Names(p), e, c)
        BY <2>1, <2>2, MembersSaid
      <4>3. PICK i \in DOMAIN st : f = st[i]
        BY Zenon DEF ToSet
      <4> HIDE DEF s, t, X
      <4>4. \/ i \in DOMAIN s /\ st[i] = s[i]
            \/ i - Len(s) \in DOMAIN t /\ st[i] = t[i - Len(s)]
        BY <4>1, <4>3, Joined
      <4> HIDE DEF st
      <4>5. f \in ToSet(s) \cup ToSet(t)
        BY <4>3, <4>4 DEF ToSet
      <4> QED BY <4>2, <4>5
    <3> QED BY <3>1
  <2>7. ASSUME NEW f \in ToSet(catalog.fns) \cup UNION {ToSet(r.methods \o r.ctors) : r \in ToSet(catalog.records)},
               NEW k \in f.calls
        PROVE  Reaches(k)
    <3>1. PICK c \in Functions(X) : SaidBy(Names(p), f, c)
      BY <2>5, <2>6
    <3> QED BY <2>1, <2>3, <3>1, CallReaches
  <2> QED BY <2>4, <2>7 DEF DartNamesUnique
<1> QED BY <1>1, <1>2

(* No two records print as one class, and every call in every body prints  *)
(* the name of its own callee and of no other overload, whatever units the *)
(* workers read: for programs whose names do not clash before they are     *)
(* numbered, and which declare what they call.                             *)
THEOREM DartNamesAreUnique ==
  Spec => [](Consistent(program) /\ CallsDeclared(program) /\ NamesApart(program) => DartNamesUnique)
<1>1. ScheduleInv => (Consistent(program) /\ CallsDeclared(program) /\ NamesApart(program) => DartNamesUnique)
  BY NamesUniqueNow
<1> QED BY <1>1, ScheduleKept, PTL
=============================================================================
