---------------------------- MODULE CatalogMerge ----------------------------
(***************************************************************************)
(* How the partial catalogs of the extraction workers become one catalog   *)
(* (crates/server/src/function_catalog.rs).  Which worker reads which unit *)
(* is decided by the race for the shared cursor (extraction.rs), partials  *)
(* are merged in worker order, and the point of the merge is that nobody   *)
(* can tell.                                                               *)
(*                                                                         *)
(* A translation unit is a file, what it includes and the sequence of      *)
(* cursors libclang visits in it, headers included.  A function-like       *)
(* cursor is a free function (a definition or a prototype), a method (with *)
(* a body, or pure virtual), a constructor or a destructor.  Its body is   *)
(* what it calls, the enums it names and the classes of its locals; a      *)
(* default argument is there or not.  A C++ name and a namespace are       *)
(* sequences of words, so that gluing them together is concatenation, as   *)
(* it is for the strings in the code.                                      *)
(***************************************************************************)
EXTENDS Integers, Sequences, FiniteSets, SequencesExt, Functions, TypeFacts, Overloads

CONSTANTS
  WorkerCount,  \* number of workers
  Programs      \* projects to consider, each a sequence of translation units

FunctionLike == {"fn", "method", "ctor", "dtor"}

CursorsIn(p) == UNION {ToSet(p[u].cursors) : u \in DOMAIN p}

\* What a usr stands for: one type, or one function of one owner, with one
\* definition, which every unit that includes its header sees.
OneDefinition(p) ==
  \A c, d \in CursorsIn(p) : c.usr = d.usr =>
    /\ {c.kind, d.kind} \subseteq {"record", "alias"} => c = d
    /\ {c.kind, d.kind} \subseteq FunctionLike => c.kind = d.kind /\ c.owner = d.owner
    /\ {c.kind, d.kind} \subseteq FunctionLike /\ c.def /\ d.def => c = d

ASSUME MergeAssumption ==
  /\ WorkerCount \in Nat \ {0}
  /\ \A p \in Programs :
       /\ p \in Seq(ToSet(p)) /\ Len(p) > 0
       /\ \A unit \in ToSet(p) : unit.cursors \in Seq(ToSet(unit.cursors))
       /\ \A c \in CursorsIn(p) :
            /\ c.kind \in FunctionLike =>
                 /\ c.def \in BOOLEAN /\ c.dflt \in BOOLEAN
                 /\ \A k \in c.calls : k = [usr |-> k.usr, name |-> k.name]
            /\ c.kind \in {"fn", "method"} =>
                 c.usr \in ToSet(UsrOrder) /\ \A name \in NamesFor(c) : name \in Seq(ToSet(name))
            /\ c.kind = "record" => c.name \in Seq(ToSet(c.name)) /\ c.ns \in Seq(ToSet(c.ns))
       /\ Cardinality({c.usr : c \in CursorsIn(p)}) <= Len(Numeral)
       /\ OneDefinition(p)

VARIABLES
  program,    \* the project being extracted
  nextUnit,   \* the shared cursor
  partial,    \* each worker's local catalogs
  alone,      \* history: what one worker that read every unit would have
  catalog     \* the merged catalogs, once there are any

vars == <<program, nextUnit, partial, alone, catalog>>

Workers == 1 .. WorkerCount

NoFunctions ==
  [decls |-> <<>>, fns |-> <<>>, records |-> <<>>, enums |-> {}, calls |-> {}, members |-> {}]
EmptyPartial == [functions |-> NoFunctions, types |-> EmptyTypeFacts]
NoCatalog == [decls |-> <<>>, fns |-> <<>>, records |-> <<>>]

\* Where a list has the entry of a usr: no list that is searched has two.
IndexOfUsr(seq, usr) ==
  LET found == {i \in DOMAIN seq : seq[i].usr = usr}
  IN IF found = {} THEN 0 ELSE CHOOSE i \in found : TRUE

-----------------------------------------------------------------------------
(* One worker visiting one cursor: visit_cursor, push_declaration_into.    *)

DeclarationOf(c) ==
  [usr |-> c.usr, kind |-> c.kind, owner |-> c.owner, name |-> c.name, params |-> c.params,
   const |-> c.const, static |-> c.static, def |-> c.def]
IrOf(c) ==
  [usr |-> c.usr, name |-> c.name, def |-> c.def, dflt |-> c.dflt,
   calls |-> c.calls, enums |-> c.enums, locals |-> c.locals, teardown |-> {}]

\* A definition upgrades a prototype in place and is never downgraded.
Upsert(decls, d) ==
  LET i == IndexOfUsr(decls, d.usr)
  IN IF i = 0 THEN Append(decls, d)
     ELSE IF d.def /\ ~decls[i].def THEN ReplaceAt(decls, i, d)
     ELSE decls

\* Every function-like cursor is declared, and what it calls is noted.
Declare(p, c) ==
  [p EXCEPT !.decls = Upsert(@, DeclarationOf(c)),
            !.calls = @ \cup {<<c.usr, k.usr>> : k \in c.calls}]

\* The IR of every prototype and every definition visited is kept.
VisitFunction(p, c) == [Declare(p, c) EXCEPT !.fns = Append(@, IrOf(c))]

VisitRecord(p, c) ==
  IF IndexOfUsr(p.records, c.usr) # 0 THEN p
  ELSE [p EXCEPT !.records = Append(@, [usr |-> c.usr, name |-> c.name, ns |-> c.ns,
                                        methods |-> <<>>, ctors |-> <<>>, dtor |-> <<>>])]

Attach(record, c) ==
  IF c.kind = "ctor" THEN [record EXCEPT !.ctors = Append(@, IrOf(c))]
  ELSE [record EXCEPT !.methods = Append(@, IrOf(c))]

\* A member is attached once per worker, to the record its owner names.
VisitMember(p, c) ==
  LET i == IndexOfUsr(p.records, c.owner)
      q == [Declare(p, c) EXCEPT !.members = @ \cup {c.usr}]
  IN IF c.usr \in p.members \/ i = 0 THEN q
     ELSE [q EXCEPT !.records = ReplaceAt(@, i, Attach(@[i], c))]

\* Of a destructor only the body is kept.
VisitDestructor(p, c) ==
  LET i == IndexOfUsr(p.records, c.owner)
      q == Declare(p, c)
  IN IF i = 0 THEN q
     ELSE [q EXCEPT !.records = ReplaceAt(@, i, [@[i] EXCEPT !.dtor = <<IrOf(c)>>])]

VisitCursor(p, c) ==
  CASE c.kind = "fn" -> VisitFunction(p, c)
    [] c.kind = "record" -> VisitRecord(p, c)
    [] c.kind = "enum" -> [p EXCEPT !.enums = @ \cup {c.usr}]
    [] c.kind \in {"method", "ctor"} -> VisitMember(p, c)
    [] c.kind = "dtor" -> VisitDestructor(p, c)
    [] OTHER -> p

\* A unit is parsed twice and visited by two catalogs each time.
VisitUnit(p, unit) ==
  [functions |-> FoldLeft(VisitCursor, p.functions, unit.cursors),
   types |-> VisitTypeFacts(p.types, unit)]

-----------------------------------------------------------------------------
(* The merge of the workers' partials: finish_function_catalog.            *)

MergeDecls(decls, p) == FoldLeft(Upsert, decls, p.decls)

\* Slip: whichever partial comes first wins.
MergeFunctionFirst(fns, f) == IF IndexOfUsr(fns, f.usr) = 0 THEN Append(fns, f) ELSE fns

\* A definition replaces a prototype; either way a default argument the
\* kept definition lacks is taken from the prototype of the pair.
MergeFunction(fns, f) ==
  LET i == IndexOfUsr(fns, f.usr)
  IN IF i = 0 THEN Append(fns, f)
     ELSE IF f.def /\ ~fns[i].def
       THEN ReplaceAt(fns, i, [f EXCEPT !.dflt = @ \/ fns[i].dflt])
     ELSE IF ~f.def /\ fns[i].def
       THEN ReplaceAt(fns, i, [fns[i] EXCEPT !.dflt = @ \/ f.dflt])
     ELSE fns

MergeFunctions(fns, p) == FoldLeft(MergeFunction, fns, p.fns)

\* The same for methods, where the prototype is a pure virtual one.
MergeMethod(methods, m) == MergeFunction(methods, m)

MergeConstructor(ctors, c) ==
  LET i == IndexOfUsr(ctors, c.usr)
  IN IF i = 0 THEN Append(ctors, c)
     ELSE ReplaceAt(ctors, i, [ctors[i] EXCEPT !.dflt = @ \/ c.dflt])

\* Slip: the second partial's view of a class is discarded.
MergeRecordFirst(records, r) ==
  IF IndexOfUsr(records, r.usr) = 0 THEN Append(records, r) ELSE records

MergeRecord(records, r) ==
  LET i == IndexOfUsr(records, r.usr)
  IN IF i = 0 THEN Append(records, r)
     ELSE ReplaceAt(records, i,
            [records[i] EXCEPT !.methods = FoldLeft(MergeMethod, @, r.methods),
                               !.ctors = FoldLeft(MergeConstructor, @, r.ctors),
                               !.dtor = IF @ = <<>> THEN r.dtor ELSE @])

MergeRecords(records, p) == FoldLeft(MergeRecord, records, p.records)

\* apply_renames looks into functions, methods and constructors.
RenameAll(renames, fs) == [i \in DOMAIN fs |-> Rename(renames, fs[i])]

RenameMembers(renames, records) ==
  [i \in DOMAIN records |->
     [records[i] EXCEPT !.methods = RenameAll(renames, @), !.ctors = RenameAll(renames, @)]]

(* apply_record_name_disambiguation: records that share a name get their   *)
(* namespace in front, and a number from the second such name on, in the   *)
(* order in which they stand in the merged catalog.                        *)
Candidate(r) == r.ns \o r.name

DartName(records, i) ==
  LET r == records[i]
      sameName == {j \in DOMAIN records : records[j].name = r.name}
      ordinal == Cardinality({j \in sameName : j <= i /\ Candidate(records[j]) = Candidate(r)})
  IN IF Cardinality(sameName) = 1 THEN r.name
     ELSE IF ordinal = 1 THEN Candidate(r)
     ELSE Append(Candidate(r), Numeral[ordinal])

Disambiguate(records) ==
  [i \in DOMAIN records |-> [records[i] EXCEPT !.name = DartName(records, i)]]

\* An enum nobody declares is no type any more.
RejectEnums(declared, fs) == [i \in DOMAIN fs |-> [fs[i] EXCEPT !.enums = @ \cap declared]]

RejectInMembers(declared, records) ==
  [i \in DOMAIN records |->
     [records[i] EXCEPT !.methods = RejectEnums(declared, @),
                        !.ctors = RejectEnums(declared, @),
                        !.dtor = RejectEnums(declared, @)]]

\* The first local whose class has a destructor is guarded: what the
\* destructor calls moves into the finally part of the function.
Teardown(records, f) ==
  LET teardowns(usr) == {r.dtor[1].calls : r \in {x \in ToSet(records) : x.usr = usr /\ x.dtor # <<>>}}
      guarded == {i \in DOMAIN f.locals : teardowns(f.locals[i]) # {}}
  IN IF guarded = {} THEN {} ELSE UNION teardowns(f.locals[Min(guarded)])

Guard(records, fs) == [i \in DOMAIN fs |-> [fs[i] EXCEPT !.teardown = Teardown(records, fs[i])]]

FinishFunctions(partials) ==
  LET enums == UNION {p.enums : p \in ToSet(partials)}
      decls == FoldLeft(MergeDecls, <<>>, partials)
      merged == FoldLeft(MergeRecords, <<>>, partials)
      renames == RenamesOf(decls, merged)
      records == RejectInMembers(enums, Disambiguate(RenameMembers(renames, merged)))
      fns == RejectEnums(enums, RenameAll(renames, FoldLeft(MergeFunctions, <<>>, partials)))
  IN [decls |-> decls, calls |-> UNION {p.calls : p \in ToSet(partials)}, enums |-> enums,
      records |-> records, fns |-> Guard(records, fns)]

FinishCatalog(partials) ==
  LET functions == FinishFunctions([w \in DOMAIN partials |-> partials[w].functions])
  IN [decls |-> functions.decls, calls |-> functions.calls, enums |-> functions.enums,
      records |-> functions.records, fns |-> functions.fns,
      types |-> FinishTypeFacts([w \in DOMAIN partials |-> partials[w].types])]

-----------------------------------------------------------------------------
Init ==
  /\ program \in Programs
  /\ nextUnit = 1
  /\ partial = [w \in Workers |-> EmptyPartial]
  /\ alone = EmptyPartial
  /\ catalog = NoCatalog

(* Worker w wins the next unit and reads it into its own partial. *)
Take(w) ==
  /\ nextUnit <= Len(program)
  /\ nextUnit' = nextUnit + 1
  /\ partial' = [partial EXCEPT ![w] = VisitUnit(@, program[nextUnit])]
  /\ alone' = VisitUnit(alone, program[nextUnit])
  /\ UNCHANGED <<program, catalog>>

(* All workers joined: merge in worker order. *)
Merge ==
  /\ nextUnit > Len(program)
  /\ catalog = NoCatalog
  /\ catalog' = FinishCatalog(partial)
  /\ UNCHANGED <<program, nextUnit, partial, alone>>

Next == Merge \/ \E w \in Workers : Take(w)

Spec == Init /\ [][Next]_vars

-----------------------------------------------------------------------------
(* What one worker alone would build; static chunks give the same, because *)
(* they keep the units in their order.                                     *)
OneWorker == FinishCatalog(<<alone>>)

\* A catalog up to the order of its entries.  Which of its declarations
\* gives the place of a returned pointer is left open.
Content(c) ==
  LET pointer(p) == IF p.use = "return" THEN [p EXCEPT !.site = {}] ELSE p
  IN [c EXCEPT !.decls = ToSet(@), !.fns = ToSet(@),
               !.records = {[r EXCEPT !.methods = ToSet(@), !.ctors = ToSet(@)] : r \in ToSet(@)},
               !.types.pointers = {pointer(p) : p \in @}]

CursorsOf(unit, kind) == {c \in ToSet(unit.cursors) : c.kind = kind}
Cursors(kind) == {c \in CursorsIn(program) : c.kind = kind}

Merged == catalog # NoCatalog

\* The prototypes of a function agree on its default arguments.
DefaultsAgree(p) ==
  \A c, d \in CursorsIn(p) :
    c.kind = "fn" /\ d.kind = "fn" /\ c.usr = d.usr /\ ~c.def /\ ~d.def => c.dflt = d.dflt

\* A pure virtual method has no body anywhere.
NoPureBodies(p) ==
  \A c, d \in CursorsIn(p) :
    {c.kind, d.kind} \subseteq {"method", "ctor"} /\ c.usr = d.usr => c.def = d.def

\* In each unit the class stands before its members.
ClassFirst(p) ==
  \A u \in DOMAIN p : \A i \in DOMAIN p[u].cursors :
    LET c == p[u].cursors[i]
    IN c.kind \in {"method", "ctor", "dtor"} =>
         \E j \in 1 .. i : p[u].cursors[j].kind = "record" /\ p[u].cursors[j].usr = c.owner

\* A function is declared alike wherever it is, and defined alike.
DeclaredAlike(p) ==
  \A c, d \in CursorsIn(p) : {c.kind, d.kind} \subseteq FunctionLike /\ c.usr = d.usr =>
    /\ DeclarationOf([c EXCEPT !.def = d.def]) = DeclarationOf(d)
    /\ c.def = d.def => IrOf(c) = IrOf(d)

\* A class has one destructor.
OneDestructor(p) ==
  \A c, d \in CursorsIn(p) : c.kind = "dtor" /\ d.kind = "dtor" /\ c.owner = d.owner => IrOf(c) = IrOf(d)

\* What the merge takes for granted of declarations and members.
Consistent(p) == NoPureBodies(p) /\ ClassFirst(p) /\ DeclaredAlike(p) /\ OneDestructor(p)

\* A class shares its name only with classes of other namespaces.
DistinctClasses(p) ==
  \A c, d \in CursorsIn(p) :
    c.kind = "record" /\ d.kind = "record" /\ c.name = d.name /\ Candidate(c) = Candidate(d) => c.usr = d.usr

\* Of the overloads of a class's operator that take as much, one takes the class.
TakesClass(r, d) == d.params # <<>> /\ TypeSuffix[d.params[1]] \in {r.name, <<"Nullable">> \o r.name}

OneNative(p) ==
  \A r \in {x \in CursorsIn(p) : x.kind = "record"} :
    LET operators == {x \in CursorsIn(p) : /\ x.kind \in {"fn", "method"} /\ x.owner = r.usr
                                           /\ IsOperator(x.name)}
    IN \A c, d \in operators :
         (c.name = d.name /\ Len(c.params) = Len(d.params) /\ c.usr # d.usr) =>
           /\ ~(TakesClass(r, c) /\ TakesClass(r, d))
           /\ \E e \in operators : e.name = c.name /\ Len(e.params) = Len(c.params) /\ TakesClass(r, e)

\* A pointer is to one type, and declared in one place unless it is returned.
PointersAgree(p) ==
  \A u, v \in ToSet(p) : \A c \in ToSet(u.cursors), d \in ToSet(v.cursors) :
    (IsPointer(c) /\ IsPointer(d) /\ c.usr = d.usr) =>
      /\ c.use = d.use /\ (c.use = "return" \/ c.site = d.site)
      /\ PointerOf(u, c).pointee = PointerOf(v, d).pointee

\* What it takes for the order of the merge not to show.
Orderly(p) == Consistent(p) /\ DistinctClasses(p) /\ OneNative(p) /\ PointersAgree(p)

\* What is called is declared in the project.
CallsDeclared(p) ==
  \A c \in CursorsIn(p) : c.kind \in FunctionLike =>
    \A k \in c.calls : \E d \in CursorsIn(p) : d.kind \in {"fn", "method"} /\ d.usr = k.usr

\* No class is called what another one may be called to tell it apart.
ClassNamesApart(p) ==
  LET records == {c \in CursorsIn(p) : c.kind = "record"}
  IN \A c, d \in records : c.usr # d.usr =>
       /\ c.name # d.name => {c.name, Candidate(c)} \cap {d.name, Candidate(d)} = {}
       /\ \A n \in ToSet(Numeral) : Append(Candidate(c), n) \notin {d.name, Candidate(d)}

\* Nor is an overload, once numbered or moved away from a reserved word, what
\* another one may be called.
OverloadsApart(p) ==
  LET named == {c \in CursorsIn(p) : c.kind \in {"fn", "method"}}
  IN \A c, d \in named : (c.owner = d.owner /\ c.name = d.name /\ c.usr # d.usr) =>
       \A name \in NamesFor(c) :
         /\ \A word \in ReservedWords : name # Append(word, "_")
         /\ \A n \in ToSet(Numeral) : \A other \in NamesFor(d) : name # Append(other, n)

NamesApart(p) == ClassNamesApart(p) /\ OverloadsApart(p)

(* A free function defined in any unit is cataloged, and lowered, as its   *)
(* definition: never as the prototype some other worker saw, and only      *)
(* once; a default argument any header gave it is not lost on the way.     *)
DefinitionsWin ==
  Merged => \A c \in Cursors("fn") : c.def =>
    /\ DeclarationOf(c) \in ToSet(catalog.decls)
    /\ {[def |-> f.def, dflt |-> f.dflt] : f \in {e \in ToSet(catalog.fns) : e.usr = c.usr}}
         = {[def |-> TRUE, dflt |-> \E d \in Cursors("fn") : d.usr = c.usr /\ d.dflt]}
    /\ Cardinality({i \in DOMAIN catalog.fns : catalog.fns[i].usr = c.usr}) = 1

(* A class has, once, every member any unit defines for it, although most  *)
(* units only see the header.                                              *)
MembersUnited ==
  Merged =>
    /\ \A c \in Cursors("method") \cup Cursors("ctor") :
         \E r \in ToSet(catalog.records) :
           /\ r.usr = c.owner
           /\ LET ms == r.methods \o r.ctors
              IN /\ Cardinality({i \in DOMAIN ms : ms[i].usr = c.usr}) = 1
                 /\ c.def => \E m \in ToSet(ms) : m.usr = c.usr /\ m.def
    /\ \A c \in Cursors("dtor") :
         \E r \in ToSet(catalog.records) : r.usr = c.owner /\ r.dtor # <<>>

(* What units see of types from different sides adds up: a type is listed  *)
(* once, where it is defined, if any unit defines it, and never for a      *)
(* forward declaration alone; a unit that sees both ends of a field or a   *)
(* base gives the edge between the definitions; and a file has one kind,   *)
(* although one unit compiles it and another includes it.                  *)
TypesUnited ==
  Merged =>
    LET defined == {c \in Cursors("record") \cup Cursors("alias") : InProject(c)}
    IN /\ {t.usr : t \in catalog.types.types} = {c.usr : c \in defined}
       /\ \A t, s \in catalog.types.types : t.usr = s.usr => t = s
       /\ \A u \in DOMAIN program : \A c \in CursorsOf(program[u], "mention") :
            \A a, b \in {d \in CursorsOf(program[u], "record") : InProject(d)} :
              (c.use \in {"field", "inheritance"} /\ c.owner = a.usr /\ c.type = b.usr /\ a # b) =>
                <<[usr |-> a.usr, site |-> a.site], [usr |-> b.usr, site |-> b.site]>>
                  \in catalog.types.deps
       /\ \A f, g \in catalog.types.files : f.path = g.path => f = g
       /\ \A u \in DOMAIN program : program[u].file \in ProjectFiles =>
            [path |-> program[u].file, kind |-> "translation_unit"] \in catalog.types.files

(* Two runs over the same project build the same catalogs whichever worker *)
(* wins which unit: the same declarations, bodies, names, edges and files. *)
SameOnEverySchedule == Merged => Content(catalog) = Content(OneWorker)

(* "two runs of the same project must always rename the same way": classes *)
(* and methods bear the same names whatever the schedule.                  *)
RenamesTheSameWay ==
  Merged => LET names(c) == {<<r.usr, r.name, {<<m.usr, m.name>> : m \in ToSet(r.methods)}>> :
                               r \in ToSet(c.records)}
            IN names(catalog) = names(OneWorker)

\* The functions that share an owner and a C++ name with usr and print
\* under the Dart name name.
Answering(usr, name) ==
  LET lowered == ToSet(catalog.fns) \cup UNION {ToSet(r.methods) : r \in ToSet(catalog.records)}
      group == UNION {ToSet(OverloadsOf(catalog.decls, d)) :
                        d \in {e \in ToSet(catalog.decls) : e.usr = usr}}
  IN {f \in lowered : f.name = name /\ \E d \in group : d.usr = f.usr}

\* A call reaches, by the name it prints, its own callee and no other
\* overload.
Reaches(k) == {f.usr : f \in Answering(k.usr, k.name)} = {k.usr}

(* "not pretty, but always unique": no two records print as one Dart       *)
(* class, and a call in a function, a method or a constructor finds the    *)
(* overload it is resolved to, whatever that was renamed to and wherever   *)
(* the renaming was decided.                                               *)
DartNamesUnique ==
  /\ \A i, j \in DOMAIN catalog.records :
       catalog.records[i].name = catalog.records[j].name => i = j
  /\ \A f \in ToSet(catalog.fns)
            \cup UNION {ToSet(r.methods \o r.ctors) : r \in ToSet(catalog.records)} :
       \A k \in f.calls : Reaches(k)

(* "a call site can never end up pointing at a name that no longer         *)
(* exists": nor does one that a guarded function takes from a destructor.  *)
TeardownReachesItsCallee ==
  Merged => \A f \in ToSet(catalog.fns) : \A k \in f.teardown : Reaches(k)
=============================================================================
