------------------------------ MODULE TypeFacts ------------------------------
(***************************************************************************)
(* The type, pointer and source catalogs (crates/server/src/               *)
(* type_catalog.rs, pointer_catalog.rs, source_catalog.rs): what a worker  *)
(* notes of one translation unit, and how the workers' notes become one    *)
(* list each.                                                              *)
(*                                                                         *)
(* A translation unit is a file, the files it includes and the cursors     *)
(* libclang visits.  Of interest here are class definitions ("record"),    *)
(* typedefs ("alias"), forward declarations ("forward") and mentions: a    *)
(* field, a base, a parameter, a variable, a local variable or a result    *)
(* that names a type, perhaps through a pointer.  A site is a file and a   *)
(* place in it.  The order of the lists, which nothing reads, is not kept, *)
(* except where a usr keeps the entry that was seen first.                 *)
(***************************************************************************)
EXTENDS Naturals, Sequences, FiniteSets, SequencesExt

CONSTANT ProjectFiles  \* the files below the project's root

EmptyTypeFacts ==
  [types |-> <<>>, deps |-> {}, uses |-> {}, pointers |-> <<>>, units |-> {}, headers |-> {}]

\* The entry under its usr, unless there is one already.
FirstSeen(seq, e) ==
  IF \E i \in DOMAIN seq : seq[i].usr = e.usr THEN seq ELSE Append(seq, e)

-----------------------------------------------------------------------------
(* One cursor of a unit.                                                   *)

InProject(c) == c.site.file \in ProjectFiles

\* A declaration outside the project is described by nothing.
Described(c) == IF InProject(c) THEN {[usr |-> c.usr, site |-> c.site]} ELSE {}

\* The type a mention names: its definition, wherever in the unit it
\* stands, or the forward declaration if the unit has no definition.
Declaring(unit, usr, kinds) ==
  {i \in DOMAIN unit.cursors : unit.cursors[i].kind \in kinds /\ unit.cursors[i].usr = usr}

Resolved(unit, usr) ==
  LET definitions == Declaring(unit, usr, {"record", "alias"})
      candidates == IF definitions # {} THEN definitions ELSE Declaring(unit, usr, {"forward"})
  IN IF candidates = {} THEN {} ELSE Described(unit.cursors[Min(candidates)])

\* A type that mentions itself depends on nothing.
Edges(callers, callees) == {e \in callers \X callees : e[1] # e[2]}

Uses(unit, c, use) ==
  IF InProject(c)
  THEN {[type |-> t.usr, use |-> use, site |-> c.site] : t \in Resolved(unit, c.type)}
  ELSE {}

VisitDefinition(p, c) ==
  IF InProject(c) THEN [p EXCEPT !.types = FirstSeen(@, [usr |-> c.usr, site |-> c.site])] ELSE p

VisitAlias(unit, p, c) ==
  [VisitDefinition(p, c) EXCEPT
     !.uses = @ \cup Uses(unit, c, "alias"),
     !.deps = @ \cup Edges(Described(c), Resolved(unit, c.type))]

\* A field or a base: an edge from the class it stands in, and a use.
VisitMemberType(unit, p, c) ==
  LET owner == Resolved(unit, c.owner)
  IN IF owner = {} THEN p
     ELSE [p EXCEPT !.uses = @ \cup Uses(unit, c, c.use),
                    !.deps = @ \cup Edges(owner, Resolved(unit, c.type))]

VisitType(unit, p, c) ==
  CASE c.kind = "record" -> VisitDefinition(p, c)
    [] c.kind = "alias" -> VisitAlias(unit, p, c)
    [] c.kind = "mention" /\ c.use \in {"field", "inheritance"} -> VisitMemberType(unit, p, c)
    [] c.kind = "mention" /\ c.use \in {"parameter", "variable", "return"} ->
         [p EXCEPT !.uses = @ \cup Uses(unit, c, c.use)]
    [] OTHER -> p

\* Raw pointers only.  A returned pointer bears the function's usr.
IsPointer(c) ==
  /\ c.kind = "mention" /\ c.ptr
  /\ c.use \in {"parameter", "field", "local", "return"}
  /\ InProject(c)

PointerOf(unit, c) ==
  [usr |-> c.usr, use |-> c.use, site |-> c.site, pointee |-> {t.usr : t \in Resolved(unit, c.type)}]

VisitPointer(unit, p, c) ==
  IF IsPointer(c) THEN [p EXCEPT !.pointers = Append(@, PointerOf(unit, c))] ELSE p

\* libclang counts the unit's own file among its inclusions.
VisitFiles(unit, p) ==
  [p EXCEPT !.units = @ \cup ({unit.file} \cap ProjectFiles),
            !.headers = @ \cup (({unit.file} \cup unit.includes) \cap ProjectFiles)]

VisitFacts(unit, p, c) == VisitPointer(unit, VisitType(unit, p, c), c)

VisitTypeFacts(p, unit) ==
  FoldLeft(LAMBDA q, c : VisitFacts(unit, q, c), VisitFiles(unit, p), unit.cursors)

-----------------------------------------------------------------------------
(* The merge: finish_type_catalog, finish_pointer_catalog,                 *)
(* finish_source_files.                                                    *)

\* Slip: a file one unit compiles and another includes is listed as both.
FilesOfBothKinds(units, headers) ==
  [path : units, kind : {"translation_unit"}] \cup [path : headers, kind : {"header"}]

\* What some unit compiles is no header, although another includes it.
SourceFiles(units, headers) ==
  [path : units, kind : {"translation_unit"}] \cup [path : headers \ units, kind : {"header"}]

MergeTypes(types, p) == FoldLeft(FirstSeen, types, p.types)
MergePointers(pointers, p) == FoldLeft(FirstSeen, pointers, p.pointers)

FinishTypeFacts(partials) ==
  [types |-> ToSet(FoldLeft(MergeTypes, <<>>, partials)),
   deps |-> UNION {p.deps : p \in ToSet(partials)},
   uses |-> UNION {p.uses : p \in ToSet(partials)},
   pointers |-> ToSet(FoldLeft(MergePointers, <<>>, partials)),
   files |-> SourceFiles(UNION {p.units : p \in ToSet(partials)},
                         UNION {p.headers : p \in ToSet(partials)})]
=============================================================================
