-------------------------- MODULE ProjectLifecycle --------------------------
(***************************************************************************)
(* One project on disk and the requests that touch it                      *)
(* (crates/server/src/project_service.rs, ingest.rs, persistence/).  The   *)
(* durable state is spread over a directory, the tables of project.db, the *)
(* analysis-status.txt marker, the manual marks of externals.txt and the   *)
(* row of the global registry, and no transaction spans two of them.       *)
(* Requests run on threads of their own and lock nothing against each      *)
(* other; any of them may fail, be cancelled or die with the server        *)
(* between two of its steps.                                               *)
(*                                                                         *)
(* The source tree does not change, so a table either holds the project's  *)
(* declarations or is empty, and the marks kept here are marks on          *)
(* declarations the project has.                                           *)
(***************************************************************************)
EXTENDS FiniteSets

CONSTANTS
  Job,             \* request threads
  ImportExisting   \* whether clients open or analyse a directory they were
                   \* never told about (the client's "import" entry)

ASSUME LifecycleAssumption == ImportExisting \in BOOLEAN

VARIABLES
  dir,       \* project_dir exists
  db,        \* project.db exists (is_openable_project)
  table,     \* the four tables create_project writes: filled or not
  analysis,  \* what replace_all committed to the tables only it writes
  marker,    \* analysis-status.txt exists (is_project_analysed)
  marked,    \* externals.txt holds the user's mark on a declaration
  listed,    \* the registry has a row for the project
  known,     \* some client was told of the project as a good one
  job,       \* where each request is, and the units it has read
  opened     \* the last answer of open_project

vars == <<dir, db, table, analysis, marker, marked, listed, known, job, opened>>

Table == {"units", "types", "sources", "functions"}
Nothing == [t \in Table |-> FALSE]
Whole == [t \in Table |-> TRUE]

Creating == {"makeDir", "ingest", "extractNew", "openNew", "putUnits", "putTypes",
             "putSources", "putFunctions", "register"}
Analysing == {"findDb", "listUnits", "extract", "replaceAll", "prune", "mark"}
Opening == {"openDb", "readUnits", "readSources", "touch", "readMarker"}

TypeOK ==
  /\ dir \in BOOLEAN
  /\ db \in BOOLEAN
  /\ table \in [Table -> BOOLEAN]
  /\ analysis \in {"never", "empty", "full"}
  /\ marker \in BOOLEAN
  /\ marked \in BOOLEAN
  /\ listed \in BOOLEAN
  /\ known \in BOOLEAN
  /\ job \in [Job -> [pc : {"idle"} \cup Creating \cup Analysing \cup Opening,
                      units : BOOLEAN, sources : BOOLEAN]]
  /\ opened \in [answered : BOOLEAN, units : BOOLEAN, sources : BOOLEAN, analysed : BOOLEAN]

Idle == [pc |-> "idle", units |-> FALSE, sources |-> FALSE]

Init ==
  /\ dir = FALSE
  /\ db = FALSE
  /\ table = Nothing
  /\ analysis = "never"
  /\ marker = FALSE
  /\ marked = FALSE
  /\ listed = FALSE
  /\ known = FALSE
  /\ job = [j \in Job |-> Idle]
  /\ opened = [answered |-> FALSE, units |-> FALSE, sources |-> FALSE, analysed |-> FALSE]

At(j, pc) == job[j].pc = pc
Go(j, pc) == job' = [job EXCEPT ![j].pc = pc]
Done(j) == job' = [job EXCEPT ![j] = Idle]

-----------------------------------------------------------------------------
(* Requests.  A client that does not import by hand only names projects it *)
(* created or found among the recent ones.                                 *)

Start(j, pc) ==
  /\ At(j, "idle")
  /\ Go(j, pc)
  /\ UNCHANGED <<dir, db, table, analysis, marker, marked, listed, known, opened>>

StartCreate(j) == Start(j, "makeDir")
StartAnalyse(j) == (known \/ ImportExisting) /\ Start(j, "findDb")
StartOpen(j) == (known \/ ImportExisting) /\ Start(j, "openDb")

\* Any step may return an error, and a cancelled extraction is one more.
Fail(j) ==
  /\ ~At(j, "idle")
  /\ Done(j)
  /\ UNCHANGED <<dir, db, table, analysis, marker, marked, listed, known, opened>>

\* The server dies and is started again: the disk is all that is left.
Crash ==
  /\ job' = [j \in Job |-> Idle]
  /\ UNCHANGED <<dir, db, table, analysis, marker, marked, listed, known, opened>>

\* mark_external, on a declaration the types panel shows (ExternalsStore
\* models the file itself).
Mark ==
  /\ known \/ ImportExisting
  /\ db
  /\ table["types"]
  /\ marked' = TRUE
  /\ UNCHANGED <<dir, db, table, analysis, marker, listed, known, job, opened>>

Forget ==
  /\ listed' = FALSE
  /\ UNCHANGED <<dir, db, table, analysis, marker, marked, known, job, opened>>

-----------------------------------------------------------------------------
(* create_project: ingest, extract, then one transaction per table.        *)

\* Slip: create_dir_all, which is content with a directory that exists.
MakeDirAll(j) ==
  /\ At(j, "makeDir")
  /\ dir' = TRUE
  /\ Go(j, "ingest")
  /\ UNCHANGED <<db, table, analysis, marker, marked, listed, known, opened>>

\* create_dir, unlike create_dir_all, fails on a directory that exists.
MakeDir(j) ==
  /\ At(j, "makeDir")
  /\ ~dir
  /\ dir' = TRUE
  /\ Go(j, "ingest")
  /\ UNCHANGED <<db, table, analysis, marker, marked, listed, known, opened>>

\* Unpacking the archive, running CMake and reading its compile commands;
\* then the extraction, whose catalogs stay in memory.
Ingest(j) ==
  /\ \/ At(j, "ingest") /\ Go(j, "extractNew")
     \/ At(j, "extractNew") /\ Go(j, "openNew")
  /\ UNCHANGED <<dir, db, table, analysis, marker, marked, listed, known, opened>>

OpenNew(j) ==
  /\ At(j, "openNew")
  /\ db' = TRUE
  /\ Go(j, "putUnits")
  /\ UNCHANGED <<dir, table, analysis, marker, marked, listed, known, opened>>

Put(j, pc, t, next) ==
  /\ At(j, pc)
  /\ table' = [table EXCEPT ![t] = TRUE]
  /\ Go(j, next)
  /\ UNCHANGED <<dir, db, analysis, marker, marked, listed, known, opened>>

\* Slip: the functions are left to the analysis as well.
PutTableNoFunctions(j) ==
  \/ Put(j, "putUnits", "units", "putTypes")
  \/ Put(j, "putTypes", "types", "putSources")
  \/ Put(j, "putSources", "sources", "register")
\* Slip: one more step than the type of a request allows for.
PutTablePointers(j) ==
  \/ Put(j, "putUnits", "units", "putTypes")
  \/ Put(j, "putTypes", "types", "putSources")
  \/ Put(j, "putSources", "sources", "putFunctions")
  \/ Put(j, "putFunctions", "functions", "putPointers")

\* prune_externals_store follows: the fresh catalogs declare every marked
\* declaration, so it leaves externals.txt alone.
PutTable(j) ==
  \/ Put(j, "putUnits", "units", "putTypes")
  \/ Put(j, "putTypes", "types", "putSources")
  \/ Put(j, "putSources", "sources", "putFunctions")
  \/ Put(j, "putFunctions", "functions", "register")

Register(j) ==
  /\ At(j, "register")
  /\ listed' = TRUE
  /\ known' = TRUE
  /\ Done(j)
  /\ UNCHANGED <<dir, db, table, analysis, marker, marked, opened>>

-----------------------------------------------------------------------------
(* analyse_project: extract again from the persisted units, replace every  *)
(* table in one transaction, prune the marks, then write the marker.       *)

FindDb(j) ==
  /\ At(j, "findDb")
  /\ IF db THEN Go(j, "listUnits") ELSE Done(j)
  /\ UNCHANGED <<dir, db, table, analysis, marker, marked, listed, known, opened>>

ListUnits(j) ==
  /\ At(j, "listUnits")
  /\ job' = [job EXCEPT ![j] = [pc |-> "extract", units |-> table["units"], sources |-> FALSE]]
  /\ UNCHANGED <<dir, db, table, analysis, marker, marked, listed, known, opened>>

\* Slip: the marker is written before the catalogs are replaced.
ExtractMarks(j) ==
  /\ At(j, "extract")
  /\ Go(j, "replaceAll")
  /\ marker' = TRUE
  /\ UNCHANGED <<dir, db, table, analysis, marked, listed, known, opened>>

\* Nothing to parse is not an error: it yields empty catalogs.
Extract(j) ==
  /\ At(j, "extract")
  /\ Go(j, "replaceAll")
  /\ UNCHANGED <<dir, db, table, analysis, marker, marked, listed, known, opened>>

\* Slip: no transaction, so a failure leaves the tables deleted.
ReplaceUnguarded(j) ==
  /\ At(j, "replaceAll")
  /\ \/ /\ table' = [t \in Table |-> job[j].units]
        /\ analysis' = IF job[j].units THEN "full" ELSE "empty"
        /\ Go(j, "prune")
     \/ /\ table' = Nothing
        /\ analysis' = "empty"
        /\ Done(j)
  /\ UNCHANGED <<dir, db, marker, marked, listed, known, opened>>

ReplaceAll(j) ==
  /\ At(j, "replaceAll")
  /\ table' = [t \in Table |-> job[j].units]
  /\ analysis' = IF job[j].units THEN "full" ELSE "empty"
  /\ Go(j, "prune")
  /\ UNCHANGED <<dir, db, marker, marked, listed, known, opened>>

\* Slip: re-ingestion replaces the marks wholesale.
PruneEverything(j) ==
  /\ At(j, "prune")
  /\ marked' = FALSE
  /\ Go(j, "mark")
  /\ UNCHANGED <<dir, db, table, analysis, marker, listed, known, opened>>

Prune(j) ==
  /\ At(j, "prune")
  /\ marked' = (marked /\ job[j].units)
  /\ Go(j, "mark")
  /\ UNCHANGED <<dir, db, table, analysis, marker, listed, known, opened>>

WriteMarker(j) ==
  /\ At(j, "mark")
  /\ marker' = TRUE
  /\ Done(j)
  /\ UNCHANGED <<dir, db, table, analysis, marked, listed, known, opened>>

-----------------------------------------------------------------------------
(* open_project: two listings, the registry, and the marker last.          *)

OpenDb(j) ==
  /\ At(j, "openDb")
  /\ IF db THEN Go(j, "readUnits") ELSE Done(j)
  /\ UNCHANGED <<dir, db, table, analysis, marker, marked, listed, known, opened>>

ReadUnits(j) ==
  /\ At(j, "readUnits")
  /\ job' = [job EXCEPT ![j].pc = "readSources", ![j].units = table["units"]]
  /\ UNCHANGED <<dir, db, table, analysis, marker, marked, listed, known, opened>>

ReadSources(j) ==
  /\ At(j, "readSources")
  /\ job' = [job EXCEPT ![j].pc = "touch", ![j].sources = table["sources"]]
  /\ UNCHANGED <<dir, db, table, analysis, marker, marked, listed, known, opened>>

Touch(j) ==
  /\ At(j, "touch")
  /\ listed' = TRUE
  /\ known' = TRUE
  /\ Go(j, "readMarker")
  /\ UNCHANGED <<dir, db, table, analysis, marker, marked, opened>>

ReadMarker(j) ==
  /\ At(j, "readMarker")
  /\ opened' = [answered |-> TRUE, units |-> job[j].units, sources |-> job[j].sources,
                analysed |-> marker]
  /\ Done(j)
  /\ UNCHANGED <<dir, db, table, analysis, marker, marked, listed, known>>

-----------------------------------------------------------------------------
CreateStep(j) ==
  StartCreate(j) \/ MakeDir(j) \/ Ingest(j) \/ OpenNew(j) \/ PutTable(j) \/ Register(j)
AnalyseStep(j) ==
  \/ StartAnalyse(j) \/ FindDb(j) \/ ListUnits(j) \/ Extract(j)
  \/ ReplaceAll(j) \/ Prune(j) \/ WriteMarker(j)
OpenStep(j) ==
  \/ StartOpen(j) \/ OpenDb(j) \/ ReadUnits(j) \/ ReadSources(j) \/ Touch(j) \/ ReadMarker(j)

Next ==
  \/ \E j \in Job : CreateStep(j) \/ AnalyseStep(j) \/ OpenStep(j) \/ Fail(j)
  \/ Crash
  \/ Mark
  \/ Forget

Spec == Init /\ [][Next]_vars

-----------------------------------------------------------------------------
(* A project that shows as analysed has had its catalogs replaced as a     *)
(* whole, whatever died in between and however many analyses overlapped:   *)
(* the marker is the last thing analyse_project writes.                    *)
MarkerIsHonest == marker => analysis # "never" /\ db

(* Two requests to create the same project never write the same directory  *)
(* at the same time, nor does one start over in what another left behind.  *)
PastMakeDir == Creating \ {"makeDir"}
CreatorsNeverOverlap ==
  \A i, j \in Job :
    job[i].pc \in PastMakeDir /\ job[j].pc \in PastMakeDir => i = j

(* A project that was ever reported as created, or opened from the recent  *)
(* ones, is complete on disk and stays so through failures, crashes and    *)
(* any overlap of requests.                                                *)
KnownIsWhole == known => dir /\ db /\ table = Whole

(* What open_project answers hangs together although it is put together    *)
(* from separate reads of two files: nobody is shown a project without     *)
(* units or sources, or one as analysed whose catalogs are not there.      *)
OpenIsCoherent ==
  /\ opened.answered => opened.units /\ opened.sources
  /\ opened.analysed => analysis = "full"

(* The catalogs a project was analysed into are not lost by analysing it   *)
(* again, nor is a mark on a declaration it still has.                     *)
AnalysisSticks == [][analysis = "full" => analysis' = "full"]_vars
DecisionsSurvive == [][marked => marked']_vars

(* analyse_project works "from the compilation units create_project        *)
(* already persisted" and writes the same units back.                      *)
UnitsSurvive == [][table["units"] => table'["units"]]_vars
=============================================================================
