---------------------- MODULE ProjectLifecycle_proofs -----------------------
(***************************************************************************)
(* Proofs about the life of a project, for any number of request threads.  *)
(* What holds whatever the clients do: the marker is honest and creators   *)
(* never overlap.  What needs clients that only name projects they were    *)
(* told of (~ImportExisting): everything that could be lost while a create *)
(* is still running.                                                       *)
(***************************************************************************)
EXTENDS ProjectLifecycle, TLAPS

USE DEF Table

-----------------------------------------------------------------------------
(* A request is at one of its steps and remembers what it read. *)
PC == {"idle"} \cup Creating \cup Analysing \cup Opening
JobState == [pc : PC, units : BOOLEAN, sources : BOOLEAN]
OpenedType == [answered : BOOLEAN, units : BOOLEAN, sources : BOOLEAN, analysed : BOOLEAN]

LEMMA PCFacts ==
  /\ Creating = {"makeDir", "ingest", "extractNew", "openNew", "putUnits",
                 "putTypes", "putSources", "putFunctions", "register"}
  /\ Analysing = {"findDb", "listUnits", "extract", "replaceAll", "prune", "mark"}
  /\ Opening = {"openDb", "readUnits", "readSources", "touch", "readMarker"}
  /\ "idle" \in PC /\ Creating \subseteq PC /\ Analysing \subseteq PC /\ Opening \subseteq PC
BY DEF PC, Creating, Analysing, Opening

LEMMA GoTyped ==
  ASSUME job \in [Job -> JobState], NEW j \in Job, NEW pc \in PC, Go(j, pc)
  PROVE  job' \in [Job -> JobState]
BY DEF Go, JobState

LEMMA DoneTyped ==
  ASSUME job \in [Job -> JobState], NEW j \in Job, Done(j)
  PROVE  job' \in [Job -> JobState]
<1>1. Idle \in JobState
  BY PCFacts DEF Idle, JobState
<1>2. QED
  BY <1>1 DEF Done

LEMMA TypedInit == Init => TypeOK
<1> SUFFICES ASSUME Init
             PROVE  TypeOK
  OBVIOUS
<1>1. job \in [Job -> JobState]
  BY PCFacts DEF Init, Idle, JobState
<1>2. dir \in BOOLEAN /\ db \in BOOLEAN /\ marker \in BOOLEAN /\ marked \in BOOLEAN
  BY DEF Init
<1>3. listed \in BOOLEAN /\ known \in BOOLEAN
  BY DEF Init
<1>4. table \in [Table -> BOOLEAN] /\ analysis \in {"never", "empty", "full"}
  BY DEF Init, Nothing
<1>5. opened \in OpenedType
  BY DEF Init, OpenedType
<1>6. QED
  BY <1>1, <1>2, <1>3, <1>4, <1>5 DEF TypeOK, JobState, PC, OpenedType

(* The requests' own state. *)
LEMMA JobStep ==
  ASSUME job \in [Job -> JobState], table \in [Table -> BOOLEAN], [Next]_vars
  PROVE  job' \in [Job -> JobState]
<1> USE PCFacts, GoTyped, DoneTyped
<1>1. ASSUME NEW j \in Job, CreateStep(j)
      PROVE  job' \in [Job -> JobState]
  BY <1>1 DEF CreateStep, StartCreate, Start, MakeDir, Ingest, OpenNew, PutTable, Put, Register
<1>2. ASSUME NEW j \in Job, AnalyseStep(j)
      PROVE  job' \in [Job -> JobState]
  <2>1. CASE ListUnits(j)
    <3>1. table["units"] \in BOOLEAN
      OBVIOUS
    <3>2. [pc |-> "extract", units |-> table["units"], sources |-> FALSE] \in JobState
      BY <3>1 DEF JobState
    <3>3. QED
      BY <2>1, <3>2 DEF ListUnits
  <2>2. QED
    BY <1>2, <2>1 DEF AnalyseStep, StartAnalyse, Start, FindDb, Extract, ReplaceAll, Prune,
       WriteMarker
<1>3. ASSUME NEW j \in Job, OpenStep(j)
      PROVE  job' \in [Job -> JobState]
  <2>1. CASE ReadUnits(j)
    BY <2>1 DEF ReadUnits, JobState
  <2>2. CASE ReadSources(j)
    BY <2>2 DEF ReadSources, JobState
  <2>3. QED
    BY <1>3, <2>1, <2>2 DEF OpenStep, StartOpen, Start, OpenDb, Touch, ReadMarker
<1>4. ASSUME NEW j \in Job, Fail(j)
      PROVE  job' \in [Job -> JobState]
  BY <1>4 DEF Fail
<1>5. CASE Crash
  <2>1. Idle \in JobState
    BY DEF Idle, JobState
  <2>2. QED
    BY <1>5, <2>1 DEF Crash
<1>6. CASE Mark \/ Forget \/ UNCHANGED vars
  BY <1>6 DEF Mark, Forget, vars
<1>7. QED
  BY <1>1, <1>2, <1>3, <1>4, <1>5, <1>6 DEF Next
(* Which steps write what is on disk, and what they put there. *)
LEMMA WhoWrites ==
  ASSUME [Next]_vars
  PROVE  /\ dir' = dir \/ \E j \in Job : MakeDir(j)
         /\ db' = db \/ \E j \in Job : OpenNew(j)
         /\ table' = table \/ \E j \in Job : PutTable(j) \/ ReplaceAll(j)
         /\ analysis' = analysis \/ \E j \in Job : ReplaceAll(j)
         /\ marker' = marker \/ \E j \in Job : WriteMarker(j)
         /\ marked' = marked \/ Mark \/ \E j \in Job : Prune(j)
         /\ listed' = listed \/ Forget \/ \E j \in Job : Register(j) \/ Touch(j)
         /\ known' = known \/ \E j \in Job : Register(j) \/ Touch(j)
         /\ opened' = opened \/ \E j \in Job : ReadMarker(j)
<1>1. ASSUME NEW j \in Job, CreateStep(j)
      PROVE  /\ dir' = dir \/ MakeDir(j)
             /\ db' = db \/ OpenNew(j)
             /\ table' = table \/ PutTable(j)
             /\ listed' = listed \/ Register(j)
             /\ known' = known \/ Register(j)
             /\ UNCHANGED <<analysis, marker, marked, opened>>
  BY <1>1 DEF CreateStep, StartCreate, Start, MakeDir, Ingest, OpenNew, PutTable, Put, Register
<1>2. ASSUME NEW j \in Job, AnalyseStep(j)
      PROVE  /\ table' = table \/ ReplaceAll(j)
             /\ analysis' = analysis \/ ReplaceAll(j)
             /\ marker' = marker \/ WriteMarker(j)
             /\ marked' = marked \/ Prune(j)
             /\ UNCHANGED <<dir, db, listed, known, opened>>
  BY <1>2 DEF AnalyseStep, StartAnalyse, Start, FindDb, ListUnits, Extract, ReplaceAll, Prune,
     WriteMarker
<1>3. ASSUME NEW j \in Job, OpenStep(j)
      PROVE  /\ listed' = listed \/ Touch(j)
             /\ known' = known \/ Touch(j)
             /\ opened' = opened \/ ReadMarker(j)
             /\ UNCHANGED <<dir, db, table, analysis, marker, marked>>
  BY <1>3 DEF OpenStep, StartOpen, Start, OpenDb, ReadUnits, ReadSources, Touch, ReadMarker
<1>4. CASE (\E j \in Job : Fail(j)) \/ Crash \/ UNCHANGED vars
  BY <1>4 DEF Fail, Crash, vars
<1>5. CASE Mark \/ Forget
  BY <1>5 DEF Mark, Forget
<1>6. QED
  BY <1>1, <1>2, <1>3, <1>4, <1>5 DEF Next

LEMMA TypedStep == TypeOK /\ [Next]_vars => TypeOK'
<1> SUFFICES ASSUME TypeOK, [Next]_vars
             PROVE  TypeOK'
  OBVIOUS
<1>1. job \in [Job -> JobState] /\ table \in [Table -> BOOLEAN]
  BY DEF TypeOK, JobState, PC
<1>2. job' \in [Job -> JobState]
  BY <1>1, JobStep
<1>3. dir' \in BOOLEAN /\ db' \in BOOLEAN
  BY WhoWrites DEF TypeOK, MakeDir, OpenNew
<1>4. table' \in [Table -> BOOLEAN]
  <2>1. ASSUME NEW j \in Job, PutTable(j)
        PROVE  table' \in [Table -> BOOLEAN]
    BY <1>1, <2>1 DEF PutTable, Put
  <2>2. ASSUME NEW j \in Job, ReplaceAll(j)
        PROVE  table' \in [Table -> BOOLEAN]
    <3>1. job[j].units \in BOOLEAN
      BY <1>1 DEF JobState
    <3>2. QED
      BY <2>2, <3>1 DEF ReplaceAll
  <2>3. QED
    BY <1>1, <2>1, <2>2, WhoWrites
<1>5. analysis' \in {"never", "empty", "full"}
  BY WhoWrites DEF TypeOK, ReplaceAll
<1>6. marker' \in BOOLEAN
  BY WhoWrites DEF TypeOK, WriteMarker
<1>7. marked' \in BOOLEAN
  BY WhoWrites DEF TypeOK, Mark, Prune
<1>8. listed' \in BOOLEAN
  BY WhoWrites DEF TypeOK, Register, Touch, Forget
<1>9. known' \in BOOLEAN
  BY WhoWrites DEF TypeOK, Register, Touch
<1>10. opened' \in OpenedType
  <2>1. ASSUME NEW j \in Job, ReadMarker(j)
        PROVE  opened' \in OpenedType
    <3>1. job[j].units \in BOOLEAN /\ job[j].sources \in BOOLEAN
      BY <1>1 DEF JobState
    <3>2. marker \in BOOLEAN
      BY DEF TypeOK
    <3>3. QED
      BY <2>1, <3>1, <3>2 DEF ReadMarker, OpenedType
  <2>2. opened \in OpenedType
    BY DEF TypeOK, OpenedType
  <2>3. QED
    BY <2>1, <2>2, WhoWrites
<1>11. QED
  BY <1>2, <1>3, <1>4, <1>5, <1>6, <1>7, <1>8, <1>9, <1>10 DEF TypeOK, JobState, PC, OpenedType

(* The variables keep their types, for any set of request threads. *)
THEOREM LifecycleTypeCorrect == Spec => []TypeOK
BY TypedInit, TypedStep, PTL DEF Spec
-----------------------------------------------------------------------------
(* How a request moves: a step changes the request that takes it and no    *)
(* other, and a request that takes none stays or is back at the start.     *)
Step(j) == CreateStep(j) \/ AnalyseStep(j) \/ OpenStep(j)

LEMMA OthersStay ==
  ASSUME TypeOK, NEW j \in Job, Step(j) \/ Fail(j), NEW i \in Job, i # j
  PROVE  job'[i] = job[i]
<1>1. job \in [Job -> JobState]
  BY DEF TypeOK, JobState, PC
<1> USE DEF Go, Done
<1>2. CASE CreateStep(j)
  BY <1>1, <1>2 DEF CreateStep, StartCreate, Start, MakeDir, Ingest, OpenNew, PutTable, Put, Register
<1>3. CASE AnalyseStep(j)
  BY <1>1, <1>3 DEF AnalyseStep, StartAnalyse, Start, FindDb, ListUnits, Extract, ReplaceAll, Prune,
     WriteMarker
<1>4. CASE OpenStep(j)
  BY <1>1, <1>4 DEF OpenStep, StartOpen, Start, OpenDb, ReadUnits, ReadSources, Touch, ReadMarker
<1>5. CASE Fail(j)
  BY <1>1, <1>5 DEF Fail
<1>6. QED
  BY <1>2, <1>3, <1>4, <1>5 DEF Step

LEMMA StaysOrSteps ==
  ASSUME TypeOK, [Next]_vars, NEW i \in Job
  PROVE  job'[i] = job[i] \/ job'[i] = Idle \/ Step(i)
<1>1. job \in [Job -> JobState]
  BY DEF TypeOK, JobState, PC
<1>2. CASE \E j \in Job : Step(j) \/ Fail(j)
  <2>1. PICK j \in Job : Step(j) \/ Fail(j)
    BY <1>2
  <2>2. CASE i # j
    BY <2>1, <2>2, OthersStay
  <2>3. CASE i = j
    <3>1. ASSUME Fail(i)
          PROVE  job'[i] = Idle
      BY <1>1, <3>1 DEF Fail, Done
    <3>2. QED
      BY <2>1, <2>3, <3>1
  <2>4. QED
    BY <2>2, <2>3
<1>3. CASE Crash \/ Mark \/ Forget \/ UNCHANGED vars
  BY <1>3 DEF Crash, Mark, Forget, vars
<1>4. QED
  BY <1>2, <1>3 DEF Next, Step

(* From which step each step is reached, and under what condition.         *)
LEMMA CreateMoves ==
  ASSUME TypeOK, NEW j \in Job, CreateStep(j)
  PROVE  \/ job'[j].pc = "makeDir"
         \/ job[j].pc = "makeDir" /\ ~dir /\ dir' /\ job'[j].pc = "ingest"
         \/ job[j].pc = "ingest" /\ job'[j].pc = "extractNew"
         \/ job[j].pc = "extractNew" /\ job'[j].pc = "openNew"
         \/ job[j].pc = "openNew" /\ db' /\ job'[j].pc = "putUnits"
         \/ job[j].pc = "putUnits" /\ table'["units"] /\ job'[j].pc = "putTypes"
         \/ job[j].pc = "putTypes" /\ table'["types"] /\ job'[j].pc = "putSources"
         \/ job[j].pc = "putSources" /\ table'["sources"] /\ job'[j].pc = "putFunctions"
         \/ job[j].pc = "putFunctions" /\ table'["functions"] /\ job'[j].pc = "register"
         \/ Register(j) /\ job'[j].pc = "idle"
<1>1. job \in [Job -> JobState] /\ table \in [Table -> BOOLEAN]
  BY DEF TypeOK, JobState, PC
<1> USE DEF At, Go, Done, JobState
<1>2. CASE StartCreate(j)
  BY <1>1, <1>2 DEF StartCreate, Start
<1>3. CASE MakeDir(j)
  BY <1>1, <1>3 DEF MakeDir
<1>4. CASE Ingest(j)
  BY <1>1, <1>4 DEF Ingest
<1>5. CASE OpenNew(j)
  BY <1>1, <1>5 DEF OpenNew
<1>6. CASE PutTable(j)
  BY <1>1, <1>6 DEF PutTable, Put
<1>7. CASE Register(j)
  BY <1>1, <1>7 DEF Register, Idle
<1>8. QED
  BY <1>2, <1>3, <1>4, <1>5, <1>6, <1>7 DEF CreateStep

LEMMA AnalyseMoves ==
  ASSUME TypeOK, NEW j \in Job, AnalyseStep(j)
  PROVE  \/ job'[j].pc = "findDb" /\ (known \/ ImportExisting)
         \/ job[j].pc = "findDb" /\ db /\ job'[j].pc = "listUnits"
         \/ job[j].pc = "listUnits" /\ job'[j].pc = "extract" /\ job'[j].units = table["units"]
         \/ job[j].pc = "extract" /\ job'[j].pc = "replaceAll" /\ job'[j].units = job[j].units
         \/ ReplaceAll(j) /\ job[j].pc = "replaceAll" /\ job'[j].pc = "prune"
              /\ job'[j].units = job[j].units
         \/ job[j].pc = "prune" /\ job'[j].pc = "mark"
         \/ job'[j].pc = "idle"
<1>1. job \in [Job -> JobState]
  BY DEF TypeOK, JobState, PC
<1> USE DEF At, Go, Done, JobState
<1>2. CASE StartAnalyse(j)
  BY <1>1, <1>2 DEF StartAnalyse, Start
<1>3. CASE FindDb(j)
  BY <1>1, <1>3 DEF FindDb, Idle
<1>4. CASE ListUnits(j)
  BY <1>1, <1>4 DEF ListUnits
<1>5. CASE Extract(j)
  BY <1>1, <1>5 DEF Extract
<1>6. CASE ReplaceAll(j)
  BY <1>1, <1>6 DEF ReplaceAll
<1>7. CASE Prune(j)
  BY <1>1, <1>7 DEF Prune
<1>8. CASE WriteMarker(j)
  BY <1>1, <1>8 DEF WriteMarker, Idle
<1>9. QED
  BY <1>2, <1>3, <1>4, <1>5, <1>6, <1>7, <1>8 DEF AnalyseStep

LEMMA OpenMoves ==
  ASSUME TypeOK, NEW j \in Job, OpenStep(j)
  PROVE  \/ job'[j].pc = "openDb" /\ (known \/ ImportExisting)
         \/ job[j].pc = "openDb" /\ db /\ job'[j].pc = "readUnits"
         \/ job[j].pc = "readUnits" /\ job'[j].pc = "readSources" /\ job'[j].units = table["units"]
         \/ job[j].pc = "readSources" /\ job'[j].pc = "touch" /\ job'[j].units = job[j].units
              /\ job'[j].sources = table["sources"]
         \/ job[j].pc = "touch" /\ job'[j].pc = "readMarker" /\ job'[j].units = job[j].units
              /\ job'[j].sources = job[j].sources
         \/ job'[j].pc = "idle"
<1>1. job \in [Job -> JobState]
  BY DEF TypeOK, JobState, PC
<1> USE DEF At, Go, Done, JobState
<1>2. CASE StartOpen(j)
  BY <1>1, <1>2 DEF StartOpen, Start
<1>3. CASE OpenDb(j)
  BY <1>1, <1>3 DEF OpenDb, Idle
<1>4. CASE ReadUnits(j)
  BY <1>1, <1>4 DEF ReadUnits
<1>5. CASE ReadSources(j)
  BY <1>1, <1>5 DEF ReadSources
<1>6. CASE Touch(j)
  BY <1>1, <1>6 DEF Touch
<1>7. CASE ReadMarker(j)
  BY <1>1, <1>7 DEF ReadMarker, Idle
<1>8. QED
  BY <1>2, <1>3, <1>4, <1>5, <1>6, <1>7 DEF OpenStep
-----------------------------------------------------------------------------
(* The marker: every analysis that has replaced the catalogs leaves them   *)
(* replaced, and none gets that far without a project.db.                  *)
HonestInv ==
  /\ TypeOK
  /\ \A j \in Job : job[j].pc \in {"listUnits", "extract", "replaceAll", "prune", "mark"} => db
  /\ \A j \in Job : job[j].pc \in {"prune", "mark"} => analysis # "never"
  /\ MarkerIsHonest

LEMMA HonestStep == HonestInv /\ [Next]_vars => HonestInv'
<1> SUFFICES ASSUME HonestInv, [Next]_vars
             PROVE  HonestInv'
  OBVIOUS
<1>1. TypeOK /\ TypeOK'
  BY TypedStep DEF HonestInv
<1>2. db => db'
  BY WhoWrites DEF OpenNew
<1>3. analysis # "never" => analysis' # "never"
  BY WhoWrites DEF ReplaceAll
<1>4. ASSUME NEW j \in Job
      PROVE  /\ job'[j].pc \in {"listUnits", "extract", "replaceAll", "prune", "mark"} => db'
             /\ job'[j].pc \in {"prune", "mark"} => analysis' # "never"
  <2>1. CASE job'[j] = job[j]
    BY <1>2, <1>3, <2>1 DEF HonestInv
  <2>2. CASE job'[j] = Idle
    BY <2>2 DEF Idle
  <2>3. CASE CreateStep(j)
    BY <1>1, <2>3, CreateMoves
  <2>4. CASE AnalyseStep(j)
    <3>1. ReplaceAll(j) => analysis' # "never"
      BY DEF ReplaceAll
    <3>2. QED
      BY <1>1, <1>2, <1>3, <2>4, <3>1, AnalyseMoves DEF HonestInv
  <2>5. CASE OpenStep(j)
    BY <1>1, <2>5, OpenMoves
  <2>6. QED
    BY <1>1, <2>1, <2>2, <2>3, <2>4, <2>5, StaysOrSteps DEF Step
<1>5. MarkerIsHonest'
  <2>1. CASE marker' = marker
    BY <1>2, <1>3, <2>1 DEF HonestInv, MarkerIsHonest
  <2>2. ASSUME NEW j \in Job, WriteMarker(j)
        PROVE  analysis' # "never" /\ db'
    BY <1>2, <1>3, <2>2 DEF HonestInv, WriteMarker, At
  <2>3. QED
    BY <2>1, <2>2, WhoWrites DEF MarkerIsHonest
<1>6. QED
  BY <1>1, <1>4, <1>5 DEF HonestInv

(* Showing as analysed is never a lie, however many requests overlap, fail *)
(* or die with the server.                                                 *)
THEOREM MarkerStaysHonest == Spec => []MarkerIsHonest
<1>1. Init => HonestInv
  <2>1. Init => TypeOK
    BY TypedInit
  <2>2. Init => MarkerIsHonest /\ \A j \in Job : job[j].pc = "idle"
    BY DEF Init, MarkerIsHonest, Idle
  <2>3. QED
    BY <2>1, <2>2 DEF HonestInv
<1>2. HonestInv => MarkerIsHonest
  BY DEF HonestInv
<1>3. QED
  BY <1>1, <1>2, HonestStep, PTL DEF Spec

-----------------------------------------------------------------------------
(* Creators: whoever is past create_dir found no directory there, and it   *)
(* stays.                                                                  *)
CreatorInv ==
  /\ TypeOK
  /\ \A j \in Job : job[j].pc \in PastMakeDir => dir
  /\ CreatorsNeverOverlap

LEMMA PastFacts ==
  PastMakeDir = {"ingest", "extractNew", "openNew", "putUnits", "putTypes", "putSources",
                 "putFunctions", "register"}
BY PCFacts DEF PastMakeDir

LEMMA CreatorStep == CreatorInv /\ [Next]_vars => CreatorInv'
<1> SUFFICES ASSUME CreatorInv, [Next]_vars
             PROVE  CreatorInv'
  OBVIOUS
<1>1. TypeOK /\ TypeOK'
  BY TypedStep DEF CreatorInv
<1>2. dir => dir'
  BY WhoWrites DEF MakeDir
<1>3. ASSUME NEW j \in Job, job'[j].pc \in PastMakeDir
      PROVE  \/ job[j].pc \in PastMakeDir
             \/ job[j].pc = "makeDir" /\ Step(j) /\ ~dir /\ dir'
  <2>1. CASE job'[j] = job[j]
    BY <1>3, <2>1
  <2>2. CASE job'[j] = Idle
    BY <1>3, <2>2, PastFacts DEF Idle
  <2>3. CASE CreateStep(j)
    BY <1>1, <1>3, <2>3, CreateMoves, PastFacts DEF Step
  <2>4. CASE AnalyseStep(j)
    BY <1>1, <1>3, <2>4, AnalyseMoves, PastFacts
  <2>5. CASE OpenStep(j)
    BY <1>1, <1>3, <2>5, OpenMoves, PastFacts
  <2>6. QED
    BY <1>1, <2>1, <2>2, <2>3, <2>4, <2>5, StaysOrSteps DEF Step
<1>4. \A j \in Job : job'[j].pc \in PastMakeDir => dir'
  BY <1>2, <1>3 DEF CreatorInv
<1>5. ASSUME NEW i \in Job, NEW j \in Job,
             job'[i].pc \in PastMakeDir, job'[j].pc \in PastMakeDir
      PROVE  i = j
  <2>1. CASE job[i].pc \in PastMakeDir /\ job[j].pc \in PastMakeDir
    BY <2>1 DEF CreatorInv, CreatorsNeverOverlap
  <2>2. ASSUME NEW a \in Job, NEW b \in Job, job'[a].pc \in PastMakeDir, job'[b].pc \in PastMakeDir,
               job[a].pc = "makeDir", Step(a), ~dir
        PROVE  a = b
    <3>1. job[b].pc \notin PastMakeDir
      BY <2>2 DEF CreatorInv
    <3>2. ASSUME a # b
          PROVE  job'[b] = job[b]
      BY <1>1, <2>2, <3>2, OthersStay
    <3>3. QED
      BY <2>2, <3>1, <3>2
  <2>3. CASE job[i].pc \notin PastMakeDir
    <3>1. job[i].pc = "makeDir" /\ Step(i) /\ ~dir
      BY <1>3, <1>5, <2>3
    <3>2. QED
      BY <1>5, <2>2, <3>1
  <2>4. CASE job[j].pc \notin PastMakeDir
    <3>1. job[j].pc = "makeDir" /\ Step(j) /\ ~dir
      BY <1>3, <1>5, <2>4
    <3>2. QED
      BY <1>5, <2>2, <3>1
  <2>5. QED
    BY <2>1, <2>3, <2>4
<1>6. QED
  BY <1>1, <1>4, <1>5 DEF CreatorInv, CreatorsNeverOverlap

(* No two requests ever write one project directory as its creator.        *)
THEOREM OneCreator == Spec => []CreatorsNeverOverlap
<1>1. Init => CreatorInv
  <2>1. Init => TypeOK
    BY TypedInit
  <2>2. Init => \A j \in Job : job[j].pc = "idle"
    BY DEF Init, Idle
  <2>3. QED
    BY <2>1, <2>2, PastFacts DEF CreatorInv, CreatorsNeverOverlap
<1>2. CreatorInv => CreatorsNeverOverlap
  BY DEF CreatorInv
<1>3. QED
  BY <1>1, <1>2, CreatorStep, PTL DEF Spec
-----------------------------------------------------------------------------
(* Clients that only name projects they were told of.  A creator has done  *)
(* all the steps before the one it is at, nobody analyses or opens a       *)
(* project before it is whole, and so nothing ever shrinks.                *)
CreatorSoFar(j) ==
  /\ job[j].pc \in PastMakeDir => dir
  /\ job[j].pc \in PastMakeDir \ {"ingest", "extractNew", "openNew"}  => db
  /\ job[j].pc \in {"putTypes", "putSources", "putFunctions", "register"} => table["units"]
  /\ job[j].pc \in {"putSources", "putFunctions", "register"} => table["types"]
  /\ job[j].pc \in {"putFunctions", "register"} => table["sources"]
  /\ job[j].pc = "register" => table["functions"]

ReaderSoFar(j) ==
  /\ job[j].pc \in Analysing \cup Opening => known
  /\ job[j].pc \in {"extract", "replaceAll", "prune", "readSources", "touch", "readMarker"}
       => job[j].units
  /\ job[j].pc \in {"touch", "readMarker"} => job[j].sources

ListedInv ==
  /\ HonestInv
  /\ KnownIsWhole
  /\ \A j \in Job : CreatorSoFar(j) /\ ReaderSoFar(j)
  /\ analysis # "empty"

LEMMA WholeFacts ==
  ASSUME TypeOK
  PROVE  table = Whole <=> table["units"] /\ table["types"] /\ table["sources"] /\ table["functions"]
BY DEF TypeOK, Whole

(* Nothing on disk shrinks, and what is known stays known. *)
LEMMA NothingShrinks ==
  ASSUME ListedInv, [Next]_vars
  PROVE  /\ dir => dir'
         /\ db => db'
         /\ known => known'
         /\ \A t \in Table : table[t] => table'[t]
         /\ analysis' # "empty" /\ (analysis = "full" => analysis' = "full")
         /\ marked => marked'
<1>1. dir => dir'
  BY WhoWrites DEF MakeDir
<1>2. db => db'
  BY WhoWrites DEF OpenNew
<1>3. known => known'
  BY WhoWrites DEF Register, Touch
<1>4. ASSUME NEW t \in Table, table[t]
      PROVE  table'[t]
  <2>1. table \in [Table -> BOOLEAN]
    BY DEF ListedInv, HonestInv, TypeOK
  <2>2. ASSUME NEW j \in Job, PutTable(j)
        PROVE  table'[t]
    BY <1>4, <2>1, <2>2 DEF PutTable, Put
  <2>3. ASSUME NEW j \in Job, ReplaceAll(j)
        PROVE  table'[t]
    <3>1. job[j].units
      BY <2>3 DEF ListedInv, ReaderSoFar, ReplaceAll, At
    <3>2. QED
      BY <2>3, <3>1 DEF ReplaceAll
  <2>4. QED
    BY <1>4, <2>2, <2>3, WhoWrites
<1>5. analysis' # "empty" /\ (analysis = "full" => analysis' = "full")
  <2>1. ASSUME NEW j \in Job, ReplaceAll(j)
        PROVE  analysis' = "full"
    <3>1. job[j].units
      BY <2>1 DEF ListedInv, ReaderSoFar, ReplaceAll, At
    <3>2. QED
      BY <2>1, <3>1 DEF ReplaceAll
  <2>2. QED
    BY <2>1, WhoWrites DEF ListedInv
<1>6. marked => marked'
  <2>1. ASSUME NEW j \in Job, Prune(j), marked
        PROVE  marked'
    <3>1. job[j].units
      BY <2>1 DEF ListedInv, ReaderSoFar, Prune, At
    <3>2. QED
      BY <2>1, <3>1 DEF Prune
  <2>2. QED
    BY <2>1, WhoWrites DEF Mark
<1>7. QED
  BY <1>1, <1>2, <1>3, <1>4, <1>5, <1>6

LEMMA ListedStep == ~ImportExisting /\ ListedInv /\ [Next]_vars => ListedInv'
<1> SUFFICES ASSUME ~ImportExisting, ListedInv, [Next]_vars
             PROVE  ListedInv'
  OBVIOUS
<1>1. TypeOK /\ TypeOK' /\ HonestInv'
  BY TypedStep, HonestStep DEF ListedInv, HonestInv
<1>2. /\ dir => dir'
      /\ db => db'
      /\ known => known'
      /\ table["units"] => table'["units"]
      /\ table["types"] => table'["types"]
      /\ table["sources"] => table'["sources"]
      /\ table["functions"] => table'["functions"]
  BY NothingShrinks
<1>3. known => /\ dir /\ db /\ table["units"] /\ table["types"]
               /\ table["sources"] /\ table["functions"]
  BY <1>1, WholeFacts DEF ListedInv, KnownIsWhole
<1>4. ASSUME NEW j \in Job
      PROVE  CreatorSoFar(j)' /\ ReaderSoFar(j)'
  <2>1. CreatorSoFar(j) /\ ReaderSoFar(j)
    BY DEF ListedInv
  <2>2. CASE job'[j] = job[j]
    BY <1>2, <2>1, <2>2 DEF CreatorSoFar, ReaderSoFar
  <2>3. CASE job'[j] = Idle
    BY <2>3, PastFacts, PCFacts DEF CreatorSoFar, ReaderSoFar, Idle
  <2>4. CASE CreateStep(j)
    <3>1. CreatorSoFar(j)'
      BY <1>1, <1>2, <2>1, <2>4, CreateMoves, PastFacts DEF CreatorSoFar
    <3>2. ReaderSoFar(j)'
      BY <1>1, <2>4, CreateMoves, PCFacts DEF ReaderSoFar
    <3>3. QED
      BY <3>1, <3>2
  <2>5. CASE AnalyseStep(j)
    <3>1. CreatorSoFar(j)'
      BY <1>1, <2>5, AnalyseMoves, PastFacts DEF CreatorSoFar
    <3>2. ReaderSoFar(j)'
      BY <1>1, <1>2, <1>3, <2>1, <2>5, AnalyseMoves, PCFacts DEF ReaderSoFar
    <3>3. QED
      BY <3>1, <3>2
  <2>6. CASE OpenStep(j)
    <3>1. CreatorSoFar(j)'
      BY <1>1, <2>6, OpenMoves, PastFacts DEF CreatorSoFar
    <3>2. ReaderSoFar(j)'
      BY <1>1, <1>2, <1>3, <2>1, <2>6, OpenMoves, PCFacts DEF ReaderSoFar
    <3>3. QED
      BY <3>1, <3>2
  <2>7. QED
    BY <1>1, <2>2, <2>3, <2>4, <2>5, <2>6, StaysOrSteps DEF Step
<1>5. KnownIsWhole'
  <2>1. CASE known
    <3>1. /\ dir' /\ db' /\ table'["units"] /\ table'["types"]
          /\ table'["sources"] /\ table'["functions"]
      BY <1>2, <1>3, <2>1
    <3>2. table' = Whole
      BY <1>1, <3>1 DEF TypeOK, Whole
    <3>3. QED
      BY <3>1, <3>2 DEF KnownIsWhole
  <2>2. ASSUME NEW j \in Job, Register(j)
        PROVE  dir' /\ db' /\ table' = Whole
    <3>1. /\ dir /\ db /\ table["units"] /\ table["types"]
          /\ table["sources"] /\ table["functions"]
      BY <2>2, PastFacts DEF ListedInv, CreatorSoFar, Register, At
    <3>2. table = Whole /\ UNCHANGED <<dir, db, table>>
      BY <1>1, <2>2, <3>1, WholeFacts DEF Register
    <3>3. QED
      BY <3>1, <3>2
  <2>3. ASSUME NEW j \in Job, Touch(j)
        PROVE  known
    BY <2>3, PCFacts DEF ListedInv, ReaderSoFar, Touch, At
  <2>4. QED
    BY <2>1, <2>2, <2>3, WhoWrites DEF KnownIsWhole
<1>6. QED
  BY <1>1, <1>4, <1>5, NothingShrinks DEF ListedInv

LEMMA ListedInit == Init => ListedInv
<1> SUFFICES ASSUME Init
             PROVE  ListedInv
  OBVIOUS
<1>1. \A j \in Job : job[j].pc = "idle"
  BY DEF Init, Idle
<1>2. TypeOK /\ MarkerIsHonest
  BY TypedInit DEF Init, MarkerIsHonest
<1>3. HonestInv
  BY <1>1, <1>2 DEF HonestInv
<1>4. \A j \in Job : CreatorSoFar(j) /\ ReaderSoFar(j)
  BY <1>1, PastFacts, PCFacts DEF CreatorSoFar, ReaderSoFar
<1>5. KnownIsWhole /\ analysis # "empty"
  BY DEF Init, KnownIsWhole
<1>6. QED
  BY <1>3, <1>4, <1>5 DEF ListedInv

(* A project some client was told of is complete on disk and stays so.     *)
THEOREM KnownStaysWhole == ~ImportExisting /\ Spec => []KnownIsWhole
<1> SUFFICES ASSUME ~ImportExisting
             PROVE  Spec => []KnownIsWhole
  OBVIOUS
<1>0. ListedInv /\ [Next]_vars => ListedInv'
  BY ListedStep
<1>1. ListedInv => KnownIsWhole
  BY DEF ListedInv
<1>2. QED
  BY <1>0, <1>1, ListedInit, PTL DEF Spec

LEMMA ListedAlways == ~ImportExisting /\ Spec => []ListedInv
<1> SUFFICES ASSUME ~ImportExisting
             PROVE  Spec => []ListedInv
  OBVIOUS
<1>1. ListedInv /\ [Next]_vars => ListedInv'
  BY ListedStep
<1>2. QED
  BY <1>1, ListedInit, PTL DEF Spec

(* A committed analysis is not undone by analysing again: whoever replaces *)
(* the catalogs has listed the units the creation committed.               *)
THEOREM AnalysisStays == ~ImportExisting /\ Spec => AnalysisSticks
<1> SUFFICES ASSUME ~ImportExisting
             PROVE  Spec => AnalysisSticks
  OBVIOUS
<1>1. ListedInv /\ [Next]_vars => [analysis = "full" => analysis' = "full"]_vars
  BY NothingShrinks
<1>2. QED
  BY <1>1, ListedAlways, PTL DEF Spec, AnalysisSticks

(* A mark on a declaration the project still has is pruned by nobody.      *)
THEOREM MarksStay == ~ImportExisting /\ Spec => DecisionsSurvive
<1> SUFFICES ASSUME ~ImportExisting
             PROVE  Spec => DecisionsSurvive
  OBVIOUS
<1>1. ListedInv /\ [Next]_vars => [marked => marked']_vars
  BY NothingShrinks
<1>2. QED
  BY <1>1, ListedAlways, PTL DEF Spec, DecisionsSurvive

(* The units a creation has committed are never replaced by fewer.         *)
THEOREM UnitsStay == ~ImportExisting /\ Spec => UnitsSurvive
<1> SUFFICES ASSUME ~ImportExisting
             PROVE  Spec => UnitsSurvive
  OBVIOUS
<1>1. ListedInv /\ [Next]_vars => [table["units"] => table'["units"]]_vars
  BY NothingShrinks
<1>2. QED
  BY <1>1, ListedAlways, PTL DEF Spec, UnitsSurvive

(* What open_project answers hangs together.                               *)
THEOREM OpenStaysCoherent == ~ImportExisting /\ Spec => []OpenIsCoherent
<1> SUFFICES ASSUME ~ImportExisting
             PROVE  Spec => []OpenIsCoherent
  OBVIOUS
<1>0. ListedInv /\ [Next]_vars => ListedInv'
  BY ListedStep
<1>1. Init => OpenIsCoherent
  BY DEF Init, OpenIsCoherent
<1>2. ListedInv /\ OpenIsCoherent /\ [Next]_vars => OpenIsCoherent'
  <2> SUFFICES ASSUME ListedInv, OpenIsCoherent, [Next]_vars
               PROVE  OpenIsCoherent'
    OBVIOUS
  <2>1. CASE opened' = opened
    BY <2>1, NothingShrinks DEF OpenIsCoherent
  <2>2. ASSUME NEW j \in Job, ReadMarker(j)
        PROVE  OpenIsCoherent'
    <3>1. job[j].units /\ job[j].sources
      BY <2>2 DEF ListedInv, ReaderSoFar, ReadMarker, At
    <3>2. marker => analysis = "full"
      BY DEF ListedInv, HonestInv, MarkerIsHonest, TypeOK
    <3>3. /\ opened'.units = job[j].units
          /\ opened'.sources = job[j].sources
          /\ opened'.analysed = marker
          /\ analysis' = analysis
      BY <2>2 DEF ReadMarker
    <3>4. QED
      BY <3>1, <3>2, <3>3 DEF OpenIsCoherent
  <2>3. QED
    BY <2>1, <2>2, WhoWrites
<1>3. QED
  BY <1>0, <1>1, <1>2, ListedInit, PTL DEF Spec
=============================================================================
