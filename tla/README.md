# A verification project for syntaxbridge

syntaxbridge ingests a C++ project, extracts catalogs of its types, functions
and pointers with libclang, lets a user decide which declarations stay
external, and transpiles the rest to Dart.  A Rust server (`src/crates/server`)
does the work and answers HTTP; a Flutter client (`src/client/flutter`) and a
command-line client (`src/crates/cli`) drive it.

This directory holds TLA+ modules of the parts of that system where threads,
requests, crashes and late answers meet, and of the translation itself (the C++
programs it reads, what it makes of them, and what the Dart it prints does);
the TLC configurations that check them on small instances; and TLAPS proofs of
the theorems that hold for every instance.  Paths below are relative to
`src/crates/server/src` unless they start with `client/` or `crates/`.

    tlc -workers 4 -config <run>.cfg <module>     # one run, see the table below
    tlapm ExtractionJob_proofs.tla                # likewise every other _proofs, and Folding

## 1. Inventory

| Component | Source | State it keeps | Operations | Interacts with |
|---|---|---|---|---|
| Extraction worker pool | `extraction.rs`, `progress.rs` | shared cursor, four progress trackers (`completed`, `total`), cancellation flag, a partial catalog per thread | `extract_project_catalogs_cancellable`, `parse_units` | called by create and analyse; read by polls |
| Background jobs | `jobs.rs`, `server.rs` | registry of jobs, each with progress and an outcome behind a mutex | start, poll, cancel, `finish`, `derive_phase` | owns the pool's trackers and flag |
| Catalog merge | `function_catalog.rs` | a partial per worker, then one catalog | `visit_cursor`, `finish_function_catalog` with its merges and seven rewriting passes | consumes the pool's partials, feeds transpile |
| Project lifecycle | `project_service.rs`, `ingest.rs` | the project directory, `analysis-status.txt` | `create_project`, `analyse_project`, `open_project`, `forget_project`, marks | the two stores, the pool |
| Project database | `persistence/project_store.rs` | `project.db`: eleven tables | `open` (with migration), `replace_*`, `replace_all`, `list_*` | lifecycle, externals migration |
| Registry | `persistence/global_store.rs` | one row per recent project | upsert, touch, remove, list | lifecycle |
| Externals store | `persistence/externals_store.rs` | `externals.txt` and its temporary file | marks, file marks, name and path rules, prune, migrate | lifecycle, listings |
| Effective external set | `externals.rs` | none | reachability from the marks and rules | listings, transpile |
| Type, source, pointer catalogs | `type_catalog.rs`, `source_catalog.rs`, `pointer_catalog.rs` | a partial per worker | visit, merge | pool |
| Type mapping | `mapping.rs` | none | options for a declaration, and which of them are feasible | consulted by the merge and shown to the user |
| Intermediate representation | `ir/mod.rs` | none | the nodes lowering builds and emission prints | lowering, merge, emission |
| C++ lowering | `lower/cpp.rs` | what one function needs while it descends | one operation per kind of cursor; `lower_stdlib_*` | called by the workers' visits |
| Dart emission | `emit/dart.rs` | none | `emit_record`, `emit_body`, `emit_expr`, `mixin_usrs` | reads the merged IR |
| Transpile and validate | `transpile.rs`, `validate/dart.rs` | files under `transpiled/` | write a package, run `dart analyze` | lifecycle |
| Analysis polling | `client/flutter/lib/src/ui/server_status_page.dart` | button, timers, replies under way | press, tick, answer, dispose | job API |
| Project creation page | `client/flutter/lib/src/ui/creating_project_page.dart` | one timer | poll, cancel | job API |
| CLI | `crates/cli` | none | one request per command, a polling loop | job API |

What is hard in it, and what makes each part correct:

* **Pool.** Workers race for units through one `fetch_add`, while a flag may be
  raised at any moment and any thread may panic.  Every unit must be parsed
  once, the bars must neither overrun nor stop short (units that do not parse
  included), a success must have lost nothing, and a cancelled pool must stop
  within the unit each worker is in.
* **Jobs.** A poll is nine unlocked reads of counters that move, then the flag.
  What it reports must still make sense: no `running` after a cancel was
  acknowledged, no bar beyond its total, no phase that goes backwards, and an
  end that agrees with what was stored.
* **Merge.**  Which worker read which unit is decided by a race, and partials
  are merged in worker order.  The catalogs must not show it, and the passes
  that rename and rewrite afterwards must leave every call pointing at what it
  called.
* **Translation.**  C++ has values, references, out-parameters, destructors,
  several bases and byte strings; Dart has objects, tuples, one base, mixins and
  UTF-16.  The Dart must do what the C++ did, or say that it was not translated;
  a translation that compiles and does something else is the failure to fear.
* **Lifecycle.** Durable state is spread over a directory, a database, a marker
  file, `externals.txt` and a registry row, with no transaction across two of
  them and no lock between requests.  A known project must stay whole and its
  analysis and decisions must not be undone.
* **Externals store.** Every edit rewrites the whole file through one temporary
  name.  Edits must not be lost or mixed, and the move out of an old database
  must survive a crash.
* **Polling.** `Timer.periodic` does not wait for answers, so they overlap and
  overtake each other.  The page must not run two analyses, must show a
  success, and must end every timer.

The `hazards` of `PROJECT.json` list these places line by line, including those
no module covers yet.

## 2. Modules

| Module | Models | Builds on |
|---|---|---|
| `ExtractionPool` | the calling thread and the workers of the pool | |
| `ExtractionJob` | the task around the pool, `Job`, polls, cancellation | EXTENDS `ExtractionPool`; refines `JobContract` |
| `JobContract` | what a job promises a poller (abstract) | |
| `TypeFacts` | what a unit tells the type, pointer and source catalogs, and their merge | |
| `Overloads` | the Dart names of overloads and of reserved words | `Vectors` |
| `CatalogMerge` | visits, the race for the units, the merge and its passes | `TypeFacts`, `Overloads` |
| `MixinForms` | which classes become mixins, the rewriting, the `with` clauses | |
| `SuperCalls` | what `super` reaches and what a copy copies once forms are settled | `MixinForms` |
| `IR` | the intermediate representation | |
| `StdlibBridge` | calls on standard-library objects and their Dart | `IR` |
| `OutParams` | out-parameters as tuples | `StdlibBridge` |
| `DartRun` | what printed Dart does when it runs | `IR` |
| `CppProgram` | cursors of a C++ program, and what C++ says it does | `DartRun` (values and state) |
| `CppLowering` | function bodies to IR | `OutParams`, `CppProgram` |
| `DartText` | printed text and how Dart groups it; bodies with a hole | `IR` |
| `Programs` | a program lowered, printed and run beside the C++ one | `CppLowering`, `DartText` |
| `Containers` | a C++ container and its translation, call by call | `StdlibBridge`, `DartRun` |
| `ProjectLifecycle` | requests over one project on disk | |
| `Vectors` | the loops over vectors the store and the overload renames are written with | |
| `ExternalsData` | the list of decisions, its edits, and the file format | `Vectors` |
| `AtomicExternals` | a list edited atomically (abstract) | `ExternalsData` |
| `ExternalsStore` | the file under concurrent requests and crashes | `ExternalsData`; refines `AtomicExternals` |
| `ExternalSet` | which declarations are external, and for which reasons | `ExternalsData` |
| `ExternalListing` | the listing's seven reads beside edits and analyses | `ExternalSet` |
| `AnalysisPolling` | the page that starts and watches analyses | |
| `MC*` | instances for TLC, and their composition in one run | |
| `Folding` | what a loop over a vector does, turn by turn, and what a function defined by recursion is (lemmas) | TLAPS |
| `*_proofs` | theorems of the module they extend | TLAPS |

An operator marked `Slip:` is not part of any specification.  It stands beside
the definition it varies and writes down a plausible mistake in that code;
every property is known to be violated when one of them takes its neighbour's
place.  `PROJECT.json` says which, and its `map` names the lines each
definition stands for.

### ExtractionPool

`caller` is the program counter of `extract_project_catalogs_cancellable`:
load libclang (the only early error), four `set_total` stores, spawn, join,
look at the flag once more, merge.  `wpc[w]` is that of `parse_units` in worker
`w`: check the flag, claim with `fetch_add`, parse for types and headers, mark
two trackers, parse with bodies, mark the other two.  The two parses and the
marks that follow are separate steps wherever another thread could see a
difference; a parse and the first mark after it are one step, since the partial
catalog is private until the join.  `partialA` and `partialB` keep the *units*
whose results a worker holds.  `lateClaims` is a history variable.

### ExtractionJob and JobContract

The task behind `POST /projects` and `POST /projects/analyse`: prepare, the
pool, persist, and `finish`, which needs the outcome's lock.  A poll takes that
lock, reads each tracker's `completed` and then its `total`, then the flag
(`reading` counts the reads, `seen` keeps them), and answers.  `finish` and a
poll therefore exclude each other, as in the code.  The contract is a status
that changes at most twice; `KeepsContract` says that the status an atomic poll
would see obeys it.

### CatalogMerge, TypeFacts and Overloads

A translation unit is a file, the files it includes and the cursors libclang
visits in it.  `Take(w)` gives the next unit to any worker, which gives every
assignment the cursor's race can produce, and visits it for all four catalogs
(`VisitUnit`); `Merge` folds the partials in worker order.  The ways the code
merges are kept apart: declarations and free functions (a definition upgrades a
prototype, defaults are backfilled), methods (the same, the prototype being a
pure virtual one), constructors (the first body, defaults from any), records
(members united, any destructor), types and pointers (first seen), edges and
uses (union), files (what some unit compiles is no header).  Then come the
passes of `finish_function_catalog` in their order: overload and reserved-word
renames, record names, enums nobody declares, RAII guards.  The mixin pass and
`resolve_qualified_base_calls` are `MixinForms` and `SuperCalls`.

A body is what it calls (usr and printed name), which enums it names and the
classes of its locals.  Names are sequences of words, so gluing them together is
concatenation and two different pairs can collide, as with strings.  What is
glued on for a number is a word of its own (`Numeral`, for as many numbers as the
program has usrs); that a word which ends in a digit may run into it (`Foo1` with
a 2 reads as `Foo` with a 12) is left out.  A usr
stands for one type, or for one function of one owner, with one definition
(`OneDefinition`, an assumption on the programs: it is C++'s own rule, and
libclang makes usrs accordingly); prototypes may differ from each other.
`alone` is a history variable: what one worker that read every unit would hold.
`SameOnEverySchedule` compares the merged catalogs with it up to the order of
entries, and up to the site of a returned pointer, which bears its function's
usr and is whichever declaration was seen first.

`Overloads` takes its decision from the group of declarations that share an
owner and a name, as `overload_options_for` does.  The options
`parametro-opcional` and `renomear-por-tipo` lead to the same renaming and are
one disjunct here.

### MixinForms and SuperCalls

Records are numbered so that bases are smaller, which any acyclic inheritance
allows; bases outside the module are names only.  `Decide` is one turn of the
worklist of `mixin_usrs`: which entry is on top depends on the order of the
records, so the worklist is a set and any entry may be next.  `ApplyForms` is
`apply_mixin_forms`; afterwards the decision is taken *again* on the rewritten
records, as `emit_module` and `validate` do.  `ExpandRecord`, `VisitBase`,
`PushBase` and `RecordExpanded` are the recursion of `expand_mixin_chain` with
its stack made explicit, so that an invariant can speak of the middle of it.
`SuperCalls` reads the finished forms: where the code thinks `super.m()` leads
(`SuperTarget`), where Dart's linearization leads (`DartSuper`), which override
a call by a pointer reaches on either side, and which fields a copy copies.

### IR, CppLowering, OutParams, StdlibBridge

`IR` has one operator per variant of `Type`, `Expr` and `Stmt`.  `CppLowering`
has one operator per kind of cursor.  The recursion goes through one operator
each, `Lower` here and `Run` in `DartRun`, which dispatches on what is asked for
and on the kind of the node; the operators it chooses among call back through
`LowerExpr` and `LowerInto`, so that each is an ordinary definition.
What has no translation becomes an unsupported node, as in the
code.

`OutParams` turns a function with scalar out-parameters into one that returns a
tuple and takes its calls apart, in each of the statement positions the code
knows.  `StdlibBridge` is the table of `lower_stdlib_method_call` and of its
idioms (`erase(remove_if)`, `find(...) != end()`, and so on).

### CppProgram, DartRun, Programs, Containers

`CppProgram` and `DartRun` say what the two languages do, each with a store of
its own: C++ with places (a record or list is a value, a reference names a
place), Dart with a heap of objects.  A double counts in quarters, a string is a
sequence of code points whose UTF-8 length C++ sees.  `DartRun` gives every node
the meaning of the text `emit_expr` and `emit_stmt` print for it, together with
the support classes the emitter prints beside the code.  Where C++ leaves the
behaviour undefined, the C++ run ends in `undefined` and nothing is asked of the
Dart.  `Programs` takes a program through `LowerProgram`, `EmitProgram` and
`RunProgram`.

In `Containers` each step is one call a C++ program may make on its object: the
call is lowered, put down with what C++ answers (`pending`), and carried out by
`CarryOut`.  `SameAnswer` compares the answers, `SameContents` what the object
holds after any sequence of calls.

### DartText

Printed expressions are sequences of tokens; `ReadsAs` parses them by Dart's
grammar of binary, unary, conditional and postfix expressions, and `ReadsBack`
says that each comes out as the tree that was printed.  `EmitBody` is the rule
that a body with an unsupported statement becomes one throw.

### ProjectLifecycle

One project, any number of request threads.  Each action is one system call,
transaction or file write of `create_project`, `analyse_project` or
`open_project`.  Any step can fail (`Fail`, which also stands for a cancelled
extraction), and the process can die (`Crash`).  The source tree does not
change, so a table is either full or empty, and the mark kept is one on a
declaration the project has.  `ImportExisting` says whether clients open
directories by path or only projects they were told of.

### ExternalsData, ExternalsStore and AtomicExternals

`ExternalsData` translates the edits of the store and its text format as a
sequence of lines, one entry to a line; `parse` is a loop that hands each line
to the list of its kind.  `Vectors` has the two loops the edits consist of,
`retain` (`Keep`) and a stable sort (`SortBy`).  In `ExternalsStore` a request
is a list of edits, each read, create, write, rename; names lead to inodes,
`create` truncates the inode the temporary name leads to *whoever else is
writing to it*, and a write puts lines over what is there.  `AtomicExternals` is
what the users of the list think they have: a step applies one edit they may ask for to what is there, or
moves the old tables into a list that was empty.  `EditsAreAtomic` is the
refinement, under the mapping `data <- Parse(content[main])`.

### ExternalSet and ExternalListing

`ExternalSet` is `effective_external_set` with the sources of each entry, over
what was read.  `ExternalListing` reads the three tables and the four lists in
seven steps, between which requests edit the list and analyses replace the
tables.  An edit is one step here because it is for one writer (`EditsAreAtomic`,
proved).  The code promises nothing about a listing that met an edit; stated is
the least a user relies on (`StandingEntriesListed`): a decision that stood from
the beginning of the listing to its end is shown as taken, a declaration that
one entry covered all along is shown as external, and nothing is shown as
external without a reason in some version.  Patterns are opaque: `NameMatches`
and `PathMatches` say what they match.  `MCExternals` runs the file and the
listing in one run; `which` says which of the two a behaviour is about.

### AnalysisPolling

The page's fields (`_isAnalysing`, `_isAnalysed`, the timer it remembers), the
timers that run, polls under way with the answer they carry once the server has
given it, and the server's jobs.  A press, the answer to the start request, a
tick, an answer's arrival and `dispose` are actions.

## 3. Runs

| Run | Module | Shows | Instance |
|---|---|---|---|
| `ExtractionJob` | ExtractionJob | `PoolTypeOK`, `ParsedOnce`, `CountersExact`, `NothingLost`, `StopsWithinOneUnit`, `CancelledOnRequest`; `NoStaleRunning`, `BarsWithinTotals`, `PersistingIsTrue`, `OutcomeMatchesStore`, `PhaseNeverRegresses`, `KeepsContract`, `JobEnds` | 2 units, one broken for each parse, 2 workers, one poller, panics |
| `MCCatalogMerge` | MCCatalogMerge | `DefinitionsWin`, `MembersUnited`, `TypesUnited`, `SameOnEverySchedule`, `DartNamesUnique` | sequences of 4 units from 5 files, 3 workers |
| `MCRecordNamesOrder` | MCCatalogMerge | `RenamesTheSameWay` fails | two nested classes of one name |
| `MCTeardown` | MCCatalogMerge | `TeardownReachesItsCallee` fails | a destructor that calls an overload |
| `MCTranslation` | MCTranslation | `SameMeaning`, `ReadsBack`, `SameAnswer`, `SameContents`, `FormsAreLegal`, `ObjectsAgree` | some 950 programs, 5 kinds of container, every inheritance of 4 classes |
| `MCSuperCalls` | MCMixinForms | `SuperReachesTheNamedBase` fails | the diamond |
| `ProjectListed` | ProjectLifecycle | `KnownIsWhole`, `OpenIsCoherent`, `MarkerIsHonest`, `CreatorsNeverOverlap`, `AnalysisSticks`, `DecisionsSurvive`, `UnitsSurvive` | 3 requests, no import by path |
| `ProjectUnitsLost` | ProjectLifecycle | `UnitsSurvive` fails | 2 requests, import by path |
| `MCExternals` | MCExternals | `DecisionsKept`, `KeysUnique`, `EditsAreAtomic`, `MigrationMovesAll`, `StandingEntriesListed` | 1 writer, crashes, old tables; or 1 listing, 2 catalogs, 2 changes |
| `MCExternalsLost` | MCExternalsStore | `DecisionsKept` fails | 2 clients |
| `AnalysisPolling` | AnalysisPolling | `ButtonComesBack`, `TimersStop`, `SuccessShows` | 2 analyses, 2 polls each, lost requests, a restart |
| `AnalysisTwice` | AnalysisPolling | `OneAnalysis` fails | 3 analyses, 2 polls each |

`MCTranslation` puts three independent parts into one run: each behaviour
examines a container, a program or a module of records, and leaves the other
two alone.

Why the instances are large enough.  Pool and job: two workers can race for a
unit, one can go round while the other stands still, and every pass has a unit
that does not parse; a poll spans the whole life of the pool; the theorems
cover the rest.  Merge: four units and three workers give a unit read in the
first, the last or the middle partial and a header read by two or three of
them; the five files have, between them, a prototype and a definition of
everything that can have both, each rule of the overload names, a class defined
in one unit and only declared in another, and a file that is compiled and
included.  Programs: every pair of fifteen statements over two variables with
small values, and a program per feature of the lowering; `Fuel = 12` is more
iterations and calls than any of them needs.  Containers: two items and three
places are enough for a first, a middle and a last, a duplicate and a missing
one; the texts have a non-ASCII letter, a repeated letter and the empty text.
Forms: four classes give the diamond, the base of a base, and every order of
two bases; with each class in turn unknown to the module, or with written
initialisers. Lifecycle: two requests show every pairwise overlap (create,
analyse, open), three show an open or an analysis across two others.
Externals: a type and one of its methods are two usrs; two clients are all a
lost update takes, and a rule kind, a file and a pattern stand for every other
(`EditedKind` is the kind the file's run edits); `MaxId` bounds the ids of
rules, so that one can come back after its rule was removed.  Listing: an entry
may appear and vanish (two `MaxChanges`) between any of seven reads; the
theorem covers the rest.  Polling: a stale answer of one analysis meets the
timer of the next one, which takes two analyses, and three to have two of them
running; two polls of one job are all that overlap needs.

`CHECK_DEADLOCK FALSE` is set where the system may stop: a job that has ended
and been polled, a merged catalog, a program that ran, records that are
printed, a page after `MaxJobs` analyses, a list after `MaxId` rules, a project
that nobody asks about.

### Fairness

* Pool: weak fairness of the calling thread and of each worker.  The operating
  system schedules runnable threads, and no step waits for another thread
  except the join.  Parsing a unit is assumed to end.
* Job: weak fairness of the task and of a poll that has begun, and strong
  fairness of `finish`.  A poll holds the outcome's lock for nine reads, and
  polls come 300 to 400 ms apart, so the lock is free again and again and the
  blocked `finish` gets it in the end.  Nothing is assumed about new polls or
  requests to cancel.
* Polling: weak fairness of timers, of the server's handling, of the delivery
  of an answer (or of its error) and of a job's end.  Presses, restarts and
  lost requests are never forced.
* The lifecycle, merge, translation and externals modules state safety only.

### What disagrees with the documentation

Six runs show that the code does something other than its documentation
says; `findings` in `PROJECT.json` quotes the lines.

1. The numbers given to records whose names still collide follow the merged
   catalog, not `usr` order, and change with the schedule.  So does which of two
   overloads of an operator stays an operator, when neither takes its class and
   two files define them (`OperatorPrograms` in `MCCatalogMerge`).
2. Overload renames do not visit the bodies of destructors, which are spliced
   into free functions afterwards and then call a name that no longer exists.
3. A qualified base call kept as `super.m()` in a mixin reaches another mixin
   once the mixin is applied in a class that mixes in both arms of a diamond.
4. An analysis started by path during a creation lists no units and writes
   that empty list back over the creation's.
5. Two overlapping edits of `externals.txt` lose one that was acknowledged.
   (With the same two clients `KeysUnique` and `EditsAreAtomic` fail as well:
   the two writes of one temporary file may be renamed into place as a mixture.)
6. A late answer of an overlapping poll lets a second analysis start beside a
   running one.

A property that fails there and passes elsewhere passes where the cause is left
out: `UnitsSurvive` where clients do not name a project by path before they
were told of it, `DecisionsKept` and `KeysUnique` with one client,
`DefinitionsWin` where the prototypes of a function agree on its defaults
(`DefaultsAgree`), `MembersUnited` where no pure virtual method has a body
(`NoPureBodies`).
`OneAnalysis` holds with at most one poll under way and no lost request
(`OneAnalysisAtATime`), and
`ObjectsAgree` says of super calls what holds: those in the text of a class
reach their base.

Five more were met and are not among the runs.

* Of two prototypes of one function the merge keeps the first, and takes a
  default argument over only between a prototype and a definition
  (`function_catalog.rs:407`).  With a prototype without the default merged before
  and the definition merged after the header that has it, the default is lost; in
  another order it is kept.  `tests/lower_cpp.rs:794` asserts that "a
  header-declared default must survive on the lowered definition".  With the
  programs `DefaultPrograms` of `MCCatalogMerge`, `DefinitionsWin` fails.
* The body a `.cpp` file gives a pure virtual method is dropped: each worker lowers
  a method once (`function_catalog.rs:3565`), at the declaration in the class, which
  it reads first, although the comment at line 3449 says that such a method "can
  never gain a separate defining cursor elsewhere" and the doc of `merge_methods`
  that "the one with a body wins".  With `PureBodyPrograms`, `MembersUnited` fails.
* `create_project` persists in four transactions where the doc of `replace_all`
  speaks of one.
* A qualified name made up for one group of records may be the plain name of a
  record outside it (`a::Foo` and `b::Foo` beside `AFoo`).
* A regular expression with a TAB in it is accepted by `add_name_regex`, but its
  line in `externals.txt` has a field too many and is skipped by the next read.

## 4. Proofs

All theorems are of the form `Spec => []Inv` or `Spec => [][A]_vars`, for every
value of the constants that satisfies the modules' `ASSUME`s: any number of
units and workers, any sets of broken units, any set of requests.  Nothing else
is assumed, except where a theorem says so.  `~ImportExisting`: clients name only
projects they were told of; `ProjectUnitsLost` shows why, and `MarkerIsHonest`
and `CreatorsNeverOverlap` are proved for the others as well.  `OneWriter`: one
request at a time edits `externals.txt`; `MCExternalsLost` shows why, and the
migration needs it too, since with two a rename may publish the other's
temporary file before its text is in it.

**ExtractionJob_proofs: the pool.**  `Typed` is the type invariant with the facts that a
worker holds a unit exactly when it is parsing (`HandsMatch`) and that nobody
exists before the spawn.  `ParsedOnce` is not inductive alone: a claim is fresh
only because everything held or parsed lies below the cursor (`BelowCursor`);
together they are `Ownership`.  `StopsWithinOneUnit` needs `LateWorkersStop` (a
worker that claimed after the request stands at or after its parse, and its next
check sees the flag, which never falls) and `Phased`; together `Stopping`.
`CountersExact` equates each counter with the cardinality of the claimed units
not pending before that mark; a mark moves one unit out of the pending ones
(`MarkMoves`), a claim adds one to both sides (`ClaimMoves`), and both rest on
`Ownership`, since two workers with one unit would count it twice.  `Covered`
says that every claimed unit is in some partial or still before its parse; with
all workers gone and the cursor past the end (`AllClaimed`) that is
`NothingLost`.  `PoolInv` is the conjunction of all of these.

**ExtractionJob_proofs: the job.**  Each step of the job is a step of the pool or leaves
it alone (`JobStepIsPoolStep`), so `PoolInv` carries over.  `JobInv` adds where
the task is and what was stored (`TaskInv`), and that a report follows from the
outcome and the flag (`ReportInv`); it gives `NoStaleRunning`,
`OutcomeMatchesStore` and the refinement `KeepsContract`.  `PolledInv` is about
the unlocked reads: totals are written once, before any unit is claimed
(`TotalsFirst`), counters only grow, and what a poll has seen so far is bounded
by what is there now (`SeenSoFar`).  From it follow `BarsWithinTotals` and
`PersistingIsTrue`.  `PhaseNeverRegresses` needs the same across two polls: what
an answered phase said of the pool stays true (`Told`), and whatever the next
poll has read so far was read after that (`ReadSince`), so it cannot find less
(`PhaseInv`).  `JobTyped` is the type invariant, and `PoolHoldsInJob` states
what the pool was proved to do on its own for the pool inside a job, whose flag
may be raised before it is entered and after it returned.

**ProjectLifecycle_proofs.**  A step moves one request between two program
counters and the disk in a way `CreateMoves`, `AnalyseMoves` and `OpenMoves`
list; the invariants are proved from those lemmas.  `HonestInv`: a request past
the replacement has committed catalogs, so the marker is honest.  `CreatorInv`:
whoever is past `create_dir` made the directory.  `ListedInv`, for clients that
only name projects they were told of: a creation at table *k* has written the
tables before it, an analysis that listed units listed all of them, and the
analysis is never empty; from it `KnownIsWhole`, `OpenIsCoherent`, and that no
step undoes an analysis, the units or a decision (`AnalysisStays`, `UnitsStay`,
`MarksStay`).

**Folding.**  The loops of the store and of the merge are folds over vectors of
any length.  `Folding` proves once what a fold does: nothing on the empty vector,
and one more turn of the loop on a vector with one more element (`FoldEmpty`,
`FoldAppend`); and that an invariant of the loop, in which the elements seen so
far may occur, holds of what it builds from all of them (`Invariance`).
Induction over vectors is used with a *set* of vectors in place of a predicate
(`ListInduction`: a set that holds the empty vector and with each vector its
extensions holds them all).  A module instantiates `Folding` with the body of
each of its loops and, where it uses `Invariance`, with that loop's invariant.
The fold is written out there as `FoldLeft` defines it, so that an instance does not
bring the library modules along, which would make every later proof slow; a leaf
unfolds both and compares.
A function defined by recursion is to a proof some function that equals its
body, if there is one.  On 1 .. n there is one whenever the body at v asks only
for values below v (`LooksBelow`, `RecursiveExists`), and then its equation holds
(`RecursiveValue`).

**CatalogMerge_proofs.** `CatalogInv` says that the units taken are shared out
between the workers, that each partial says what the units of its share say
(`Read`), and that the catalog, once there, is the merge of the partials.  It
is what makes the race harmless: `Read` speaks of the *set* of units a worker
read, not of their order or of the others'.  Each way of visiting keeps a part
of `Read` of its own: a declaration is there as a definition as soon as any
unit of the share defines it (`Upserted`), a class has one entry with one form
of every member visited (`United`), a list of types has one entry for each usr
that was defined (`Covers`).  Each way of merging has a lemma that says it
keeps the same when two shares are put together (`DeclsUpserted`,
`FunctionsKept`, `RecordsUnite`, `TypesCovered`), so what was read by somebody
is in the merge of all partials (`MergedAll` and the lemmas before it), and the
passes after it keep what the property asks for.  Four facts about a program
are used.  `OneDefinition` is an assumption of the module.  `DefaultsAgree` (in
`DefinitionsAlwaysWin`) and `NoPureBodies` (in `MembersStayUnited`) leave out
the programs on which the two properties fail, see section 3.  `ClassFirst` (in
`MembersStayUnited`): in a unit a class stands before its members, which is
what the comment at `function_catalog.rs:3553` relies on.  `TypesStayUnited`
needs `OneDefinition` alone.  That the instance of the run has all four is an
`ASSUME` of its modules.  TLC agreed on that instance that `CatalogInv` is
an invariant, before it was proved.

**CatalogSchedule_proofs: the race.**  `SameCatalogsOnEverySchedule` is the theorem about
the race itself: for every program that is `Orderly`, any number of workers and
every schedule, the merged catalogs are the ones that one worker alone would
have built.  `Read` says that nothing a unit tells is lost; `Noted` (the last
part of `CatalogMerge_proofs`) says that nothing else is there, and `ScheduleInv`
puts the two together, for every worker's partial and for `alone`.  So the partials of the workers and the single
one of `alone` are both `Complete`, and it is left to show that two complete
sets of partials finish alike, whatever the order of what is in them
(`SameContent`).  The merged declarations and functions are exactly those of
the program, each once (`DeclsSay`, `DeclaredOnce`, `MergedFacts`), and the
merged classes have the same members (`ClassesAlike`); from there the passes are
followed one by one: the name of every overload, which is decided by the *set*
of the group's declarations and, for the numbers, by their usrs (`SameRenamed`,
`SameNumbered`, `SameNames`), the Dart name of every class (`SameShown`), the
renamed and checked bodies (`SameFinished`), the guards (`SameTeardown`), and the
types, edges, files and pointers (`SameTypes`).

`Orderly` collects what the merge relies on and does not check.  What it takes
for granted of declarations is `Consistent`: a function is declared and defined
alike in all units, and its prototypes agree on their defaults, although a
definition need not repeat them (`DeclaredAlike`); a class has one destructor
(`OneDestructor`), stands before its members (`ClassFirst`) and gives its pure
virtual methods no body (`NoPureBodies`).  For the order of the merge not to show
it takes three facts more: a class shares its name only with classes of other
namespaces (`DistinctClasses`); of the overloads of an operator that take as
many parameters one takes the class (`OneNative`); and a pointer is to one type
and declared in one place, unless it is returned (`PointersAgree`).  That every
program of the run is `Orderly` is part of the `ASSUME` of `MCCatalogMerge`.  The catalogs do differ between schedules for programs that
section 3 names: prototypes that disagree on a default (not `DeclaredAlike`), two
overloads of an operator neither of which takes its class (not `OneNative`), and
two nested classes of one name (not `DistinctClasses`), which
`MCRecordNamesOrder` runs.

**CatalogSchedule_proofs: the names.** `DartNamesAreUnique` says of every
program that is `Consistent`, any number of workers and every schedule, that no
two records print as one class and that a call in any body prints the name of
its own callee and of no other overload. Two things make names differ. What
would share a name is counted: of records with one candidate, and of overloads
with one new name, each has as many before it, in the merged catalog or by usr,
as no other has (`OrdinalsDiffer`, `NumbersTell`), and different numbers have
different numerals; these lemmas are about lists and groups only and stand in
`CatalogMerge_proofs`. Between names that were not counted together it rests on
the program, and that is the hypothesis `NamesApart`: no class bears the
qualified or numbered name of a class of another name (`ClassNamesApart`), and
no overload may be called what another one of its group is called with a
numeral, or what a reserved word is called with an underscore
(`OverloadsApart`). The code checks neither, although the comment at
`function_catalog.rs:1000` has it "always unique"; section 3 has a program
without `ClassNamesApart`. A call meets its callee because both names come from
one table and are looked up by usr (`NameGiven`, `CallReaches`): every body that
was merged is what one cursor of the program says, renamed (`BodySaid`,
`IrSaid`, `MembersSaid`), and what it calls has a declaration (the hypothesis
`CallsDeclared`; without one the name stays as it was read). `DistinctClasses`
is not needed: classes of one name in one namespace get different numbers, only
not always the same ones. That the programs of the run satisfy the hypotheses is
an `ASSUME` of `MCCatalogMerge`. Destructors are not among the bodies, see
finding 2.

**ExternalsStore_proofs: the file.**  First the vectors: what `retain` and the sort do to
the elements, to their number and to the keys they bear (`KeepElements`,
`SortElements` and so on).  Then the data: what is written is read back
(`RoundTrip`: `Parse(Serialize(d)) = d` for every list), each edit keeps a list
a list whose keys are unique and decides what it says (`SetMarkFacts`,
`NextIdIsNew` and so on, together `ApplyFacts`).  Then the store, for one writer
and any crashes: `StoreInv` says that `externals.txt` and its temporary name
never lead to one inode and that what is in the file is the text of a list
(`FileInv`); that the file holds nothing but the old tables while they are still
in `project.db` (`LegacyInv`); that the decisions acknowledged are those in the
file (`DecidedInv`); and that a request in the middle of an edit has in its hand
the edit applied to what is *still* in the file, and in the temporary file
nothing or the whole of it, according to where it stands (`TodoInv`,
`DraftInv`).  Every action keeps it, a crash because it only forgets the hand;
`OneEntryPerKey`, `DecisionsStay` and `NothingLeftBehind` follow.  For
`OneEditAtATime` only a rename changes the list, and by `DraftInv` it changes it
by one edit of what it was.

**ExternalsStore_proofs: the listing.**  Each of the seven reads finds its part of some
version since the listing began (`ReadInVersion`).  So an entry that all the
versions have is in the list that was read, a row that all the catalogs have is
in the table that was read, and the formula of the effective set does the rest.
The theorem assumes that the kinds of rules are the two there are.

**MixinForms_proofs.**  `Shape` is the type invariant with what a base list
keeps through the rewriting.  `Decision`: the decided set lies in every set that
holds the seeds and is closed under bases, and with the worklist empty it is
such a set itself, so it is the least one; `ApplyForms` leaves every record's
edges as they were (`Rewritten`), so the second decision is the first
(`OneDecision`).  `Walking` is about the middle of a depth-first walk: every base
pushed has its own bases before it, what was visited and not yet pushed is on
the path, and along the path bases get smaller (`Descending`), so a base that was
seen but not pushed cannot be a base of the record on top.  From it `MixinsApply`
and with it `FormsAreLegal`.

Then `SuperCalls`, on the same records.  Its recursive functions (the chain of
base classes, the line of an object, what can be copied and what a copy copies,
the ancestors) ask about bases, which are smaller, so each has its equation.
`SuperInv` adds to the invariant what the proof of `ObjectsAgree` needs:
a record that extends a class has no mixins left (`Composed`), and a walk pushes
nothing that the bases it started from do not need (`Reaching`, `Needed`).  So
the line of a printed class holds its ancestors and nothing else
(`LineIsAncestors`), each once and above its own bases (`LineFacts`).  Where C++
has one final overrider the others are below it in the line, so the last in the
line is that one (`LastIsTheOverrider`); the walk of `super_target` follows the
line up (`ChainFollowsLine`, `SupersReached`); and what is copied covers the line
(`CopiesWhole`).  The strengthened invariant was model-checked on four records
before it was proved.

**AnalysisPolling_proofs.** Answers are true: the end a poll reports is the
job's end whenever the answer is handled, and an error is remembered
(`Truthful`); only jobs the server has heard of are polled (`Known`). From these
`SuccessNotDropped`, the safety half of `SuccessShows`, and `ButtonHeld`, that
of `ButtonComesBack`, for every interleaving. `OneAnalysisAtATime` is about
`OneAnalysis`, which fails: it says that it fails for no other reason than the
two its hypotheses name, overlapping polls (`MaxPolls = 1`) and lost requests
(`~Lossy`). Then all that goes on about a mounted page concerns the last job,
and the button is held while any of it does (`Calm`), so the answer that
releases it is the last (`ReleaseIsLast`), and what runs is the last job
(`OnlyLatest`).

Only model-checked: liveness (`JobEnds`, `ButtonComesBack`, `TimersStop`,
`SuccessShows`), which is out of the prover's reach; the translation modules,
which are recursive over programs (`IR`, `CppLowering`, `OutParams`,
`StdlibBridge`, `CppProgram`, `DartRun`, `DartText`, `Programs`, `Containers`: no
theorem about a RECURSIVE operator is within the prover's reach).

## 5. What is abstracted or left out

* Relaxed atomics are modelled as sequentially consistent, one access per step.
  Each counter is written by read-modify-writes only, which are totally ordered
  per variable under any memory ordering; an order *between* two variables as a
  poll sees them is an assumption here and holds on x86.  The join orders
  everything the caller reads at the end.
* What libclang returns is abstracted to the unit or to a few cursors.
* A crash kills the process, not the machine: a committed transaction and a
  finished write survive it.  (`synchronous = NORMAL` may lose the last
  transaction on a power cut.)
* Job registries hold one job; ids that start again at `job-1` after a restart
  are listed as a hazard.
* Lines of `externals.txt` are taken to be equally long; texts of different
  lengths mix at line boundaries only.
* Namespaces, file paths and regular expressions are what their match relations
  say.
* Integers of the translated programs do not overflow; doubles are quarters.
* Not modelled: templates and their instantiation at call sites, macros,
  functions of system headers, streams, regular expressions, C library calls,
  enums and initialiser lists of constructors in the lowering; layout, imports,
  mocks and library files in the emission; options of the mapping that are only
  shown; column migrations; the listings other than that of the externals;
  transpile and validate over one directory; the CLI and the remaining pages.
  `PROJECT.json` (`components`) gives the reason for each.

### Where the translation is known to differ

`SameMeaning`, `SameAnswer` and `SameContents` hold of the programs of the run.
Reading the code for the models turned up forms that these programs avoid,
because the Dart does not do there what the C++ does and no document says it
would.  They are kept here so that nobody takes the runs to cover them.

* Out-parameters: the target expression is evaluated twice; what was assigned
  before an exception is lost; `f(x, x)` does not alias; calls in the condition
  of a `while` and in the initialiser of a variable are not recognised.
* Values and references: lambdas that capture by value see later changes; a
  range-for by value over records, and a copied vector of records, share the
  records; assignment through a reference to a record rebinds it; a compound
  assignment evaluates its receiver twice; a range-for by reference writes back
  late.
* Scopes: a bare block is flattened into the surrounding one, so a redeclared
  name hides the outer one for the rest of a loop's body, and two swaps in one
  block declare one temporary twice.
* Numbers: unsigned and narrow arithmetic does not wrap, and Dart's `%` is never
  negative; `1.0` prints as `1`.
* Containers: `std::map` and `set` are traversed in insertion order; a loop from
  `rbegin` runs forward; `substr` and `compare` clamp where C++ throws; `front`,
  `back` and `substr` of a string count UTF-16 units; `List.empty()` is of fixed
  length; `*it = v` in a guard is lost; a list cursor has no `operator ==`.
* Control: a `default` in the middle of a `switch`; a nested conditional printed
  as a condition without parentheses.
* Mixins: constructions in initialisers and default arguments are not rewritten; a
  mixin with written initialisers falls back to a class but is still named in
  `with` clauses; a copy does not copy a mixin's library base; two unrelated bases
  that declare one virtual dispatch to the last.
* Overloads: a suffixed name may be the plain name of a function outside the
  group; a derived class that overrides one of two overloaded virtuals keeps the
  bare name while the base's are renamed.
* Guards: only the first local with a destructor is guarded.
* Types: a unit that only sees a forward declaration contributes a second edge,
  to where that declaration stands.

## 6. Plan

Done: the pool and the job around it, the four catalogs with their merge and its
passes, the translation of function bodies and of containers, mixin forms, the
lifecycle, the externals store and the listing, analysis polling, and the
proofs above.

Next, in this order:

1. `CppLowering`: enums, constructors with initialiser lists, methods and
   templates; `StdlibBridge`: streams and regular expressions.
2. `CreationPolling`: the creation page, and a registry with several clients
   across a restart.
3. `TranspileDir`: transpile and validate over one directory.
4. The feasible options of the mapping rules as bounded checks.
