--------------------------- MODULE ExtractionJob ----------------------------
(***************************************************************************)
(* A job around the worker pool: the spawn_blocking task of server.rs runs *)
(* the service call (prepare, extract, persist) and hands its outcome to   *)
(* Job::finish; the poll handler takes the outcome lock and, while there   *)
(* is no outcome, reads eight counters one by one and then the flag.       *)
(* Creation jobs (POST /projects) and analysis jobs (POST                  *)
(* /projects/analyse) share this shape.                                    *)
(***************************************************************************)
EXTENDS ExtractionPool

VARIABLES
  task,      \* where the background task is
  persisted, \* whether the catalogs reached the project store
  outcome,   \* Job.outcome
  reading,   \* next read of the poll in progress; 0 when no poll runs
  seen,      \* the counters this poll has read so far
  asked,     \* history: cancellation was requested before this poll began
  report     \* the last response sent

jobVars == <<task, persisted, outcome, reading, seen, asked, report>>
vars == <<poolVars, jobVars>>

TaskState == {"prepare", "extract", "persist", "succeeded", "failed", "cancelled", "gone"}
Outcome == {"none", "succeeded", "failed", "cancelled"}
Blank == [p \in Pass |-> [done |-> 0, of |-> 0]]
Responding == 9

TypeOK ==
  /\ PoolTypeOK
  /\ task \in TaskState
  /\ persisted \in BOOLEAN
  /\ outcome \in Outcome
  /\ reading \in 0 .. Responding
  /\ seen \in [Pass -> [done : Nat, of : Nat]]
  /\ asked \in BOOLEAN
  /\ report \in [status : {"running", "cancelling"} \cup Outcome,
                 phase : 0 .. 6, asked : BOOLEAN]

Init ==
  /\ PoolInit
  /\ task = "prepare"
  /\ persisted = FALSE
  /\ outcome = "none"
  /\ reading = 0
  /\ seen = Blank
  /\ asked = FALSE
  /\ report = [status |-> "none", phase |-> 0, asked |-> FALSE]

-----------------------------------------------------------------------------
(* derive_phase, as a rank: ingesting 0, cataloging types 1, discovering   *)
(* source files 2, cataloging functions 3, cataloging pointers 4,          *)
(* persisting 5.  Terminal responses carry no phase; they rank 6.          *)
Underway(s, p) == s[p].of = 0 \/ s[p].done < s[p].of

\* Slip: the fourth pair of counters is forgotten.
PhaseWithoutPointers(s) ==
  CASE s["type"].of = 0 -> 0
    [] s["type"].of # 0 /\ Underway(s, "type") -> 1
    [] ~Underway(s, "type") /\ Underway(s, "source") -> 2
    [] ~Underway(s, "type") /\ ~Underway(s, "source") /\ Underway(s, "function") -> 3
    [] OTHER -> 5

Phase(s) ==
  CASE s["type"].of = 0 -> 0
    [] s["type"].of # 0 /\ Underway(s, "type") -> 1
    [] ~Underway(s, "type") /\ Underway(s, "source") -> 2
    [] ~Underway(s, "type") /\ ~Underway(s, "source") /\ Underway(s, "function") -> 3
    [] ~Underway(s, "type") /\ ~Underway(s, "source") /\ ~Underway(s, "function")
         /\ Underway(s, "pointer") -> 4
    [] OTHER -> 5

-----------------------------------------------------------------------------
(* The background task. *)

(* Everything before the extraction: the ingest of create_project, the     *)
(* checks and the listing of units of analyse_project.                     *)
Prepare ==
  /\ task = "prepare"
  /\ task' \in {"extract", "failed"}
  /\ UNCHANGED <<poolVars, persisted, outcome, reading, seen, asked, report>>

\* Slip: every error of the extraction is taken for a cancellation.
ExtractedErrorsCancel ==
  /\ task = "extract"
  /\ task' = CASE caller = "ok" -> "persist"
               [] caller \in {"cancelled", "failed"} -> "cancelled"
               [] caller = "panicked" -> "gone"
               [] OTHER -> task
  /\ task' # task
  /\ UNCHANGED <<poolVars, persisted, outcome, reading, seen, asked, report>>

(* extract_project_catalogs_cancellable returns, or unwinds: a panic ends  *)
(* the task without anybody calling finish.                                *)
Extracted ==
  /\ task = "extract"
  /\ task' = CASE caller = "ok" -> "persist"
               [] caller = "cancelled" -> "cancelled"
               [] caller = "failed" -> "failed"
               [] caller = "panicked" -> "gone"
               [] OTHER -> task
  /\ task' # task
  /\ UNCHANGED <<poolVars, persisted, outcome, reading, seen, asked, report>>

\* Slip: the flag is looked at once more, after the writes.
PersistThenCancel ==
  /\ task = "persist"
  /\ \/ task' = (IF cancelled THEN "cancelled" ELSE "succeeded") /\ persisted' = TRUE
     \/ task' = "failed" /\ UNCHANGED persisted
  /\ UNCHANGED <<poolVars, outcome, reading, seen, asked, report>>

(* The writes to the project store; the flag is not looked at any more. *)
Persist ==
  /\ task = "persist"
  /\ \/ task' = "succeeded" /\ persisted' = TRUE
     \/ task' = "failed" /\ UNCHANGED persisted
  /\ UNCHANGED <<poolVars, outcome, reading, seen, asked, report>>

\* Slip: a cancelled job returns early, before finish.
FinishUnlessCancelled ==
  /\ task \in {"succeeded", "failed"}
  /\ reading = 0
  /\ outcome' = task
  /\ task' = "gone"
  /\ UNCHANGED <<poolVars, persisted, reading, seen, asked, report>>

(* Job::finish; it waits for a poll that holds the outcome lock. *)
Finish ==
  /\ task \in {"succeeded", "failed", "cancelled"}
  /\ reading = 0
  /\ outcome' = task
  /\ task' = "gone"
  /\ UNCHANGED <<poolVars, persisted, reading, seen, asked, report>>

-----------------------------------------------------------------------------
(* The poll handler: with_outcome holds the lock from Lock to Respond. *)

Lock ==
  /\ reading = 0
  /\ \/ /\ outcome = "none"
        /\ reading' = 1
        /\ asked' = cancelled
        /\ UNCHANGED report
     \/ /\ outcome # "none"
        /\ report' = [status |-> outcome, phase |-> 6, asked |-> cancelled]
        /\ UNCHANGED <<reading, asked>>
  /\ UNCHANGED <<poolVars, task, persisted, outcome, seen>>

\* Slip: each total is read before its completed.
ReadTotalFirst ==
  /\ reading \in 1 .. 8
  /\ LET p == PassAt[(reading + 1) \div 2]
     IN seen' = IF reading % 2 = 0 THEN [seen EXCEPT ![p].done = completed[p]]
                                   ELSE [seen EXCEPT ![p].of = total[p]]
  /\ reading' = reading + 1
  /\ UNCHANGED <<poolVars, task, persisted, outcome, asked, report>>

(* Counter 2k-1 is tracker k's completed, counter 2k its total. *)
ReadCounter ==
  /\ reading \in 1 .. 8
  /\ LET p == PassAt[(reading + 1) \div 2]
     IN seen' = IF reading % 2 = 1 THEN [seen EXCEPT ![p].done = completed[p]]
                                   ELSE [seen EXCEPT ![p].of = total[p]]
  /\ reading' = reading + 1
  /\ UNCHANGED <<poolVars, task, persisted, outcome, asked, report>>

\* Slip: the flag is not looked at, as before "cancelling" existed.
RespondRunning ==
  /\ reading = Responding
  /\ report' = [status |-> "running", phase |-> Phase(seen), asked |-> asked]
  /\ reading' = 0
  /\ seen' = Blank
  /\ asked' = FALSE
  /\ UNCHANGED <<poolVars, task, persisted, outcome>>

Respond ==
  /\ reading = Responding
  /\ report' = [status |-> IF cancelled THEN "cancelling" ELSE "running",
                phase |-> Phase(seen), asked |-> asked]
  /\ reading' = 0
  /\ seen' = Blank
  /\ asked' = FALSE
  /\ UNCHANGED <<poolVars, task, persisted, outcome>>

-----------------------------------------------------------------------------
(* The pool runs only while the task is inside the extraction call; the    *)
(* flag can be raised at any time, also before and after.                  *)
PoolStep ==
  /\ task = "extract"
  /\ CallerStep \/ \E w \in Worker : WorkerStep(w)
  /\ UNCHANGED jobVars

Cancel == RequestCancel /\ UNCHANGED jobVars

TaskStep == Prepare \/ Extracted \/ Persist
PollStep == ReadCounter \/ Respond

Next == PoolStep \/ Cancel \/ TaskStep \/ Finish \/ Lock \/ PollStep

(* The operating system runs every thread; nobody has to poll or cancel.   *)
(* Finish needs strong fairness: the lock is free again and again between  *)
(* polls (the clients wait 300-400 ms), but it is not free continuously.   *)
Fairness ==
  /\ WF_vars(TaskStep)
  /\ WF_vars(PollStep)
  /\ SF_vars(Finish)
  /\ WF_vars(task = "extract" /\ CallerStep /\ UNCHANGED jobVars)
  /\ \A w \in Worker : WF_vars(task = "extract" /\ WorkerStep(w) /\ UNCHANGED jobVars)

Spec == Init /\ [][Next]_vars /\ Fairness

-----------------------------------------------------------------------------
(* What an atomic poll would answer. *)
StatusNow ==
  IF outcome # "none" THEN outcome
  ELSE IF cancelled THEN "cancelling" ELSE "running"

Contract == INSTANCE JobContract WITH status <- StatusNow

(* The job keeps the contract's safety part (the terminal part is JobEnds). *)
KeepsContract == Contract!ContractSafety

(* server.rs: "a poller never sees a stale running after asking to         *)
(* cancel", although the flag is the last of nine unlocked reads.          *)
NoStaleRunning == report.asked => report.status # "running"

(* A progress bar never shows more units done than it has in all: the      *)
(* handler reads completed before total, and a total is stored before any  *)
(* worker can mark a unit.                                                 *)
BarsWithinTotals ==
  reading = Responding => \A p \in Pass : seen[p].done <= seen[p].of

(* Successive polls never report an earlier phase, although each is        *)
(* derived from counters read at eight different moments.                  *)
PhaseNeverRegresses == [][report'.phase >= report.phase]_report

(* "persisting" is only reported when every unit is through both parses.   *)
PersistingIsTrue ==
  report.phase = 5 => \A p \in Pass : completed[p] = N

(* What the poller is told at the end agrees with the store: a success     *)
(* was persisted, a cancelled job wrote no catalog.                        *)
OutcomeMatchesStore ==
  /\ report.status = "succeeded" => persisted
  /\ report.status = "cancelled" => ~persisted /\ cancelled

(* A job ends unless its task panicked. *)
JobEnds == <>(outcome # "none" \/ caller = "panicked")
=============================================================================
