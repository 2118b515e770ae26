--------------------------- MODULE ExtractionPool ---------------------------
(***************************************************************************)
(* The worker pool of crates/server/src/extraction.rs.  The calling thread *)
(* publishes the total to four progress trackers, spawns                   *)
(* min(parallelism, total) workers that pull compilation units from one    *)
(* shared cursor, joins them, looks at the cancellation flag once more and *)
(* merges their partial catalogs.  Each unit is parsed twice: group A      *)
(* feeds the type and source catalogs, group B the function and pointer    *)
(* catalogs; after each group two trackers advance by one.                 *)
(*                                                                         *)
(* The flag and the counters are Relaxed atomics; they are modelled as     *)
(* sequentially consistent, one access per step.  What a parse yields is   *)
(* abstracted to the unit it came from.                                    *)
(***************************************************************************)
EXTENDS Integers, FiniteSets

CONSTANTS
  N,            \* number of compilation units
  Parallelism,  \* std::thread::available_parallelism()
  BrokenA,      \* units libclang cannot parse with bodies skipped
  BrokenB,      \* units libclang cannot parse with bodies
  MayPanic      \* whether a worker thread may panic

ASSUME PoolAssumption ==
  /\ N \in Nat
  /\ Parallelism \in Nat \ {0}
  /\ BrokenA \subseteq 0 .. N - 1
  /\ BrokenB \subseteq 0 .. N - 1
  /\ MayPanic \in BOOLEAN

Unit == 0 .. N - 1
WorkerCount == IF Parallelism < N THEN Parallelism ELSE N
Worker == 0 .. WorkerCount - 1
NoUnit == -1

\* The four trackers, in the order the calling thread and each worker touch them.
Pass == {"type", "source", "function", "pointer"}
PassAt == <<"type", "source", "function", "pointer">>

VARIABLES
  total,      \* ExtractionProgress.total of each tracker
  completed,  \* ExtractionProgress.completed of each tracker
  cancelled,  \* the Cancellation flag
  nextIndex,  \* the shared cursor
  caller,     \* where the calling thread is
  totalsSet,  \* how many trackers have been given their total
  wpc,        \* where each worker is
  hand,       \* the unit each worker holds
  partialA,   \* units whose types and headers are in a worker's partial
  partialB,   \* units whose function/pointer results are in a worker's partial
  merged,     \* units that contributed to the catalogs handed back
  lateClaims  \* history: claims made after cancellation was requested

poolVars == <<total, completed, cancelled, nextIndex, caller, totalsSet, wpc,
              hand, partialA, partialB, merged, lateClaims>>

CallerState == {"idle", "totals", "joining", "final", "ok", "cancelled", "failed", "panicked"}
WorkerState == {"unborn", "start", "check", "claim", "parseA", "markSource", "parseB",
                "markPointer", "exited", "panicked"}

PoolTypeOK ==
  /\ total \in [Pass -> Nat]
  /\ completed \in [Pass -> Nat]
  /\ cancelled \in BOOLEAN
  /\ nextIndex \in Nat
  /\ caller \in CallerState
  /\ totalsSet \in 0 .. 4
  /\ wpc \in [Worker -> WorkerState]
  /\ hand \in [Worker -> Unit \cup {NoUnit}]
  /\ partialA \in [Worker -> SUBSET Unit]
  /\ partialB \in [Worker -> SUBSET Unit]
  /\ merged \in [a : SUBSET Unit, b : SUBSET Unit]
  /\ lateClaims \subseteq Worker \X Unit

PoolInit ==
  /\ total = [p \in Pass |-> 0]
  /\ completed = [p \in Pass |-> 0]
  /\ cancelled = FALSE
  /\ nextIndex = 0
  /\ caller = "idle"
  /\ totalsSet = 0
  /\ wpc = [w \in Worker |-> "unborn"]
  /\ hand = [w \in Worker |-> NoUnit]
  /\ partialA = [w \in Worker |-> {}]
  /\ partialB = [w \in Worker |-> {}]
  /\ merged = [a |-> {}, b |-> {}]
  /\ lateClaims = {}

-----------------------------------------------------------------------------
(* Somebody holding the job's handle asks it to stop (Cancellation::cancel). *)
RequestCancel ==
  /\ cancelled' = TRUE
  /\ UNCHANGED <<total, completed, nextIndex, caller, totalsSet, wpc, hand,
                 partialA, partialB, merged, lateClaims>>

(* load_libclang on the calling thread, the function's only early error. *)
Enter ==
  /\ caller = "idle"
  /\ caller' \in {"totals", "failed"}
  /\ UNCHANGED <<total, completed, cancelled, nextIndex, totalsSet, wpc, hand,
                 partialA, partialB, merged, lateClaims>>

(* One store per tracker, then the workers are spawned (none without units). *)
SetTotal ==
  /\ caller = "totals"
  /\ totalsSet < 4
  /\ total' = [total EXCEPT ![PassAt[totalsSet + 1]] = N]
  /\ totalsSet' = totalsSet + 1
  /\ UNCHANGED <<completed, cancelled, nextIndex, caller, wpc, hand, partialA,
                 partialB, merged, lateClaims>>

Spawn ==
  /\ caller = "totals"
  /\ totalsSet = 4
  /\ caller' = "joining"
  /\ wpc' = [w \in Worker |-> "start"]
  /\ UNCHANGED <<total, completed, cancelled, nextIndex, totalsSet, hand,
                 partialA, partialB, merged, lateClaims>>

\* Slip: a cancelled pool is left without waiting for its workers.
JoinUnlessCancelled ==
  /\ caller = "joining"
  /\ cancelled \/ \A w \in Worker : wpc[w] \in {"exited", "panicked"}
  /\ caller' = IF \E w \in Worker : wpc[w] = "panicked" THEN "panicked" ELSE "final"
  /\ UNCHANGED <<total, completed, cancelled, nextIndex, totalsSet, wpc, hand,
                 partialA, partialB, merged, lateClaims>>

(* handle.join().expect(...): a worker's panic becomes the caller's. *)
Join ==
  /\ caller = "joining"
  /\ \A w \in Worker : wpc[w] \in {"exited", "panicked"}
  /\ caller' = IF \E w \in Worker : wpc[w] = "panicked" THEN "panicked" ELSE "final"
  /\ UNCHANGED <<total, completed, cancelled, nextIndex, totalsSet, wpc, hand,
                 partialA, partialB, merged, lateClaims>>

\* Slip: the catalogs are merged without the last look at the flag.
ConcludeRegardless ==
  /\ caller = "final"
  /\ caller' = "ok"
  /\ merged' = [a |-> UNION {partialA[w] : w \in Worker},
                b |-> UNION {partialB[w] : w \in Worker}]
  /\ UNCHANGED <<total, completed, cancelled, nextIndex, totalsSet, wpc, hand,
                 partialA, partialB, lateClaims>>

(* The last look at the flag, then the merge of every worker's partial. *)
Conclude ==
  /\ caller = "final"
  /\ IF cancelled
       THEN /\ caller' = "cancelled"
            /\ UNCHANGED merged
       ELSE /\ caller' = "ok"
            /\ merged' = [a |-> UNION {partialA[w] : w \in Worker},
                          b |-> UNION {partialB[w] : w \in Worker}]
  /\ UNCHANGED <<total, completed, cancelled, nextIndex, totalsSet, wpc, hand,
                 partialA, partialB, lateClaims>>

-----------------------------------------------------------------------------
(* The steps of one worker: parse_units. *)

(* The per-thread libclang load, whose failure is "not expected" and panics. *)
LoadLibclang(w) ==
  /\ wpc[w] = "start"
  /\ \E next \in {"check"} \cup (IF MayPanic THEN {"panicked"} ELSE {}) :
       wpc' = [wpc EXCEPT ![w] = next]
  /\ UNCHANGED <<total, completed, cancelled, nextIndex, caller, totalsSet,
                 hand, partialA, partialB, merged, lateClaims>>

CheckCancelled(w) ==
  /\ wpc[w] = "check"
  /\ wpc' = [wpc EXCEPT ![w] = IF cancelled THEN "exited" ELSE "claim"]
  /\ UNCHANGED <<total, completed, cancelled, nextIndex, caller, totalsSet,
                 hand, partialA, partialB, merged, lateClaims>>

\* Slip: the bound is off by one.
ClaimPastEnd(w) ==
  /\ wpc[w] = "claim"
  /\ nextIndex' = nextIndex + 1
  /\ IF nextIndex <= N
       THEN /\ wpc' = [wpc EXCEPT ![w] = "parseA"]
            /\ hand' = [hand EXCEPT ![w] = nextIndex]
            /\ lateClaims' = IF cancelled THEN lateClaims \cup {<<w, nextIndex>>}
                                          ELSE lateClaims
       ELSE /\ wpc' = [wpc EXCEPT ![w] = "exited"]
            /\ UNCHANGED <<hand, lateClaims>>
  /\ UNCHANGED total
  /\ UNCHANGED <<completed, cancelled, caller, totalsSet, partialA, partialB, merged>>

\* Slip: load and store instead of fetch_add, so an increment can get lost.
ClaimLostUpdate(w) ==
  /\ wpc[w] = "claim"
  /\ nextIndex' \in {nextIndex, nextIndex + 1}
  /\ IF nextIndex < N
       THEN /\ wpc' = [wpc EXCEPT ![w] = "parseA"]
            /\ hand' = [hand EXCEPT ![w] = nextIndex]
            /\ lateClaims' = IF cancelled THEN lateClaims \cup {<<w, nextIndex>>}
                                          ELSE lateClaims
       ELSE /\ wpc' = [wpc EXCEPT ![w] = "exited"]
            /\ UNCHANGED <<hand, lateClaims>>
  /\ UNCHANGED total
  /\ UNCHANGED <<completed, cancelled, caller, totalsSet, partialA, partialB, merged>>

\* Slip: the totals follow the claims instead of being known beforehand.
ClaimSetsTotals(w) ==
  /\ wpc[w] = "claim"
  /\ nextIndex' = nextIndex + 1
  /\ IF nextIndex < N
       THEN /\ wpc' = [wpc EXCEPT ![w] = "parseA"]
            /\ hand' = [hand EXCEPT ![w] = nextIndex]
            /\ lateClaims' = IF cancelled THEN lateClaims \cup {<<w, nextIndex>>}
                                          ELSE lateClaims
       ELSE /\ wpc' = [wpc EXCEPT ![w] = "exited"]
            /\ UNCHANGED <<hand, lateClaims>>
  /\ total' = [p \in Pass |-> IF nextIndex < N THEN nextIndex + 1 ELSE total[p]]
  /\ UNCHANGED <<completed, cancelled, caller, totalsSet, partialA, partialB, merged>>

(* next_index.fetch_add(1); the cursor moves even when nothing is left. *)
ClaimUnit(w) ==
  /\ wpc[w] = "claim"
  /\ nextIndex' = nextIndex + 1
  /\ IF nextIndex < N
       THEN /\ wpc' = [wpc EXCEPT ![w] = "parseA"]
            /\ hand' = [hand EXCEPT ![w] = nextIndex]
            /\ lateClaims' = IF cancelled THEN lateClaims \cup {<<w, nextIndex>>}
                                          ELSE lateClaims
       ELSE /\ wpc' = [wpc EXCEPT ![w] = "exited"]
            /\ UNCHANGED <<hand, lateClaims>>
  /\ UNCHANGED <<total, completed, cancelled, caller, totalsSet, partialA,
                 partialB, merged>>

\* Slip: only a unit that parses counts as done.
ParseACountsSuccess(w) ==
  /\ wpc[w] = "parseA"
  /\ partialA' = [partialA EXCEPT ![w] = @ \cup ({hand[w]} \ BrokenA)]
  /\ completed' = [completed EXCEPT !["type"] = IF hand[w] \in BrokenA THEN @ ELSE @ + 1]
  /\ wpc' = [wpc EXCEPT ![w] = "markSource"]
  /\ UNCHANGED <<total, cancelled, nextIndex, caller, totalsSet, hand, partialB,
                 merged, lateClaims>>

(* A unit libclang cannot parse yields no declarations and no headers (its *)
(* own path is listed all the same), yet counts as done.                   *)
ParseA(w) ==
  /\ wpc[w] = "parseA"
  /\ partialA' = [partialA EXCEPT ![w] = @ \cup ({hand[w]} \ BrokenA)]
  /\ completed' = [completed EXCEPT !["type"] = @ + 1]
  /\ wpc' = [wpc EXCEPT ![w] = "markSource"]
  /\ UNCHANGED <<total, cancelled, nextIndex, caller, totalsSet, hand, partialB,
                 merged, lateClaims>>

MarkSource(w) ==
  /\ wpc[w] = "markSource"
  /\ completed' = [completed EXCEPT !["source"] = @ + 1]
  /\ wpc' = [wpc EXCEPT ![w] = "parseB"]
  /\ UNCHANGED <<total, cancelled, nextIndex, caller, totalsSet, hand, partialA,
                 partialB, merged, lateClaims>>

ParseB(w) ==
  /\ wpc[w] = "parseB"
  /\ partialB' = [partialB EXCEPT ![w] = @ \cup ({hand[w]} \ BrokenB)]
  /\ completed' = [completed EXCEPT !["function"] = @ + 1]
  /\ wpc' = [wpc EXCEPT ![w] = "markPointer"]
  /\ UNCHANGED <<total, cancelled, nextIndex, caller, totalsSet, hand, partialA,
                 merged, lateClaims>>

\* Slip: the flag is looked at once, before the loop.
MarkPointerNoCheck(w) ==
  /\ wpc[w] = "markPointer"
  /\ completed' = [completed EXCEPT !["pointer"] = @ + 1]
  /\ hand' = [hand EXCEPT ![w] = NoUnit]
  /\ wpc' = [wpc EXCEPT ![w] = "claim"]
  /\ UNCHANGED <<total, cancelled, nextIndex, caller, totalsSet, partialA,
                 partialB, merged, lateClaims>>

MarkPointer(w) ==
  /\ wpc[w] = "markPointer"
  /\ completed' = [completed EXCEPT !["pointer"] = @ + 1]
  /\ hand' = [hand EXCEPT ![w] = NoUnit]
  /\ wpc' = [wpc EXCEPT ![w] = "check"]
  /\ UNCHANGED <<total, cancelled, nextIndex, caller, totalsSet, partialA,
                 partialB, merged, lateClaims>>

WorkerStep(w) ==
  \/ LoadLibclang(w)
  \/ CheckCancelled(w)
  \/ ClaimUnit(w)
  \/ ParseA(w)
  \/ MarkSource(w)
  \/ ParseB(w)
  \/ MarkPointer(w)

CallerStep == Enter \/ SetTotal \/ Spawn \/ Join \/ Conclude

PoolNext ==
  \/ CallerStep
  \/ RequestCancel
  \/ \E w \in Worker : WorkerStep(w)

PoolFairness ==
  /\ WF_poolVars(CallerStep)
  /\ \A w \in Worker : WF_poolVars(WorkerStep(w))

PoolSpec == PoolInit /\ [][PoolNext]_poolVars /\ PoolFairness

-----------------------------------------------------------------------------
(* Which units have been through a tracker's mark_one_done, from where the *)
(* workers stand; the counters themselves only hold numbers.               *)

Before(p) ==
  CASE p = "type" -> {"parseA"}
    [] p = "source" -> {"parseA", "markSource"}
    [] p = "function" -> {"parseA", "markSource", "parseB"}
    [] p = "pointer" -> {"parseA", "markSource", "parseB", "markPointer"}

Claimed == {u \in Unit : u < nextIndex}
Pending(p) == {hand[w] : w \in {x \in Worker : wpc[x] \in Before(p)}}

(* No compilation unit is ever parsed by two workers: not at the same time *)
(* and not one after the other, whatever the interleaving of the cursor's  *)
(* fetch_add with the parses.                                              *)
ParsedOnce ==
  \A v, w \in Worker : v # w =>
    /\ partialA[v] \cap partialA[w] = {}
    /\ partialB[v] \cap partialB[w] = {}
    /\ hand[v] # NoUnit => hand[v] \notin {hand[w]} \cup partialA[w] \cup partialB[w]

(* Each tracker counts exactly the claimed units no worker still has in    *)
(* front of that tracker's mark, so a progress bar can neither overrun its *)
(* total nor stop short of it once the pool is done.                       *)
CountersExact ==
  \A p \in Pass : completed[p] = Cardinality(Claimed \ Pending(p))

(* The pool hands back catalogs only if every unit was read by both groups *)
(* (save those libclang cannot parse) and all four bars are full: a unit   *)
(* skipped by a cancelled worker never goes missing from a success.        *)
NothingLost ==
  caller = "ok" =>
    /\ merged.a = Unit \ BrokenA
    /\ merged.b = Unit \ BrokenB
    /\ \A p \in Pass : completed[p] = N /\ total[p] = N

(* "A unit already being parsed always finishes before the check is seen": *)
(* a request to stop costs each worker at most one more unit.              *)
StopsWithinOneUnit ==
  \A c, d \in lateClaims : c[1] = d[1] => c = d

(* Cancelled is reported only on request, and then no worker is left       *)
(* running behind the caller's back.                                       *)
CancelledOnRequest ==
  caller = "cancelled" => cancelled /\ \A w \in Worker : wpc[w] = "exited"
=============================================================================
